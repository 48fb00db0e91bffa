-------------------------- MODULE ReleaseJobsProofs --------------------------
(***************************************************************************)
(* Proofs about ReleaseJobs, for any number of deployments, attempts and   *)
(* faults and whether or not a stop may fail.  What is said of one attempt *)
(* and of the traffic holds even if a job may be settled behind the back   *)
(* of a runner; what relates two deployments, or a verdict to a container, *)
(* is proved where that does not happen (~SettleRaces).                    *)
(***************************************************************************)
EXTENDS ReleaseJobs, TLAPS

USE ReleaseAssumption

(***************************************************************************)
(* The invariant, seen from a step that starts no command: what the step   *)
(* does to the records, the containers and one runner.                     *)
(***************************************************************************)

RecordMove(j) ==
    \/ /\ rec'[j].attempt = rec[j].attempt
       /\ rec'[j].status = "running" =>
            /\ rec[j].status = "running"
            /\ rec'[j].by = "current" => rec[j].by = "current"
       /\ rec'[j].status = "pending" => rec'[j].attempt < MaxAttempt
    \/ /\ rec[j].status = "pending" /\ rec'[j].status = "running"
       /\ rec'[j].attempt = rec[j].attempt + 1

BoxMove(b) ==
    /\ box'[b].state = "created" => starts[b] = 0
    /\ box'[b].state \in {"running", "exited"} => starts[b] > 0

RunnerMove(d) ==
    LET r == runner'[d]
    IN  /\ r.pc \in {"defer", "deferClaim", "build", "activate"} => r.phase = PreActivation
        /\ r.pc \in Claimed => /\ r.attempt > 0
                               /\ r.attempt <= rec'[<<d, r.phase>>].attempt
        /\ r.pc = "report" => r.outcome \in Outcome
        /\ r.pc \in {"sweep", "create", "start"} => starts[<<d, r.phase, r.attempt>>] = 0
        /\ \/ \A p \in Phase : rec'[<<d, p>>].by # "current"
           \/ Ahead(r) \subseteq Ahead(runner[d])

(* Facts about the index sets the records and containers are kept under.   *)
LEMMA Indices ==
    /\ \A d \in Deployments, p \in Phase : <<d, p>> \in Job
    /\ \A j \in Job : j[1] \in Deployments /\ j[2] \in Phase /\ j = <<j[1], j[2]>>
    /\ \A b \in Box : JobOf(b) \in Job /\ b[3] \in 1 .. MaxAttempt /\ b[2] \in Phase
                      /\ b[1] \in Deployments /\ b = <<b[1], b[2], b[3]>>
    /\ \A d \in Deployments, p \in Phase, n \in 1 .. MaxAttempt : <<d, p, n>> \in Box
BY DEF Job, Box, JobOf

(* A step that moves records, containers and runners only in these ways    *)
(* keeps the invariant.                                                    *)
LEMMA QuietStep ==
    ASSUME InductiveInvariant, TypeOK', starts' = starts,
           \A j \in Job : RecordMove(j),
           \A b \in Box : BoxMove(b),
           \A d \in Deployments : RunnerMove(d)
    PROVE  InductiveInvariant'
<1>1. AtMostOncePerAttempt'
  BY DEF InductiveInvariant, AtMostOncePerAttempt
<1>2. Containers'
  BY DEF BoxMove, Containers
<1>3. Attempts'
  <2>1. \A j \in Job : /\ rec[j].attempt \in 0 .. MaxAttempt
                       /\ rec'[j].attempt \in 0 .. MaxAttempt
    BY DEF InductiveInvariant, TypeOK, Record
  <2>2. \A j \in Job : rec[j].attempt <= rec'[j].attempt
    BY <2>1 DEF RecordMove
  <2>3. \A b \in Box : b[3] > rec'[JobOf(b)].attempt => starts'[b] = 0
    BY <2>1, <2>2, Indices DEF InductiveInvariant, Attempts
  <2>4. \A j \in Job : rec'[j].status = "pending" => rec'[j].attempt < MaxAttempt
    BY DEF RecordMove
  <2>5. \A j \in Job : rec'[j].status = "running" => rec'[j].attempt > 0
    BY <2>1 DEF RecordMove, InductiveInvariant, Attempts
  <2> QED BY <2>3, <2>4, <2>5 DEF Attempts
<1>4. Runners'
  BY DEF Runners, RunnerMove
<1>5. Fresh'
  BY DEF Fresh, RunnerMove, BoxOf
<1>6. AskedAgain'
  <2> SUFFICES ASSUME NEW d \in Deployments, NEW p \in Ahead(runner'[d]),
                      rec'[<<d, p>>].status = "running", rec'[<<d, p>>].by = "current"
               PROVE  starts[<<d, p, rec'[<<d, p>>].attempt>>] = 0
    BY DEF AskedAgain
  <2>1. p \in Phase /\ <<d, p>> \in Job
    BY Indices DEF Ahead
  <2>2. p \in Ahead(runner[d])
    BY <2>1 DEF RunnerMove
  <2>3. CASE rec'[<<d, p>>].attempt = rec[<<d, p>>].attempt
            /\ rec[<<d, p>>].status = "running" /\ rec[<<d, p>>].by = "current"
    BY <2>2, <2>3 DEF InductiveInvariant, AskedAgain
  <2>4. CASE rec[<<d, p>>].status = "pending"
            /\ rec'[<<d, p>>].attempt = rec[<<d, p>>].attempt + 1
    <3>1. rec[<<d, p>>].attempt \in Nat /\ rec'[<<d, p>>].attempt \in 1 .. MaxAttempt
      BY <2>1, <2>4 DEF InductiveInvariant, TypeOK, Record
    <3> DEFINE b == <<d, p, rec'[<<d, p>>].attempt>>
    <3>2. b \in Box /\ JobOf(b) = <<d, p>> /\ b[3] > rec[<<d, p>>].attempt
      BY <2>1, <2>4, <3>1, Indices DEF JobOf
    <3> QED BY <3>2 DEF InductiveInvariant, Attempts
  <2> QED BY <2>1, <2>3, <2>4 DEF RecordMove
<1> QED BY <1>1, <1>2, <1>3, <1>4, <1>5, <1>6 DEF InductiveInvariant

(* What does not change moves in none of these ways.                       *)
LEMMA KeptRecords ==
    ASSUME InductiveInvariant, rec' = rec
    PROVE  \A j \in Job : RecordMove(j)
BY DEF InductiveInvariant, Attempts, RecordMove

LEMMA KeptBoxes ==
    ASSUME InductiveInvariant, box' = box
    PROVE  \A b \in Box : BoxMove(b)
BY DEF InductiveInvariant, Containers, BoxMove

LEMMA AttemptsGrow ==
    ASSUME TypeOK, TypeOK', \A j \in Job : RecordMove(j)
    PROVE  \A j \in Job : rec[j].attempt <= rec'[j].attempt
BY DEF TypeOK, Record, RecordMove

LEMMA KeptRunner ==
    ASSUME InductiveInvariant, TypeOK', \A j \in Job : RecordMove(j),
           NEW d \in Deployments, runner'[d] = runner[d]
    PROVE  RunnerMove(d)
<1> DEFINE r == runner[d]
<1>1. r \in Runner /\ <<d, r.phase>> \in Job
  BY Indices DEF InductiveInvariant, TypeOK, Runner
<1>2. /\ r.attempt \in Nat /\ rec[<<d, r.phase>>].attempt \in Nat
      /\ rec'[<<d, r.phase>>].attempt \in Nat
  BY <1>1 DEF InductiveInvariant, TypeOK, Runner, Record
<1>3. rec[<<d, r.phase>>].attempt <= rec'[<<d, r.phase>>].attempt
  BY <1>1, AttemptsGrow DEF InductiveInvariant
<1>4. r.pc \in Claimed => r.attempt > 0 /\ r.attempt <= rec'[<<d, r.phase>>].attempt
  BY <1>2, <1>3 DEF InductiveInvariant, Runners
<1>5. r.pc \in {"sweep", "create", "start"} => starts[<<d, r.phase, r.attempt>>] = 0
  BY DEF InductiveInvariant, Fresh, BoxOf
<1>6. /\ r.pc \in {"defer", "deferClaim", "build", "activate"} => r.phase = PreActivation
      /\ r.pc = "report" => r.outcome \in Outcome
  BY DEF InductiveInvariant, Runners
<1> QED BY <1>4, <1>5, <1>6 DEF RunnerMove

(* A runner that rests, goes on within its phase or enters one it has not  *)
(* been answered for.                                                      *)
LEMMA IdleRunner ==
    ASSUME NEW d \in Deployments, runner'[d] = NoRunner
    PROVE  RunnerMove(d)
BY DEF RunnerMove, NoRunner, Claimed, Ahead, PreActivation

LEMMA NoRunnerType == NoRunner \in Runner
BY DEF NoRunner, Runner, Pc, Phase, PreActivation, Policy

LEMMA LeaveEffect ==
    ASSUME TypeOK, NEW d \in Deployments, Leave(d)
    PROVE  /\ runner' \in [Deployments -> Runner]
           /\ runner'[d] = NoRunner
           /\ \A o \in Deployments : o # d => runner'[o] = runner[o]
<1> QED BY NoRunnerType DEF TypeOK, Leave

LEMMA GotoEffect ==
    ASSUME TypeOK, NEW d \in Deployments, NEW pc \in Pc, Goto(d, pc)
    PROVE  /\ runner' \in [Deployments -> Runner]
           /\ runner'[d].pc = pc
           /\ runner'[d].phase = runner[d].phase
           /\ runner'[d].attempt = runner[d].attempt
           /\ runner'[d].outcome = runner[d].outcome
           /\ runner'[d].policy = runner[d].policy
           /\ \A o \in Deployments : o # d => runner'[o] = runner[o]
<1> DEFINE r == [runner[d] EXCEPT !.pc = pc, !.seen = {}, !.retried = FALSE]
<1>0. runner[d] \in Runner
  BY DEF TypeOK
<1>1. /\ r \in Runner /\ r.pc = pc /\ r.phase = runner[d].phase
      /\ r.attempt = runner[d].attempt /\ r.outcome = runner[d].outcome
      /\ r.policy = runner[d].policy
  BY <1>0 DEF Runner
<1>2. runner' = [runner EXCEPT ![d] = r]
  BY DEF Goto
<1> HIDE DEF r
<1> QED BY <1>1, <1>2 DEF TypeOK

LEMMA EnterEffect ==
    ASSUME TypeOK, NEW d \in Deployments, NEW pc \in Pc, NEW p \in Phase, Enter(d, pc, p)
    PROVE  /\ runner' \in [Deployments -> Runner]
           /\ runner'[d].pc = pc
           /\ runner'[d].phase = p /\ runner'[d].policy = "none"
           /\ \A o \in Deployments : o # d => runner'[o] = runner[o]
<1> DEFINE r == [NoRunner EXCEPT !.pc = pc, !.phase = p]
<1>1. r \in Runner /\ r.pc = pc /\ r.phase = p /\ r.policy = "none"
  BY NoRunnerType DEF Runner, NoRunner
<1>2. runner' = [runner EXCEPT ![d] = r]
  BY DEF Enter
<1> HIDE DEF r
<1> QED BY <1>1, <1>2 DEF TypeOK

LEMMA ReportEffect ==
    ASSUME TypeOK, NEW d \in Deployments, NEW outcome \in Outcome, NEW policy \in Policy,
           ReportOf(d, outcome, policy)
    PROVE  /\ runner' \in [Deployments -> Runner]
           /\ runner'[d].pc = "report" /\ runner'[d].outcome = outcome
           /\ runner'[d].phase = runner[d].phase /\ runner'[d].policy = policy
           /\ runner'[d].attempt = runner[d].attempt
           /\ \A o \in Deployments : o # d => runner'[o] = runner[o]
<1> DEFINE r == [runner[d] EXCEPT !.pc = "report", !.outcome = outcome, !.policy = policy]
<1>0. runner[d] \in Runner /\ "report" \in Pc
  BY DEF TypeOK, Pc
<1>1. /\ r \in Runner /\ r.pc = "report" /\ r.outcome = outcome /\ r.phase = runner[d].phase
      /\ r.attempt = runner[d].attempt /\ r.policy = policy
  BY <1>0 DEF Runner
<1>2. runner' = [runner EXCEPT ![d] = r]
  BY DEF ReportOf
<1> HIDE DEF r
<1> QED BY <1>1, <1>2 DEF TypeOK

(***************************************************************************)
(* Steps of one runner that leave the records alone and start nothing.     *)
(***************************************************************************)

OtherTypes ==
    /\ work' \in [Deployments -> WorkStatus]
    /\ box' \in [Box -> Container]
    /\ late' \in SUBSET (Claim \cup Report)
    /\ active' \in SUBSET Deployments
    /\ faults' \in 0 .. MaxFaults

Early == {"defer", "deferClaim", "build", "gate", "claim"}

LEMMA OneRunner ==
    ASSUME InductiveInvariant, TypeOK', starts' = starts,
           \A j \in Job : RecordMove(j), \A b \in Box : BoxMove(b),
           NEW d \in Deployments, RunnerMove(d),
           \A o \in Deployments : o # d => runner'[o] = runner[o]
    PROVE  InductiveInvariant'
<1>1. \A o \in Deployments : RunnerMove(o)
  BY KeptRunner
<1> QED BY <1>1, QuietStep

LEMMA KeptTypes ==
    ASSUME TypeOK, OtherTypes, rec' = rec, starts' = starts,
           runner' \in [Deployments -> Runner]
    PROVE  TypeOK'
BY DEF TypeOK, OtherTypes

LEMMA LeaveStep ==
    ASSUME InductiveInvariant, OtherTypes, starts' = starts, rec' = rec,
           \A b \in Box : BoxMove(b),
           NEW d \in Deployments, Leave(d)
    PROVE  InductiveInvariant'
<1>0. TypeOK BY DEF InductiveInvariant
<1>1. TypeOK' BY <1>0, LeaveEffect, KeptTypes
<1>2. RunnerMove(d) BY <1>0, LeaveEffect, IdleRunner
<1> QED BY <1>0, <1>1, <1>2, LeaveEffect, KeptRecords, OneRunner

LEMMA GotoStep ==
    ASSUME InductiveInvariant, OtherTypes, starts' = starts, rec' = rec,
           \A b \in Box : BoxMove(b),
           NEW d \in Deployments, NEW pc \in Pc, Goto(d, pc),
           runner[d].pc # "idle",
           pc \in {"defer", "deferClaim", "build", "activate"} => runner[d].phase = PreActivation,
           pc \in Claimed => runner[d].pc \in Claimed, pc # "report",
           pc \in {"sweep", "create", "start"} => starts[BoxOf(d)] = 0,
           pc \in Early => runner[d].pc \in Early
    PROVE  InductiveInvariant'
<1>0. TypeOK BY DEF InductiveInvariant
<1>1. TypeOK' BY <1>0, GotoEffect, KeptTypes
<1> DEFINE r == runner'[d]
<1>2. r.pc = pc /\ r.phase = runner[d].phase /\ r.attempt = runner[d].attempt
  BY <1>0, GotoEffect
<1>3. r.pc \in Claimed => r.attempt > 0 /\ r.attempt <= rec'[<<d, r.phase>>].attempt
  BY <1>2 DEF InductiveInvariant, Runners
<1>4. Ahead(r) \subseteq Ahead(runner[d])
  BY <1>2 DEF Ahead, Early
<1>5. RunnerMove(d)
  BY <1>2, <1>3, <1>4 DEF RunnerMove, BoxOf
<1> QED BY <1>0, <1>1, <1>5, GotoEffect, KeptRecords, OneRunner

LEMMA EnterStep ==
    ASSUME InductiveInvariant, OtherTypes, starts' = starts, rec' = rec,
           \A b \in Box : BoxMove(b),
           NEW d \in Deployments, NEW pc \in {"gate", "activate"}, NEW p \in Phase,
           Enter(d, pc, p),
           runner[d].pc # "idle", runner[d].phase = PreActivation,
           pc = "activate" => p = PreActivation,
           pc = "gate" /\ p = PreActivation => runner[d].pc \in Early
    PROVE  InductiveInvariant'
<1>0. TypeOK /\ pc \in Pc BY DEF InductiveInvariant, Pc
<1>1. TypeOK' BY <1>0, EnterEffect, KeptTypes
<1> DEFINE r == runner'[d]
<1>2. r.pc = pc /\ r.phase = p
  BY <1>0, EnterEffect
<1>3. Ahead(r) \subseteq Ahead(runner[d])
  BY <1>2 DEF Ahead, Early, Phase, PreActivation, Verification
<1>4. RunnerMove(d)
  BY <1>2, <1>3 DEF RunnerMove, Claimed
<1> QED BY <1>0, <1>1, <1>4, EnterEffect, KeptRecords, OneRunner

LEMMA ReportOfStep ==
    ASSUME InductiveInvariant, OtherTypes, starts' = starts, rec' = rec,
           \A b \in Box : BoxMove(b),
           NEW d \in Deployments, NEW outcome \in Outcome, NEW policy \in Policy,
           ReportOf(d, outcome, policy), runner[d].pc \in Claimed
    PROVE  InductiveInvariant'
<1>0. TypeOK BY DEF InductiveInvariant
<1>1. TypeOK' BY <1>0, ReportEffect, KeptTypes
<1> DEFINE r == runner'[d]
<1>2. /\ r.pc = "report" /\ r.phase = runner[d].phase /\ r.attempt = runner[d].attempt
      /\ r.outcome = outcome
  BY <1>0, ReportEffect
<1>3. r.attempt > 0 /\ r.attempt <= rec'[<<d, r.phase>>].attempt
  BY <1>2 DEF InductiveInvariant, Runners
<1>4. Ahead(r) \subseteq Ahead(runner[d])
  BY <1>2 DEF Ahead, Claimed
<1>5. RunnerMove(d)
  BY <1>2, <1>3, <1>4 DEF RunnerMove
<1> QED BY <1>0, <1>1, <1>5, ReportEffect, KeptRecords, OneRunner

LEMMA ThrowStep ==
    ASSUME InductiveInvariant, OtherTypes, starts' = starts, rec' = rec,
           \A b \in Box : BoxMove(b),
           NEW d \in Deployments, Throw(d), runner[d].pc # "idle"
    PROVE  InductiveInvariant'
<1> DEFINE pc == IF runner[d].phase = PreActivation THEN "fail"
                 ELSE IF runner[d].pc \in {"create", "start", "resume", "await", "report"}
                      THEN "scrap" ELSE "complete"
<1>1. Goto(d, pc) BY DEF Throw
<1>2. pc \in {"fail", "scrap", "complete"} /\ (pc = "scrap" => runner[d].pc \in Claimed)
  BY DEF Claimed
<1>3. /\ pc \in Pc /\ pc \notin {"defer", "deferClaim", "build", "activate"}
      /\ pc \in Claimed => pc = "scrap"
      /\ pc \notin {"sweep", "create", "start"} /\ pc \notin Early
  BY <1>2 DEF Pc, Claimed, Early
<1> HIDE DEF pc
<1> QED BY <1>1, <1>2, <1>3, GotoStep

LEMMA AfterPhaseStep ==
    ASSUME InductiveInvariant, OtherTypes, starts' = starts, rec' = rec,
           \A b \in Box : BoxMove(b),
           NEW d \in Deployments, AfterPhase(d), runner[d].pc # "idle"
    PROVE  InductiveInvariant'
<1>1. CASE runner[d].phase = PreActivation /\ Enter(d, "activate", PreActivation)
  BY <1>1, EnterStep DEF Phase
<1>2. ASSUME NEW pc \in {"fail", "rollback", "complete"}, Goto(d, pc)
      PROVE  InductiveInvariant'
  <2>1. /\ pc \in Pc /\ pc \notin {"defer", "deferClaim", "build", "activate"}
        /\ pc \notin Claimed /\ pc \notin {"sweep", "create", "start"} /\ pc \notin Early
    BY <1>2 DEF Pc, Claimed, Early
  <2> QED BY <1>2, <2>1, GotoStep
<1> QED BY <1>1, <1>2 DEF AfterPhase

(***************************************************************************)
(* What the steps do to containers and records.                            *)
(***************************************************************************)

LEMMA KeptTypesOfRest ==
    ASSUME InductiveInvariant
    PROVE  /\ work \in [Deployments -> WorkStatus]
           /\ rec \in [Job -> Record]
           /\ runner \in [Deployments -> Runner]
           /\ box \in [Box -> Container]
           /\ late \in SUBSET (Claim \cup Report)
           /\ active \in SUBSET Deployments
           /\ starts \in [Box -> Nat]
           /\ faults \in 0 .. MaxFaults
BY DEF InductiveInvariant, TypeOK

LEMMA RemovedBoxes ==
    ASSUME InductiveInvariant, NEW containers, box' = Without(containers)
    PROVE  box' \in [Box -> Container] /\ \A b \in Box : BoxMove(b)
<1>1. Absent \in Container /\ Absent.state = "missing"
  BY DEF Absent, Container
<1> QED BY <1>1 DEF InductiveInvariant, TypeOK, Containers, Without, BoxMove

LEMMA StoppedBoxes ==
    ASSUME InductiveInvariant, NEW containers, box' = Stopped(containers),
           \A b \in Box : b \in containers => box[b].state = "running"
    PROVE  box' \in [Box -> Container] /\ \A b \in Box : BoxMove(b)
<1>1. \A b \in Box : /\ box[b] \in Container
                      /\ [box[b] EXCEPT !.state = "exited"] \in Container
                      /\ [box[b] EXCEPT !.state = "exited"].state = "exited"
  BY DEF InductiveInvariant, TypeOK, Container
<1>2. box' \in [Box -> Container]
  BY <1>1 DEF Stopped
<1>3. \A b \in Box : BoxMove(b)
  BY <1>1 DEF Stopped, BoxMove, InductiveInvariant, Containers
<1> QED BY <1>2, <1>3

(* One container changes; its new state agrees with its command's history.  *)
LEMMA OneBox ==
    ASSUME InductiveInvariant, NEW b \in Box, NEW c \in Container,
           box' = [box EXCEPT ![b] = c],
           c.state = "created" => starts[b] = 0,
           c.state \in {"running", "exited"} => starts[b] > 0
    PROVE  box' \in [Box -> Container] /\ \A x \in Box : BoxMove(x)
BY DEF InductiveInvariant, TypeOK, Containers, BoxMove

(* A claim that lands answers from the record or opens the next attempt.    *)
LEMMA ClaimEffect ==
    ASSUME InductiveInvariant, NEW d \in Deployments, NEW p \in Phase, NEW seen,
           LandClaim(d, p, seen)
    PROVE  /\ rec' \in [Job -> Record] /\ work' \in [Deployments -> WorkStatus]
           /\ \A j \in Job : j # <<d, p>> => rec'[j] = rec[j]
           /\ \/ rec' = rec
              \/ /\ rec[<<d, p>>].status = "pending" /\ rec'[<<d, p>>].status = "running"
                 /\ rec'[<<d, p>>].attempt = rec[<<d, p>>].attempt + 1
           /\ AnswerClaim(d, p, seen) = "run" /\ rec[<<d, p>>].status = "pending"
                => rec'[<<d, p>>].attempt = rec[<<d, p>>].attempt + 1
           /\ rec[<<d, p>>].status # "pending" => rec' = rec
<1> DEFINE j == <<d, p>>
           r == Opened(rec[j])
<1>1. j \in Job /\ rec \in [Job -> Record]
  BY Indices, KeptTypesOfRest
<1>2. work' \in [Deployments -> WorkStatus]
  BY KeptTypesOfRest DEF LandClaim, WorkStatus
<1>3. CASE AnswerClaim(d, p, seen) = "run" /\ rec[j].status = "pending"
  <2>1. rec[j] \in Record /\ rec[j].attempt + 1 \in 0 .. MaxAttempt
    BY <1>1, <1>3 DEF InductiveInvariant, Attempts, Record
  <2>2. r \in Record /\ r.status = "running" /\ r.attempt = rec[j].attempt + 1
    BY <2>1 DEF Opened, Record, Status
  <2>3. rec' = [rec EXCEPT ![j] = r]
    BY <1>3 DEF LandClaim
  <2> HIDE DEF j, r
  <2>4. rec' \in [Job -> Record] /\ rec'[j] = r /\ \A k \in Job : k # j => rec'[k] = rec[k]
    BY <2>2, <2>3, <1>1
  <2> QED BY <2>4, <2>2, <1>2, <1>3 DEF j
<1>4. CASE ~(AnswerClaim(d, p, seen) = "run" /\ rec[j].status = "pending")
  <2>1. rec' = rec BY <1>4 DEF LandClaim
  <2> QED BY <2>1, <1>1, <1>2, <1>4
<1> QED BY <1>3, <1>4

LEMMA ClaimMoves ==
    ASSUME InductiveInvariant, NEW d \in Deployments, NEW p \in Phase, NEW seen,
           LandClaim(d, p, seen)
    PROVE  \A j \in Job : RecordMove(j)
<1>1. ASSUME NEW j \in Job, rec'[j] = rec[j] PROVE RecordMove(j)
  BY <1>1 DEF RecordMove, InductiveInvariant, Attempts
<1> QED BY <1>1, ClaimEffect DEF RecordMove

LEMMA ReportEffects ==
    ASSUME InductiveInvariant, NEW d \in Deployments, NEW p \in Phase, NEW attempt,
           NEW outcome \in Outcome, NEW policy \in Policy,
           LandReport(d, p, attempt, outcome, policy)
    PROVE  rec' \in [Job -> Record] /\ \A j \in Job : RecordMove(j)
<1> DEFINE j == <<d, p>>
           r == Recorded(rec[j], outcome, policy)
<1>1. j \in Job /\ rec \in [Job -> Record]
  BY Indices, KeptTypesOfRest
<1>2. ASSUME NEW k \in Job, rec'[k] = rec[k] PROVE RecordMove(k)
  BY <1>2 DEF RecordMove, InductiveInvariant, Attempts
<1>3. CASE rec' = rec
  BY <1>1, <1>2, <1>3
<1>4. CASE rec' = [rec EXCEPT ![j] = r]
  <2>1. rec[j] \in Record BY <1>1
  <2>2. r \in Record /\ r.status = outcome /\ r.attempt = rec[j].attempt
    BY <2>1 DEF Recorded, Record, Status
  <2>3. outcome # "running" /\ outcome # "pending"
    BY DEF Outcome
  <2> HIDE DEF j, r
  <2>4. rec' \in [Job -> Record] /\ rec'[j] = r /\ \A k \in Job : k # j => rec'[k] = rec[k]
    BY <1>1, <1>4, <2>2
  <2>5. RecordMove(j)
    BY <2>2, <2>3, <2>4 DEF RecordMove
  <2> QED BY <2>4, <2>5, <1>2
<1> QED BY <1>3, <1>4 DEF LandReport

(***************************************************************************)
(* One lemma per action: it keeps the invariant.                           *)
(***************************************************************************)

(* No runner changes.                                                      *)
LEMMA NoRunnerStep ==
    ASSUME InductiveInvariant, OtherTypes, starts' = starts, runner' = runner,
           rec' \in [Job -> Record],
           \A j \in Job : RecordMove(j), \A b \in Box : BoxMove(b)
    PROVE  InductiveInvariant'
<1>1. TypeOK'
  BY KeptTypesOfRest DEF TypeOK, OtherTypes
<1>2. \A d \in Deployments : RunnerMove(d)
  BY <1>1, KeptRunner
<1> QED BY <1>1, <1>2, QuietStep

LEMMA LateClaimStep ==
    ASSUME InductiveInvariant, NEW m \in late, LateClaim(m) PROVE InductiveInvariant'
<1>1. m.d \in Deployments /\ m.p \in Phase
  BY KeptTypesOfRest DEF LateClaim, Claim, Report
<1>2. LandClaim(m.d, m.p, m.seen) /\ late' = late \ {m}
      /\ UNCHANGED <<runner, box, active, starts, faults>>
  BY DEF LateClaim
<1>3. rec' \in [Job -> Record] /\ work' \in [Deployments -> WorkStatus]
  BY <1>1, <1>2, ClaimEffect
<1>4. \A j \in Job : RecordMove(j)
  BY <1>1, <1>2, ClaimMoves
<1>5. OtherTypes
  BY <1>2, <1>3, KeptTypesOfRest DEF OtherTypes
<1> QED BY <1>2, <1>3, <1>4, <1>5, KeptBoxes, NoRunnerStep

LEMMA LateReportStep ==
    ASSUME InductiveInvariant, NEW m \in late, LateReport(m) PROVE InductiveInvariant'
<1>1. /\ m.d \in Deployments /\ m.p \in Phase
      /\ m.outcome \in Outcome /\ m.policy \in Policy
  BY KeptTypesOfRest DEF LateReport, Claim, Report
<1>2. /\ LandReport(m.d, m.p, m.attempt, m.outcome, m.policy) /\ late' = late \ {m}
      /\ UNCHANGED <<work, runner, box, active, starts, faults>>
  BY DEF LateReport
<1>3. rec' \in [Job -> Record] /\ \A j \in Job : RecordMove(j)
  BY <1>1, <1>2, ReportEffects
<1>4. OtherTypes
  BY <1>2, KeptTypesOfRest DEF OtherTypes
<1> QED BY <1>2, <1>3, <1>4, KeptBoxes, NoRunnerStep

LEMMA LeaseExpiresStep ==
    ASSUME InductiveInvariant, NEW d \in Deployments, LeaseExpires(d) PROVE InductiveInvariant'
<1>1. UNCHANGED <<rec, runner, box, late, active, starts>>
  BY DEF LeaseExpires
<1>2. work' \in [Deployments -> WorkStatus] /\ faults' \in 0 .. MaxFaults
  BY KeptTypesOfRest DEF LeaseExpires, WorkStatus
<1>3. OtherTypes
  BY <1>1, <1>2, KeptTypesOfRest DEF OtherTypes
<1> QED BY <1>1, <1>3, KeptTypesOfRest, KeptBoxes, KeptRecords, NoRunnerStep

LEMMA SupersedeStep ==
    ASSUME InductiveInvariant, NEW d \in Deployments, Supersede(d) PROVE InductiveInvariant'
<1>1. UNCHANGED <<runner, box, late, active, starts, faults>>
  BY DEF Supersede
<1>2. work' \in [Deployments -> WorkStatus]
  BY KeptTypesOfRest DEF Supersede, WorkStatus
<1>3. \A j \in Job : rec[j] \in Record
  BY KeptTypesOfRest
<1>4. \A j \in Job : /\ [rec[j] EXCEPT !.status = "outcome_unknown"] \in Record
                      /\ [rec[j] EXCEPT !.status = "outcome_unknown"].status = "outcome_unknown"
                      /\ [rec[j] EXCEPT !.status = "outcome_unknown"].attempt = rec[j].attempt
  BY <1>3 DEF Record, Status, Outcome
<1>5. rec' \in [Job -> Record]
  BY <1>3, <1>4 DEF Supersede
<1>6. \A j \in Job : RecordMove(j)
  BY <1>4 DEF Supersede, RecordMove, InductiveInvariant, Attempts
<1>7. OtherTypes
  BY <1>1, <1>2, KeptTypesOfRest DEF OtherTypes
<1> QED BY <1>1, <1>5, <1>6, <1>7, KeptBoxes, NoRunnerStep

LEMMA ResolveStep ==
    ASSUME InductiveInvariant, NEW d \in Deployments, NEW resolution, Resolve(d, resolution)
    PROVE  InductiveInvariant'
<1> DEFINE j == <<d, PreActivation>>
           next == DecideResolution(rec[j].status, resolution)
<1>1. UNCHANGED <<runner, box, late, active, starts, faults>>
  BY DEF Resolve
<1>2. work' \in [Deployments -> WorkStatus]
  BY KeptTypesOfRest DEF Resolve, WorkStatus
<1>3. j \in Job /\ rec[j] \in Record
  BY Indices, KeptTypesOfRest DEF Phase
<1>4. next \in {"pending", "succeeded"} /\ (next = "pending" => rec[j].attempt < MaxAttempt)
  BY DEF Resolve, DecideResolution
<1>5. rec' = [rec EXCEPT ![j].status = next]
  BY DEF Resolve
<1> HIDE DEF next
<1>6. LET r == [rec[j] EXCEPT !.status = next]
      IN  r \in Record /\ r.status = next /\ r.attempt = rec[j].attempt
  BY <1>3, <1>4 DEF Record, Status, Outcome
<1> HIDE DEF j
<1>7. /\ rec' \in [Job -> Record]
      /\ rec'[j].status = next /\ rec'[j].attempt = rec[j].attempt
      /\ \A k \in Job : k # j => rec'[k] = rec[k]
  BY <1>3, <1>5, <1>6, KeptTypesOfRest
<1>8. \A k \in Job : RecordMove(k)
  BY <1>4, <1>7 DEF RecordMove, InductiveInvariant, Attempts
<1>9. OtherTypes
  BY <1>1, <1>2, KeptTypesOfRest DEF OtherTypes
<1> QED BY <1>1, <1>7, <1>8, <1>9, KeptBoxes, NoRunnerStep

LEMMA DockerStep ==
    ASSUME InductiveInvariant, NEW b \in Box, Docker(b) PROVE InductiveInvariant'
<1>1. UNCHANGED <<work, rec, runner, late, active, starts>> /\ faults' \in 0 .. MaxFaults
  BY KeptTypesOfRest DEF Docker, Exits, DeadlinePasses, Vanishes
<1>2. box[b] \in Container /\ Absent \in Container
  BY KeptTypesOfRest DEF Absent, Container
<1>3. box' \in [Box -> Container] /\ \A x \in Box : BoxMove(x)
  <2>1. ASSUME NEW ok \in BOOLEAN, box[b].state = "running",
               box' = [box EXCEPT ![b] = [@ EXCEPT !.state = "exited", !.ok = ok]]
        PROVE  <1>3!:
    <3> DEFINE c == [box[b] EXCEPT !.state = "exited", !.ok = ok]
    <3>1. c \in Container /\ c.state = "exited" BY <1>2 DEF Container
    <3>2. box' = [box EXCEPT ![b] = c] BY <2>1
    <3>3. starts[b] > 0 BY <2>1 DEF InductiveInvariant, Containers
    <3> HIDE DEF c
    <3> QED BY <3>1, <3>2, <3>3, OneBox
  <2>2. CASE DeadlinePasses(b)
    <3> DEFINE c == [box[b] EXCEPT !.overdue = TRUE]
    <3>1. c \in Container /\ c.state = "running" BY <1>2, <2>2 DEF Container, DeadlinePasses
    <3>2. box' = [box EXCEPT ![b] = c] BY <2>2 DEF DeadlinePasses
    <3>3. starts[b] > 0 BY <2>2 DEF InductiveInvariant, Containers, DeadlinePasses
    <3> HIDE DEF c
    <3> QED BY <3>1, <3>2, <3>3, OneBox
  <2>3. CASE Vanishes(b)
    <3> DEFINE c == [Absent EXCEPT !.state = "vanished"]
    <3>1. c \in Container /\ c.state = "vanished" BY <1>2 DEF Container
    <3>2. box' = [box EXCEPT ![b] = c] BY <2>3 DEF Vanishes
    <3> HIDE DEF c
    <3> QED BY <3>1, <3>2, OneBox
  <2> QED BY <2>1, <2>2, <2>3 DEF Docker, Exits
<1>4. OtherTypes
  BY <1>1, <1>3, KeptTypesOfRest DEF OtherTypes
<1> QED BY <1>1, <1>3, <1>4, KeptTypesOfRest, KeptRecords, NoRunnerStep

LEMMA LeaseWorkStep ==
    ASSUME InductiveInvariant, NEW d \in Deployments, LeaseWork(d) PROVE InductiveInvariant'
<1> DEFINE pc == IF PreActivation \in Planned[d] THEN "defer" ELSE "build"
<1>1. /\ UNCHANGED <<box, active, starts, faults>>
      /\ late' = {m \in late : m.d # d}
      /\ Enter(d, pc, PreActivation)
  BY DEF LeaseWork
<1>2. work' \in [Deployments -> WorkStatus]
  BY KeptTypesOfRest DEF LeaseWork, WorkStatus
<1>3. \A j \in Job : rec[j] \in Record
  BY KeptTypesOfRest
<1>4. \A j \in Job : LET r == [rec[j] EXCEPT !.by = "older"]
                     IN  /\ r \in Record /\ r.status = rec[j].status
                         /\ r.attempt = rec[j].attempt /\ r.by = "older"
  BY <1>3 DEF Record
<1>5. rec' \in [Job -> Record]
  BY <1>3, <1>4 DEF LeaseWork
<1>6. \A j \in Job : RecordMove(j)
  BY <1>4 DEF LeaseWork, RecordMove, InductiveInvariant, Attempts
<1>7. \A p \in Phase : rec'[<<d, p>>].by # "current"
  BY <1>4, Indices DEF LeaseWork
<1>8. pc \in {"defer", "build"} /\ pc \in Pc /\ PreActivation \in Phase /\ TypeOK
  BY DEF Pc, Phase, InductiveInvariant
<1> HIDE DEF pc
<1>9. /\ runner' \in [Deployments -> Runner]
      /\ runner'[d].pc = pc /\ runner'[d].phase = PreActivation
      /\ \A o \in Deployments : o # d => runner'[o] = runner[o]
  BY <1>1, <1>8, EnterEffect
<1>10. TypeOK'
  BY <1>1, <1>2, <1>5, <1>9, KeptTypesOfRest DEF TypeOK
<1>11. RunnerMove(d)
  BY <1>7, <1>8, <1>9 DEF RunnerMove, Claimed
<1> QED BY <1>1, <1>6, <1>9, <1>10, <1>11, KeptBoxes, OneRunner

LEMMA ReadRunningJobsStep ==
    ASSUME InductiveInvariant, NEW d \in Deployments, ReadRunningJobs(d)
    PROVE  InductiveInvariant'
<1>1. /\ runner[d].pc \in {"defer", "gate"}
      /\ UNCHANGED <<work, rec, late, active, starts, faults>>
  BY DEF ReadRunningJobs
<1>2. PICK stopped \in SUBSET Box, seen \in SUBSET Deployments :
        /\ \A b \in stopped : box[b].state = "running"
        /\ box' = Stopped(stopped)
        /\ Enquire(d, seen)
  <2> DEFINE blocking == {b \in Box : /\ box[b].state = "running"
                                      /\ b[1] = d => b[2] = runner[d].phase}
             overdue == {b \in blocking : box[b].overdue}
  <2>1. PICK hung \in SUBSET overdue :
          /\ box' = Stopped(overdue \ hung)
          /\ Enquire(d, {b[1] : b \in blocking \ (overdue \ hung)})
    BY DEF ReadRunningJobs
  <2>2. \A b \in overdue \ hung : b \in Box /\ box[b].state = "running"
    OBVIOUS
  <2>3. {b[1] : b \in blocking \ (overdue \ hung)} \in SUBSET Deployments
    BY Indices
  <2> HIDE DEF blocking, overdue
  <2> QED BY <2>1, <2>2, <2>3
<1>3. box' \in [Box -> Container] /\ \A b \in Box : BoxMove(b)
  BY <1>2, StoppedBoxes
<1> DEFINE pc == CASE runner[d].pc = "gate" -> "claim"
                   [] runner[d].pc = "defer" /\ seen = {} -> "build"
                   [] OTHER -> "deferClaim"
           r == [runner[d] EXCEPT !.pc = pc, !.seen = seen]
<1>4. /\ pc \in {"claim", "build", "deferClaim"}
      /\ pc # "claim" => runner[d].pc = "defer"
  BY <1>1
<1>5. runner' = [runner EXCEPT ![d] = r]
  BY <1>2 DEF Enquire
<1> HIDE DEF pc
<1>6. /\ runner[d] \in Runner /\ r \in Runner /\ r.pc = pc /\ r.phase = runner[d].phase
      /\ r.attempt = runner[d].attempt
  <2>1. runner[d] \in Runner /\ pc \in Pc
    BY <1>4, KeptTypesOfRest DEF Pc
  <2> QED BY <1>2, <2>1 DEF Runner
<1> HIDE DEF r
<1>7. /\ runner' \in [Deployments -> Runner] /\ runner'[d] = r
      /\ \A o \in Deployments : o # d => runner'[o] = runner[o]
  BY <1>5, <1>6, KeptTypesOfRest
<1>8. TypeOK'
  BY <1>1, <1>3, <1>7, KeptTypesOfRest DEF TypeOK
<1>9. runner[d].pc = "defer" => runner[d].phase = PreActivation
  BY DEF InductiveInvariant, Runners
<1>10. Ahead(r) \subseteq Ahead(runner[d])
  BY <1>1, <1>4, <1>6 DEF Ahead
<1>11. RunnerMove(d)
  BY <1>4, <1>6, <1>7, <1>9, <1>10 DEF RunnerMove, Claimed
<1> QED BY <1>1, <1>3, <1>7, <1>8, <1>11, KeptRecords, OneRunner

LEMMA BuildStep ==
    ASSUME InductiveInvariant, NEW d \in Deployments, Build(d) PROVE InductiveInvariant'
<1>1. /\ runner[d].pc = "build" /\ runner[d].phase = PreActivation
      /\ UNCHANGED <<work, rec, box, late, starts, faults>>
      /\ active' \in SUBSET Deployments
  BY KeptTypesOfRest DEF Build, InductiveInvariant, Runners
<1>2. OtherTypes
  BY <1>1, KeptTypesOfRest DEF OtherTypes
<1>3. CASE Goto(d, "fail")
  BY <1>1, <1>2, <1>3, KeptBoxes, GotoStep DEF Pc, Claimed, Early
<1>4. CASE Enter(d, IF PreActivation \in Planned[d] THEN "gate" ELSE "activate", PreActivation)
  <2>1. PICK pc \in {"gate", "activate"} : Enter(d, pc, PreActivation)
    BY <1>4
  <2> QED BY <1>1, <1>2, <2>1, KeptBoxes, EnterStep DEF Phase, Early
<1> QED BY <1>3, <1>4 DEF Build

LEMMA ClaimsStep ==
    ASSUME InductiveInvariant, NEW d \in Deployments, Claims(d) PROVE InductiveInvariant'
<1> DEFINE p == runner[d].phase
           answer == AnswerClaim(d, p, runner[d].seen)
           j == <<d, p>>
<1>1. /\ runner[d].pc \in Claiming /\ LandClaim(d, p, runner[d].seen)
      /\ UNCHANGED <<box, late, active, starts, faults>>
  BY DEF Claims
<1>2. p \in Phase /\ j \in Job /\ runner[d] \in Runner
  BY Indices, KeptTypesOfRest DEF Runner
<1>3. rec' \in [Job -> Record] /\ work' \in [Deployments -> WorkStatus]
  BY <1>1, <1>2, ClaimEffect
<1>4. \A k \in Job : RecordMove(k)
  BY <1>1, <1>2, ClaimMoves
<1>5. \A b \in Box : BoxMove(b)
  BY <1>1, KeptBoxes
<1>6. SUFFICES ASSUME runner' \in [Deployments -> Runner],
                      \A o \in Deployments : o # d => runner'[o] = runner[o]
               PROVE  RunnerMove(d)
  <2>1. ASSUME runner' \in [Deployments -> Runner] PROVE TypeOK'
    BY <1>1, <1>3, <2>1, KeptTypesOfRest DEF TypeOK
  <2> HIDE DEF p, answer, j
  <2>2. SUFFICES /\ runner' \in [Deployments -> Runner]
                 /\ \A o \in Deployments : o # d => runner'[o] = runner[o]
    BY <1>1, <1>4, <1>5, <1>6, <2>1, OneRunner
  <2>3. CASE Leave(d)
    BY <2>3, LeaveEffect DEF InductiveInvariant
  <2>4. CASE Goto(d, "build")
    BY <2>4, GotoEffect DEF InductiveInvariant, Pc
  <2>5. CASE ~Leave(d) /\ ~Goto(d, "build")
    <3> DEFINE pc == CASE answer = "run" -> "sweep" [] answer = "resume" -> "resume"
                       [] OTHER -> "settle"
               outcome == CASE answer = "skip" -> "succeeded"
                            [] answer = "halt" -> rec[j].status [] OTHER -> "none"
               r == [NoRunner EXCEPT !.pc = pc, !.phase = p, !.attempt = rec'[j].attempt,
                                     !.outcome = outcome]
    <3>1. runner' = [runner EXCEPT ![d] = r]
      BY <2>5 DEF Claims, p, answer, j
    <3>2. pc \in Pc
      BY DEF Pc
    <3>3. outcome \in Outcome \cup {"none"}
      <4>1. answer = "halt" => rec[j].status \in Outcome
        BY <1>2, KeptTypesOfRest DEF answer, j, AnswerClaim, DecideClaim, Record, Status, Outcome
      <4> QED BY <4>1 DEF Outcome
    <3>4. rec'[j].attempt \in 0 .. MaxAttempt
      BY <1>2, <1>3 DEF Record
    <3> HIDE DEF pc, outcome
    <3>5. r \in Runner
      BY <1>2, <3>2, <3>3, <3>4, NoRunnerType DEF Runner
    <3> HIDE DEF r
    <3> QED BY <3>1, <3>5, KeptTypesOfRest
  <2> QED BY <2>3, <2>4, <2>5
<1>7. CASE Leave(d)
  BY <1>7, LeaveEffect, IdleRunner DEF InductiveInvariant
<1>8. CASE runner[d].pc = "deferClaim" /\ Goto(d, "build")
  <2>1. runner'[d].pc = "build" /\ runner'[d].phase = p /\ p = PreActivation
    BY <1>8, GotoEffect DEF InductiveInvariant, Pc, Runners
  <2>2. Ahead(runner'[d]) \subseteq Ahead(runner[d])
    BY <1>8, <2>1 DEF Ahead
  <2> QED BY <2>1, <2>2 DEF RunnerMove, Claimed
<1>9. CASE runner[d].pc = "claim" /\ answer # "wait"
  <2> DEFINE r == runner'[d]
  <2>1. /\ r.pc = CASE answer = "run" -> "sweep" [] answer = "resume" -> "resume"
                     [] OTHER -> "settle"
        /\ r.phase = p /\ r.attempt = rec'[j].attempt
    <3> DEFINE pc == CASE answer = "run" -> "sweep" [] answer = "resume" -> "resume"
                       [] OTHER -> "settle"
               outcome == CASE answer = "skip" -> "succeeded"
                            [] answer = "halt" -> rec[j].status [] OTHER -> "none"
               s == [NoRunner EXCEPT !.pc = pc, !.phase = p, !.attempt = rec'[j].attempt,
                                     !.outcome = outcome]
    <3>1. runner' = [runner EXCEPT ![d] = s]
      BY <1>9 DEF Claims
    <3> HIDE DEF pc, outcome
    <3>2. s.pc = pc /\ s.phase = p /\ s.attempt = rec'[j].attempt
      BY DEF NoRunner
    <3> HIDE DEF s
    <3>3. r = s
      BY <3>1, KeptTypesOfRest
    <3> QED BY <3>2, <3>3 DEF pc
  <2>2. r.pc \in {"sweep", "resume", "settle"} /\ (r.pc = "sweep" => answer = "run")
        /\ (r.pc = "resume" => answer = "resume")
    BY <2>1
  <2>3. Ahead(r) \subseteq Ahead(runner[d])
    BY <1>9, <2>1, <2>2 DEF Ahead
  <2>4. rec[j].attempt \in Nat /\ rec'[j].attempt \in Nat
    BY <1>2, <1>3, KeptTypesOfRest DEF Record
  <2>5. answer = "run" \/ answer = "resume"
          => rec[j].status = "pending" \/ rec[j].status = "running"
    BY DEF AnswerClaim, DecideClaim
  <2>6. answer = "resume" => rec[j].status = "running"
    BY DEF AnswerClaim, DecideClaim
  <2>7. CASE answer = "run" /\ rec[j].status = "pending"
    <3>1. rec'[j].attempt = rec[j].attempt + 1
      BY <1>1, <1>2, <2>7, ClaimEffect
    <3>2. rec'[j].attempt \in 1 .. MaxAttempt
      BY <1>2, <1>3, <2>4, <3>1 DEF Record
    <3> DEFINE b == <<d, p, rec'[j].attempt>>
    <3>3. b \in Box /\ JobOf(b) = j /\ b[3] > rec[j].attempt
      BY <1>2, <2>4, <3>1, <3>2, Indices DEF JobOf
    <3>4. starts[b] = 0
      BY <3>3 DEF InductiveInvariant, Attempts
    <3> QED BY <2>1, <2>2, <2>3, <2>4, <3>1, <3>4 DEF RunnerMove
  <2>8. CASE answer \in {"run", "resume"} /\ rec[j].status = "running"
    <3>1. rec' = rec /\ rec[j].attempt > 0
      BY <1>1, <1>2, <2>8, ClaimEffect DEF InductiveInvariant, Attempts
    <3>2. answer = "run" => rec[j].by = "current"
      BY <2>8 DEF AnswerClaim, DecideClaim
    <3>3. p \in Ahead(runner[d])
      BY <1>2, <1>9 DEF Ahead
    <3>4. answer = "run" => starts[<<d, p, rec[j].attempt>>] = 0
      BY <2>8, <3>2, <3>3 DEF InductiveInvariant, AskedAgain
    <3> QED BY <2>1, <2>2, <2>3, <2>4, <3>1, <3>4 DEF RunnerMove
  <2>9. CASE answer \notin {"run", "resume"}
    BY <2>1, <2>2, <2>3, <2>9 DEF RunnerMove, Claimed
  <2> QED BY <2>5, <2>6, <2>7, <2>8, <2>9
<1> QED BY <1>1, <1>7, <1>8, <1>9 DEF Claims, Claiming

LEMMA ClaimTimesOutStep ==
    ASSUME InductiveInvariant, NEW d \in Deployments, ClaimTimesOut(d) PROVE InductiveInvariant'
<1> DEFINE r == [runner[d] EXCEPT !.retried = TRUE]
<1>1. /\ runner' = [runner EXCEPT ![d] = r] /\ runner[d].pc \in {"deferClaim", "claim"}
      /\ UNCHANGED <<work, rec, box, active, starts>>
  BY DEF ClaimTimesOut, Claiming
<1>0. runner[d] \in Runner
  BY KeptTypesOfRest
<1>2. r \in Runner /\ r.pc = runner[d].pc /\ r.phase = runner[d].phase
  BY <1>0 DEF Runner
<1>3. late' \in SUBSET (Claim \cup Report) /\ faults' \in 0 .. MaxFaults
  BY <1>0, KeptTypesOfRest DEF ClaimTimesOut, Claim, Runner
<1> HIDE DEF r
<1>4. /\ runner' \in [Deployments -> Runner] /\ runner'[d] = r
      /\ \A o \in Deployments : o # d => runner'[o] = runner[o]
  BY <1>1, <1>2, KeptTypesOfRest
<1>5. TypeOK'
  BY <1>1, <1>3, <1>4, KeptTypesOfRest DEF TypeOK
<1>6. RunnerMove(d)
  <2>1. Ahead(r) \subseteq Ahead(runner[d])
    BY <1>2 DEF Ahead
  <2> QED BY <1>1, <1>2, <1>4, <2>1 DEF RunnerMove, Claimed, InductiveInvariant, Runners
<1> QED BY <1>1, <1>4, <1>5, <1>6, KeptRecords, KeptBoxes, OneRunner

LEMMA ClaimRefusedStep ==
    ASSUME InductiveInvariant, NEW d \in Deployments, ClaimRefused(d) PROVE InductiveInvariant'
<1>1. OtherTypes /\ UNCHANGED <<rec, box, starts>> /\ runner[d].pc # "idle"
  BY KeptTypesOfRest DEF ClaimRefused, OtherTypes, Claiming
<1> QED BY <1>1, KeptBoxes, LeaveStep, ThrowStep DEF ClaimRefused

LEMMA GivesUpStep ==
    ASSUME InductiveInvariant, NEW d \in Deployments, GivesUp(d) PROVE InductiveInvariant'
<1>1. OtherTypes /\ UNCHANGED <<rec, box, starts>> /\ runner[d].pc # "idle"
  BY KeptTypesOfRest DEF GivesUp, OtherTypes, Claiming
<1> QED BY <1>1, KeptBoxes, LeaveStep, ThrowStep DEF GivesUp

LEMMA SettlePhaseStep ==
    ASSUME InductiveInvariant, NEW d \in Deployments, SettlePhase(d) PROVE InductiveInvariant'
<1>1. box' \in [Box -> Container] /\ \A b \in Box : BoxMove(b)
  BY RemovedBoxes DEF SettlePhase
<1>2. OtherTypes
  BY <1>1, KeptTypesOfRest DEF SettlePhase, OtherTypes
<1> QED BY <1>1, <1>2, AfterPhaseStep DEF SettlePhase

LEMMA SweepOthersStep ==
    ASSUME InductiveInvariant, NEW d \in Deployments, SweepOthers(d) PROVE InductiveInvariant'
<1>1. box' \in [Box -> Container] /\ \A b \in Box : BoxMove(b)
  BY RemovedBoxes DEF SweepOthers
<1>2. OtherTypes
  BY <1>1, KeptTypesOfRest DEF SweepOthers, OtherTypes
<1>3. runner[d].pc = "sweep" /\ starts[BoxOf(d)] = 0
  BY DEF SweepOthers, InductiveInvariant, Fresh
<1> QED BY <1>1, <1>2, <1>3, GotoStep DEF SweepOthers, Pc, Claimed, Early

LEMMA ClaimedBox ==
    ASSUME InductiveInvariant, NEW d \in Deployments, runner[d].pc \in Claimed
    PROVE  /\ BoxOf(d) \in Box
           /\ BoxOf(d)[3] <= rec[JobOf(BoxOf(d))].attempt
<1>1. runner[d] \in Runner
  BY KeptTypesOfRest
<1>2. runner[d].phase \in Phase /\ runner[d].attempt \in 0 .. MaxAttempt
  BY <1>1 DEF Runner
<1>3. runner[d].attempt > 0
  BY DEF InductiveInvariant, Runners
<1>4. runner[d].attempt \in 1 .. MaxAttempt
  BY <1>2, <1>3
<1> QED BY <1>2, <1>4, Indices DEF BoxOf, JobOf, InductiveInvariant, Runners

LEMMA CreateBoxStep ==
    ASSUME InductiveInvariant, NEW d \in Deployments, CreateBox(d) PROVE InductiveInvariant'
<1> DEFINE b == BoxOf(d)
           left == Without(SettledAttempts(d, runner[d].phase))
           c == [Absent EXCEPT !.state = "created"]
<1>1. runner[d].pc = "create" /\ b \in Box /\ starts[b] = 0
  BY ClaimedBox DEF CreateBox, Claimed, InductiveInvariant, Fresh
<1>2. c \in Container /\ c.state = "created" /\ Absent \in Container /\ Absent.state = "missing"
  BY DEF Absent, Container
<1>3. left \in [Box -> Container] /\ \A x \in Box : left[x] = box[x] \/ left[x] = Absent
  BY <1>2, KeptTypesOfRest DEF Without
<1>4. box' = [left EXCEPT ![b] = c]
  BY DEF CreateBox
<1> HIDE DEF left, c
<1>5. box' \in [Box -> Container] /\ \A x \in Box : BoxMove(x)
  BY <1>1, <1>2, <1>3, <1>4 DEF BoxMove, InductiveInvariant, Containers
<1>6. OtherTypes
  BY <1>5, KeptTypesOfRest DEF CreateBox, OtherTypes
<1> QED BY <1>1, <1>5, <1>6, GotoStep DEF CreateBox, Pc, Claimed, Early

LEMMA StartFailsStep ==
    ASSUME InductiveInvariant, NEW d \in Deployments, StartFails(d) PROVE InductiveInvariant'
<1>1. /\ runner[d].pc \in Claimed /\ UNCHANGED <<work, rec, box, late, active, starts>>
      /\ faults' \in 0 .. MaxFaults
  BY KeptTypesOfRest DEF StartFails, Claimed
<1>2. OtherTypes
  BY <1>1, KeptTypesOfRest DEF OtherTypes
<1>3. PICK policy \in Policy : ReportOf(d, "failed", policy)
  BY DEF StartFails, Policy
<1> QED BY <1>1, <1>2, <1>3, KeptBoxes, ReportOfStep DEF Outcome

LEMMA ResumeAttemptStep ==
    ASSUME InductiveInvariant, NEW d \in Deployments, ResumeAttempt(d) PROVE InductiveInvariant'
<1>1. /\ runner[d].pc = "resume"
      /\ UNCHANGED <<work, rec, box, late, active, starts, faults>>
  BY DEF ResumeAttempt
<1>2. OtherTypes
  BY <1>1, KeptTypesOfRest DEF OtherTypes
<1>3. BoxOf(d) \in Box
  BY <1>1, ClaimedBox DEF Claimed
<1>4. CASE box[BoxOf(d)].state = "created" /\ Goto(d, "start")
  <2>1. starts[BoxOf(d)] = 0
    BY <1>3, <1>4 DEF InductiveInvariant, Containers
  <2> QED BY <1>1, <1>2, <1>4, <2>1, KeptBoxes, GotoStep DEF Pc, Claimed, Early
<1>5. CASE Goto(d, "await")
  BY <1>1, <1>2, <1>5, KeptBoxes, GotoStep DEF Pc, Claimed, Early
<1> QED BY <1>4, <1>5 DEF ResumeAttempt

LEMMA Policies ==
    ASSUME NEW p \in Phase, NEW outcome PROVE Consequences(p, outcome) \subseteq Policy
BY DEF Consequences, Policy

LEMMA AwaitExitStep ==
    ASSUME InductiveInvariant, NEW d \in Deployments, AwaitExit(d) PROVE InductiveInvariant'
<1> DEFINE c == box[BoxOf(d)]
           outcome == IF c.state = "exited" THEN ClassifyExit(c) ELSE "outcome_unknown"
<1>1. /\ runner[d].pc \in Claimed
      /\ UNCHANGED <<work, rec, box, late, active, starts, faults>>
      /\ runner[d].phase \in Phase
  BY KeptTypesOfRest DEF AwaitExit, Claimed, Runner
<1>2. OtherTypes
  BY <1>1, KeptTypesOfRest DEF OtherTypes
<1>3. outcome \in Outcome
  BY DEF ClassifyExit, Outcome
<1>4. PICK policy \in Policy : ReportOf(d, outcome, policy)
  BY <1>1, Policies DEF AwaitExit
<1> HIDE DEF outcome
<1> QED BY <1>1, <1>2, <1>3, <1>4, KeptBoxes, ReportOfStep

LEMMA StopAtDeadlineStep ==
    ASSUME InductiveInvariant, NEW d \in Deployments, StopAtDeadline(d)
    PROVE  InductiveInvariant'
<1>1. /\ runner[d].pc = "await" /\ runner[d].phase \in Phase
      /\ UNCHANGED <<work, rec, late, active, starts, faults>>
      /\ box[BoxOf(d)].state = "running"
  BY KeptTypesOfRest DEF StopAtDeadline, Runner
<1>2. box' \in [Box -> Container] /\ \A b \in Box : BoxMove(b)
  <2>1. CASE box' = Stopped({BoxOf(d)})
    <3>1. \A b \in Box : b \in {BoxOf(d)} => box[b].state = "running" BY <1>1
    <3> QED BY <2>1, <3>1, StoppedBoxes
  <2>2. CASE box' = box BY <2>2, KeptBoxes, KeptTypesOfRest
  <2> QED BY <2>1, <2>2 DEF StopAtDeadline
<1>3. OtherTypes
  BY <1>1, <1>2, KeptTypesOfRest DEF OtherTypes
<1>4. PICK outcome \in Outcome, policy \in Policy : ReportOf(d, outcome, policy)
  BY <1>1, Policies DEF StopAtDeadline, Outcome
<1> QED BY <1>1, <1>2, <1>3, <1>4, ReportOfStep DEF Claimed

LEMMA ReportsStep ==
    ASSUME InductiveInvariant, NEW d \in Deployments, Reports(d) PROVE InductiveInvariant'
<1> DEFINE r == runner[d]
<1>1. /\ r.pc = "report" /\ UNCHANGED <<work, box, late, active, starts, faults>>
      /\ LandReport(d, r.phase, r.attempt, r.outcome, r.policy) /\ Goto(d, "discard")
  BY DEF Reports
<1>2. r \in Runner
  BY KeptTypesOfRest
<1>3. r.phase \in Phase /\ r.policy \in Policy /\ r.outcome \in Outcome
  BY <1>1, <1>2 DEF Runner, InductiveInvariant, Runners
<1> HIDE DEF r
<1>4. rec' \in [Job -> Record] /\ \A j \in Job : RecordMove(j)
  BY <1>1, <1>3, ReportEffects
<1>5. /\ runner' \in [Deployments -> Runner] /\ runner'[d].pc = "discard"
      /\ runner'[d].phase = runner[d].phase /\ runner'[d].attempt = runner[d].attempt
      /\ \A o \in Deployments : o # d => runner'[o] = runner[o]
  BY <1>1, GotoEffect DEF InductiveInvariant, Pc
<1>6. TypeOK'
  BY <1>1, <1>4, <1>5, KeptTypesOfRest DEF TypeOK
<1>7. <<d, runner[d].phase>> \in Job
  BY <1>2, <1>3, Indices DEF r
<1>8. /\ rec[<<d, runner[d].phase>>].attempt <= rec'[<<d, runner[d].phase>>].attempt
      /\ rec[<<d, runner[d].phase>>].attempt \in Nat
      /\ rec'[<<d, runner[d].phase>>].attempt \in Nat /\ runner[d].attempt \in Nat
  BY <1>2, <1>4, <1>6, <1>7, AttemptsGrow DEF InductiveInvariant, TypeOK, Record, Runner, r
<1>9. runner[d].attempt > 0 /\ runner[d].attempt <= rec[<<d, runner[d].phase>>].attempt
  BY <1>1 DEF InductiveInvariant, Runners, Claimed, r
<1>10. Ahead(runner'[d]) \subseteq Ahead(runner[d])
  BY <1>1, <1>5 DEF Ahead, r
<1>11. RunnerMove(d)
  BY <1>5, <1>8, <1>9, <1>10 DEF RunnerMove
<1> QED BY <1>1, <1>4, <1>5, <1>6, <1>11, KeptBoxes, OneRunner

LEMMA ReportTimesOutStep ==
    ASSUME InductiveInvariant, NEW d \in Deployments, ReportTimesOut(d) PROVE InductiveInvariant'
<1> DEFINE r == [runner[d] EXCEPT !.retried = TRUE]
<1>0. runner[d] \in Runner /\ runner[d].pc = "report"
  BY KeptTypesOfRest DEF ReportTimesOut
<1>1. /\ runner' = [runner EXCEPT ![d] = r]
      /\ UNCHANGED <<work, rec, box, active, starts>>
  BY DEF ReportTimesOut
<1>2. /\ r \in Runner /\ r.pc = runner[d].pc /\ r.phase = runner[d].phase
      /\ r.attempt = runner[d].attempt /\ r.outcome = runner[d].outcome
  BY <1>0 DEF Runner
<1>3. late' \in SUBSET (Claim \cup Report) /\ faults' \in 0 .. MaxFaults
  <2>1. /\ runner[d].phase \in Phase /\ runner[d].policy \in Policy
        /\ runner[d].attempt \in 0 .. MaxAttempt
    BY <1>0 DEF Runner
  <2>2. runner[d].attempt > 0 /\ runner[d].outcome \in Outcome
    BY <1>0 DEF InductiveInvariant, Runners, Claimed
  <2>3. late' \in SUBSET (Claim \cup Report)
    BY <2>1, <2>2, KeptTypesOfRest DEF ReportTimesOut, Report
  <2> QED BY <2>3, KeptTypesOfRest DEF ReportTimesOut
<1> HIDE DEF r
<1>4. /\ runner' \in [Deployments -> Runner] /\ runner'[d] = r
      /\ \A o \in Deployments : o # d => runner'[o] = runner[o]
  BY <1>1, <1>2, KeptTypesOfRest
<1>5. TypeOK'
  BY <1>1, <1>3, <1>4, KeptTypesOfRest DEF TypeOK
<1>6. RunnerMove(d)
  <2>1. Ahead(r) \subseteq Ahead(runner[d])
    BY <1>2 DEF Ahead
  <2> QED BY <1>0, <1>1, <1>2, <1>4, <2>1 DEF RunnerMove, Claimed, InductiveInvariant, Runners
<1> QED BY <1>1, <1>4, <1>5, <1>6, KeptRecords, KeptBoxes, OneRunner

LEMMA ReportRefusedStep ==
    ASSUME InductiveInvariant, NEW d \in Deployments, ReportRefused(d) PROVE InductiveInvariant'
<1>1. OtherTypes /\ UNCHANGED <<rec, box, starts>> /\ runner[d].pc # "idle"
  BY KeptTypesOfRest DEF ReportRefused, OtherTypes
<1> QED BY <1>1, KeptBoxes, ThrowStep DEF ReportRefused

(* A container is discarded, or Docker refuses and it stays.                *)
LEMMA DiscardedBoxes ==
    ASSUME InductiveInvariant, NEW b,
           \/ box' = Without({b}) /\ UNCHANGED faults
           \/ UNCHANGED box /\ faults < MaxFaults /\ faults' = faults + 1
    PROVE  /\ box' \in [Box -> Container] /\ faults' \in 0 .. MaxFaults
           /\ \A x \in Box : BoxMove(x)
<1>1. CASE box' = Without({b}) /\ UNCHANGED faults
  BY <1>1, RemovedBoxes, KeptTypesOfRest
<1>2. CASE UNCHANGED box /\ faults < MaxFaults /\ faults' = faults + 1
  BY <1>2, KeptBoxes, KeptTypesOfRest
<1> QED BY <1>1, <1>2

LEMMA DiscardBoxStep ==
    ASSUME InductiveInvariant, NEW d \in Deployments, DiscardBox(d) PROVE InductiveInvariant'
<1>1. /\ box' \in [Box -> Container] /\ faults' \in 0 .. MaxFaults
      /\ \A b \in Box : BoxMove(b)
  BY DiscardedBoxes DEF DiscardBox
<1>2. OtherTypes /\ UNCHANGED <<rec, starts>> /\ runner[d].pc # "idle"
  BY <1>1, KeptTypesOfRest DEF DiscardBox, OtherTypes
<1> QED BY <1>1, <1>2, AfterPhaseStep DEF DiscardBox

LEMMA ScrapVerificationStep ==
    ASSUME InductiveInvariant, NEW d \in Deployments, ScrapVerification(d)
    PROVE  InductiveInvariant'
<1>1. /\ box' \in [Box -> Container] /\ faults' \in 0 .. MaxFaults
      /\ \A b \in Box : BoxMove(b)
  BY DiscardedBoxes DEF ScrapVerification
<1>2. OtherTypes /\ UNCHANGED <<rec, starts>> /\ runner[d].pc # "idle"
  BY <1>1, KeptTypesOfRest DEF ScrapVerification, OtherTypes
<1> QED BY <1>1, <1>2, GotoStep DEF ScrapVerification, Pc, Claimed, Early

LEMMA ActivateStep ==
    ASSUME InductiveInvariant, NEW d \in Deployments, Activate(d) PROVE InductiveInvariant'
<1>1. /\ runner[d].pc = "activate" /\ runner[d].phase = PreActivation
      /\ UNCHANGED <<work, rec, box, late, starts, faults>>
      /\ active' \in SUBSET Deployments
  BY KeptTypesOfRest DEF Activate, InductiveInvariant, Runners
<1>2. OtherTypes
  BY <1>1, KeptTypesOfRest DEF OtherTypes
<1>3. CASE Enter(d, "gate", Verification)
  BY <1>1, <1>2, <1>3, KeptBoxes, EnterStep DEF Phase, PreActivation, Verification
<1>4. CASE Goto(d, "complete")
  BY <1>1, <1>2, <1>4, KeptBoxes, GotoStep DEF Pc, Claimed, Early
<1>5. CASE Goto(d, "fail")
  BY <1>1, <1>2, <1>5, KeptBoxes, GotoStep DEF Pc, Claimed, Early
<1> QED BY <1>3, <1>4, <1>5 DEF Activate

LEMMA RollBackStep ==
    ASSUME InductiveInvariant, NEW d \in Deployments, RollBack(d) PROVE InductiveInvariant'
<1>1. /\ runner[d].pc = "rollback"
      /\ UNCHANGED <<work, rec, box, late, starts, faults>>
      /\ active' \in SUBSET Deployments
  BY KeptTypesOfRest DEF RollBack
<1>2. OtherTypes
  BY <1>1, KeptTypesOfRest DEF OtherTypes
<1>3. CASE Goto(d, "complete")
  BY <1>1, <1>2, <1>3, KeptBoxes, GotoStep DEF Pc, Claimed, Early
<1>4. CASE Goto(d, "fail")
  BY <1>1, <1>2, <1>4, KeptBoxes, GotoStep DEF Pc, Claimed, Early
<1> QED BY <1>3, <1>4 DEF RollBack

LEMMA ClosedRecord ==
    ASSUME NEW r \in Record, NEW ending
    PROVE  /\ Closed(r, ending) \in Record
           /\ Closed(r, ending).attempt = r.attempt
           /\ Closed(r, ending).status # "running"
           /\ Closed(r, ending).status = "pending" => r.status = "pending"
BY DEF Closed, Record, Status, Outcome, Policy

(* The records after the terminal report, whichever it is.                 *)
LEMMA ClosedRecords ==
    ASSUME InductiveInvariant, NEW d \in Deployments, NEW ending,
           rec' = [j \in Job |-> IF j[1] = d THEN Closed(rec[j], ending) ELSE rec[j]]
    PROVE  rec' \in [Job -> Record] /\ \A j \in Job : RecordMove(j)
<1>1. \A j \in Job : rec[j] \in Record
  BY KeptTypesOfRest
<1>2. ASSUME NEW j \in Job PROVE rec'[j] \in Record /\ RecordMove(j)
  <2>1. CASE j[1] # d
    <3>1. rec'[j] = rec[j] BY <2>1
    <3> QED BY <1>1, <3>1 DEF RecordMove, InductiveInvariant, Attempts
  <2>2. CASE j[1] = d
    <3> DEFINE c == Closed(rec[j], ending)
    <3>1. rec'[j] = c BY <2>2
    <3>2. /\ c \in Record /\ c.attempt = rec[j].attempt /\ c.status # "running"
          /\ c.status = "pending" => rec[j].status = "pending"
      BY <1>1, ClosedRecord
    <3> HIDE DEF c
    <3> QED BY <3>1, <3>2 DEF RecordMove, InductiveInvariant, Attempts
  <2> QED BY <2>1, <2>2
<1>3. rec' = [j \in Job |-> rec'[j]]
  OBVIOUS
<1> QED BY <1>2, <1>3

LEMMA EndWorkStep ==
    ASSUME InductiveInvariant, NEW d \in Deployments, EndWork(d) PROVE InductiveInvariant'
<1>1. UNCHANGED <<box, late, active, starts, faults>> /\ Leave(d)
  BY DEF EndWork
<1>2. work' \in [Deployments -> WorkStatus]
  BY KeptTypesOfRest DEF EndWork, WorkStatus
<1>3. CASE rec' = rec
  <2>1. OtherTypes
    BY <1>1, <1>2, KeptTypesOfRest DEF OtherTypes
  <2> QED BY <1>1, <1>3, <2>1, KeptBoxes, LeaveStep
<1>4. CASE rec' = [j \in Job |-> IF j[1] = d THEN Closed(rec[j], runner[d].pc) ELSE rec[j]]
  <2>1. rec' \in [Job -> Record] /\ \A j \in Job : RecordMove(j)
    BY <1>4, ClosedRecords
  <2>2. /\ runner' \in [Deployments -> Runner] /\ runner'[d] = NoRunner
        /\ \A o \in Deployments : o # d => runner'[o] = runner[o]
    BY <1>1, LeaveEffect DEF InductiveInvariant
  <2>3. TypeOK'
    BY <1>1, <1>2, <2>1, <2>2, KeptTypesOfRest DEF TypeOK
  <2> QED BY <1>1, <2>1, <2>2, <2>3, IdleRunner, KeptBoxes, OneRunner
<1> QED BY <1>3, <1>4 DEF EndWork

LEMMA EndLostStep ==
    ASSUME InductiveInvariant, NEW d \in Deployments, EndLost(d) PROVE InductiveInvariant'
<1>1. OtherTypes /\ UNCHANGED <<rec, box, starts>>
  BY KeptTypesOfRest DEF EndLost, OtherTypes
<1> QED BY <1>1, KeptBoxes, LeaveStep DEF EndLost

LEMMA AgentCrashStep ==
    ASSUME InductiveInvariant, AgentCrash PROVE InductiveInvariant'
<1>1. /\ UNCHANGED <<work, rec, box, late, active, starts>>
      /\ runner' = [d \in Deployments |-> NoRunner] /\ faults' \in 0 .. MaxFaults
  BY KeptTypesOfRest DEF AgentCrash
<1>2. TypeOK'
  BY <1>1, NoRunnerType, KeptTypesOfRest DEF TypeOK
<1>3. \A d \in Deployments : RunnerMove(d)
  BY <1>1, IdleRunner
<1> QED BY <1>1, <1>2, <1>3, KeptRecords, KeptBoxes, QuietStep

(***************************************************************************)
(* The steps that start a command.  Fresh and Containers say together that *)
(* the container about to be started is one that never ran.                *)
(***************************************************************************)

LEMMA StartedStep ==
    ASSUME InductiveInvariant, OtherTypes, rec' = rec,
           NEW d \in Deployments, runner[d].pc = "start",
           NEW c \in Container, c.state = "running",
           box' = [box EXCEPT ![BoxOf(d)] = c],
           starts' = [starts EXCEPT ![BoxOf(d)] = starts[BoxOf(d)] + 1],
           NEW pc \in {"await", "fail", "scrap", "complete"}, Goto(d, pc)
    PROVE  InductiveInvariant'
<1> DEFINE b == BoxOf(d)
<1>1. /\ b \in Box /\ starts[b] = 0
      /\ b[1] = d /\ b[2] = runner[d].phase /\ b[3] = runner[d].attempt
      /\ b[3] <= rec[JobOf(b)].attempt
  BY ClaimedBox DEF InductiveInvariant, Fresh, Runners, Claimed, BoxOf, JobOf
<1>2. /\ runner' \in [Deployments -> Runner]
      /\ runner'[d].pc = pc
      /\ runner'[d].phase = runner[d].phase
      /\ runner'[d].attempt = runner[d].attempt
      /\ \A o \in Deployments : o # d => runner'[o] = runner[o]
  BY GotoEffect DEF InductiveInvariant, Pc
<1>3. b = BoxOf(d)
  OBVIOUS
<1> HIDE DEF b
<1>4. /\ starts' \in [Box -> Nat] /\ starts'[b] = 1
      /\ \A x \in Box : x # b => starts'[x] = starts[x]
  BY <1>1, <1>3, KeptTypesOfRest
<1>5. /\ box'[b] = c
      /\ \A x \in Box : x # b => box'[x] = box[x]
  BY <1>1, <1>3, KeptTypesOfRest
<1>6. TypeOK'
  BY <1>2, <1>4, KeptTypesOfRest DEF TypeOK, OtherTypes
<1>7. AtMostOncePerAttempt'
  BY <1>4 DEF InductiveInvariant, AtMostOncePerAttempt
<1>8. Containers'
  BY <1>4, <1>5 DEF InductiveInvariant, Containers
<1>9. Attempts'
  <2>1. \A x \in Box : rec[JobOf(x)].attempt \in Nat /\ x[3] \in Nat
    BY Indices, KeptTypesOfRest DEF Record
  <2>2. ASSUME NEW x \in Box, x[3] > rec[JobOf(x)].attempt PROVE starts'[x] = 0
    <3>1. x # b BY <1>1, <2>1, <2>2
    <3> QED BY <1>4, <2>2, <3>1 DEF InductiveInvariant, Attempts
  <2> QED BY <2>2 DEF InductiveInvariant, Attempts
<1>10. Runners'
  <2>1. ASSUME NEW o \in Deployments, o # d
        PROVE  /\ runner'[o].pc \in {"defer", "deferClaim", "build", "activate"}
                    => runner'[o].phase = PreActivation
               /\ runner'[o].pc \in Claimed
                    => /\ runner'[o].attempt > 0
                       /\ runner'[o].attempt <= rec'[<<o, runner'[o].phase>>].attempt
               /\ runner'[o].pc = "report" => runner'[o].outcome \in Outcome
    BY <1>2, <2>1 DEF InductiveInvariant, Runners
  <2>2. /\ runner'[d].attempt > 0
        /\ runner'[d].attempt <= rec'[<<d, runner'[d].phase>>].attempt
    BY <1>2 DEF InductiveInvariant, Runners, Claimed
  <2> QED BY <1>2, <2>1, <2>2 DEF Runners
<1>11. Fresh'
  <2>1. ASSUME NEW o \in Deployments, o # d, runner'[o].pc \in {"sweep", "create", "start"}
        PROVE  starts'[BoxOf(o)'] = 0
    <3>1. BoxOf(o)' = BoxOf(o) /\ runner[o].pc \in {"sweep", "create", "start"}
      BY <1>2, <2>1 DEF BoxOf
    <3>2. BoxOf(o) \in Box
      BY <3>1, ClaimedBox DEF Claimed
    <3>3. BoxOf(o) # b
      BY <1>1, <2>1 DEF BoxOf
    <3> QED BY <1>4, <3>1, <3>2, <3>3 DEF InductiveInvariant, Fresh
  <2> QED BY <1>2, <2>1 DEF Fresh
<1>12. AskedAgain'
  <2> SUFFICES ASSUME NEW o \in Deployments, NEW p \in Ahead(runner'[o]),
                      rec[<<o, p>>].status = "running", rec[<<o, p>>].by = "current"
               PROVE  starts'[<<o, p, rec[<<o, p>>].attempt>>] = 0
    BY DEF AskedAgain
  <2>1. p \in Phase /\ <<o, p>> \in Job
    BY Indices DEF Ahead
  <2>2. p \in Ahead(runner[o]) /\ (o = d => p # runner[d].phase)
    BY <1>2 DEF Ahead
  <2> DEFINE x == <<o, p, rec[<<o, p>>].attempt>>
  <2>3. starts[x] = 0
    BY <2>2 DEF InductiveInvariant, AskedAgain
  <2>4. x # b
    BY <1>1, <2>2
  <2>5. rec[<<o, p>>].attempt \in 1 .. MaxAttempt
    BY <2>1, KeptTypesOfRest DEF InductiveInvariant, Attempts, Record
  <2>6. x \in Box
    BY <2>1, <2>5, Indices
  <2> QED BY <1>4, <2>3, <2>4, <2>6
<1> QED BY <1>6, <1>7, <1>8, <1>9, <1>10, <1>11, <1>12 DEF InductiveInvariant

LEMMA StartBoxStep ==
    ASSUME InductiveInvariant, NEW d \in Deployments, StartBox(d) PROVE InductiveInvariant'
<1> DEFINE c == [Absent EXCEPT !.state = "running"]
<1>1. c \in Container /\ c.state = "running"
  BY DEF Absent, Container
<1>2. /\ BoxOf(d) \in Box /\ starts[BoxOf(d)] = 0
      /\ runner[d].pc = "start"
  BY ClaimedBox DEF StartBox, InductiveInvariant, Fresh, Claimed
<1>3. box[BoxOf(d)].state # "running"
  BY <1>2 DEF InductiveInvariant, Containers
<1>4. /\ box' = [box EXCEPT ![BoxOf(d)] = c]
      /\ starts' = [starts EXCEPT ![BoxOf(d)] = starts[BoxOf(d)] + 1]
      /\ Goto(d, "await")
      /\ UNCHANGED <<work, rec, late, active, faults>>
  BY <1>3 DEF StartBox
<1>5. OtherTypes
  BY <1>1, <1>4, KeptTypesOfRest DEF OtherTypes
<1> HIDE DEF c
<1> QED BY <1>1, <1>2, <1>4, <1>5, StartedStep

LEMMA DockerFailsStep ==
    ASSUME InductiveInvariant, NEW d \in Deployments, DockerFails(d) PROVE InductiveInvariant'
<1>1. /\ UNCHANGED <<work, rec, late, active>> /\ Throw(d) /\ runner[d].pc # "idle"
      /\ faults' \in 0 .. MaxFaults
  BY KeptTypesOfRest DEF DockerFails
<1>2. CASE UNCHANGED <<box, starts>>
  <2>1. OtherTypes
    BY <1>1, <1>2, KeptTypesOfRest DEF OtherTypes
  <2> QED BY <1>1, <1>2, <2>1, KeptBoxes, ThrowStep
<1>3. CASE /\ runner[d].pc = "start" /\ box[BoxOf(d)].state = "created"
           /\ box' = [box EXCEPT ![BoxOf(d)].state = "running"]
           /\ starts' = [starts EXCEPT ![BoxOf(d)] = @ + 1]
  <2> DEFINE c == [box[BoxOf(d)] EXCEPT !.state = "running"]
             pc == IF runner[d].phase = PreActivation THEN "fail" ELSE "scrap"
  <2>1. BoxOf(d) \in Box
    BY <1>3, ClaimedBox DEF Claimed
  <2>2. c \in Container /\ c.state = "running"
    BY <2>1, KeptTypesOfRest DEF Container
  <2>3. pc \in {"await", "fail", "scrap", "complete"} /\ Goto(d, pc)
    BY <1>1, <1>3 DEF Throw
  <2>4. /\ box' = [box EXCEPT ![BoxOf(d)] = c]
        /\ starts' = [starts EXCEPT ![BoxOf(d)] = starts[BoxOf(d)] + 1]
    BY <1>3
  <2> HIDE DEF c, pc
  <2>5. OtherTypes
    BY <1>1, <2>1, <2>2, <2>4, KeptTypesOfRest DEF OtherTypes
  <2> QED BY <1>1, <1>3, <2>2, <2>3, <2>4, <2>5, StartedStep
<1> QED BY <1>2, <1>3 DEF DockerFails

(***************************************************************************)
(* The theorems.                                                           *)
(***************************************************************************)

LEMMA InitInvariant == Init => InductiveInvariant
BY DEF Init, InductiveInvariant, TypeOK, AtMostOncePerAttempt, Containers, Attempts,
       Runners, Fresh, AskedAgain, Ahead, Job, Box, JobOf, Record, Status, Outcome, Policy,
       WorkStatus, Container, Absent, Runner, Pc, NoRunner, Phase, PreActivation,
       Verification, Claimed


LEMMA ProgressStep ==
    ASSUME InductiveInvariant, NEW d \in Deployments, Progress(d) PROVE InductiveInvariant'
<1>1. CASE ReadRunningJobs(d) BY <1>1, ReadRunningJobsStep
<1>2. CASE Build(d) BY <1>2, BuildStep
<1>3. CASE Claims(d) BY <1>3, ClaimsStep
<1>4. CASE ClaimRefused(d) BY <1>4, ClaimRefusedStep
<1>5. CASE GivesUp(d) BY <1>5, GivesUpStep
<1>6. CASE SettlePhase(d) BY <1>6, SettlePhaseStep
<1>7. CASE SweepOthers(d) BY <1>7, SweepOthersStep
<1>8. CASE CreateBox(d) BY <1>8, CreateBoxStep
<1>9. CASE StartBox(d) BY <1>9, StartBoxStep
<1>10. CASE StartFails(d) BY <1>10, StartFailsStep
<1>11. CASE ResumeAttempt(d) BY <1>11, ResumeAttemptStep
<1>12. CASE AwaitExit(d) BY <1>12, AwaitExitStep
<1>13. CASE StopAtDeadline(d) BY <1>13, StopAtDeadlineStep
<1>14. CASE Reports(d) BY <1>14, ReportsStep
<1>15. CASE ReportRefused(d) BY <1>15, ReportRefusedStep
<1>16. CASE DiscardBox(d) BY <1>16, DiscardBoxStep
<1>17. CASE ScrapVerification(d) BY <1>17, ScrapVerificationStep
<1>18. CASE Activate(d) BY <1>18, ActivateStep
<1>19. CASE RollBack(d) BY <1>19, RollBackStep
<1>20. CASE EndWork(d) BY <1>20, EndWorkStep
<1> QED BY <1>1, <1>2, <1>3, <1>4, <1>5, <1>6, <1>7, <1>8, <1>9, <1>10,
           <1>11, <1>12, <1>13, <1>14, <1>15, <1>16, <1>17, <1>18, <1>19, <1>20 DEF Progress

(* Every step of every party keeps the invariant.                          *)
LEMMA NextInvariant == InductiveInvariant /\ [Next]_vars => InductiveInvariant'
<1> SUFFICES ASSUME InductiveInvariant, [Next]_vars PROVE InductiveInvariant'
  OBVIOUS
<1>1. ASSUME NEW d \in Deployments, Mishap(d) PROVE InductiveInvariant'
  BY <1>1, ClaimTimesOutStep, ReportTimesOutStep, DockerFailsStep, EndLostStep DEF Mishap
<1>2. ASSUME NEW d \in Deployments, ControlPlane(d) PROVE InductiveInvariant'
  BY <1>2, LeaseExpiresStep, SupersedeStep, ResolveStep DEF ControlPlane
<1>3. ASSUME NEW d \in Deployments, LeaseWork(d) \/ Progress(d) PROVE InductiveInvariant'
  BY <1>3, LeaseWorkStep, ProgressStep
<1>4. ASSUME NEW b \in Box, Docker(b) PROVE InductiveInvariant'
  BY <1>4, DockerStep
<1>5. ASSUME NEW m \in late, LateClaim(m) \/ LateReport(m) PROVE InductiveInvariant'
  BY <1>5, LateClaimStep, LateReportStep
<1>6. CASE AgentCrash
  BY <1>6, AgentCrashStep
<1>7. CASE UNCHANGED vars
  <2>1. UNCHANGED <<work, rec, runner, box, late, active, starts, faults>>
    BY <1>7 DEF vars
  <2>2. OtherTypes
    BY <2>1, KeptTypesOfRest DEF OtherTypes
  <2> QED BY <2>1, <2>2, KeptTypesOfRest, KeptRecords, KeptBoxes, NoRunnerStep
<1> QED BY <1>1, <1>2, <1>3, <1>4, <1>5, <1>6, <1>7 DEF Next

(* The inductive invariant holds of every state the agent, Docker and the  *)
(* control plane can reach together.                                       *)
THEOREM InvariantHolds == Spec => []InductiveInvariant
BY InitInvariant, NextInvariant, PTL DEF Spec

(* Records, runners, containers and requests keep the shapes the code      *)
(* gives them.                                                             *)
THEOREM TypeCorrect == Spec => []TypeOK
<1>1. InductiveInvariant => TypeOK
  BY DEF InductiveInvariant
<1> QED BY <1>1, InvariantHolds, PTL

(* The one rule of release-phases.ts, for every number of deployments and  *)
(* attempts: Docker starts the command of an attempt at most once, however *)
(* leases, crashes, lost answers and operators interleave.                 *)
THEOREM StartsOnce == Spec => []AtMostOncePerAttempt
<1>1. InductiveInvariant => AtMostOncePerAttempt
  BY DEF InductiveInvariant
<1> QED BY <1>1, InvariantHolds, PTL

(***************************************************************************)
(* A recorded verdict is final: of all the steps that write a record, only *)
(* the operator's resolution takes a verdict back.                         *)
(***************************************************************************)

Firm(j) ==
    rec[j].status \in Outcome /\ rec'[j].status # rec[j].status
      => work[j[1]] = "failed" /\ j[2] = PreActivation /\ rec[j].status # "succeeded"

LEMMA ClaimFirm ==
    ASSUME InductiveInvariant, NEW d \in Deployments, NEW p \in Phase, NEW seen,
           LandClaim(d, p, seen), NEW j \in Job
    PROVE  Firm(j)
BY ClaimEffect DEF Firm, Outcome

LEMMA ReportFirm ==
    ASSUME InductiveInvariant, NEW d \in Deployments, NEW p \in Phase, NEW attempt,
           NEW outcome \in Outcome, NEW policy \in Policy,
           LandReport(d, p, attempt, outcome, policy), NEW j \in Job
    PROVE  Firm(j)
<1> DEFINE k == <<d, p>>
           r == Recorded(rec[k], outcome, policy)
<1>1. k \in Job /\ rec \in [Job -> Record]
  BY Indices, KeptTypesOfRest
<1>2. CASE rec' = rec
  BY <1>2 DEF Firm
<1>3. CASE rec' = [rec EXCEPT ![k] = r] /\ rec[k].status = "running"
  <2> HIDE DEF k, r
  <2>1. j # k => rec'[j] = rec[j]
    BY <1>1, <1>3
  <2> QED BY <2>1, <1>3 DEF Firm, Outcome
<1> QED BY <1>2, <1>3 DEF LandReport, DecideReport

LEMMA FirmStep == ASSUME InductiveInvariant, [Next]_vars, NEW j \in Job PROVE Firm(j)
<1>1. CASE rec' = rec
  BY <1>1 DEF Firm
<1>2. ASSUME NEW m \in late, LateClaim(m) PROVE Firm(j)
  BY <1>2, ClaimFirm, KeptTypesOfRest DEF LateClaim, Claim, Report
<1>3. ASSUME NEW m \in late, LateReport(m) PROVE Firm(j)
  BY <1>3, ReportFirm, KeptTypesOfRest DEF LateReport, Claim, Report
<1>4. ASSUME NEW d \in Deployments, Claims(d) PROVE Firm(j)
  BY <1>4, ClaimFirm, KeptTypesOfRest DEF Claims, Runner
<1>5. ASSUME NEW d \in Deployments, Reports(d) PROVE Firm(j)
  <2>1. runner[d] \in Runner /\ runner[d].outcome \in Outcome
    BY <1>5, KeptTypesOfRest DEF Reports, InductiveInvariant, Runners
  <2> QED BY <1>5, <2>1, ReportFirm DEF Reports, Runner
<1>6. ASSUME NEW d \in Deployments, LeaseWork(d) PROVE Firm(j)
  <2>1. rec[j] \in Record BY KeptTypesOfRest
  <2>2. rec'[j] = rec[j] \/ rec'[j] = [rec[j] EXCEPT !.by = "older"]
    BY <1>6 DEF LeaseWork
  <2> QED BY <2>1, <2>2 DEF Firm, Record
<1>7. ASSUME NEW d \in Deployments, Supersede(d) PROVE Firm(j)
  BY <1>7 DEF Supersede, Firm, Outcome
<1>8. ASSUME NEW d \in Deployments, EndWork(d) PROVE Firm(j)
  <2>1. rec[j] \in Record BY KeptTypesOfRest
  <2>2. rec'[j] = rec[j] \/ rec'[j] = Closed(rec[j], runner[d].pc)
    BY <1>8 DEF EndWork
  <2>3. rec[j].status # "running" => Closed(rec[j], runner[d].pc).status = rec[j].status
    BY <2>1 DEF Closed, Record
  <2> QED BY <2>2, <2>3 DEF Firm, Outcome
<1>9. ASSUME NEW d \in Deployments, NEW resolution, Resolve(d, resolution) PROVE Firm(j)
  <2> DEFINE k == <<d, PreActivation>>
             next == DecideResolution(rec[k].status, resolution)
  <2>1. /\ work[d] = "failed" /\ next # "refused"
        /\ rec' = [rec EXCEPT ![k].status = next]
    BY <1>9 DEF Resolve
  <2>2. rec[k].status # "succeeded"
    BY <2>1 DEF DecideResolution
  <2> HIDE DEF next
  <2>3. j # k => rec'[j] = rec[j]
    BY <2>1, KeptTypesOfRest
  <2> QED BY <2>1, <2>2, <2>3 DEF Firm
<1>10. ASSUME NEW d \in Deployments, Progress(d), ~Claims(d), ~Reports(d), ~EndWork(d)
       PROVE  rec' = rec
  BY <1>10 DEF Progress, ReadRunningJobs, Build, ClaimRefused, GivesUp, SettlePhase,
     SweepOthers, CreateBox, StartBox, StartFails, ResumeAttempt, AwaitExit,
     StopAtDeadline, ReportRefused, DiscardBox, ScrapVerification, Activate, RollBack
<1>11. ASSUME NEW d \in Deployments, Mishap(d) \/ LeaseExpires(d) PROVE rec' = rec
  BY <1>11 DEF Mishap, ClaimTimesOut, ReportTimesOut, DockerFails, EndLost, LeaseExpires
<1>12. ASSUME NEW b \in Box, Docker(b) PROVE rec' = rec
  BY <1>12 DEF Docker, Exits, DeadlinePasses, Vanishes
<1>13. AgentCrash \/ UNCHANGED vars => rec' = rec
  BY DEF AgentCrash, vars
<1>14. ASSUME NEW d \in Deployments,
              LeaseWork(d) \/ Progress(d) \/ Mishap(d) \/ ControlPlane(d)
       PROVE  Firm(j)
  BY <1>1, <1>4, <1>5, <1>6, <1>7, <1>8, <1>9, <1>10, <1>11, <1>14 DEF ControlPlane
<1> QED BY <1>1, <1>2, <1>3, <1>12, <1>13, <1>14 DEF Next

(* No late report, duplicate, resumed lease or terminal report rewrites a  *)
(* recorded verdict; only an operator does, and never a success.           *)
THEOREM VerdictsStand == Spec => VerdictStable
<1>1. InductiveInvariant /\ [Next]_vars
        => [\A j \in Job :
              /\ rec[j].status \in Outcome
              /\ rec'[j].status # rec[j].status
              => /\ work[j[1]] = "failed" /\ j[2] = PreActivation
                 /\ rec[j].status # "succeeded"]_vars
  BY FirmStep DEF Firm
<1> QED BY <1>1, InvariantHolds, PTL DEF Spec, VerdictStable

(***************************************************************************)
(* What a step does to the records: it keeps one, opens its next attempt,  *)
(* settles the attempt that runs, or is the operator's.                    *)
(***************************************************************************)

(* The claims of a pre-activation job that are on their way: what each was *)
(* told still runs.                                                        *)
Asks(d, seen) ==
    \/ /\ runner[d].pc \in Claiming /\ runner[d].phase = PreActivation
       /\ runner[d].seen = seen
    \/ \E m \in late : m.kind = "claim" /\ m.d = d /\ m.p = PreActivation /\ m.seen = seen

Keeps(j) ==
    /\ rec'[j].status = rec[j].status /\ rec'[j].attempt = rec[j].attempt
    /\ \/ rec'[j].policy = rec[j].policy
       \/ rec'[j].policy = "keep" /\ runner'[j[1]] = NoRunner

Opens(j) ==
    /\ rec[j].status = "pending" /\ rec'[j].status = "running"
    /\ rec'[j].attempt = rec[j].attempt + 1 /\ rec'[j].policy = rec[j].policy
    /\ \A k \in Job : k # j => rec'[k] = rec[k]
    /\ work[j[1]] = "leased" /\ UNCHANGED <<box, starts>>
    /\ j[2] = PreActivation =>
         \E seen \in SUBSET Deployments : Asks(j[1], seen) /\ Blockers(j[1], seen) = {}

(* The outcome a report gives: the runner's own, or a late one's.          *)
Reported(j) ==
    LET r == runner[j[1]]
    IN  \/ /\ r.pc = "report" /\ r.phase = j[2] /\ r.attempt = rec[j].attempt
           /\ rec'[j].status = r.outcome /\ rec'[j].policy = r.policy
           /\ runner'[j[1]].pc = "discard"
        \/ /\ runner' = runner
           /\ \E m \in late : /\ m.kind = "report" /\ <<m.d, m.p>> = j
                              /\ m.attempt = rec[j].attempt
                              /\ rec'[j].status = m.outcome /\ rec'[j].policy = m.policy

(* Nobody will report: the work ended or is another deployment's now.      *)
Abandoned(j) ==
    /\ rec'[j].status = "outcome_unknown"
    /\ rec'[j].policy = rec[j].policy \/ rec'[j].policy = "keep"
    /\ \/ runner'[j[1]] = NoRunner
       \/ runner' = runner /\ MaySettle

Settles(j) ==
    /\ rec[j].status = "running" /\ rec'[j].status \in Outcome
    /\ rec'[j].attempt = rec[j].attempt
    /\ \/ Reported(j) /\ UNCHANGED <<work, box, starts>>
       \/ Abandoned(j)

Resolves(j) ==
    /\ j[2] = PreActivation /\ work[j[1]] = "failed" /\ MaySettle
    /\ UNCHANGED <<runner, late, box, starts>>
    /\ rec[j].status \in Outcome /\ rec'[j].status \in {"pending", "succeeded"}
    /\ rec'[j].attempt = rec[j].attempt /\ rec'[j].policy = rec[j].policy

RecordStep(j) == Keeps(j) \/ Opens(j) \/ Settles(j) \/ Resolves(j)

LEMMA ClaimRecords ==
    ASSUME InductiveInvariant, NEW d \in Deployments, NEW p \in Phase,
           NEW seen \in SUBSET Deployments, LandClaim(d, p, seen),
           p = PreActivation => Asks(d, seen), UNCHANGED <<box, starts>>,
           NEW j \in Job
    PROVE  RecordStep(j)
<1> DEFINE k == <<d, p>>
<1>1. k \in Job /\ rec \in [Job -> Record] /\ k[1] = d /\ k[2] = p
  BY Indices, KeptTypesOfRest
<1>2. CASE rec' = rec
  BY <1>2 DEF RecordStep, Keeps
<1>3. CASE /\ AnswerClaim(d, p, seen) = "run" /\ rec[k].status = "pending"
           /\ rec' = [rec EXCEPT ![k] = Opened(rec[k])]
  <2>1. /\ Opened(rec[k]).status = "running" /\ Opened(rec[k]).policy = rec[k].policy
        /\ Opened(rec[k]).attempt = rec[k].attempt + 1
    BY <1>1 DEF Opened, Record
  <2>2. p = PreActivation => Blockers(d, seen) = {}
    BY <1>3 DEF AnswerClaim
  <2>3. work[d] = "leased" BY DEF LandClaim
  <2> DEFINE o == Opened(rec[k])
  <2> HIDE DEF k, o
  <2>4. rec'[k] = o /\ \A i \in Job : i # k => rec'[i] = rec[i]
    BY <1>1, <1>3 DEF o
  <2>5. CASE j # k
    BY <2>4, <2>5 DEF RecordStep, Keeps
  <2>6. CASE j = k
    <3>1. Opens(k)
      BY <1>1, <1>3, <2>1, <2>2, <2>3, <2>4 DEF Opens, o
    <3> QED BY <2>6, <3>1 DEF RecordStep
  <2> QED BY <2>5, <2>6
<1> QED BY <1>2, <1>3 DEF LandClaim

LEMMA ReportRecords ==
    ASSUME InductiveInvariant, NEW d \in Deployments, NEW p \in Phase, NEW attempt,
           NEW outcome \in Outcome, NEW policy \in Policy,
           LandReport(d, p, attempt, outcome, policy), NEW j \in Job
    PROVE  \/ rec'[j] = rec[j]
           \/ /\ j = <<d, p>> /\ rec[j].status = "running" /\ attempt = rec[j].attempt
              /\ rec'[j].status = outcome /\ rec'[j].policy = policy
              /\ rec'[j].attempt = rec[j].attempt
<1> DEFINE k == <<d, p>>
           r == Recorded(rec[k], outcome, policy)
<1>1. k \in Job /\ rec \in [Job -> Record]
  BY Indices, KeptTypesOfRest
<1>2. CASE rec' = rec
  BY <1>2
<1>3. CASE rec' = [rec EXCEPT ![k] = r] /\ rec[k].status = "running" /\ attempt = rec[k].attempt
  <2>1. r.status = outcome /\ r.policy = policy /\ r.attempt = rec[k].attempt
    BY <1>1 DEF Recorded, Record
  <2> HIDE DEF k, r
  <2>2. rec'[k] = r /\ \A i \in Job : i # k => rec'[i] = rec[i]
    BY <1>1, <1>3
  <2> QED BY <1>3, <2>1, <2>2 DEF k
<1> QED BY <1>2, <1>3 DEF LandReport, DecideReport

LEMMA RecordSteps ==
    ASSUME InductiveInvariant, [Next]_vars, NEW j \in Job PROVE RecordStep(j)
<1>0. rec[j] \in Record /\ j[1] \in Deployments
  BY KeptTypesOfRest, Indices
<1>1. CASE rec' = rec
  BY <1>1 DEF RecordStep, Keeps
<1>2. ASSUME NEW m \in late, LateClaim(m) PROVE RecordStep(j)
  <2>1. m.d \in Deployments /\ m.p \in Phase /\ m.seen \in SUBSET Deployments
    BY <1>2, KeptTypesOfRest DEF LateClaim, Claim, Report
  <2>2. m.p = PreActivation => Asks(m.d, m.seen)
    BY <1>2 DEF LateClaim, Asks
  <2> QED BY <1>2, <2>1, <2>2, ClaimRecords DEF LateClaim
<1>3. ASSUME NEW m \in late, LateReport(m) PROVE RecordStep(j)
  <2>1. /\ m.d \in Deployments /\ m.p \in Phase
        /\ m.outcome \in Outcome /\ m.policy \in Policy
    BY <1>3, KeptTypesOfRest DEF LateReport, Claim, Report
  <2>2. /\ LandReport(m.d, m.p, m.attempt, m.outcome, m.policy) /\ m.kind = "report"
        /\ UNCHANGED <<work, runner, box, starts>>
    BY <1>3 DEF LateReport
  <2>3. CASE rec'[j] = rec[j]
    BY <2>3 DEF RecordStep, Keeps
  <2>4. CASE /\ j = <<m.d, m.p>> /\ rec[j].status = "running" /\ m.attempt = rec[j].attempt
             /\ rec'[j].status = m.outcome /\ rec'[j].policy = m.policy
             /\ rec'[j].attempt = rec[j].attempt
    <3>1. Reported(j)
      BY <2>2, <2>4 DEF Reported
    <3> QED BY <2>1, <2>2, <2>4, <3>1 DEF RecordStep, Settles
  <2>5. \/ rec'[j] = rec[j]
        \/ /\ j = <<m.d, m.p>> /\ rec[j].status = "running" /\ m.attempt = rec[j].attempt
           /\ rec'[j].status = m.outcome /\ rec'[j].policy = m.policy
           /\ rec'[j].attempt = rec[j].attempt
    BY <2>1, <2>2, ReportRecords
  <2> QED BY <2>3, <2>4, <2>5
<1>4. ASSUME NEW d \in Deployments, Claims(d) PROVE RecordStep(j)
  <2>1. runner[d] \in Runner /\ runner[d].phase \in Phase /\ runner[d].seen \in SUBSET Deployments
    BY KeptTypesOfRest DEF Runner
  <2>2. /\ runner[d].pc \in Claiming /\ LandClaim(d, runner[d].phase, runner[d].seen)
        /\ UNCHANGED <<box, starts>>
    BY <1>4 DEF Claims
  <2>3. runner[d].phase = PreActivation => Asks(d, runner[d].seen)
    BY <2>2 DEF Asks
  <2> QED BY <2>1, <2>2, <2>3, ClaimRecords
<1>5. ASSUME NEW d \in Deployments, Reports(d) PROVE RecordStep(j)
  <2> DEFINE r == runner[d]
  <2>1. /\ r \in Runner /\ r.pc = "report" /\ r.outcome \in Outcome
        /\ r.phase \in Phase /\ r.policy \in Policy
    BY <1>5, KeptTypesOfRest DEF Reports, InductiveInvariant, Runners, Runner
  <2>2. /\ LandReport(d, r.phase, r.attempt, r.outcome, r.policy)
        /\ UNCHANGED <<work, box, starts>> /\ runner'[d].pc = "discard"
    <3>1. Goto(d, "discard") BY <1>5 DEF Reports
    <3>2. runner'[d].pc = "discard"
      BY <3>1, GotoEffect DEF InductiveInvariant, Pc
    <3> QED BY <1>5, <3>2 DEF Reports
  <2>3. CASE rec'[j] = rec[j]
    BY <2>3 DEF RecordStep, Keeps
  <2>4. CASE /\ j = <<d, r.phase>> /\ rec[j].status = "running" /\ r.attempt = rec[j].attempt
             /\ rec'[j].status = r.outcome /\ rec'[j].policy = r.policy
             /\ rec'[j].attempt = rec[j].attempt
    <3>1. Reported(j)
      BY <2>1, <2>2, <2>4 DEF Reported
    <3> QED BY <2>1, <2>2, <2>4, <3>1 DEF RecordStep, Settles
  <2>5. \/ rec'[j] = rec[j]
        \/ /\ j = <<d, r.phase>> /\ rec[j].status = "running" /\ r.attempt = rec[j].attempt
           /\ rec'[j].status = r.outcome /\ rec'[j].policy = r.policy
           /\ rec'[j].attempt = rec[j].attempt
    <3> HIDE DEF r
    <3> QED BY <2>1, <2>2, ReportRecords
  <2> QED BY <2>3, <2>4, <2>5
<1>6. ASSUME NEW d \in Deployments, LeaseWork(d) PROVE RecordStep(j)
  <2>2. rec'[j] = rec[j] \/ rec'[j] = [rec[j] EXCEPT !.by = "older"]
    BY <1>6 DEF LeaseWork
  <2> QED BY <1>0, <2>2 DEF RecordStep, Keeps, Record
<1>7. ASSUME NEW d \in Deployments, Supersede(d) PROVE RecordStep(j)
  <2>1. MaySettle /\ runner' = runner
    BY <1>7 DEF Supersede
  <2>2. \/ rec'[j] = rec[j]
        \/ /\ rec'[j] = [rec[j] EXCEPT !.status = "outcome_unknown"]
           /\ rec[j].status = "running"
    BY <1>7 DEF Supersede
  <2> QED BY <1>0, <2>1, <2>2 DEF RecordStep, Keeps, Settles, Abandoned, Record, Outcome
<1>8. ASSUME NEW d \in Deployments, EndWork(d) PROVE RecordStep(j)
  <2>1. runner'[d] = NoRunner
    BY <1>8, LeaveEffect DEF EndWork, InductiveInvariant
  <2>2. \/ rec'[j] = rec[j]
        \/ rec'[j] = Closed(rec[j], runner[d].pc) /\ j[1] = d
    BY <1>8 DEF EndWork
  <2>3. LET c == Closed(rec[j], runner[d].pc)
        IN  /\ c.attempt = rec[j].attempt
            /\ c.policy = rec[j].policy \/ c.policy = "keep"
            /\ c.status = IF rec[j].status = "running" THEN "outcome_unknown" ELSE rec[j].status
    BY <1>0 DEF Closed, Record
  <2> QED BY <1>0, <2>1, <2>2, <2>3 DEF RecordStep, Keeps, Settles, Abandoned, Outcome
<1>9. ASSUME NEW d \in Deployments, NEW resolution, Resolve(d, resolution) PROVE RecordStep(j)
  <2> DEFINE k == <<d, PreActivation>>
             next == DecideResolution(rec[k].status, resolution)
  <2>1. /\ work[d] = "failed" /\ next # "refused" /\ MaySettle
        /\ rec' = [rec EXCEPT ![k].status = next]
        /\ UNCHANGED <<runner, late, box, starts>>
    BY <1>9 DEF Resolve
  <2>2. rec[k].status \in Outcome /\ next \in {"pending", "succeeded"}
    BY <2>1 DEF DecideResolution, Outcome
  <2>3. k[1] = d /\ k[2] = PreActivation
    OBVIOUS
  <2> HIDE DEF next
  <2>4. CASE j # k
    <3>1. rec'[j] = rec[j] BY <2>1, <2>4, KeptTypesOfRest
    <3> QED BY <3>1 DEF RecordStep, Keeps
  <2>5. CASE j = k
    <3>1. rec'[j] = [rec[j] EXCEPT !.status = next]
      BY <2>1, <2>5, KeptTypesOfRest
    <3>2. rec'[j].status = next /\ rec'[j].attempt = rec[j].attempt
          /\ rec'[j].policy = rec[j].policy
      BY <1>0, <3>1 DEF Record
    <3> QED BY <2>1, <2>2, <2>3, <2>5, <3>2 DEF RecordStep, Resolves
  <2> QED BY <2>4, <2>5
<1>10. ASSUME NEW d \in Deployments, Progress(d), ~Claims(d), ~Reports(d), ~EndWork(d)
       PROVE  rec' = rec
  BY <1>10 DEF Progress, ReadRunningJobs, Build, ClaimRefused, GivesUp, SettlePhase,
     SweepOthers, CreateBox, StartBox, StartFails, ResumeAttempt, AwaitExit,
     StopAtDeadline, ReportRefused, DiscardBox, ScrapVerification, Activate, RollBack
<1>11. ASSUME NEW d \in Deployments, Mishap(d) \/ LeaseExpires(d) PROVE rec' = rec
  BY <1>11 DEF Mishap, ClaimTimesOut, ReportTimesOut, DockerFails, EndLost, LeaseExpires
<1>12. ASSUME NEW b \in Box, Docker(b) PROVE rec' = rec
  BY <1>12 DEF Docker, Exits, DeadlinePasses, Vanishes
<1>13. AgentCrash \/ UNCHANGED vars => rec' = rec
  BY DEF AgentCrash, vars
<1>14. ASSUME NEW d \in Deployments,
              LeaseWork(d) \/ Progress(d) \/ Mishap(d) \/ ControlPlane(d)
       PROVE  RecordStep(j)
  BY <1>1, <1>4, <1>5, <1>6, <1>7, <1>8, <1>9, <1>10, <1>11, <1>14 DEF ControlPlane
<1> QED BY <1>1, <1>2, <1>3, <1>12, <1>13, <1>14 DEF Next

(***************************************************************************)
(* What a step does to a runner.                                           *)
(***************************************************************************)

BeforeReport == {"sweep", "create", "start", "resume", "await"}

(* What an outcome says of the container c of an attempt whose command was *)
(* started n times.                                                        *)
Bears(c, n, p, outcome) ==
    /\ outcome \in {"succeeded", "failed", "timed_out"} => c.state # "running"
    /\ outcome = "succeeded" => n > 0
    /\ outcome = "succeeded" /\ p = PreActivation =>
         \/ c.state = "exited" /\ c.ok /\ ~c.overdue
         \/ c.state = "vanished"

IsLeased(d) ==
    LET q == runner[d]
        r == runner'[d]
    IN  /\ q.pc = "idle" /\ r.pc \in {"defer", "build"} /\ r.phase = PreActivation
        /\ r.policy = "none" /\ work'[d] = "leased"
        /\ \A m \in late' : m.d # d

(* It has read which containers run.                                       *)
Reads(d) ==
    LET q == runner[d]
        r == runner'[d]
    IN  /\ q.pc \in {"defer", "gate"} /\ r.pc \in Claiming \cup {"build"}
        /\ r.phase = q.phase /\ r.policy = q.policy /\ r.seen \in SUBSET Deployments
        /\ r.pc = "build" => q.pc = "defer"
        /\ q.phase = PreActivation =>
             \A b \in Box : b[2] = PreActivation /\ box'[b].state = "running" => b[1] \in r.seen

(* It has been told what to do about its phase.                            *)
IsTold(d) ==
    LET q == runner[d]
        r == runner'[d]
        s == rec'[<<d, q.phase>>]
    IN  /\ q.pc = "claim" /\ r.phase = q.phase /\ r.policy = "none" /\ r.attempt = s.attempt
        /\ \/ r.pc \in {"sweep", "resume"} /\ s.status = "running"
           \/ r.pc = "settle" /\ s.status \in Outcome

Concludes(d) ==
    LET q == runner[d]
        r == runner'[d]
    IN  /\ q.pc \in BeforeReport /\ r.pc = "report"
        /\ r.phase = q.phase /\ r.attempt = q.attempt /\ r.outcome \in Outcome
        /\ r.policy = "rollback" => r.phase = Verification /\ r.outcome \in {"failed", "timed_out"}
        /\ UNCHANGED <<rec, late, starts>>
        /\ Bears(box'[BoxOf(d)], starts[BoxOf(d)], q.phase, r.outcome)

(* Its report is recorded, or was before.                                  *)
Accepted(d) ==
    LET q == runner[d]
        j == <<d, q.phase>>
    IN  /\ q.attempt = rec[j].attempt
        /\ \/ rec[j].status = "running" /\ rec'[j].status = q.outcome /\ rec'[j].policy = q.policy
           \/ rec[j].status # "running" /\ rec[j].status = q.outcome /\ rec' = rec

(* It goes on within its phase.                                            *)
GoesOn(d) ==
    LET q == runner[d]
        r == runner'[d]
    IN  /\ q.pc # "idle" /\ r.phase = q.phase /\ r.attempt = q.attempt
        /\ r.outcome = q.outcome /\ r.policy = q.policy
        /\ \/ r.pc = q.pc /\ r.seen = q.seen
           \/ r.pc = "build" /\ q.pc = "deferClaim"
           \/ r.pc \in {"create", "start", "await"} /\ q.pc \in {"sweep", "create", "start", "resume"}
           \/ r.pc = "discard" /\ q.pc = "report" /\ Accepted(d)
           \/ r.pc = "scrap" /\ q.pc \in Claimed /\ q.phase = Verification
           \/ r.pc \in {"fail", "complete"}
           \/ /\ r.pc = "rollback" /\ q.pc \in {"settle", "discard"}
              /\ q.policy = "rollback" /\ q.phase = Verification

EntersPhase(d) ==
    LET q == runner[d]
        r == runner'[d]
    IN  /\ r.policy = "none" /\ q.phase = PreActivation
        /\ \/ r.pc = "gate" /\ r.phase = PreActivation /\ q.pc = "build"
           \/ /\ r.pc = "activate" /\ r.phase = PreActivation
              /\ q.pc \in {"build", "settle", "discard"}
           \/ r.pc = "gate" /\ r.phase = Verification /\ q.pc = "activate"

RunnerStep(d) ==
    \/ runner'[d] = runner[d] \/ runner'[d] = NoRunner
    \/ IsLeased(d) \/ Reads(d) \/ IsTold(d) \/ Concludes(d) \/ GoesOn(d) \/ EntersPhase(d)

LEMMA GotoRuns ==
    ASSUME InductiveInvariant, NEW d \in Deployments, NEW pc \in Pc, Goto(d, pc),
           LET q == runner[d]
           IN  /\ q.pc # "idle"
               /\ \/ pc = "build" /\ q.pc = "deferClaim"
                  \/ pc \in {"create", "start", "await"} /\ q.pc \in {"sweep", "create", "start", "resume"}
                  \/ pc = "discard" /\ q.pc = "report" /\ Accepted(d)
                  \/ pc = "scrap" /\ q.pc \in Claimed /\ q.phase = Verification
                  \/ pc \in {"fail", "complete"}
                  \/ /\ pc = "rollback" /\ q.pc \in {"settle", "discard"}
                     /\ q.policy = "rollback" /\ q.phase = Verification
    PROVE  \A o \in Deployments : RunnerStep(o)
<1>1. /\ runner'[d].pc = pc
      /\ runner'[d].phase = runner[d].phase
      /\ runner'[d].attempt = runner[d].attempt
      /\ runner'[d].outcome = runner[d].outcome
      /\ runner'[d].policy = runner[d].policy
      /\ \A o \in Deployments : o # d => runner'[o] = runner[o]
  BY GotoEffect DEF InductiveInvariant
<1>2. GoesOn(d)
  BY <1>1 DEF GoesOn
<1> QED BY <1>1, <1>2 DEF RunnerStep

LEMMA EnterRuns ==
    ASSUME InductiveInvariant, NEW d \in Deployments, NEW pc \in Pc, NEW p \in Phase,
           Enter(d, pc, p), runner[d].phase = PreActivation,
           \/ pc = "gate" /\ p = PreActivation /\ runner[d].pc = "build"
           \/ /\ pc = "activate" /\ p = PreActivation
              /\ runner[d].pc \in {"build", "settle", "discard"}
           \/ pc = "gate" /\ p = Verification /\ runner[d].pc = "activate"
    PROVE  \A o \in Deployments : RunnerStep(o)
<1>1. /\ runner'[d].pc = pc /\ runner'[d].phase = p /\ runner'[d].policy = "none"
      /\ \A o \in Deployments : o # d => runner'[o] = runner[o]
  BY EnterEffect DEF InductiveInvariant
<1>2. EntersPhase(d)
  BY <1>1 DEF EntersPhase
<1> QED BY <1>1, <1>2 DEF RunnerStep

LEMMA LeaveRuns ==
    ASSUME InductiveInvariant, NEW d \in Deployments, Leave(d)
    PROVE  \A o \in Deployments : RunnerStep(o)
BY LeaveEffect DEF RunnerStep, InductiveInvariant

LEMMA ThrowRuns ==
    ASSUME InductiveInvariant, NEW d \in Deployments, Throw(d), runner[d].pc # "idle"
    PROVE  \A o \in Deployments : RunnerStep(o)
<1>0. runner[d].phase # PreActivation => runner[d].phase = Verification
  BY KeptTypesOfRest DEF Runner, Phase
<1>1. CASE Goto(d, "fail")
  BY <1>1, GotoRuns DEF Pc
<1>2. CASE Goto(d, "complete")
  BY <1>2, GotoRuns DEF Pc
<1>3. CASE /\ Goto(d, "scrap") /\ runner[d].phase # PreActivation
           /\ runner[d].pc \in {"create", "start", "resume", "await", "report"}
  BY <1>0, <1>3, GotoRuns DEF Pc, Claimed
<1> QED BY <1>1, <1>2, <1>3 DEF Throw

LEMMA AfterPhaseRuns ==
    ASSUME InductiveInvariant, NEW d \in Deployments, AfterPhase(d),
           runner[d].pc \in {"settle", "discard"}
    PROVE  \A o \in Deployments : RunnerStep(o)
<1>1. CASE runner[d].phase = PreActivation /\ Enter(d, "activate", PreActivation)
  BY <1>1, EnterRuns DEF Pc, Phase
<1>2. CASE Goto(d, "fail")
  BY <1>2, GotoRuns DEF Pc
<1>3. CASE Goto(d, "complete")
  BY <1>3, GotoRuns DEF Pc
<1>4. CASE /\ Goto(d, "rollback") /\ runner[d].phase = Verification
           /\ runner[d].policy = "rollback"
  BY <1>4, GotoRuns DEF Pc
<1> QED BY <1>1, <1>2, <1>3, <1>4 DEF AfterPhase

LEMMA ReportRuns ==
    ASSUME InductiveInvariant, NEW d \in Deployments, NEW outcome \in Outcome,
           NEW policy \in Consequences(runner[d].phase, outcome) \cup {"keep", "none"},
           ReportOf(d, outcome, policy), runner[d].pc \in BeforeReport,
           UNCHANGED <<rec, late, starts>>,
           Bears(box'[BoxOf(d)], starts[BoxOf(d)], runner[d].phase, outcome)
    PROVE  \A o \in Deployments : RunnerStep(o)
<1>1. runner[d].phase \in Phase
  BY KeptTypesOfRest DEF Runner
<1>2. policy \in Policy
  BY <1>1, Policies DEF Policy
<1>3. /\ runner'[d].pc = "report" /\ runner'[d].outcome = outcome /\ runner'[d].policy = policy
      /\ runner'[d].phase = runner[d].phase /\ runner'[d].attempt = runner[d].attempt
      /\ \A o \in Deployments : o # d => runner'[o] = runner[o]
  BY <1>2, ReportEffect DEF InductiveInvariant
<1>4. policy = "rollback" => runner[d].phase = Verification /\ outcome \in {"failed", "timed_out"}
  BY <1>1 DEF Consequences, Outcome, Phase
<1>5. Concludes(d)
  BY <1>3, <1>4 DEF Concludes
<1> QED BY <1>3, <1>5 DEF RunnerStep

LEMMA ReadRuns ==
    ASSUME InductiveInvariant, NEW d \in Deployments, ReadRunningJobs(d)
    PROVE  \A o \in Deployments : RunnerStep(o)
<1> DEFINE q == runner[d]
           blocking == {b \in Box : /\ box[b].state = "running"
                                    /\ b[1] = d => b[2] = q.phase}
           overdue == {b \in blocking : box[b].overdue}
<1>0. q \in Runner /\ q.pc \in {"defer", "gate"}
  BY KeptTypesOfRest DEF ReadRunningJobs
<1>1. PICK hung \in SUBSET overdue :
        /\ box' = Stopped(overdue \ hung)
        /\ Enquire(d, {b[1] : b \in blocking \ (overdue \ hung)})
  BY DEF ReadRunningJobs
<1> DEFINE stopped == overdue \ hung
           seen == {b[1] : b \in blocking \ stopped}
           pc == CASE q.pc = "gate" -> "claim"
                   [] q.pc = "defer" /\ seen = {} -> "build"
                   [] OTHER -> "deferClaim"
           r == [q EXCEPT !.pc = pc, !.seen = seen]
<1>2. seen \in SUBSET Deployments
  BY Indices
<1>3. ASSUME NEW b \in Box, q.phase = PreActivation, b[2] = PreActivation,
             box'[b].state = "running"
      PROVE  b[1] \in seen
  <2>1. \A x \in Box : [box[x] EXCEPT !.state = "exited"].state = "exited"
    BY KeptTypesOfRest DEF Container
  <2>2. box'[b] = IF b \in stopped THEN [box[b] EXCEPT !.state = "exited"] ELSE box[b]
    BY <1>1 DEF Stopped
  <2>3. b \notin stopped /\ box[b].state = "running"
    BY <1>3, <2>1, <2>2
  <2>4. b \in blocking
    BY <1>3, <2>3
  <2> QED BY <2>3, <2>4
<1>4. runner' = [runner EXCEPT ![d] = r]
  BY <1>1 DEF Enquire
<1>5. pc \in Claiming \cup {"build"} /\ (pc = "build" => q.pc = "defer")
  BY <1>0 DEF Claiming
<1> HIDE DEF pc, seen, stopped, q
<1>6. r.pc = pc /\ r.seen = seen /\ r.phase = q.phase /\ r.policy = q.policy
  BY <1>0 DEF Runner
<1> HIDE DEF r
<1>7. runner'[d] = r /\ \A o \in Deployments : o # d => runner'[o] = runner[o]
  BY <1>4, KeptTypesOfRest
<1>8. Reads(d)
  BY <1>0, <1>2, <1>3, <1>5, <1>6, <1>7 DEF Reads, q
<1> QED BY <1>7, <1>8 DEF RunnerStep

LEMMA BuildRuns ==
    ASSUME InductiveInvariant, NEW d \in Deployments, Build(d)
    PROVE  \A o \in Deployments : RunnerStep(o)
<1>1. runner[d].pc = "build" /\ runner[d].phase = PreActivation
  BY DEF Build, InductiveInvariant, Runners
<1>2. CASE Goto(d, "fail")
  BY <1>1, <1>2, GotoRuns DEF Pc
<1>3. CASE Enter(d, IF PreActivation \in Planned[d] THEN "gate" ELSE "activate", PreActivation)
  <2>1. PICK pc \in {"gate", "activate"} : Enter(d, pc, PreActivation)
    BY <1>3
  <2> QED BY <1>1, <2>1, EnterRuns DEF Phase, Pc
<1> QED BY <1>2, <1>3 DEF Build

LEMMA ClaimRuns ==
    ASSUME InductiveInvariant, NEW d \in Deployments, Claims(d)
    PROVE  \A o \in Deployments : RunnerStep(o)
<1> DEFINE q == runner[d]
           p == q.phase
           j == <<d, p>>
           answer == AnswerClaim(d, p, q.seen)
<1>0. q \in Runner /\ p \in Phase /\ j \in Job /\ q.pc \in Claiming /\ rec[j] \in Record
  BY Indices, KeptTypesOfRest DEF Claims, Runner
<1>1. CASE Leave(d)
  BY <1>1, LeaveRuns
<1>2. CASE Goto(d, "build") /\ q.pc = "deferClaim"
  BY <1>2, GotoRuns DEF Pc
<1>3. CASE answer # "wait" /\ q.pc = "claim"
  <2> DEFINE pc == CASE answer = "run" -> "sweep" [] answer = "resume" -> "resume"
                     [] OTHER -> "settle"
             outcome == CASE answer = "skip" -> "succeeded"
                          [] answer = "halt" -> rec[j].status [] OTHER -> "none"
             r == [NoRunner EXCEPT !.pc = pc, !.phase = p, !.attempt = rec'[j].attempt,
                                   !.outcome = outcome]
  <2>1. runner' = [runner EXCEPT ![d] = r]
    BY <1>3 DEF Claims
  <2>2. LandClaim(d, p, q.seen)
    BY DEF Claims
  <2>3. /\ answer \in {"run", "resume", "skip", "halt"}
        /\ answer = "run" => rec[j].status \in {"pending", "running"}
        /\ answer = "resume" => rec[j].status = "running"
        /\ answer \in {"skip", "halt"} => rec[j].status \in Outcome
    BY <1>0, <1>3 DEF AnswerClaim, DecideClaim, Record, Status, Outcome
  <2> HIDE DEF p, j, answer, q
  <2>4. \/ pc = "sweep" /\ answer = "run"
        \/ pc = "resume" /\ answer = "resume"
        \/ pc = "settle" /\ answer \in {"skip", "halt"}
    BY <2>3
  <2> HIDE DEF pc, outcome
  <2>5. r.pc = pc /\ r.phase = p /\ r.attempt = rec'[j].attempt /\ r.policy = "none"
    BY DEF NoRunner
  <2> HIDE DEF r
  <2>6. runner'[d] = r /\ \A o \in Deployments : o # d => runner'[o] = runner[o]
    BY <2>1, KeptTypesOfRest
  <2>7. /\ answer \in {"run", "resume"} => rec'[j].status = "running"
        /\ answer \in {"skip", "halt"} => rec'[j].status \in Outcome
    <3>1. q.seen \in SUBSET Deployments BY <1>0 DEF Runner
    <3>2. CASE rec[j].status = "pending"
      <4>1. rec' = [rec EXCEPT ![j] = Opened(rec[j])]
        BY <2>2, <2>3, <3>2 DEF LandClaim, answer, j, Outcome
      <4>2. Opened(rec[j]).status = "running"
        BY <1>0 DEF Opened, Record
      <4>3. rec'[j] = Opened(rec[j])
        BY <1>0, <4>1, KeptTypesOfRest
      <4> QED BY <2>3, <3>2, <4>2, <4>3 DEF Outcome
    <3>3. CASE rec[j].status # "pending"
      <4>1. rec' = rec
        BY <2>2, <3>3 DEF LandClaim, j
      <4> QED BY <2>3, <3>3, <4>1
    <3> QED BY <3>2, <3>3
  <2>8. IsTold(d)
    BY <1>3, <2>3, <2>4, <2>5, <2>6, <2>7 DEF IsTold, q, p, j
  <2> QED BY <2>6, <2>8 DEF RunnerStep
<1> QED BY <1>0, <1>1, <1>2, <1>3 DEF Claims, Claiming

LEMMA RetryRuns ==
    ASSUME InductiveInvariant, NEW d \in Deployments, runner[d].pc # "idle",
           runner' = [runner EXCEPT ![d].retried = TRUE]
    PROVE  \A o \in Deployments : RunnerStep(o)
<1> DEFINE r == [runner[d] EXCEPT !.retried = TRUE]
<1>1. runner' = [runner EXCEPT ![d] = r] /\ runner[d] \in Runner
  BY KeptTypesOfRest
<1>2. /\ r.pc = runner[d].pc /\ r.phase = runner[d].phase /\ r.attempt = runner[d].attempt
      /\ r.outcome = runner[d].outcome /\ r.policy = runner[d].policy /\ r.seen = runner[d].seen
  BY <1>1 DEF Runner
<1> HIDE DEF r
<1>3. runner'[d] = r /\ \A o \in Deployments : o # d => runner'[o] = runner[o]
  BY <1>1, KeptTypesOfRest
<1>4. GoesOn(d)
  BY <1>2, <1>3 DEF GoesOn
<1> QED BY <1>3, <1>4 DEF RunnerStep

LEMMA StartFailsRuns ==
    ASSUME InductiveInvariant, NEW d \in Deployments, StartFails(d)
    PROVE  \A o \in Deployments : RunnerStep(o)
<1>1. /\ runner[d].pc \in BeforeReport /\ UNCHANGED <<rec, box, late, starts>>
      /\ box[BoxOf(d)].state # "running"
  BY DEF StartFails, BeforeReport
<1>2. PICK policy \in {"keep", "none"} : ReportOf(d, "failed", policy)
  BY DEF StartFails
<1>3. Bears(box'[BoxOf(d)], starts[BoxOf(d)], runner[d].phase, "failed")
  BY <1>1 DEF Bears
<1> QED BY <1>1, <1>2, <1>3, ReportRuns DEF Outcome

LEMMA AwaitExitRuns ==
    ASSUME InductiveInvariant, NEW d \in Deployments, AwaitExit(d)
    PROVE  \A o \in Deployments : RunnerStep(o)
<1> DEFINE c == box[BoxOf(d)]
           outcome == IF c.state = "exited" THEN ClassifyExit(c) ELSE "outcome_unknown"
<1>1. /\ runner[d].pc \in BeforeReport /\ UNCHANGED <<rec, box, late, starts>>
      /\ BoxOf(d) \in Box
  BY ClaimedBox DEF AwaitExit, BeforeReport, Claimed
<1>2. PICK policy \in Consequences(runner[d].phase, outcome) : ReportOf(d, outcome, policy)
  BY DEF AwaitExit
<1>3. c.state = "exited" => starts[BoxOf(d)] > 0
  BY <1>1 DEF InductiveInvariant, Containers
<1>4. Bears(c, starts[BoxOf(d)], runner[d].phase, outcome)
  BY <1>3 DEF Bears, ClassifyExit
<1>5. outcome \in Outcome
  BY DEF ClassifyExit, Outcome
<1>6. box'[BoxOf(d)] = c
  BY <1>1
<1> HIDE DEF outcome, c
<1> QED BY <1>1, <1>2, <1>4, <1>5, <1>6, ReportRuns

LEMMA StopRuns ==
    ASSUME InductiveInvariant, NEW d \in Deployments, StopAtDeadline(d)
    PROVE  \A o \in Deployments : RunnerStep(o)
<1>1. /\ runner[d].pc \in BeforeReport /\ UNCHANGED <<rec, late, starts>>
      /\ BoxOf(d) \in Box
  BY ClaimedBox DEF StopAtDeadline, BeforeReport, Claimed
<1>2. CASE box' = Stopped({BoxOf(d)}) /\ \E policy \in Consequences(runner[d].phase, "timed_out") :
                                           ReportOf(d, "timed_out", policy)
  <2>1. box'[BoxOf(d)] = [box[BoxOf(d)] EXCEPT !.state = "exited"]
    BY <1>1, <1>2 DEF Stopped
  <2>2. box'[BoxOf(d)].state = "exited"
    BY <1>1, <2>1, KeptTypesOfRest DEF Container
  <2>3. Bears(box'[BoxOf(d)], starts[BoxOf(d)], runner[d].phase, "timed_out")
    BY <2>2 DEF Bears
  <2> QED BY <1>1, <1>2, <2>3, ReportRuns DEF Outcome
<1>3. CASE \E policy \in Consequences(runner[d].phase, "outcome_unknown") :
              ReportOf(d, "outcome_unknown", policy)
  <2>1. Bears(box'[BoxOf(d)], starts[BoxOf(d)], runner[d].phase, "outcome_unknown")
    BY DEF Bears
  <2> QED BY <1>1, <1>3, <2>1, ReportRuns DEF Outcome
<1> QED BY <1>2, <1>3 DEF StopAtDeadline

LEMMA ReportsRuns ==
    ASSUME InductiveInvariant, NEW d \in Deployments, Reports(d)
    PROVE  \A o \in Deployments : RunnerStep(o)
<1> DEFINE q == runner[d]
           j == <<d, q.phase>>
<1>1. /\ q.pc = "report" /\ Goto(d, "discard") /\ q \in Runner
      /\ LandReport(d, q.phase, q.attempt, q.outcome, q.policy)
  BY KeptTypesOfRest DEF Reports
<1>2. j \in Job /\ rec[j] \in Record
  BY <1>1, Indices, KeptTypesOfRest DEF Runner
<1>3. Accepted(d)
  <2> DEFINE r == Recorded(rec[j], q.outcome, q.policy)
  <2>1. r.status = q.outcome /\ r.policy = q.policy
    BY <1>2 DEF Recorded, Record
  <2> HIDE DEF r
  <2>2. \/ /\ q.attempt = rec[j].attempt /\ rec[j].status = "running"
           /\ rec' = [rec EXCEPT ![j] = r]
        \/ /\ q.attempt = rec[j].attempt /\ rec[j].status # "running"
           /\ rec[j].status = q.outcome /\ rec' = rec
    BY <1>1 DEF LandReport, DecideReport, r
  <2> HIDE DEF j
  <2>3. rec' = [rec EXCEPT ![j] = r] => rec'[j] = r
    BY <1>2, KeptTypesOfRest
  <2> QED BY <2>1, <2>2, <2>3 DEF Accepted, j
<1> QED BY <1>1, <1>3, GotoRuns DEF Pc

LEMMA LeaseRuns ==
    ASSUME InductiveInvariant, NEW d \in Deployments, LeaseWork(d)
    PROVE  \A o \in Deployments : RunnerStep(o)
<1>1. PICK pc \in {"defer", "build"} : Enter(d, pc, PreActivation)
  BY DEF LeaseWork
<1>2. /\ runner'[d].pc = pc /\ runner'[d].phase = PreActivation /\ runner'[d].policy = "none"
      /\ \A o \in Deployments : o # d => runner'[o] = runner[o]
  BY <1>1, EnterEffect DEF InductiveInvariant, Pc, Phase
<1>3. work'[d] = "leased" /\ runner[d].pc = "idle" /\ late' = {m \in late : m.d # d}
  BY KeptTypesOfRest DEF LeaseWork
<1>4. IsLeased(d)
  BY <1>2, <1>3 DEF IsLeased
<1> QED BY <1>2, <1>4 DEF RunnerStep

LEMMA RunnerSteps ==
    ASSUME InductiveInvariant, [Next]_vars, NEW o \in Deployments PROVE RunnerStep(o)
<1>0. CASE runner' = runner
  BY <1>0 DEF RunnerStep
<1>1. ASSUME NEW d \in Deployments, Progress(d) PROVE RunnerStep(o)
  <2>1. CASE ReadRunningJobs(d) BY <2>1, ReadRuns
  <2>2. CASE Build(d) BY <2>2, BuildRuns
  <2>3. CASE Claims(d) BY <2>3, ClaimRuns
  <2>4. CASE ClaimRefused(d) \/ GivesUp(d)
    <3>1. runner[d].pc # "idle" BY <2>4 DEF ClaimRefused, GivesUp, Claiming
    <3> QED BY <2>4, <3>1, LeaveRuns, ThrowRuns DEF ClaimRefused, GivesUp
  <2>5. CASE SettlePhase(d) BY <2>5, AfterPhaseRuns DEF SettlePhase
  <2>6. CASE SweepOthers(d) BY <2>6, GotoRuns DEF SweepOthers, Pc
  <2>7. CASE CreateBox(d) BY <2>7, GotoRuns DEF CreateBox, Pc
  <2>8. CASE StartBox(d) BY <2>8, GotoRuns DEF StartBox, Pc
  <2>9. CASE StartFails(d) BY <2>9, StartFailsRuns
  <2>10. CASE ResumeAttempt(d)
    <3>1. PICK pc \in {"start", "await"} : Goto(d, pc) BY <2>10 DEF ResumeAttempt
    <3> QED BY <2>10, <3>1, GotoRuns DEF ResumeAttempt, Pc
  <2>11. CASE AwaitExit(d) BY <2>11, AwaitExitRuns
  <2>12. CASE StopAtDeadline(d) BY <2>12, StopRuns
  <2>13. CASE Reports(d) BY <2>13, ReportsRuns
  <2>14. CASE ReportRefused(d) BY <2>14, ThrowRuns DEF ReportRefused
  <2>15. CASE DiscardBox(d) BY <2>15, AfterPhaseRuns DEF DiscardBox
  <2>16. CASE ScrapVerification(d) BY <2>16, GotoRuns DEF ScrapVerification, Pc
  <2>17. CASE Activate(d)
    <3>1. runner[d].pc = "activate" /\ runner[d].phase = PreActivation
      BY <2>17 DEF Activate, InductiveInvariant, Runners
    <3>2. CASE Enter(d, "gate", Verification)
      BY <3>1, <3>2, EnterRuns DEF Pc, Phase
    <3>3. ASSUME NEW pc \in {"fail", "complete"}, Goto(d, pc) PROVE RunnerStep(o)
      BY <3>1, <3>3, GotoRuns DEF Pc
    <3> QED BY <2>17, <3>2, <3>3 DEF Activate
  <2>18. CASE RollBack(d)
    <3>1. PICK pc \in {"fail", "complete"} : Goto(d, pc) BY <2>18 DEF RollBack
    <3> QED BY <2>18, <3>1, GotoRuns DEF RollBack, Pc
  <2>19. CASE EndWork(d) BY <2>19, LeaveRuns DEF EndWork
  <2> QED BY <1>1, <2>1, <2>2, <2>3, <2>4, <2>5, <2>6, <2>7, <2>8, <2>9, <2>10, <2>11, <2>12,
             <2>13, <2>14, <2>15, <2>16, <2>17, <2>18, <2>19 DEF Progress
<1>2. ASSUME NEW d \in Deployments, Mishap(d) PROVE RunnerStep(o)
  <2>1. CASE ClaimTimesOut(d) BY <2>1, RetryRuns DEF ClaimTimesOut, Claiming
  <2>2. CASE ReportTimesOut(d) BY <2>2, RetryRuns DEF ReportTimesOut
  <2>3. CASE DockerFails(d) BY <2>3, ThrowRuns DEF DockerFails
  <2>4. CASE EndLost(d) BY <2>4, LeaveRuns DEF EndLost
  <2> QED BY <1>2, <2>1, <2>2, <2>3, <2>4 DEF Mishap
<1>3. ASSUME NEW d \in Deployments, LeaseWork(d) PROVE RunnerStep(o)
  BY <1>3, LeaseRuns
<1>4. ASSUME NEW d \in Deployments, ControlPlane(d) PROVE runner' = runner
  BY <1>4 DEF ControlPlane, LeaseExpires, Supersede, Resolve
<1>5. ASSUME NEW b \in Box, Docker(b) PROVE runner' = runner
  BY <1>5 DEF Docker, Exits, DeadlinePasses, Vanishes
<1>6. ASSUME NEW m \in late, LateClaim(m) \/ LateReport(m) PROVE runner' = runner
  BY <1>6 DEF LateClaim, LateReport
<1>7. CASE AgentCrash
  BY <1>7 DEF AgentCrash, RunnerStep
<1>8. UNCHANGED vars => runner' = runner
  BY DEF vars
<1> QED BY <1>0, <1>1, <1>2, <1>3, <1>4, <1>5, <1>6, <1>7, <1>8 DEF Next

(***************************************************************************)
(* What a step does to the work queue, the requests and the containers.    *)
(***************************************************************************)

WorkStep(d) ==
    /\ work'[d] \in {"failed", "succeeded"} => work'[d] = work[d] \/ runner'[d] = NoRunner
    /\ work[d] = "cancelled" => work'[d] = "cancelled"
    /\ work'[d] = "cancelled" =>
         \/ work[d] = "cancelled"
         \/ /\ MaySettle /\ UNCHANGED <<runner, late, box, starts>>
            /\ \A p \in Phase : rec'[<<d, p>>].status # "running"

LEMMA WorkSteps ==
    ASSUME InductiveInvariant, [Next]_vars, NEW o \in Deployments PROVE WorkStep(o)
<1>0. CASE work' = work
  BY <1>0 DEF WorkStep
<1>1. ASSUME NEW d, NEW p, NEW seen, LandClaim(d, p, seen) PROVE WorkStep(o)
  <2>1. work[d] = "leased" /\ (work' = work \/ work' = [work EXCEPT ![d] = "queued"])
    BY <1>1 DEF LandClaim
  <2> QED BY <2>1, KeptTypesOfRest DEF WorkStep
<1>2. ASSUME NEW d \in Deployments, EndWork(d) PROVE WorkStep(o)
  <2>1. runner'[d] = NoRunner
    BY <1>2, LeaveEffect DEF EndWork, InductiveInvariant
  <2> QED BY <1>2, <2>1, KeptTypesOfRest DEF EndWork, WorkStep
<1>3. ASSUME NEW d \in Deployments, LeaseWork(d) \/ LeaseExpires(d) PROVE WorkStep(o)
  BY <1>3, KeptTypesOfRest DEF LeaseWork, LeaseExpires, WorkStep
<1>4. ASSUME NEW d \in Deployments, Supersede(d) PROVE WorkStep(o)
  <2>1. /\ MaySettle /\ UNCHANGED <<runner, late, box, starts>>
        /\ work' = [work EXCEPT ![d] = "cancelled"] /\ work[d] # "cancelled"
    BY <1>4 DEF Supersede
  <2>2. ASSUME NEW p \in Phase PROVE rec'[<<d, p>>].status # "running"
    <3> DEFINE j == <<d, p>>
    <3>1. j \in Job /\ rec[j] \in Record /\ j[1] = d
      BY Indices, KeptTypesOfRest
    <3>2. rec'[j] = IF rec[j].status = "running"
                    THEN [rec[j] EXCEPT !.status = "outcome_unknown"] ELSE rec[j]
      BY <1>4, <3>1 DEF Supersede
    <3> QED BY <3>1, <3>2 DEF Record
  <2> QED BY <2>1, <2>2, KeptTypesOfRest DEF WorkStep
<1>5. ASSUME NEW d \in Deployments, NEW resolution, Resolve(d, resolution) PROVE WorkStep(o)
  BY <1>5, KeptTypesOfRest DEF Resolve, WorkStep
<1>6. ASSUME NEW d \in Deployments, Progress(d), ~Claims(d), ~EndWork(d)
       PROVE  work' = work
  BY <1>6 DEF Progress, ReadRunningJobs, Build, ClaimRefused, GivesUp, SettlePhase,
     SweepOthers, CreateBox, StartBox, StartFails, ResumeAttempt, AwaitExit, Reports,
     StopAtDeadline, ReportRefused, DiscardBox, ScrapVerification, Activate, RollBack
<1>7. ASSUME NEW d \in Deployments, Mishap(d) PROVE work' = work
  BY <1>7 DEF Mishap, ClaimTimesOut, ReportTimesOut, DockerFails, EndLost
<1>8. ASSUME NEW b \in Box, Docker(b) PROVE work' = work
  BY <1>8 DEF Docker, Exits, DeadlinePasses, Vanishes
<1>9. AgentCrash \/ UNCHANGED vars => work' = work
  BY DEF AgentCrash, vars
<1>10. ASSUME NEW m \in late, LateClaim(m) \/ LateReport(m) PROVE WorkStep(o)
  BY <1>0, <1>1, <1>10 DEF LateClaim, LateReport
<1>11. ASSUME NEW d \in Deployments,
              LeaseWork(d) \/ Progress(d) \/ Mishap(d) \/ ControlPlane(d)
       PROVE  WorkStep(o)
  BY <1>0, <1>1, <1>2, <1>3, <1>4, <1>5, <1>6, <1>7, <1>11 DEF ControlPlane, Claims
<1> QED BY <1>0, <1>8, <1>9, <1>10, <1>11 DEF Next

(* A request is added only by the runner that stops waiting for it.        *)
LateStep(m) ==
    LET q == runner[m.d]
        r == runner'[m.d]
    IN  \/ m \in late
        \/ /\ m.kind = "claim" /\ q.pc \in Claiming /\ q.phase = m.p /\ q.seen = m.seen
           /\ UNCHANGED <<work, rec, box, starts>>
        \/ /\ m.kind = "report" /\ q.pc = "report" /\ q.phase = m.p /\ q.attempt = m.attempt
           /\ q.outcome = m.outcome /\ q.policy = m.policy
           /\ r.pc = "report" /\ r.phase = q.phase /\ r.outcome = q.outcome
           /\ r.policy = q.policy /\ r.attempt = q.attempt
           /\ UNCHANGED <<work, rec, box, starts>>

LEMMA LateSteps ==
    ASSUME InductiveInvariant, [Next]_vars, NEW m \in late' PROVE LateStep(m)
<1>0. CASE late' \subseteq late
  BY <1>0 DEF LateStep
<1>1. ASSUME NEW d \in Deployments, ClaimTimesOut(d) PROVE LateStep(m)
  <2> DEFINE x == [kind |-> "claim", d |-> d, p |-> runner[d].phase, seen |-> runner[d].seen]
  <2>1. late' = late \cup {x} /\ UNCHANGED <<work, rec, box, starts>> /\ runner[d].pc \in Claiming
    BY <1>1 DEF ClaimTimesOut
  <2>2. x.kind = "claim" /\ x.d = d /\ x.p = runner[d].phase /\ x.seen = runner[d].seen
    OBVIOUS
  <2> HIDE DEF x
  <2> QED BY <2>1, <2>2 DEF LateStep
<1>2. ASSUME NEW d \in Deployments, ReportTimesOut(d) PROVE LateStep(m)
  <2> DEFINE q == runner[d]
             x == [kind |-> "report", d |-> d, p |-> q.phase, attempt |-> q.attempt,
                   outcome |-> q.outcome, policy |-> q.policy]
             r == [q EXCEPT !.retried = TRUE]
  <2>1. /\ late' = late \cup {x} /\ UNCHANGED <<work, rec, box, starts>> /\ q.pc = "report"
        /\ runner' = [runner EXCEPT ![d] = r] /\ q \in Runner
    BY <1>2, KeptTypesOfRest DEF ReportTimesOut
  <2>2. /\ x.kind = "report" /\ x.d = d /\ x.p = q.phase /\ x.attempt = q.attempt
        /\ x.outcome = q.outcome /\ x.policy = q.policy
    OBVIOUS
  <2>3. /\ r.pc = q.pc /\ r.phase = q.phase /\ r.outcome = q.outcome
        /\ r.policy = q.policy /\ r.attempt = q.attempt
    BY <2>1 DEF Runner
  <2> HIDE DEF x, r
  <2>4. runner'[d] = r
    BY <2>1, KeptTypesOfRest
  <2> QED BY <2>1, <2>2, <2>3, <2>4 DEF LateStep
<1>3. ASSUME NEW d \in Deployments, LeaseWork(d) \/ ControlPlane(d) PROVE late' \subseteq late
  BY <1>3 DEF LeaseWork, ControlPlane, LeaseExpires, Supersede, Resolve
<1>4. ASSUME NEW d \in Deployments, Progress(d) PROVE late' = late
  BY <1>4 DEF Progress, ReadRunningJobs, Build, Claims, ClaimRefused, GivesUp, SettlePhase,
     SweepOthers, CreateBox, StartBox, StartFails, ResumeAttempt, AwaitExit, Reports, EndWork,
     StopAtDeadline, ReportRefused, DiscardBox, ScrapVerification, Activate, RollBack
<1>5. ASSUME NEW d \in Deployments, DockerFails(d) \/ EndLost(d) PROVE late' = late
  BY <1>5 DEF DockerFails, EndLost
<1>6. ASSUME NEW b \in Box, Docker(b) PROVE late' = late
  BY <1>6 DEF Docker, Exits, DeadlinePasses, Vanishes
<1>7. ASSUME NEW x \in late, LateClaim(x) \/ LateReport(x) PROVE late' \subseteq late
  BY <1>7 DEF LateClaim, LateReport
<1>8. AgentCrash \/ UNCHANGED vars => late' = late
  BY DEF AgentCrash, vars
<1>9. ASSUME NEW d \in Deployments,
             LeaseWork(d) \/ Progress(d) \/ Mishap(d) \/ ControlPlane(d)
      PROVE  LateStep(m)
  BY <1>0, <1>1, <1>2, <1>3, <1>4, <1>5, <1>9 DEF Mishap
<1> QED BY <1>0, <1>6, <1>7, <1>8, <1>9 DEF Next

(* The command of the attempt begins.                                      *)
Begins(b) ==
    /\ \E d \in Deployments : /\ runner[d].pc = "start" /\ b = BoxOf(d)
                              /\ runner'[d].pc \in {"await", "fail", "scrap", "complete"}
    /\ starts[b] = 0 /\ starts'[b] = 1
    /\ box[b].state # "running" /\ box'[b].state = "running"
    /\ \A x \in Box : x # b => box'[x] = box[x] /\ starts'[x] = starts[x]
    /\ UNCHANGED <<work, rec, late>>

(* The container goes: with its settled phase, swept by another deployment *)
(* or discarded by its own.                                                *)
Removed(b) ==
    /\ box'[b].state = "missing"
    /\ \E d \in Deployments :
         \/ /\ runner[d].pc \in {"settle", "create"} /\ JobOf(b) = <<d, runner[d].phase>>
            /\ runner[d].pc = "create" => b # BoxOf(d)
            /\ box[b].state \in {"created", "exited"}
         \/ /\ runner[d].pc = "sweep" /\ b[1] # d
            /\ runner[d].phase = Verification => b[2] = Verification
            /\ box[b].state \in {"created", "exited"}
         \/ runner[d].pc \in {"discard", "scrap"} /\ b = BoxOf(d)

Lingers(b) ==
    /\ starts'[b] = starts[b]
    /\ \/ box'[b] = box[b]
       \/ box[b].state = "running" /\ box'[b].state \in {"running", "exited"}
       \/ box[b].state # "missing" /\ box'[b].state = "vanished"
       \/ /\ box[b].state # "running" /\ box'[b].state = "created"
          /\ \E d \in Deployments : runner[d].pc = "create" /\ b = BoxOf(d)
       \/ Removed(b)

BoxStep(b) == Begins(b) \/ Lingers(b)

LEMMA RemovedLinger ==
    ASSUME InductiveInvariant, NEW gone, box' = Without(gone), starts' = starts,
           NEW b \in Box, b \in gone => (box'[b].state = "missing" => Removed(b))
    PROVE  BoxStep(b)
<1>1. Absent.state = "missing"
  BY DEF Absent
<1> QED BY <1>1 DEF Without, BoxStep, Lingers

LEMMA StoppedLinger ==
    ASSUME InductiveInvariant, NEW stopped, box' = Stopped(stopped), starts' = starts,
           \A b \in Box : b \in stopped => box[b].state = "running", NEW b \in Box
    PROVE  BoxStep(b)
<1>1. [box[b] EXCEPT !.state = "exited"].state = "exited"
  BY KeptTypesOfRest DEF Container
<1> QED BY <1>1 DEF Stopped, BoxStep, Lingers

LEMMA StartBegins ==
    ASSUME InductiveInvariant, NEW d \in Deployments, runner[d].pc = "start",
           NEW c, c.state = "running",
           box' = [box EXCEPT ![BoxOf(d)] = c],
           starts' = [starts EXCEPT ![BoxOf(d)] = starts[BoxOf(d)] + 1],
           NEW pc \in {"await", "fail", "scrap", "complete"}, Goto(d, pc),
           UNCHANGED <<work, rec, late>>, NEW b \in Box
    PROVE  BoxStep(b)
<1>1. /\ BoxOf(d) \in Box /\ starts[BoxOf(d)] = 0
  BY ClaimedBox DEF InductiveInvariant, Fresh, Claimed
<1>2. box[BoxOf(d)].state # "running"
  BY <1>1 DEF InductiveInvariant, Containers
<1>3. runner'[d].pc = pc
  BY GotoEffect DEF InductiveInvariant, Pc
<1> DEFINE a == BoxOf(d)
<1>4. a = BoxOf(d)
  OBVIOUS
<1> HIDE DEF a
<1>5. /\ box'[a] = c /\ starts'[a] = 1
      /\ \A x \in Box : x # a => box'[x] = box[x] /\ starts'[x] = starts[x]
  BY <1>1, <1>4, KeptTypesOfRest
<1>6. Begins(a)
  BY <1>1, <1>2, <1>3, <1>4, <1>5 DEF Begins
<1>7. CASE b = a BY <1>6, <1>7 DEF BoxStep
<1>8. CASE b # a BY <1>5, <1>8 DEF BoxStep, Lingers
<1> QED BY <1>7, <1>8

LEMMA BoxSteps ==
    ASSUME InductiveInvariant, [Next]_vars, NEW b \in Box PROVE BoxStep(b)
<1>0. CASE box' = box /\ starts' = starts
  BY <1>0 DEF BoxStep, Lingers
<1>1. ASSUME NEW a \in Box, Docker(a) PROVE BoxStep(b)
  <2>1. starts' = starts BY <1>1 DEF Docker, Exits, DeadlinePasses, Vanishes
  <2>2. /\ box[b] \in Container
        /\ \A ok \in BOOLEAN : [box[b] EXCEPT !.state = "exited", !.ok = ok].state = "exited"
        /\ [box[b] EXCEPT !.overdue = TRUE].state = box[b].state
        /\ [Absent EXCEPT !.state = "vanished"].state = "vanished"
    BY KeptTypesOfRest DEF Container, Absent
  <2>3. CASE b # a
    BY <1>1, <2>1, <2>3, KeptTypesOfRest DEF Docker, Exits, DeadlinePasses, Vanishes, BoxStep, Lingers
  <2>4. ASSUME b = a, Exits(a) PROVE BoxStep(b)
    <3>1. PICK ok \in BOOLEAN : box' = [box EXCEPT ![b] = [box[b] EXCEPT !.state = "exited", !.ok = ok]]
      BY <2>4 DEF Exits
    <3> DEFINE c == [box[b] EXCEPT !.state = "exited", !.ok = ok]
    <3>2. c.state = "exited" /\ box' = [box EXCEPT ![b] = c] BY <2>2, <3>1
    <3> HIDE DEF c
    <3>3. box'[b] = c BY <3>2, KeptTypesOfRest
    <3> QED BY <2>1, <2>4, <3>2, <3>3 DEF Exits, BoxStep, Lingers
  <2>5. ASSUME b = a, DeadlinePasses(a) PROVE BoxStep(b)
    <3> DEFINE c == [box[b] EXCEPT !.overdue = TRUE]
    <3>1. c.state = box[b].state /\ box' = [box EXCEPT ![b] = c]
      BY <2>2, <2>5 DEF DeadlinePasses
    <3> HIDE DEF c
    <3>2. box'[b] = c BY <3>1, KeptTypesOfRest
    <3> QED BY <2>1, <2>5, <3>1, <3>2 DEF DeadlinePasses, BoxStep, Lingers
  <2>6. ASSUME b = a, Vanishes(a) PROVE BoxStep(b)
    <3>1. box'[b] = [Absent EXCEPT !.state = "vanished"]
      BY <2>6, KeptTypesOfRest DEF Vanishes
    <3> QED BY <2>1, <2>2, <2>6, <3>1 DEF Vanishes, BoxStep, Lingers
  <2> QED BY <1>1, <2>3, <2>4, <2>5, <2>6 DEF Docker
<1>2. ASSUME NEW d \in Deployments, ReadRunningJobs(d) PROVE BoxStep(b)
  <2>1. starts' = starts BY <1>2 DEF ReadRunningJobs
  <2>2. PICK stopped \in SUBSET {x \in Box : box[x].state = "running"} : box' = Stopped(stopped)
    BY <1>2 DEF ReadRunningJobs
  <2> QED BY <2>1, <2>2, StoppedLinger
<1>3. ASSUME NEW d \in Deployments, SettlePhase(d) PROVE BoxStep(b)
  <2>1. /\ box' = Without(SettledAttempts(d, runner[d].phase)) /\ starts' = starts
        /\ runner[d].pc = "settle"
    BY <1>3 DEF SettlePhase
  <2>2. b \in SettledAttempts(d, runner[d].phase) => (box'[b].state = "missing" => Removed(b))
    BY <2>1 DEF SettledAttempts, Removed
  <2> QED BY <2>1, <2>2, RemovedLinger
<1>4. ASSUME NEW d \in Deployments, SweepOthers(d) PROVE BoxStep(b)
  <2>1. /\ box' = Without(OthersExited(d, runner[d].phase)) /\ starts' = starts
        /\ runner[d].pc = "sweep"
    BY <1>4 DEF SweepOthers
  <2>2. b \in OthersExited(d, runner[d].phase) => (box'[b].state = "missing" => Removed(b))
    BY <2>1 DEF OthersExited, Removed
  <2> QED BY <2>1, <2>2, RemovedLinger
<1>5. ASSUME NEW d \in Deployments, CreateBox(d) PROVE BoxStep(b)
  <2> DEFINE left == Without(SettledAttempts(d, runner[d].phase))
             c == [Absent EXCEPT !.state = "created"]
             a == BoxOf(d)
  <2>1. /\ runner[d].pc = "create" /\ starts' = starts /\ box[a].state # "running"
        /\ box' = [left EXCEPT ![a] = c]
    BY <1>5 DEF CreateBox
  <2>2. c.state = "created" /\ Absent.state = "missing"
    BY DEF Absent
  <2>3. left[b] = IF b \in SettledAttempts(d, runner[d].phase) THEN Absent ELSE box[b]
    BY DEF Without
  <2>4. box'[b] = IF b = a THEN c ELSE left[b]
    BY <2>1 DEF Without
  <2>5. CASE b = a
    <3> HIDE DEF c
    <3> QED BY <2>1, <2>2, <2>4, <2>5 DEF BoxStep, Lingers
  <2>6. CASE b # a /\ b \in SettledAttempts(d, runner[d].phase)
    BY <2>1, <2>2, <2>3, <2>4, <2>6 DEF BoxStep, Lingers, Removed, SettledAttempts
  <2>7. CASE b # a /\ b \notin SettledAttempts(d, runner[d].phase)
    BY <2>1, <2>3, <2>4, <2>7 DEF BoxStep, Lingers
  <2> QED BY <2>5, <2>6, <2>7
<1>6. ASSUME NEW d \in Deployments, StartBox(d) PROVE BoxStep(b)
  <2> DEFINE c == [Absent EXCEPT !.state = "running"]
  <2>1. c.state = "running"
    BY DEF Absent
  <2>2. runner[d].pc = "start" /\ box[BoxOf(d)].state # "running"
    <3>1. BoxOf(d) \in Box /\ starts[BoxOf(d)] = 0
      BY <1>6, ClaimedBox DEF StartBox, InductiveInvariant, Fresh, Claimed
    <3> QED BY <1>6, <3>1 DEF StartBox, InductiveInvariant, Containers
  <2>3. /\ box' = [box EXCEPT ![BoxOf(d)] = c]
        /\ starts' = [starts EXCEPT ![BoxOf(d)] = starts[BoxOf(d)] + 1]
        /\ Goto(d, "await") /\ UNCHANGED <<work, rec, late>>
    BY <1>6, <2>2 DEF StartBox
  <2> HIDE DEF c
  <2> QED BY <2>1, <2>2, <2>3, StartBegins
<1>7. ASSUME NEW d \in Deployments, DockerFails(d) PROVE BoxStep(b)
  <2>1. CASE UNCHANGED <<box, starts>> BY <1>0, <2>1
  <2>2. CASE /\ runner[d].pc = "start" /\ box[BoxOf(d)].state = "created"
             /\ box' = [box EXCEPT ![BoxOf(d)].state = "running"]
             /\ starts' = [starts EXCEPT ![BoxOf(d)] = @ + 1]
    <3> DEFINE c == [box[BoxOf(d)] EXCEPT !.state = "running"]
    <3>1. c.state = "running"
      <4>1. BoxOf(d) \in Box BY <2>2, ClaimedBox DEF Claimed
      <4> QED BY <4>1, KeptTypesOfRest DEF Container
    <3>2. /\ box' = [box EXCEPT ![BoxOf(d)] = c]
          /\ starts' = [starts EXCEPT ![BoxOf(d)] = starts[BoxOf(d)] + 1]
      BY <2>2
    <3>3. PICK pc \in {"await", "fail", "scrap", "complete"} : Goto(d, pc)
      BY <1>7 DEF DockerFails, Throw
    <3>4. UNCHANGED <<work, rec, late>> BY <1>7 DEF DockerFails
    <3> HIDE DEF c
    <3> QED BY <2>2, <3>1, <3>2, <3>3, <3>4, StartBegins
  <2> QED BY <1>7, <2>1, <2>2 DEF DockerFails
<1>8. ASSUME NEW d \in Deployments, StopAtDeadline(d) PROVE BoxStep(b)
  <2>1. CASE box' = Stopped({BoxOf(d)}) /\ starts' = starts
    <3>1. \A x \in Box : x \in {BoxOf(d)} => box[x].state = "running"
      BY <1>8 DEF StopAtDeadline
    <3> QED BY <2>1, <3>1, StoppedLinger
  <2> QED BY <1>0, <1>8, <2>1 DEF StopAtDeadline
<1>9. ASSUME NEW d \in Deployments, DiscardBox(d) \/ ScrapVerification(d) PROVE BoxStep(b)
  <2>1. starts' = starts /\ runner[d].pc \in {"discard", "scrap"}
    BY <1>9 DEF DiscardBox, ScrapVerification
  <2>2. CASE box' = Without({BoxOf(d)})
    <3>1. b \in {BoxOf(d)} => (box'[b].state = "missing" => Removed(b))
      BY <2>1 DEF Removed
    <3> QED BY <2>1, <2>2, <3>1, RemovedLinger
  <2> QED BY <1>0, <1>9, <2>1, <2>2 DEF DiscardBox, ScrapVerification
<1>10. ASSUME NEW d \in Deployments,
              \/ Build(d) \/ Claims(d) \/ ClaimRefused(d) \/ GivesUp(d) \/ StartFails(d)
              \/ ResumeAttempt(d) \/ AwaitExit(d) \/ Reports(d) \/ ReportRefused(d)
              \/ Activate(d) \/ RollBack(d) \/ EndWork(d)
       PROVE  box' = box /\ starts' = starts
  BY <1>10 DEF Build, Claims, ClaimRefused, GivesUp, StartFails, ResumeAttempt, AwaitExit,
     Reports, ReportRefused, Activate, RollBack, EndWork
<1>11. ASSUME NEW d \in Deployments,
              \/ ClaimTimesOut(d) \/ ReportTimesOut(d) \/ EndLost(d)
              \/ LeaseWork(d) \/ ControlPlane(d)
       PROVE  box' = box /\ starts' = starts
  BY <1>11 DEF ClaimTimesOut, ReportTimesOut, EndLost, LeaseWork, ControlPlane, LeaseExpires,
     Supersede, Resolve
<1>12. ASSUME NEW m \in late, LateClaim(m) \/ LateReport(m) PROVE box' = box /\ starts' = starts
  BY <1>12 DEF LateClaim, LateReport
<1>13. AgentCrash \/ UNCHANGED vars => box' = box /\ starts' = starts
  BY DEF AgentCrash, vars
<1>14. ASSUME NEW d \in Deployments,
              LeaseWork(d) \/ Progress(d) \/ Mishap(d) \/ ControlPlane(d)
       PROVE  BoxStep(b)
  BY <1>0, <1>2, <1>3, <1>4, <1>5, <1>6, <1>7, <1>8, <1>9, <1>10, <1>11, <1>14 DEF Progress, Mishap
<1> QED BY <1>0, <1>1, <1>12, <1>13, <1>14 DEF Next

(***************************************************************************)
(* What a lease keeps true of its runner, its record and its late          *)
(* requests, whenever jobs may be settled.                                 *)
(***************************************************************************)

(* The phases a busy runner has not reported in its lease.                 *)
Unreported(r) ==
    {p \in Phase :
       \/ r.phase # p /\ p = Verification /\ r.pc \notin {"idle", "complete", "fail"}
       \/ /\ r.phase = p
          /\ r.pc \in {"defer", "deferClaim", "build", "gate", "claim", "settle"} \cup BeforeReport}

(* Work that is held has not ended, and ended work leaves nothing running. *)
Held ==
    \A d \in Deployments :
        /\ runner[d].pc # "idle" => work[d] \notin {"failed", "succeeded"}
        /\ work[d] = "cancelled" => \A p \in Phase : rec[<<d, p>>].status # "running"

(* The record of the attempt a runner was handed, as far as it has come.   *)
Handed ==
    \A d \in Deployments :
        LET r == runner[d]
            s == rec[<<d, r.phase>>]
        IN  /\ r.pc \in Claimed => r.attempt = s.attempt /\ s.status # "pending"
            /\ r.pc \in BeforeReport => s.status \in {"running", "outcome_unknown"}
            /\ r.pc \in {"settle", "discard"} => s.status \in Outcome
            /\ r.pc = "scrap" => r.phase = Verification

(* A report that is late comes from a runner that has made it.             *)
LateReports ==
    \A m \in late :
        LET r == runner[m.d]
        IN  m.kind = "report" =>
              /\ m.p \notin Unreported(r)
              /\ m.attempt <= rec[<<m.d, m.p>>].attempt
              /\ m.p = r.phase /\ r.pc = "report" => m.outcome = r.outcome /\ m.policy = r.policy

Definite == {"failed", "timed_out"}

(* A rollback is only ever asked for over a definite failure.              *)
Rollbacks ==
    /\ \A j \in Job : rec[j].policy = "rollback" => j[2] = Verification /\ rec[j].status \in Definite
    /\ \A m \in late : m.kind = "report" /\ m.policy = "rollback" =>
                         m.p = Verification /\ m.outcome \in Definite
    /\ \A d \in Deployments :
         LET r == runner[d]
             s == rec[<<d, Verification>>]
         IN  /\ r.policy = "rollback" =>
                  /\ r.phase = Verification /\ r.outcome \in Definite
                  /\ r.pc \in {"report", "discard", "rollback", "scrap", "complete", "fail"}
                  /\ r.pc \in {"discard", "rollback"} => s.policy = "rollback"
             /\ r.pc = "rollback" => r.policy = "rollback"
             /\ r.phase = Verification /\ r.pc = "report" =>
                  \/ s.status \in {"running", "outcome_unknown"}
                  \/ s.status = r.outcome /\ s.policy = r.policy

LeaseInvariant == Held /\ Handed /\ LateReports /\ Rollbacks

LEMMA HeldStep ==
    ASSUME InductiveInvariant, LeaseInvariant, [Next]_vars PROVE Held'
<1> SUFFICES ASSUME NEW d \in Deployments
             PROVE  /\ runner'[d].pc # "idle" => work'[d] \notin {"failed", "succeeded"}
                    /\ work'[d] = "cancelled" => \A p \in Phase : rec'[<<d, p>>].status # "running"
  BY DEF Held
<1>1. WorkStep(d) /\ RunnerStep(d)
  BY WorkSteps, RunnerSteps
<1>2. runner'[d].pc # "idle" => work'[d] \notin {"failed", "succeeded"}
  BY <1>1 DEF WorkStep, RunnerStep, NoRunner, LeaseInvariant, Held, IsLeased, Reads, IsTold,
     Concludes, GoesOn, EntersPhase, BeforeReport
<1>3. ASSUME work'[d] = "cancelled", work[d] = "cancelled", NEW p \in Phase
      PROVE  rec'[<<d, p>>].status # "running"
  <2> DEFINE j == <<d, p>>
  <2>1. RecordStep(j) /\ j \in Job /\ j[1] = d
    BY RecordSteps, Indices
  <2> QED BY <1>3, <2>1 DEF LeaseInvariant, Held, RecordStep, Keeps, Opens, Settles, Resolves, Outcome
<1> QED BY <1>1, <1>2, <1>3 DEF WorkStep

LEMMA HandedStep ==
    ASSUME InductiveInvariant, LeaseInvariant, [Next]_vars PROVE Handed'
<1> SUFFICES ASSUME NEW d \in Deployments
             PROVE  LET r == runner'[d]
                        s == rec'[<<d, r.phase>>]
                    IN  /\ r.pc \in Claimed => r.attempt = s.attempt /\ s.status # "pending"
                        /\ r.pc \in BeforeReport => s.status \in {"running", "outcome_unknown"}
                        /\ r.pc \in {"settle", "discard"} => s.status \in Outcome
                        /\ r.pc = "scrap" => r.phase = Verification
  BY DEF Handed
<1> DEFINE q == runner[d]
           r == runner'[d]
           j == <<d, q.phase>>
<1>1. RunnerStep(d) /\ q \in Runner /\ j \in Job /\ RecordStep(j) /\ j[1] = d /\ j[2] = q.phase
      /\ rec[j] \in Record
  BY RunnerSteps, RecordSteps, Indices, KeptTypesOfRest DEF Runner
<1>2. CASE r = NoRunner \/ IsLeased(d) \/ Reads(d) \/ EntersPhase(d)
  BY <1>2 DEF NoRunner, IsLeased, Reads, EntersPhase, Claimed, Claiming, BeforeReport
<1>3. CASE IsTold(d)
  BY <1>3 DEF IsTold, BeforeReport, Claimed, Outcome
<1>4. CASE Concludes(d)
  BY <1>4 DEF Concludes, BeforeReport, LeaseInvariant, Handed, Claimed
<1>5. /\ q.pc \in Claimed => q.attempt = rec[j].attempt /\ rec[j].status # "pending"
      /\ q.pc \in BeforeReport => rec[j].status \in {"running", "outcome_unknown"}
      /\ q.pc \in {"settle", "discard"} => rec[j].status \in Outcome
      /\ q.pc = "scrap" => q.phase = Verification
      /\ q.pc # "idle" => work[d] # "failed"
  BY DEF LeaseInvariant, Handed, Held
<1>6. ASSUME r.phase = q.phase, r.attempt = q.attempt, r.pc # "idle", q.pc # "idle",
             r.pc = q.pc \/ GoesOn(d)
      PROVE  /\ r.pc \in Claimed => r.attempt = rec'[j].attempt /\ rec'[j].status # "pending"
             /\ r.pc \in BeforeReport => rec'[j].status \in {"running", "outcome_unknown"}
             /\ r.pc \in {"settle", "discard"} => rec'[j].status \in Outcome
             /\ r.pc = "scrap" => r.phase = Verification
  <2>0. r.pc \in Claimed => q.pc \in Claimed
    BY <1>6 DEF GoesOn, Claimed
  <2>1. r.pc = "scrap" => r.phase = Verification
    BY <1>5, <1>6 DEF GoesOn
  <2>2. q.pc \in Claimed => rec[j].attempt = rec'[j].attempt /\ rec'[j].status # "pending"
    BY <1>1, <1>5, <1>6 DEF RecordStep, Keeps, Opens, Settles, Resolves, Outcome
  <2>3. ASSUME r.pc \in BeforeReport PROVE rec'[j].status \in {"running", "outcome_unknown"}
    <3>1. q.pc \in BeforeReport
      BY <1>6, <2>3 DEF GoesOn, BeforeReport
    <3>2. ~Reported(j)
      <4>1. ASSUME NEW m \in late, m.kind = "report", <<m.d, m.p>> = j PROVE FALSE
        <5>1. m.d = d /\ m.p = q.phase /\ q.phase \in Phase
          BY <1>1, <4>1 DEF Runner
        <5>2. q.phase \in Unreported(q)
          BY <3>1, <5>1 DEF Unreported
        <5> QED BY <4>1, <5>1, <5>2 DEF LeaseInvariant, LateReports
      <4> QED BY <1>1, <3>1, <4>1 DEF Reported, BeforeReport
    <3> QED BY <1>1, <1>5, <1>6, <3>1, <3>2 DEF RecordStep, Keeps, Opens, Settles, Abandoned, Resolves
  <2>4. ASSUME r.pc \in {"settle", "discard"} PROVE rec'[j].status \in Outcome
    <3>1. CASE r.pc = q.pc
      BY <1>1, <1>5, <1>6, <2>4, <3>1 DEF RecordStep, Keeps, Opens, Settles, Resolves, Outcome
    <3>2. CASE r.pc = "discard" /\ q.pc = "report" /\ Accepted(d)
      BY <3>2 DEF Accepted, InductiveInvariant, Runners
    <3> QED BY <1>6, <2>4, <3>1, <3>2 DEF GoesOn, BeforeReport
  <2> QED BY <1>5, <1>6, <2>0, <2>1, <2>2, <2>3, <2>4
<1>7. CASE r = q /\ r.pc # "idle"
  BY <1>6, <1>7
<1>8. CASE GoesOn(d) /\ r.pc # "idle"
  BY <1>6, <1>8 DEF GoesOn
<1>9. CASE r.pc = "idle"
  BY <1>9 DEF Claimed, BeforeReport
<1> QED BY <1>1, <1>2, <1>3, <1>4, <1>7, <1>8, <1>9 DEF RunnerStep

(* A lease only ever gets on with what it has to report.                   *)
LEMMA UnreportedShrinks ==
    ASSUME InductiveInvariant, NEW d \in Deployments, RunnerStep(d), ~IsLeased(d)
    PROVE  Unreported(runner'[d]) \subseteq Unreported(runner[d])
<1> DEFINE q == runner[d]
           r == runner'[d]
<1>0. q \in Runner /\ q.phase \in Phase
      /\ (q.pc \in {"defer", "deferClaim", "build", "activate"} => q.phase = PreActivation)
  BY KeptTypesOfRest DEF Runner, InductiveInvariant, Runners
<1>1. CASE r = q \/ r = NoRunner
  BY <1>1 DEF Unreported, NoRunner, BeforeReport
<1>2. CASE Reads(d) \/ IsTold(d) \/ Concludes(d)
  BY <1>2 DEF Unreported, Reads, IsTold, Concludes, Claiming, BeforeReport
<1>3. CASE EntersPhase(d)
  BY <1>0, <1>3 DEF Unreported, EntersPhase, BeforeReport, Phase, PreActivation, Verification
<1>4. CASE GoesOn(d)
  BY <1>0, <1>4 DEF Unreported, GoesOn, BeforeReport, Claimed
<1> QED BY <1>1, <1>2, <1>3, <1>4 DEF RunnerStep

LEMMA AttemptsNeverFall ==
    ASSUME InductiveInvariant, [Next]_vars, NEW j \in Job
    PROVE  rec[j].attempt <= rec'[j].attempt
<1>1. RecordStep(j) /\ rec[j].attempt \in Nat
  BY RecordSteps, KeptTypesOfRest DEF Record
<1> QED BY <1>1 DEF RecordStep, Keeps, Opens, Settles, Resolves

LEMMA LateReportsStep ==
    ASSUME InductiveInvariant, LeaseInvariant, [Next]_vars PROVE LateReports'
<1> SUFFICES ASSUME NEW m \in late', m.kind = "report"
             PROVE  LET r == runner'[m.d]
                    IN  /\ m.p \notin Unreported(r)
                        /\ m.attempt <= rec'[<<m.d, m.p>>].attempt
                        /\ m.p = r.phase /\ r.pc = "report" => m.outcome = r.outcome /\ m.policy = r.policy
  BY DEF LateReports
<1> DEFINE d == m.d
           q == runner[d]
           r == runner'[d]
           j == <<d, m.p>>
<1>0. InductiveInvariant'
  BY NextInvariant
<1>1. m \in Claim \cup Report /\ m.d \in Deployments /\ m.p \in Phase /\ m.attempt \in Nat
  <2>1. m \in Claim \cup Report BY <1>0 DEF InductiveInvariant, TypeOK
  <2>2. m \in Report BY <2>1 DEF Claim
  <2> QED BY <2>1, <2>2 DEF Report
<1>2. RunnerStep(d) /\ LateStep(m) /\ j \in Job /\ rec[j].attempt \in Nat
      /\ rec'[j].attempt \in Nat /\ rec[j].attempt <= rec'[j].attempt
  BY <1>0, <1>1, RunnerSteps, LateSteps, Indices, AttemptsNeverFall DEF InductiveInvariant, TypeOK, Record
<1>3. CASE m \in late
  <2>1. /\ m.p \notin Unreported(q) /\ m.attempt <= rec[j].attempt
        /\ m.p = q.phase /\ q.pc = "report" => m.outcome = q.outcome /\ m.policy = q.policy
    BY <1>3 DEF LeaseInvariant, LateReports
  <2>2. ~IsLeased(d)
    BY DEF IsLeased
  <2>3. Unreported(r) \subseteq Unreported(q)
    BY <1>1, <1>2, <2>2, UnreportedShrinks
  <2>4. ASSUME m.p = r.phase, r.pc = "report"
        PROVE  m.outcome = r.outcome /\ m.policy = r.policy
    <3>1. ~Concludes(d)
      BY <1>1, <2>1, <2>4 DEF Concludes, Unreported
    <3> QED BY <1>2, <2>1, <2>2, <2>4, <3>1 DEF RunnerStep, NoRunner, Reads, IsTold, GoesOn,
          EntersPhase, Claiming
  <2> QED BY <1>1, <1>2, <2>1, <2>3, <2>4
<1>4. CASE /\ q.pc = "report" /\ q.phase = m.p /\ q.attempt = m.attempt
           /\ q.outcome = m.outcome /\ q.policy = m.policy
           /\ r.pc = "report" /\ r.phase = q.phase /\ r.outcome = q.outcome
           /\ r.policy = q.policy /\ rec' = rec
  <2>1. m.attempt = rec[j].attempt
    BY <1>1, <1>4 DEF LeaseInvariant, Handed, Claimed
  <2>2. m.p \notin Unreported(r)
    BY <1>4 DEF Unreported, BeforeReport
  <2> QED BY <1>2, <1>4, <2>1, <2>2
<1> QED BY <1>2, <1>3, <1>4 DEF LateStep

LEMMA RollbackRecords ==
    ASSUME InductiveInvariant, LeaseInvariant, [Next]_vars, NEW j \in Job,
           rec'[j].policy = "rollback"
    PROVE  j[2] = Verification /\ rec'[j].status \in Definite
<1>1. RecordStep(j) /\ j[1] \in Deployments /\ j[2] \in Phase
  BY RecordSteps, Indices
<1>2. rec[j].policy = "rollback" => j[2] = Verification /\ rec[j].status \in Definite
  BY DEF LeaseInvariant, Rollbacks
<1>3. CASE Reported(j)
  <2>1. CASE runner[j[1]].phase = j[2] /\ rec'[j].status = runner[j[1]].outcome
             /\ rec'[j].policy = runner[j[1]].policy
    BY <1>1, <2>1 DEF LeaseInvariant, Rollbacks
  <2>2. ASSUME NEW m \in late, m.kind = "report", <<m.d, m.p>> = j,
               rec'[j].status = m.outcome, rec'[j].policy = m.policy
        PROVE  j[2] = Verification /\ rec'[j].status \in Definite
    <3>1. m.policy = "rollback" => m.p = Verification /\ m.outcome \in Definite
      BY <2>2 DEF LeaseInvariant, Rollbacks
    <3> QED BY <2>2, <3>1
  <2> QED BY <1>3, <2>1, <2>2 DEF Reported
<1>4. CASE ~Reported(j)
  BY <1>1, <1>2, <1>4, Zenon DEF RecordStep, Keeps, Opens, Settles, Abandoned, Resolves, Definite,
     PreActivation, Verification
<1> QED BY <1>3, <1>4

LEMMA RollbackRequests ==
    ASSUME InductiveInvariant, LeaseInvariant, [Next]_vars, NEW m \in late',
           m.kind = "report", m.policy = "rollback"
    PROVE  m.p = Verification /\ m.outcome \in Definite
<1>1. m.d \in Deployments
  <2>1. InductiveInvariant' BY NextInvariant
  <2>2. m \in Claim \cup Report BY <2>1 DEF InductiveInvariant, TypeOK
  <2> QED BY <2>2 DEF Claim, Report
<1>2. LateStep(m)
  BY LateSteps
<1>3. CASE m \in late
  BY <1>3 DEF LeaseInvariant, Rollbacks
<1>4. CASE /\ m \notin late
           /\ runner[m.d].phase = m.p /\ runner[m.d].outcome = m.outcome
           /\ runner[m.d].policy = m.policy
  BY <1>1, <1>4 DEF LeaseInvariant, Rollbacks
<1> QED BY <1>2, <1>3, <1>4 DEF LateStep

LEMMA RollbackRunners ==
    ASSUME InductiveInvariant, LeaseInvariant, [Next]_vars, NEW d \in Deployments
    PROVE  LET r == runner'[d]
               s == rec'[<<d, Verification>>]
           IN  /\ r.policy = "rollback" =>
                    /\ r.phase = Verification /\ r.outcome \in Definite
                    /\ r.pc \in {"report", "discard", "rollback", "scrap", "complete", "fail"}
                    /\ r.pc \in {"discard", "rollback"} => s.policy = "rollback"
               /\ r.pc = "rollback" => r.policy = "rollback"
               /\ r.phase = Verification /\ r.pc = "report" =>
                    \/ s.status \in {"running", "outcome_unknown"}
                    \/ s.status = r.outcome /\ s.policy = r.policy
<1> DEFINE q == runner[d]
           r == runner'[d]
           j == <<d, Verification>>
<1>1. RunnerStep(d) /\ j \in Job /\ RecordStep(j) /\ j[1] = d /\ j[2] = Verification
  BY RunnerSteps, RecordSteps, Indices DEF Phase
<1>2. /\ q.policy = "rollback" =>
           /\ q.phase = Verification /\ q.outcome \in Definite
           /\ q.pc \in {"report", "discard", "rollback", "scrap", "complete", "fail"}
           /\ q.pc \in {"discard", "rollback"} => rec[j].policy = "rollback"
      /\ q.pc = "rollback" => q.policy = "rollback"
      /\ q.phase = Verification /\ q.pc = "report" =>
           \/ rec[j].status \in {"running", "outcome_unknown"}
           \/ rec[j].status = q.outcome /\ rec[j].policy = q.policy
      /\ rec[j].policy = "rollback" => rec[j].status \in Definite
  BY <1>1 DEF LeaseInvariant, Rollbacks
<1>3. r.policy = "rollback" =>
        /\ r.phase = Verification /\ r.outcome \in Definite
        /\ r.pc \in {"report", "discard", "rollback", "scrap", "complete", "fail"}
  BY <1>1, <1>2 DEF RunnerStep, NoRunner, IsLeased, Reads, IsTold, Concludes, GoesOn, EntersPhase,
     Definite, Claiming
<1>4. r.pc = "rollback" => r.policy = "rollback"
  BY <1>1, <1>2 DEF RunnerStep, NoRunner, IsLeased, Reads, IsTold, Concludes, GoesOn, EntersPhase,
     Claiming
<1>5. ASSUME r.policy = "rollback", r.pc \in {"discard", "rollback"}
      PROVE  rec'[j].policy = "rollback"
  <2>1. CASE q.pc = "report"
    <3>1. Accepted(d) /\ q.policy = "rollback"
      BY <1>1, <1>5, <2>1 DEF RunnerStep, NoRunner, IsLeased, Reads, IsTold, Concludes, GoesOn,
         EntersPhase, Claiming, BeforeReport
    <3> QED BY <1>2, <2>1, <3>1 DEF Accepted, Definite
  <2>2. CASE q.pc # "report"
    <3>1. q.policy = "rollback" /\ q.pc \in {"discard", "rollback"}
      BY <1>1, <1>2, <1>5, <2>2 DEF RunnerStep, NoRunner, IsLeased, Reads, IsTold, Concludes, GoesOn,
         EntersPhase, Claiming, BeforeReport
    <3>2. r # NoRunner
      BY <1>5 DEF NoRunner
    <3> QED BY <1>1, <1>2, <3>1, <3>2 DEF RecordStep, Keeps, Opens, Settles, Resolves, Definite,
           PreActivation, Verification
  <2> QED BY <2>1, <2>2
<1>6. ASSUME r.phase = Verification, r.pc = "report"
      PROVE  \/ rec'[j].status \in {"running", "outcome_unknown"}
             \/ rec'[j].status = r.outcome /\ rec'[j].policy = r.policy
  <2>1. CASE Concludes(d)
    <3>1. q.pc \in BeforeReport /\ q.phase = Verification /\ rec' = rec
      BY <1>6, <2>1 DEF Concludes
    <3> QED BY <3>1 DEF LeaseInvariant, Handed
  <2>2. CASE ~Concludes(d)
    <3>1. q.pc = "report" /\ q.phase = Verification /\ q.outcome = r.outcome /\ q.policy = r.policy
      BY <1>1, <1>6, <2>2 DEF RunnerStep, NoRunner, IsLeased, Reads, IsTold, GoesOn,
         EntersPhase, Claiming, BeforeReport
    <3>2. rec[j].status # "pending"
      BY <3>1 DEF LeaseInvariant, Handed, Claimed
    <3>3. r # NoRunner
      BY <1>6 DEF NoRunner
    <3>4. CASE Reported(j)
      <4>1. PICK m \in late : m.kind = "report" /\ <<m.d, m.p>> = j /\ rec'[j].status = m.outcome
                              /\ rec'[j].policy = m.policy
        BY <1>1, <1>6, <3>4 DEF Reported
      <4>2. m.d = d /\ m.p = Verification
        BY <4>1
      <4> QED BY <3>1, <4>1, <4>2 DEF LeaseInvariant, LateReports
    <3>5. CASE ~Reported(j)
      BY <1>1, <1>2, <3>1, <3>2, <3>3, <3>5 DEF RecordStep, Keeps, Opens, Settles, Abandoned, Resolves,
         PreActivation, Verification
    <3> QED BY <3>4, <3>5
  <2> QED BY <2>1, <2>2
<1> QED BY <1>3, <1>4, <1>5, <1>6

LEMMA RollbacksStep ==
    ASSUME InductiveInvariant, LeaseInvariant, [Next]_vars PROVE Rollbacks'
BY RollbackRecords, RollbackRequests, RollbackRunners DEF Rollbacks

LEMMA LeaseInit == Init => LeaseInvariant
<1> SUFFICES ASSUME Init PROVE LeaseInvariant
  OBVIOUS
<1>1. \A d \in Deployments : runner[d] = NoRunner /\ work[d] = "queued"
  BY DEF Init
<1>2. Held
  BY <1>1 DEF Held, NoRunner
<1>3. Handed
  BY <1>1 DEF Handed, NoRunner, Claimed, BeforeReport
<1>4. late = {} /\ \A j \in Job : rec[j].policy = "none"
  BY DEF Init
<1>5. Rollbacks
  BY <1>1, <1>4 DEF Rollbacks, NoRunner
<1> QED BY <1>2, <1>3, <1>4, <1>5 DEF LeaseInvariant, LateReports

(* What a lease keeps true of its runner, its record and its requests is   *)
(* true of every reachable state.                                          *)
THEOREM LeaseHolds == Spec => []LeaseInvariant
<1>1. InductiveInvariant /\ LeaseInvariant /\ [Next]_vars => LeaseInvariant'
  BY HeldStep, HandedStep, LateReportsStep, RollbacksStep DEF LeaseInvariant
<1> QED BY <1>1, LeaseInit, InvariantHolds, PTL DEF Spec

(***************************************************************************)
(* Traffic leaves a release only over a recorded, definite failure.        *)
(***************************************************************************)

LEMMA ActiveShrinks ==
    ASSUME InductiveInvariant, LeaseInvariant, [Next]_vars, NEW o \in active \ active'
    PROVE  rec[<<o, Verification>>].policy = "rollback"
<1>1. ASSUME NEW d \in Deployments, Build(d) PROVE rec[<<o, Verification>>].policy = "rollback"
  BY <1>1 DEF Build
<1>2. ASSUME NEW d \in Deployments, RollBack(d) PROVE rec[<<o, Verification>>].policy = "rollback"
  BY <1>2 DEF RollBack, LeaseInvariant, Rollbacks
<1>3. ASSUME NEW d \in Deployments, Progress(d), ~Build(d), ~RollBack(d) PROVE active \subseteq active'
  BY <1>3 DEF Progress, ReadRunningJobs, Claims, ClaimRefused, GivesUp, SettlePhase,
     SweepOthers, CreateBox, StartBox, StartFails, ResumeAttempt, AwaitExit, Reports, EndWork,
     StopAtDeadline, ReportRefused, DiscardBox, ScrapVerification, Activate
<1>4. ASSUME NEW d \in Deployments, LeaseWork(d) \/ Mishap(d) \/ ControlPlane(d) PROVE active' = active
  BY <1>4 DEF LeaseWork, Mishap, ClaimTimesOut, ReportTimesOut, DockerFails, EndLost, ControlPlane,
     LeaseExpires, Supersede, Resolve
<1>5. ASSUME NEW b \in Box, Docker(b) PROVE active' = active
  BY <1>5 DEF Docker, Exits, DeadlinePasses, Vanishes
<1>6. ASSUME NEW m \in late, LateClaim(m) \/ LateReport(m) PROVE active' = active
  BY <1>6 DEF LateClaim, LateReport
<1>7. AgentCrash \/ UNCHANGED vars => active' = active
  BY DEF AgentCrash, vars
<1>8. CASE \E d \in Deployments : LeaseWork(d) \/ Progress(d) \/ Mishap(d) \/ ControlPlane(d)
  BY <1>1, <1>2, <1>3, <1>4, <1>8
<1> QED BY <1>5, <1>6, <1>7, <1>8 DEF Next

(* The agent moves traffic off a release only when its verification is     *)
(* recorded as failed or timed out with a rollback, whatever reports were  *)
(* late, repeated or refused before, and whenever jobs are settled.        *)
THEOREM RollbackDeserved == Spec => RollbackOnlyOnFailure
<1>1. ASSUME InductiveInvariant, LeaseInvariant, [Next]_vars, NEW d \in active \ active'
      PROVE  /\ rec[<<d, Verification>>].status \in {"failed", "timed_out"}
             /\ rec[<<d, Verification>>].policy = "rollback"
  <2>1. <<d, Verification>> \in Job
    BY <1>1, Indices, KeptTypesOfRest DEF Phase
  <2> QED BY <1>1, <2>1, ActiveShrinks DEF LeaseInvariant, Rollbacks, Definite
<1>2. InductiveInvariant /\ LeaseInvariant /\ [Next]_vars
        => [\A d \in active \ active' :
              /\ rec[<<d, Verification>>].status \in {"failed", "timed_out"}
              /\ rec[<<d, Verification>>].policy = "rollback"]_vars
  BY <1>1
<1> QED BY <1>2, InvariantHolds, LeaseHolds, PTL DEF Spec, RollbackOnlyOnFailure

(***************************************************************************)
(* Where no job is settled behind a runner's back: one migration at a      *)
(* time, the evidence kept and every reported outcome proved by it.        *)
(***************************************************************************)

Migrating(d) == rec[<<d, PreActivation>>].status = "running"

(* A runner on its way to a container holds the attempt that is running.   *)
Unsettled ==
    \A d \in Deployments :
        runner[d].pc \in {"sweep", "create", "start", "resume"}
          => rec[<<d, runner[d].phase>>].status = "running"

OneRecordRuns == \A d, o \in Deployments : Migrating(d) /\ Migrating(o) => d = o

(* While a migration is recorded as running no other container runs one.   *)
RunsAlone ==
    \A d \in Deployments : \A b \in Box :
        Migrating(d) /\ b[2] = PreActivation /\ box[b].state = "running"
          => b[1] = d /\ b[3] = rec[<<d, PreActivation>>].attempt

(* What a claim was told of Docker is still true when it lands, or another *)
(* deployment's record blocks it.                                          *)
StillBlocked ==
    \A d \in Deployments : \A seen \in SUBSET Deployments :
        Asks(d, seen) /\ rec[<<d, PreActivation>>].status = "pending" =>
          \A b \in Box : b[2] = PreActivation /\ box[b].state = "running"
                           => b[1] \in Blockers(d, seen)

(* An outcome about to be recorded is what its container shows.            *)
ProvedReports ==
    \A d \in Deployments :
        runner[d].pc = "report" /\ rec[<<d, runner[d].phase>>].status = "running" =>
          Bears(box[BoxOf(d)], starts[BoxOf(d)], runner[d].phase, runner[d].outcome)

ProvedRequests ==
    \A m \in late :
        m.kind = "report" /\ rec[<<m.d, m.p>>].status = "running"
        /\ rec[<<m.d, m.p>>].attempt = m.attempt =>
          Bears(box[<<m.d, m.p, m.attempt>>], starts[<<m.d, m.p, m.attempt>>], m.p, m.outcome)

ExclusionInvariant ==
    /\ Unsettled
    /\ OneRecordRuns
    /\ RunsAlone
    /\ StillBlocked
    /\ ProvedReports
    /\ ProvedRequests
    /\ EvidenceKept
    /\ OneMigrationAtATime

Invariants == InductiveInvariant /\ LeaseInvariant /\ ExclusionInvariant

LEMMA NothingAsks ==
    ASSUME ~SettleRaces, MaySettle
    PROVE  /\ \A d \in Deployments : \A seen \in SUBSET Deployments : ~Asks(d, seen)
           /\ \A d \in Deployments : runner[d].pc \notin {"sweep", "create", "start", "resume"}
BY DEF MaySettle, Window, Asks, Claiming

(* A record that still runs ran before, or has just been opened.           *)
LEMMA RanBefore ==
    ASSUME Invariants, [Next]_vars, NEW j \in Job, rec'[j].status = "running"
    PROVE  \/ rec[j].status = "running" /\ rec'[j].attempt = rec[j].attempt
           \/ Opens(j)
BY RecordSteps DEF Invariants, RecordStep, Keeps, Settles, Resolves, Outcome

LEMMA UnsettledStep ==
    ASSUME ~SettleRaces, Invariants, [Next]_vars PROVE Unsettled'
<1> SUFFICES ASSUME NEW d \in Deployments,
                    runner'[d].pc \in {"sweep", "create", "start", "resume"}
             PROVE  rec'[<<d, runner'[d].phase>>].status = "running"
  BY DEF Unsettled
<1> DEFINE q == runner[d]
           r == runner'[d]
           j == <<d, q.phase>>
<1>1. /\ RunnerStep(d) /\ q.phase \in Phase /\ j \in Job /\ RecordStep(j)
      /\ j[1] = d /\ j[2] = q.phase
  BY RunnerSteps, RecordSteps, Indices, KeptTypesOfRest DEF Invariants, Runner
<1>2. CASE IsTold(d)
  BY <1>2 DEF IsTold
<1>3. CASE ~IsTold(d)
  <2>1. r.phase = q.phase /\ q.pc \in {"sweep", "create", "start", "resume"}
    BY <1>1, <1>3 DEF RunnerStep, NoRunner, IsLeased, Reads, Concludes, GoesOn, EntersPhase, Claiming
  <2>2. rec[j].status = "running" /\ work[d] # "failed"
    BY <2>1 DEF Invariants, ExclusionInvariant, Unsettled, LeaseInvariant, Held
  <2>3. ~Reported(j)
    <3>1. ASSUME NEW m \in late, m.kind = "report", <<m.d, m.p>> = j PROVE FALSE
      <4>1. m.d = d /\ m.p = q.phase BY <3>1
      <4>2. q.phase \in Unreported(q) BY <1>1, <2>1 DEF Unreported, BeforeReport
      <4> QED BY <3>1, <4>1, <4>2 DEF Invariants, LeaseInvariant, LateReports
    <3> QED BY <1>1, <2>1, <3>1 DEF Reported
  <2>4. ~Abandoned(j)
    BY <1>1, <2>1, NothingAsks DEF Abandoned, NoRunner
  <2> QED BY <1>1, <2>1, <2>2, <2>3, <2>4 DEF RecordStep, Keeps, Opens, Settles, Resolves
<1> QED BY <1>2, <1>3

LEMMA OneRecordStep ==
    ASSUME ~SettleRaces, Invariants, [Next]_vars PROVE OneRecordRuns'
<1>1. ASSUME NEW d \in Deployments, NEW o \in Deployments, d # o,
             rec'[<<d, PreActivation>>].status = "running",
             rec'[<<o, PreActivation>>].status = "running",
             Opens(<<d, PreActivation>>)
      PROVE  FALSE
  <2> DEFINE j == <<d, PreActivation>>
             k == <<o, PreActivation>>
  <2>1. /\ j \in Job /\ k \in Job /\ k # j /\ j[1] = d /\ j[2] = PreActivation
        /\ PreActivation \in Phase
    BY <1>1, Indices DEF Phase
  <2>2. rec'[k] = rec[k]
    BY <1>1, <2>1 DEF Opens
  <2>3. Migrating(o)
    BY <1>1, <2>2 DEF Migrating
  <2>4. work[o] # "cancelled"
    BY <2>1, <2>3 DEF Invariants, LeaseInvariant, Held, Migrating
  <2>5. PICK seen \in SUBSET Deployments : Blockers(d, seen) = {}
    BY <1>1, <2>1 DEF Opens
  <2>6. o \in Blockers(d, seen)
    BY <1>1, <2>3, <2>4 DEF Blockers, Migrating
  <2> QED BY <2>5, <2>6
<1>2. ASSUME NEW d \in Deployments, NEW o \in Deployments,
             rec'[<<d, PreActivation>>].status = "running",
             rec'[<<o, PreActivation>>].status = "running"
      PROVE  d = o
  <2>1. <<d, PreActivation>> \in Job /\ <<o, PreActivation>> \in Job
    BY Indices DEF Phase
  <2>2. CASE Migrating(d) /\ Migrating(o)
    BY <2>2 DEF Invariants, ExclusionInvariant, OneRecordRuns
  <2> QED BY <1>1, <1>2, <2>1, <2>2, RanBefore DEF Migrating
<1> QED BY <1>2 DEF OneRecordRuns, Migrating

(* The attempt a command begins under is the running one.                  *)
LEMMA BegunRunner ==
    ASSUME ~SettleRaces, Invariants, NEW b \in Box, Begins(b)
    PROVE  /\ b[1] \in Deployments /\ b = BoxOf(b[1]) /\ runner[b[1]].pc = "start"
           /\ runner[b[1]].phase = b[2]
           /\ rec[<<b[1], b[2]>>].status = "running" /\ rec[<<b[1], b[2]>>].attempt = b[3]
<1>1. PICK d \in Deployments : runner[d].pc = "start" /\ b = BoxOf(d)
  BY DEF Begins
<1>2. b[1] = d /\ b[2] = runner[d].phase /\ b[3] = runner[d].attempt
  BY <1>1 DEF BoxOf
<1> QED BY <1>1, <1>2 DEF Invariants, ExclusionInvariant, Unsettled, LeaseInvariant, Handed, Claimed

LEMMA RunningBefore ==
    ASSUME Invariants, [Next]_vars, NEW b \in Box, box'[b].state = "running", ~Begins(b)
    PROVE  box[b].state = "running"
BY BoxSteps DEF Invariants, BoxStep, Lingers, Removed

LEMMA RunsAloneStep ==
    ASSUME ~SettleRaces, Invariants, [Next]_vars PROVE RunsAlone'
<1> SUFFICES ASSUME NEW d \in Deployments, NEW b \in Box,
                    rec'[<<d, PreActivation>>].status = "running",
                    b[2] = PreActivation, box'[b].state = "running"
             PROVE  b[1] = d /\ b[3] = rec'[<<d, PreActivation>>].attempt
  BY DEF RunsAlone, Migrating
<1> DEFINE j == <<d, PreActivation>>
<1>1. j \in Job /\ j[1] = d /\ j[2] = PreActivation
  BY Indices DEF Phase
<1>2. CASE Begins(b)
  <2>1. rec' = rec BY <1>2 DEF Begins
  <2>2. Migrating(d) /\ Migrating(b[1]) /\ rec[<<b[1], PreActivation>>].attempt = b[3]
        /\ b[1] \in Deployments
    BY <1>2, <2>1, BegunRunner DEF Migrating
  <2>3. d = b[1]
    BY <2>2 DEF Invariants, ExclusionInvariant, OneRecordRuns
  <2> QED BY <2>1, <2>2, <2>3
<1>3. CASE ~Begins(b)
  <2>1. box[b].state = "running"
    BY <1>3, RunningBefore
  <2>2. CASE Opens(j)
    <3>1. rec[j].status = "pending"
          /\ \E seen \in SUBSET Deployments : Asks(d, seen) /\ Blockers(d, seen) = {}
      BY <1>1, <2>2 DEF Opens
    <3> QED BY <2>1, <3>1 DEF Invariants, ExclusionInvariant, StillBlocked
  <2>3. CASE rec[j].status = "running" /\ rec'[j].attempt = rec[j].attempt
    BY <2>1, <2>3 DEF Invariants, ExclusionInvariant, RunsAlone, Migrating
  <2> QED BY <1>1, <2>2, <2>3, RanBefore
<1> QED BY <1>2, <1>3

LEMMA OneMigrationStep ==
    ASSUME ~SettleRaces, Invariants, [Next]_vars PROVE OneMigrationAtATime'
<1>1. ASSUME NEW b \in Box, NEW c \in Box, b[2] = PreActivation, c[2] = PreActivation,
             box'[b].state = "running", box'[c].state = "running", Begins(b)
      PROVE  b = c
  <2>1. c # b => box[c].state = "running"
    BY <1>1 DEF Begins
  <2>2. Migrating(b[1]) /\ b[1] \in Deployments /\ rec[<<b[1], PreActivation>>].attempt = b[3]
    BY <1>1, BegunRunner DEF Migrating
  <2>3. c # b => c[1] = b[1] /\ c[3] = b[3]
    BY <1>1, <2>1, <2>2 DEF Invariants, ExclusionInvariant, RunsAlone
  <2> QED BY <1>1, <2>3, Indices
<1>2. ASSUME NEW b \in Box, NEW c \in Box, b[2] = PreActivation, c[2] = PreActivation,
             box'[b].state = "running", box'[c].state = "running"
      PROVE  b = c
  <2>1. CASE ~Begins(b) /\ ~Begins(c)
    BY <1>2, <2>1, RunningBefore DEF Invariants, ExclusionInvariant, OneMigrationAtATime
  <2> QED BY <1>1, <1>2, <2>1
<1> QED BY <1>2 DEF OneMigrationAtATime

(* What a report records, its container shows.                             *)
LEMMA ReportBears ==
    ASSUME Invariants, [Next]_vars, NEW j \in Job, rec[j].status = "running", Reported(j)
    PROVE  LET b == <<j[1], j[2], rec[j].attempt>>
           IN  Bears(box[b], starts[b], j[2], rec'[j].status)
<1> DEFINE d == j[1]
           q == runner[d]
<1>1. d \in Deployments /\ j = <<d, j[2]>>
  BY Indices
<1>2. CASE q.pc = "report" /\ q.phase = j[2] /\ q.attempt = rec[j].attempt /\ rec'[j].status = q.outcome
  <2>1. BoxOf(d) = <<d, j[2], rec[j].attempt>> /\ <<d, q.phase>> = j
    BY <1>1, <1>2 DEF BoxOf
  <2>2. Bears(box[BoxOf(d)], starts[BoxOf(d)], q.phase, q.outcome)
    BY <1>1, <1>2, <2>1 DEF Invariants, ExclusionInvariant, ProvedReports
  <2> QED BY <1>2, <2>1, <2>2
<1>3. ASSUME NEW m \in late, m.kind = "report", <<m.d, m.p>> = j, m.attempt = rec[j].attempt,
             rec'[j].status = m.outcome
      PROVE  Bears(box[<<d, j[2], rec[j].attempt>>], starts[<<d, j[2], rec[j].attempt>>],
                   j[2], rec'[j].status)
  <2>1. m.d = d /\ m.p = j[2]
    BY <1>3
  <2>2. Bears(box[<<m.d, m.p, m.attempt>>], starts[<<m.d, m.p, m.attempt>>], m.p, m.outcome)
    BY <1>3 DEF Invariants, ExclusionInvariant, ProvedRequests
  <2> QED BY <1>3, <2>1, <2>2
<1> QED BY <1>2, <1>3 DEF Reported

(* A claim on its way was so before, or tells what runs now.               *)
LEMMA AskedBefore ==
    ASSUME Invariants, [Next]_vars, NEW d \in Deployments, NEW seen \in SUBSET Deployments,
           Asks(d, seen)'
    PROVE  \/ Asks(d, seen)
           \/ \A b \in Box : b[2] = PreActivation /\ box'[b].state = "running" => b[1] \in seen
<1>1. CASE runner'[d].pc \in Claiming /\ runner'[d].phase = PreActivation /\ runner'[d].seen = seen
  <2>1. RunnerStep(d)
    BY RunnerSteps DEF Invariants
  <2> QED BY <1>1, <2>1 DEF RunnerStep, NoRunner, IsLeased, Reads, IsTold, Concludes, GoesOn,
       EntersPhase, Claiming, Asks
<1>2. ASSUME NEW m \in late', m.kind = "claim", m.d = d, m.p = PreActivation, m.seen = seen
      PROVE  Asks(d, seen)
  <2>1. LateStep(m)
    BY LateSteps DEF Invariants
  <2> QED BY <1>2, <2>1 DEF LateStep, Asks
<1> QED BY <1>1, <1>2 DEF Asks

(* A deployment whose migration runs goes on blocking whoever was told so. *)
LEMMA BlockerStays ==
    ASSUME ~SettleRaces, Invariants, [Next]_vars, NEW d \in Deployments,
           NEW seen \in SUBSET Deployments, Asks(d, seen),
           NEW b \in Box, b[2] = PreActivation, box[b].state = "running",
           b[1] \in Blockers(d, seen)
    PROVE  b[1] \in Blockers(d, seen)'
<1> DEFINE o == b[1]
           k == <<o, PreActivation>>
<1>0. o \in Deployments /\ k \in Job /\ k[1] = o /\ k[2] = PreActivation
      /\ b = <<o, PreActivation, b[3]>>
  BY Indices DEF Phase
<1>1. ~MaySettle
  BY NothingAsks
<1>2. CASE o \in seen
  BY <1>2 DEF Blockers
<1>3. CASE /\ o # d /\ rec[k].status \in {"running", "outcome_unknown"} /\ work[o] # "cancelled"
  <2>1. work'[o] # "cancelled"
    BY <1>0, <1>1, <1>3, WorkSteps DEF WorkStep, Invariants
  <2>2. ASSUME Reported(k), rec[k].status = "running", rec'[k].status \in Outcome
        PROVE  rec'[k].status = "outcome_unknown"
    <3>1. b[3] = rec[k].attempt
      BY <1>0, <2>2 DEF Invariants, ExclusionInvariant, RunsAlone, Migrating
    <3>2. Bears(box[b], starts[b], PreActivation, rec'[k].status)
      BY <1>0, <2>2, <3>1, ReportBears
    <3> QED BY <2>2, <3>2 DEF Bears, Outcome
  <2>3. rec'[k].status \in {"running", "outcome_unknown"}
    <3>1. RecordStep(k)
      BY <1>0, RecordSteps DEF Invariants
    <3> QED BY <1>1, <1>3, <2>2, <3>1 DEF RecordStep, Keeps, Opens, Settles, Abandoned, Resolves
  <2> QED BY <1>0, <1>3, <2>1, <2>3 DEF Blockers
<1> QED BY <1>2, <1>3 DEF Blockers

LEMMA StillBlockedStep ==
    ASSUME ~SettleRaces, Invariants, [Next]_vars PROVE StillBlocked'
<1> SUFFICES ASSUME NEW d \in Deployments, NEW seen \in SUBSET Deployments, Asks(d, seen)',
                    rec'[<<d, PreActivation>>].status = "pending",
                    NEW b \in Box, b[2] = PreActivation, box'[b].state = "running"
             PROVE  b[1] \in Blockers(d, seen)'
  BY DEF StillBlocked
<1> DEFINE j == <<d, PreActivation>>
           o == b[1]
<1>1. j \in Job /\ RecordStep(j) /\ o \in Deployments
  BY RecordSteps, Indices DEF Phase, Invariants
<1>2. CASE \A c \in Box : c[2] = PreActivation /\ box'[c].state = "running" => c[1] \in seen
  BY <1>2 DEF Blockers
<1>3. CASE Begins(b)
  <2>1. rec' = rec /\ work' = work
    BY <1>3 DEF Begins
  <2>2. rec[<<o, PreActivation>>].status = "running"
    BY <1>3, BegunRunner
  <2>3. o # d /\ work[o] # "cancelled"
    BY <1>1, <2>1, <2>2 DEF Invariants, LeaseInvariant, Held, Phase
  <2> QED BY <1>1, <2>1, <2>2, <2>3 DEF Blockers
<1>4. CASE Asks(d, seen) /\ ~Begins(b)
  <2>1. box[b].state = "running"
    BY <1>4, RunningBefore
  <2>2. ~MaySettle
    BY <1>4, NothingAsks
  <2>3. rec[j].status = "pending"
    BY <1>1, <2>2 DEF RecordStep, Keeps, Opens, Settles, Resolves, Outcome
  <2>4. o \in Blockers(d, seen)
    BY <1>4, <2>1, <2>3 DEF Invariants, ExclusionInvariant, StillBlocked
  <2> QED BY <1>4, <2>1, <2>4, BlockerStays
<1> QED BY <1>2, <1>3, <1>4, AskedBefore

(* No deployment's sweep takes another's evidence while it is needed.      *)
LEMMA EvidenceSwept ==
    ASSUME ~SettleRaces, Invariants, NEW b \in Box, b[2] = PreActivation, Removed(b),
           rec[JobOf(b)].status = "running", rec[JobOf(b)].attempt = b[3]
    PROVE  FALSE
<1> DEFINE o == b[1]
<1>0. o \in Deployments /\ JobOf(b) = <<o, PreActivation>> /\ b = <<o, PreActivation, b[3]>>
  BY Indices DEF JobOf
<1>1. PICK d \in Deployments :
         \/ /\ runner[d].pc \in {"settle", "create"} /\ JobOf(b) = <<d, runner[d].phase>>
            /\ runner[d].pc = "create" => b # BoxOf(d)
         \/ /\ runner[d].pc = "sweep" /\ b[1] # d
            /\ runner[d].phase = Verification => b[2] = Verification
         \/ runner[d].pc \in {"discard", "scrap"} /\ b = BoxOf(d)
  BY DEF Removed
<1> DEFINE q == runner[d]
           s == rec[<<d, q.phase>>]
<1>2. /\ q.phase \in Phase
      /\ q.pc \in Claimed => q.attempt = s.attempt
      /\ q.pc \in {"settle", "discard"} => s.status \in Outcome
      /\ q.pc = "scrap" => q.phase = Verification
      /\ q.pc = "sweep" => s.status = "running"
  BY KeptTypesOfRest DEF Invariants, LeaseInvariant, Handed, ExclusionInvariant, Unsettled, Runner
<1>3. CASE q.pc \in {"settle", "create"} /\ JobOf(b) = <<d, q.phase>> /\ (q.pc = "create" => b # BoxOf(d))
  <2>1. d = o /\ q.phase = PreActivation
    BY <1>0, <1>3
  <2> QED BY <1>0, <1>2, <1>3, <2>1 DEF Claimed, BoxOf, Outcome
<1>4. CASE q.pc = "sweep" /\ o # d /\ (q.phase = Verification => b[2] = Verification)
  <2>1. q.phase = PreActivation
    BY <1>2, <1>4 DEF Phase, PreActivation, Verification
  <2> QED BY <1>0, <1>2, <1>4, <2>1 DEF Invariants, ExclusionInvariant, OneRecordRuns, Migrating
<1>5. CASE q.pc \in {"discard", "scrap"} /\ b = BoxOf(d)
  <2>1. d = o /\ q.phase = PreActivation
    BY <1>0, <1>5 DEF BoxOf
  <2> QED BY <1>0, <1>2, <1>5, <2>1 DEF Outcome, PreActivation, Verification
<1> QED BY <1>1, <1>3, <1>4, <1>5

(* What is on its way to be reported stays true of its container.          *)
LEMMA BearsStays ==
    ASSUME ~SettleRaces, Invariants, [Next]_vars, NEW b \in Box, NEW outcome \in Outcome,
           rec[JobOf(b)].status = "running", rec[JobOf(b)].attempt = b[3],
           b[2] \notin Unreported(runner[b[1]]),
           Bears(box[b], starts[b], b[2], outcome)
    PROVE  Bears(box'[b], starts'[b], b[2], outcome)
<1> DEFINE d == b[1]
<1>1. ASSUME NEW o \in Deployments, runner[o].pc \in {"start", "create"} PROVE b # BoxOf(o)
  <2>1. CASE o = d /\ runner[o].phase = b[2]
    BY <1>1, <2>1, Indices DEF Unreported, BeforeReport
  <2> QED BY <2>1 DEF BoxOf
<1>2. ~Begins(b)
  BY <1>1 DEF Begins
<1>3. Lingers(b)
  BY <1>2, BoxSteps DEF BoxStep, Invariants
<1>4. CASE Removed(b)
  <2>1. box'[b].state = "missing" /\ starts'[b] = starts[b]
    BY <1>3, <1>4 DEF Removed, Lingers
  <2>2. b[2] # PreActivation
    BY <1>4, EvidenceSwept
  <2> QED BY <2>1, <2>2 DEF Bears
<1>5. CASE box[b].state = "running"
  BY <1>5, Zenon DEF Bears
<1>6. CASE box'[b] = box[b] /\ starts'[b] = starts[b]
  BY <1>6
<1>7. CASE box'[b].state = "vanished" /\ starts'[b] = starts[b]
  BY <1>7 DEF Bears
<1> QED BY <1>1, <1>3, <1>4, <1>5, <1>6, <1>7 DEF Lingers

(* An attempt that runs and has been claimed before runs on.               *)
LEMMA ClaimedRanBefore ==
    ASSUME Invariants, [Next]_vars, NEW j \in Job, rec'[j].status = "running",
           rec[j].status # "pending"
    PROVE  rec[j].status = "running" /\ rec'[j].attempt = rec[j].attempt
BY RanBefore DEF Opens

LEMMA ProvedReportsStep ==
    ASSUME ~SettleRaces, Invariants, [Next]_vars PROVE ProvedReports'
<1> SUFFICES ASSUME NEW d \in Deployments, runner'[d].pc = "report",
                    rec'[<<d, runner'[d].phase>>].status = "running"
             PROVE  Bears(box'[BoxOf(d)'], starts'[BoxOf(d)'], runner'[d].phase, runner'[d].outcome)
  BY DEF ProvedReports
<1> DEFINE q == runner[d]
           r == runner'[d]
           j == <<d, q.phase>>
<1>1. CASE Concludes(d)
  <2>1. BoxOf(d)' = BoxOf(d)
    BY <1>1 DEF Concludes, BoxOf
  <2> QED BY <1>1, <2>1 DEF Concludes
<1>2. CASE /\ q.pc = "report" /\ r.phase = q.phase /\ r.attempt = q.attempt
           /\ r.outcome = q.outcome
  <2>1. j \in Job /\ BoxOf(d) \in Box /\ q.outcome \in Outcome
    BY <1>2, ClaimedBox, Indices, KeptTypesOfRest DEF Invariants, Claimed, Runner, InductiveInvariant, Runners
  <2>2. q.attempt = rec[j].attempt /\ rec[j].status # "pending"
    BY <1>2 DEF Invariants, LeaseInvariant, Handed, Claimed
  <2>3. rec[j].status = "running"
    BY <1>2, <2>1, <2>2, ClaimedRanBefore
  <2>4. Bears(box[BoxOf(d)], starts[BoxOf(d)], q.phase, q.outcome)
    BY <1>2, <2>3 DEF Invariants, ExclusionInvariant, ProvedReports
  <2>5. /\ BoxOf(d)[1] = d /\ BoxOf(d)[2] = q.phase /\ BoxOf(d)[3] = q.attempt
        /\ JobOf(BoxOf(d)) = j /\ BoxOf(d)' = BoxOf(d)
    BY <1>2 DEF BoxOf, JobOf
  <2>6. q.phase \notin Unreported(q)
    BY <1>2 DEF Unreported, BeforeReport
  <2> QED BY <1>2, <2>1, <2>2, <2>3, <2>4, <2>5, <2>6, BearsStays
<1>3. RunnerStep(d)
  BY RunnerSteps DEF Invariants
<1> QED BY <1>1, <1>2, <1>3 DEF RunnerStep, NoRunner, IsLeased, Reads, IsTold, GoesOn, EntersPhase,
     Claiming

LEMMA ProvedRequestsStep ==
    ASSUME ~SettleRaces, Invariants, [Next]_vars PROVE ProvedRequests'
<1> SUFFICES ASSUME NEW m \in late', m.kind = "report",
                    rec'[<<m.d, m.p>>].status = "running",
                    rec'[<<m.d, m.p>>].attempt = m.attempt
             PROVE  Bears(box'[<<m.d, m.p, m.attempt>>], starts'[<<m.d, m.p, m.attempt>>],
                          m.p, m.outcome)
  BY DEF ProvedRequests
<1> DEFINE j == <<m.d, m.p>>
           b == <<m.d, m.p, m.attempt>>
<1>1. m \in Report
  <2>1. InductiveInvariant' BY NextInvariant DEF Invariants
  <2>2. m \in Claim \cup Report BY <2>1 DEF InductiveInvariant, TypeOK
  <2> QED BY <2>2 DEF Claim
<1>2. /\ m.d \in Deployments /\ m.p \in Phase /\ m.attempt \in Nat /\ m.outcome \in Outcome
      /\ j \in Job /\ b \in Box /\ JobOf(b) = j /\ rec[j].attempt \in Nat
  <2>1. m.d \in Deployments /\ m.p \in Phase /\ m.attempt \in 1 .. MaxAttempt /\ m.outcome \in Outcome
    BY <1>1 DEF Report
  <2>2. j \in Job /\ b \in Box
    BY <2>1 DEF Job, Box
  <2> QED BY <2>1, <2>2, KeptTypesOfRest DEF JobOf, Record, Invariants
<1>3. LateStep(m)
  BY LateSteps DEF Invariants
<1>4. CASE m \in late
  <2>1. m.p \notin Unreported(runner[m.d]) /\ m.attempt <= rec[j].attempt
    BY <1>4 DEF Invariants, LeaseInvariant, LateReports
  <2>2. ~Opens(j)
    BY <1>2, <2>1 DEF Opens
  <2>3. rec[j].status = "running" /\ rec[j].attempt = m.attempt
    BY <1>2, <2>2, RanBefore
  <2>4. Bears(box[b], starts[b], m.p, m.outcome)
    BY <1>4, <2>3 DEF Invariants, ExclusionInvariant, ProvedRequests
  <2>5. b[1] = m.d /\ b[2] = m.p /\ b[3] = m.attempt
    OBVIOUS
  <2> QED BY <1>2, <2>1, <2>3, <2>4, <2>5, BearsStays
<1>5. CASE LET q == runner[m.d]
           IN  /\ q.pc = "report" /\ q.phase = m.p /\ q.attempt = m.attempt
               /\ q.outcome = m.outcome /\ UNCHANGED <<rec, box, starts>>
  <2>1. BoxOf(m.d) = b
    BY <1>5 DEF BoxOf
  <2> QED BY <1>2, <1>5, <2>1 DEF Invariants, ExclusionInvariant, ProvedReports
<1> QED BY <1>3, <1>4, <1>5 DEF LateStep

LEMMA EvidenceKeptStep ==
    ASSUME ~SettleRaces, Invariants, [Next]_vars PROVE EvidenceKept'
<1> SUFFICES ASSUME NEW b \in Box, b[2] = PreActivation,
                    rec'[JobOf(b)].status = "running", rec'[JobOf(b)].attempt = b[3],
                    starts'[b] > 0
             PROVE  box'[b].state # "missing"
  BY DEF EvidenceKept
<1>1. JobOf(b) \in Job /\ b[3] \in Nat /\ rec[JobOf(b)].attempt \in Nat
  BY Indices, KeptTypesOfRest DEF Record, Invariants
<1>2. ~Opens(JobOf(b))
  BY <1>1 DEF Opens, Invariants, InductiveInvariant, Attempts
<1>3. rec[JobOf(b)].status = "running" /\ rec[JobOf(b)].attempt = b[3]
  BY <1>1, <1>2, RanBefore
<1>4. ~Removed(b)
  BY <1>3, EvidenceSwept
<1>5. BoxStep(b)
  BY BoxSteps DEF Invariants
<1> QED BY <1>3, <1>4, <1>5 DEF BoxStep, Begins, Lingers, Invariants, ExclusionInvariant, EvidenceKept

LEMMA ExclusionInit == Init => ExclusionInvariant
<1> SUFFICES ASSUME Init PROVE ExclusionInvariant
  OBVIOUS
<1>1. /\ \A d \in Deployments : runner[d].pc = "idle"
      /\ \A j \in Job : rec[j].status = "pending"
      /\ \A b \in Box : box[b].state = "missing" /\ starts[b] = 0
      /\ late = {}
  BY DEF Init, NoRunner, Absent
<1>2. \A d \in Deployments : \A p \in Phase : <<d, p>> \in Job
  BY Indices
<1>3. Unsettled /\ ProvedReports /\ ProvedRequests
  BY <1>1 DEF Unsettled, ProvedReports, ProvedRequests
<1>4. OneRecordRuns /\ RunsAlone
  BY <1>1, <1>2 DEF OneRecordRuns, RunsAlone, Migrating, Phase
<1>5. StillBlocked /\ EvidenceKept /\ OneMigrationAtATime
  BY <1>1 DEF StillBlocked, EvidenceKept, OneMigrationAtATime
<1> QED BY <1>3, <1>4, <1>5 DEF ExclusionInvariant

LEMMA ExclusionStep ==
    ASSUME ~SettleRaces, Invariants, [Next]_vars PROVE ExclusionInvariant'
BY UnsettledStep, OneRecordStep, RunsAloneStep, StillBlockedStep, ProvedReportsStep,
   ProvedRequestsStep, EvidenceKeptStep, OneMigrationStep DEF ExclusionInvariant

(* The three invariants together hold of every reachable state when the    *)
(* control plane settles no job whose runner is between reading Docker and *)
(* starting its container.                                                 *)
THEOREM InvariantsHold == ASSUME ~SettleRaces PROVE Spec => []Invariants
<1>1. Init => ExclusionInvariant
  BY ExclusionInit
<1>2. InductiveInvariant /\ LeaseInvariant /\ ExclusionInvariant /\ [Next]_vars => ExclusionInvariant'
  BY ExclusionStep DEF Invariants
<1>3. Invariants <=> InductiveInvariant /\ LeaseInvariant /\ ExclusionInvariant
  BY DEF Invariants
<1> QED BY <1>1, <1>2, <1>3, InvariantHolds, LeaseHolds, PTL DEF Spec

(* The claims endpoint and the runner's reading of Docker keep two pre-    *)
(* activation commands of a service from ever running at once, through     *)
(* crashes, lost claims and expired leases.                                *)
THEOREM OneMigration == ASSUME ~SettleRaces PROVE Spec => []OneMigrationAtATime
<1>1. Invariants => OneMigrationAtATime
  BY DEF Invariants, ExclusionInvariant
<1> QED BY <1>1, InvariantsHold, PTL

(* No sweep, discard or create of the runner removes the container of a    *)
(* started migration before its outcome is recorded.                       *)
THEOREM EvidenceStays == ASSUME ~SettleRaces PROVE Spec => []EvidenceKept
<1>1. Invariants => EvidenceKept
  BY DEF Invariants, ExclusionInvariant
<1> QED BY <1>1, InvariantsHold, PTL

(* A migration is recorded as succeeded, by a report on time or a late     *)
(* one, only over a container that exited zero inside its timeout (or that *)
(* someone other than the agent has removed since).                        *)
THEOREM SuccessProved == ASSUME ~SettleRaces PROVE Spec => SuccessIsReal
<1>1. ASSUME Invariants, [Next]_vars, NEW b \in Box, b[2] = PreActivation,
             rec[JobOf(b)].status = "running", rec[JobOf(b)].attempt = b[3],
             rec'[JobOf(b)].status = "succeeded"
      PROVE  \/ box[b].state = "exited" /\ box[b].ok /\ ~box[b].overdue
             \/ box[b].state = "vanished"
  <2> DEFINE j == JobOf(b)
  <2>1. j \in Job /\ j = <<b[1], b[2]>> /\ j[1] = b[1] /\ j[2] = b[2] /\ b = <<b[1], b[2], b[3]>>
    BY Indices DEF JobOf
  <2>2. Reported(j)
    BY <1>1, <2>1, RecordSteps DEF Invariants, RecordStep, Keeps, Opens, Settles, Abandoned,
       Resolves, Outcome
  <2>3. Bears(box[b], starts[b], PreActivation, "succeeded")
    BY <1>1, <2>1, <2>2, ReportBears
  <2> QED BY <2>3 DEF Bears
<1>2. Invariants /\ [Next]_vars =>
        [\A b \in Box :
           /\ b[2] = PreActivation
           /\ rec[JobOf(b)].status = "running" /\ rec[JobOf(b)].attempt = b[3]
           /\ rec'[JobOf(b)].status = "succeeded"
           => \/ box[b].state = "exited" /\ box[b].ok /\ ~box[b].overdue
              \/ box[b].state = "vanished"]_vars
  BY <1>1
<1> QED BY <1>2, InvariantsHold, PTL DEF Spec, SuccessIsReal

(***************************************************************************)
(* The phases keep their promise: every step is one ReleasePromise allows. *)
(***************************************************************************)

(* What the promise is shown of a command.                                 *)
Shown(b) == IF starts[b] = 0 THEN "unstarted"
            ELSE IF box[b].state = "running" THEN "running" ELSE "over"

RecordsKept ==
    \A j \in Job : rec'[j].status = rec[j].status /\ rec'[j].attempt = rec[j].attempt

Shape == Job = Promise!Job /\ Box = Promise!Attempt /\ Outcome = Promise!Settled

LEMMA SameShape == Shape
BY DEF Shape, Job, Box, Outcome, Promise!Job, Promise!Attempt, Promise!Settled

(* A promise is about the records and the commands alone.                  *)
LEMMA StatusSame ==
    ASSUME RecordsKept
    PROVE  /\ [j \in Job |-> rec[j].status]' = [j \in Job |-> rec[j].status]
           /\ [j \in Job |-> rec[j].attempt]' = [j \in Job |-> rec[j].attempt]
BY DEF RecordsKept

LEMMA ShownEnds ==
    ASSUME Invariants, [Next]_vars, RecordsKept, \A b \in Box : ~Begins(b)
    PROVE  Promise!Next
<1>0. PICK as \in SUBSET Box : as = {b \in Box : Shown(b) = "running" /\ Shown(b)' = "over"}
  OBVIOUS
<1>1. ASSUME NEW b \in Box PROVE Shown(b)' = IF b \in as THEN "over" ELSE Shown(b)
  <2>1. Lingers(b)
    BY <1>1, BoxSteps DEF BoxStep, Invariants
  <2>2. starts[b] \in Nat
    BY KeptTypesOfRest DEF Invariants
  <2>3. box[b].state = "running" => starts[b] > 0
    BY DEF Invariants, InductiveInvariant, Containers
  <2> QED BY <1>0, <2>1, <2>2, <2>3 DEF Lingers, Removed, Shown
<1>2. Promise!End(as)
  BY <1>0, <1>1, StatusSame, SameShape DEF Promise!End, Shape, Shown
<1> QED BY <1>2, SameShape DEF Promise!Next, Shape

LEMMA ShownBegins ==
    ASSUME ~SettleRaces, Invariants, [Next]_vars, NEW a \in Box, Begins(a)
    PROVE  Promise!Next
<1>1. /\ rec[<<a[1], a[2]>>].status = "running" /\ rec[<<a[1], a[2]>>].attempt = a[3]
      /\ <<a[1], a[2]>> \in Job
  BY BegunRunner, Indices DEF JobOf
<1>2. Shown(a) = "unstarted" /\ Shown(a)' = "running"
  BY DEF Begins, Shown
<1>3. \A b \in Box : b # a => Shown(b)' = Shown(b)
  BY DEF Begins, Shown
<1>4. ASSUME a[2] = PreActivation, NEW b \in Box, b[2] = PreActivation
      PROVE  Shown(b) # "running"
  <2>1. ASSUME box[b].state = "running" PROVE FALSE
    <3>1. Migrating(a[1]) /\ a[1] \in Deployments
      BY <1>1, <1>4, Indices DEF Migrating
    <3>2. b[1] = a[1] /\ b[3] = a[3]
      BY <1>1, <1>4, <2>1, <3>1 DEF Invariants, ExclusionInvariant, RunsAlone
    <3>3. b = a
      BY <1>4, <3>2, Indices
    <3> QED BY <2>1, <3>3 DEF Begins
  <2> QED BY <2>1 DEF Shown
<1>5. RecordsKept
  BY DEF Begins, RecordsKept
<1>6. Promise!Begin(a)
  <2>1. [b \in Box |-> Shown(b)]' = [[b \in Box |-> Shown(b)] EXCEPT ![a] = "running"]
    BY <1>2, <1>3
  <2> QED BY <1>1, <1>2, <1>4, <1>5, <2>1, StatusSame, SameShape DEF Promise!Begin, Shape, Shown
<1> QED BY <1>6, SameShape DEF Promise!Next, Shape

(* Nothing but the records changes.                                        *)
LEMMA ShownSame ==
    ASSUME UNCHANGED <<box, starts>>
    PROVE  [b \in Box |-> IF starts[b] = 0 THEN "unstarted"
                          ELSE IF box[b].state = "running" THEN "running" ELSE "over"]'
           = [b \in Box |-> IF starts[b] = 0 THEN "unstarted"
                            ELSE IF box[b].state = "running" THEN "running" ELSE "over"]
OBVIOUS

LEMMA ShownOpens ==
    ASSUME NEW j \in Job, Opens(j)
    PROVE  Promise!Next
<1>1. /\ [i \in Job |-> rec[i].status]' = [[i \in Job |-> rec[i].status] EXCEPT ![j] = "running"]
      /\ [i \in Job |-> rec[i].attempt]' =
           [[i \in Job |-> rec[i].attempt] EXCEPT ![j] = rec[j].attempt + 1]
      /\ rec[j].status = "pending"
  BY DEF Opens
<1>2. Promise!Open(j)
  BY <1>1, ShownSame DEF Opens, Promise!Open
<1> QED BY <1>2, SameShape DEF Promise!Next, Shape

LEMMA ShownKept ==
    ASSUME ~SettleRaces, Invariants, [Next]_vars, RecordsKept PROVE Promise!Next
BY ShownBegins, ShownEnds

LEMMA ShownClaims ==
    ASSUME ~SettleRaces, Invariants, [Next]_vars, NEW d \in Deployments, NEW p \in Phase,
           NEW seen, LandClaim(d, p, seen)
    PROVE  Promise!Next
<1> DEFINE k == <<d, p>>
<1>1. k \in Job /\ rec[k] \in Record /\ rec \in [Job -> Record]
  BY Indices, KeptTypesOfRest DEF Invariants
<1>2. CASE rec' = rec
  BY <1>2, ShownKept DEF RecordsKept
<1>3. CASE rec[k].status = "pending" /\ rec' = [rec EXCEPT ![k] = Opened(rec[k])]
  <2>1. Opened(rec[k]).status = "running"
    BY <1>1 DEF Opened, Record
  <2>2. rec'[k].status = "running"
    BY <1>1, <1>3, <2>1
  <2>3. Opens(k)
    BY <1>1, <1>3, <2>2, RecordSteps DEF Invariants, RecordStep, Keeps, Settles, Resolves, Outcome
  <2> QED BY <1>1, <2>3, ShownOpens
<1> QED BY <1>2, <1>3 DEF LandClaim

LEMMA ShownSettles ==
    ASSUME ~SettleRaces, Invariants, [Next]_vars, NEW d \in Deployments, NEW p \in Phase,
           NEW attempt, NEW outcome \in Outcome, NEW policy \in Policy,
           LandReport(d, p, attempt, outcome, policy), UNCHANGED <<box, starts>>,
           rec[<<d, p>>].status = "running" /\ rec[<<d, p>>].attempt = attempt =>
             Bears(box[<<d, p, attempt>>], starts[<<d, p, attempt>>], p, outcome)
    PROVE  Promise!Next
<1> DEFINE k == <<d, p>>
           r == Recorded(rec[k], outcome, policy)
<1>1. k \in Job /\ rec[k] \in Record /\ rec \in [Job -> Record] /\ k[1] = d /\ k[2] = p
  BY Indices, KeptTypesOfRest DEF Invariants
<1>2. CASE rec' = rec
  BY <1>2, ShownKept DEF RecordsKept
<1>3. CASE rec[k].status = "running" /\ attempt = rec[k].attempt /\ rec' = [rec EXCEPT ![k] = r]
  <2>1. r.status = outcome /\ r.attempt = rec[k].attempt
    BY <1>1 DEF Recorded, Record
  <2> HIDE DEF r
  <2>2. /\ [j \in Job |-> rec[j].status]' = [[j \in Job |-> rec[j].status] EXCEPT ![k] = outcome]
        /\ [j \in Job |-> rec[j].attempt]' = [j \in Job |-> rec[j].attempt]
    BY <1>1, <1>3, <2>1
  <2>3. ASSUME outcome = "succeeded", NEW a \in Box, <<a[1], a[2], a[3]>> = <<d, p, rec[k].attempt>>
        PROVE  Shown(a) = "over"
    <3>1. a = <<d, p, attempt>>
      BY <1>3, <2>3, Indices
    <3> QED BY <1>3, <2>3, <3>1 DEF Bears, Shown
  <2>4. Promise!Settle(k, outcome)
    BY <1>1, <1>3, <2>2, <2>3, SameShape, ShownSame DEF Promise!Settle, Shape, Shown
  <2> QED BY <1>1, <2>4, SameShape DEF Promise!Next, Shape
<1> QED BY <1>2, <1>3 DEF LandReport, DecideReport

LEMMA ShownAbandons ==
    ASSUME NEW d \in Deployments, UNCHANGED <<box, starts>>,
           \A j \in Job :
             /\ rec'[j].attempt = rec[j].attempt
             /\ rec'[j].status = IF j[1] = d /\ rec[j].status = "running"
                                 THEN "outcome_unknown" ELSE rec[j].status
    PROVE  Promise!Next
<1>1. Promise!Abandon(d)
  BY SameShape, ShownSame DEF Promise!Abandon, Shape
<1> QED BY <1>1 DEF Promise!Next

LEMMA ShownResolves ==
    ASSUME Invariants, NEW d \in Deployments, NEW resolution, Resolve(d, resolution)
    PROVE  Promise!Next
<1> DEFINE k == <<d, PreActivation>>
           next == DecideResolution(rec[k].status, resolution)
<1>1. /\ k \in Job /\ rec[k] \in Record /\ rec \in [Job -> Record]
      /\ next # "refused" /\ UNCHANGED <<box, starts>>
      /\ rec' = [rec EXCEPT ![k] = [rec[k] EXCEPT !.status = next]]
  BY Indices, KeptTypesOfRest DEF Resolve, Phase, Invariants
<1>2. \/ next = "pending" /\ rec[k].status \in Outcome \ {"succeeded"}
      \/ next = "succeeded" /\ rec[k].status = "outcome_unknown"
  BY <1>1 DEF DecideResolution, Outcome
<1> DEFINE r == [rec[k] EXCEPT !.status = next]
<1>3. r.status = next /\ r.attempt = rec[k].attempt /\ rec' = [rec EXCEPT ![k] = r]
  BY <1>1 DEF Record
<1> HIDE DEF next, r
<1>4. /\ [j \in Job |-> rec[j].status]' = [[j \in Job |-> rec[j].status] EXCEPT ![k] = next]
      /\ [j \in Job |-> rec[j].attempt]' = [j \in Job |-> rec[j].attempt]
  BY <1>1, <1>3
<1>5. Promise!Operator(k)
  BY <1>1, <1>2, <1>4, SameShape, ShownSame DEF Promise!Operator, Shape
<1> QED BY <1>1, <1>5, SameShape DEF Promise!Next, Shape

LEMMA ShownEndsWork ==
    ASSUME Invariants, NEW d \in Deployments, EndWork(d) \/ Supersede(d) PROVE Promise!Next
<1>1. UNCHANGED <<box, starts>>
  BY DEF EndWork, Supersede
<1>2. ASSUME NEW j \in Job PROVE rec[j] \in Record
  BY <1>2, KeptTypesOfRest DEF Invariants
<1>3. CASE rec' = rec
  <2>1. Promise!End({})
    BY <1>1, <1>3, ShownSame, SameShape DEF Promise!End, Shape
  <2> QED BY <2>1 DEF Promise!Next
<1>4. CASE rec' # rec
  <2>1. ASSUME NEW j \in Job
        PROVE  /\ rec'[j].attempt = rec[j].attempt
               /\ rec'[j].status = IF j[1] = d /\ rec[j].status = "running"
                                   THEN "outcome_unknown" ELSE rec[j].status
    <3>1. LET c == Closed(rec[j], runner[d].pc)
          IN  /\ c.attempt = rec[j].attempt
              /\ c.status = IF rec[j].status = "running" THEN "outcome_unknown" ELSE rec[j].status
      BY <1>2 DEF Closed, Record
    <3>2. LET c == [rec[j] EXCEPT !.status = "outcome_unknown"]
          IN  c.attempt = rec[j].attempt /\ c.status = "outcome_unknown"
      BY <1>2 DEF Record
    <3>3. CASE EndWork(d)
      <4>1. rec'[j] = IF j[1] = d THEN Closed(rec[j], runner[d].pc) ELSE rec[j]
        BY <1>4, <3>3 DEF EndWork
      <4> QED BY <3>1, <4>1
    <3>4. CASE Supersede(d)
      <4>1. rec'[j] = IF j[1] = d /\ rec[j].status = "running"
                      THEN [rec[j] EXCEPT !.status = "outcome_unknown"] ELSE rec[j]
        BY <3>4 DEF Supersede
      <4> QED BY <3>2, <4>1
    <3> QED BY <3>3, <3>4
  <2> QED BY <1>1, <2>1, ShownAbandons
<1> QED BY <1>3, <1>4

LEMMA PromiseStep ==
    ASSUME ~SettleRaces, Invariants, [Next]_vars PROVE Promise!Next
<1>1. CASE rec' = rec
  BY <1>1, ShownKept DEF RecordsKept
<1>2. ASSUME NEW m \in late, LateClaim(m) PROVE Promise!Next
  <2>1. m.d \in Deployments /\ m.p \in Phase
    BY KeptTypesOfRest DEF Invariants, Claim, Report
  <2> QED BY <1>2, <2>1, ShownClaims DEF LateClaim
<1>3. ASSUME NEW m \in late, LateReport(m) PROVE Promise!Next
  <2>1. m.d \in Deployments /\ m.p \in Phase /\ m.outcome \in Outcome /\ m.policy \in Policy
    BY <1>3, KeptTypesOfRest DEF LateReport, Invariants, Claim, Report
  <2>2. rec[<<m.d, m.p>>].status = "running" /\ rec[<<m.d, m.p>>].attempt = m.attempt =>
          Bears(box[<<m.d, m.p, m.attempt>>], starts[<<m.d, m.p, m.attempt>>], m.p, m.outcome)
    BY <1>3 DEF LateReport, Invariants, ExclusionInvariant, ProvedRequests
  <2> QED BY <1>3, <2>1, <2>2, ShownSettles DEF LateReport
<1>4. ASSUME NEW d \in Deployments, Claims(d) PROVE Promise!Next
  <2>1. runner[d].phase \in Phase
    BY KeptTypesOfRest DEF Runner, Invariants
  <2> QED BY <1>4, <2>1, ShownClaims DEF Claims
<1>5. ASSUME NEW d \in Deployments, Reports(d) PROVE Promise!Next
  <2> DEFINE q == runner[d]
  <2>1. q.phase \in Phase /\ q.outcome \in Outcome /\ q.policy \in Policy /\ q.pc = "report"
    BY <1>5, KeptTypesOfRest DEF Reports, Runner, Invariants, InductiveInvariant, Runners
  <2>2. /\ LandReport(d, q.phase, q.attempt, q.outcome, q.policy)
        /\ UNCHANGED <<box, starts>>
    BY <1>5 DEF Reports
  <2>3. rec[<<d, q.phase>>].status = "running" =>
          Bears(box[<<d, q.phase, q.attempt>>], starts[<<d, q.phase, q.attempt>>], q.phase, q.outcome)
    BY <2>1 DEF BoxOf, Invariants, ExclusionInvariant, ProvedReports
  <2> HIDE DEF q
  <2> QED BY <2>1, <2>2, <2>3, ShownSettles
<1>6. ASSUME NEW d \in Deployments, LeaseWork(d) PROVE RecordsKept
  <2>1. ASSUME NEW j \in Job
        PROVE  rec'[j].status = rec[j].status /\ rec'[j].attempt = rec[j].attempt
    <3>1. rec[j] \in Record
      BY KeptTypesOfRest DEF Invariants
    <3>2. rec'[j] = rec[j] \/ rec'[j] = [rec[j] EXCEPT !.by = "older"]
      BY <1>6 DEF LeaseWork
    <3> QED BY <3>1, <3>2 DEF Record
  <2> QED BY <2>1 DEF RecordsKept
<1>7. ASSUME NEW d \in Deployments, Progress(d), ~Claims(d), ~Reports(d), ~EndWork(d)
       PROVE  rec' = rec
  BY <1>7 DEF Progress, ReadRunningJobs, Build, ClaimRefused, GivesUp, SettlePhase,
     SweepOthers, CreateBox, StartBox, StartFails, ResumeAttempt, AwaitExit,
     StopAtDeadline, ReportRefused, DiscardBox, ScrapVerification, Activate, RollBack
<1>8. ASSUME NEW d \in Deployments, Mishap(d) \/ LeaseExpires(d) PROVE rec' = rec
  BY <1>8 DEF Mishap, ClaimTimesOut, ReportTimesOut, DockerFails, EndLost, LeaseExpires
<1>9. ASSUME NEW b \in Box, Docker(b) PROVE rec' = rec
  BY <1>9 DEF Docker, Exits, DeadlinePasses, Vanishes
<1>10. AgentCrash \/ UNCHANGED vars => rec' = rec
  BY DEF AgentCrash, vars
<1>11. ASSUME NEW d \in Deployments,
              LeaseWork(d) \/ Progress(d) \/ Mishap(d) \/ ControlPlane(d)
       PROVE  Promise!Next
  BY <1>1, <1>4, <1>5, <1>6, <1>7, <1>8, <1>11, ShownKept, ShownEndsWork, ShownResolves
     DEF ControlPlane
<1> QED BY <1>1, <1>2, <1>3, <1>9, <1>10, <1>11 DEF Next

LEMMA PromiseInit == Init => Promise!Init
<1> SUFFICES ASSUME Init PROVE Promise!Init
  OBVIOUS
<1>1. /\ \A j \in Job : rec[j].status = "pending" /\ rec[j].attempt = 0
      /\ \A b \in Box : starts[b] = 0
  BY DEF Init
<1> QED BY <1>1, SameShape DEF Promise!Init, Shape

(* The agent, Docker and the control plane implement ReleasePromise: each  *)
(* step opens an attempt, begins or ends commands, settles, abandons or    *)
(* reopens a job as the promise allows, or changes nothing it shows.       *)
THEOREM PromiseKept == ASSUME ~SettleRaces PROVE Spec => KeepsPromise
<1>1. Init => Promise!Init
  BY PromiseInit
<1>2. Invariants /\ [Next]_vars => [Promise!Next]_Promise!promise
  BY PromiseStep
<1> QED BY <1>1, <1>2, InvariantsHold, PTL DEF Spec, KeepsPromise, Promise!Spec

=============================================================================
