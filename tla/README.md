# Specification of the Nouva agent

TLA+ modules of the agent in this repository (`agent/src`, `packages/runtime/src`), TLC
configurations that check them on small instances, and proofs that TLAPS checks for every instance.
File and line numbers below are those of the source files; `index.ts` is `agent/src/index.ts`.

## The system

One agent process runs on a customer's server. It polls the control plane for **work items**, runs
each one with Docker, and reports how it ended. The control plane queues the items, leases them
again when a lease expires, and keeps what was reported; it is not in this repository, except for
the decisions it shares with the agent (`packages/runtime/src/release-phases.ts`). Docker, Traefik
and the object storage hold the rest of the state and outlive the agent. Every handler is a chain of
awaited calls, so the agent may die, and the world may change, between any two of them; a leased
item is started again from the beginning.

| Component | State it keeps | Operations | What is hard | What makes it correct |
|---|---|---|---|---|
| Work loop (`work-scheduler.ts`, `agent-work-reporting.ts`, `index.ts`) | active work, the poll under way | poll, accept a batch, execute, renew, report, roll back | answers that ignore the limit, lost completion replies, leases that expire while work runs | bounded concurrency; no execution is started over; a completed deploy keeps its container |
| Update and shutdown (`update-agent.ts`, `index.ts`) | draining, stopping, the updater container | drain, create the updater, wait for it, stop | a poll still under way, an updater that never comes back, completions that are lost | one restart per update, which interrupts nothing new; every item ends |
| Release phases (`release-jobs.ts`, `release-phases.ts`) | job records, job containers | claim, start, resume, wait for, report, discard; resolve | unacknowledged requests that land late, containers that outlive the agent, two deployments at once | a command starts once per attempt; one migration of a service at a time; verdicts stand |
| App rollout (`index.ts`, `traefik-runtime.ts`) | containers, snapshot, route file | look, quiesce, snapshot, create, route, cut over, verify, keep or return, retire | Traefik follows the route file late; every step can fail and has its own way back | the route that is committed is served; never two writers; a restore point while one is needed |
| Worker rollout (`worker-runtime.ts`, `worker-rollout-plan.ts`, `worker-shutdown.ts`) | replicas, snapshot | plan, stop, replace, commit, discard, restore, restart | processes that survive SIGKILL, leftovers of cut-off attempts, stale metadata | no overlap where overlap is forbidden; what a failure reports as preserved or rolled back is so |
| Worker jobs (`worker-runtime.ts`) | receipts on disk, containers | start, inspect, stop, clean up | two handlers of one run interleave; death between file and Docker steps | a command starts once; a verdict stands |
| Storage (`index.ts`, `volume-wipe-receipt.ts`, `database-readiness.ts`, `external-backup-import.ts`) | volumes, receipts, task containers, staging volumes | provision, apply, restart, remove, wipe, delete, back up, restore, import | task containers that outlive the agent, retries over half-written volumes, lost completions of destructive work | a wipe destroys once per generation; what is reported is what is there |
| Heartbeat and credentials (`agent-heartbeat.ts`, `rearmable-interval.ts`, `index.ts`) | the attempt under way, failures and skips, token, configuration | boot, fire, deadline, give up; register, re-register; adopt | Docker calls that hang, attempts that are abandoned and not cancelled, answers that land late, tokens revoked at any time | one attempt at a time; silence is bounded; an exit is deserved; an accepted token and the current configuration in the end |
| Readiness judgement (`app-candidate-readiness.ts`, `container-restarts.ts`, `database-readiness.ts`, `worker-runtime.ts`) | evidence from look to look, restart baseline, grace | look, read the log, assess, probe, wait | a container that restarts between two looks, counts that a start by hand clears, logs that do not reach back | a reported failure happened; a container in a restart loop is not ready; ready means it stayed up |
| Traefik runtime (`traefik-runtime.ts`, `serialized-task.ts`) | static file, primary and candidate container, the recorded failure, project networks | reconcile: preflight, candidate, cutover, rollback; attach; create and delete networks | calls that fail between stop and rename, networks that come and go during a reconcile, a file written before its container is accepted | no attachment is lost; the recorded failure is true; the ingress converges |
| Database runtime health (`database-readiness.ts`, `index.ts`) | the inventory last published, the pass under way | stamp, list, observe, publish | databases that come, go or are replaced during a pass; every publication is read as complete | an inventory says only what was so since its stamp |
| Alloy runtime (`alloy-runtime.ts`) | two configuration files, one container, the drain under way and what is pending | ask, look, validate, replace the fragment and reload, replace the container | asks that arrive while a reconcile runs, reloads that fail or land late, an end between a rename and a reload | a success is of the latest configuration; what is taken for done is loaded; the collector converges |
| Build, container and service logs (`build-logs.ts`, `container-log-reconciliation.ts`, `logging.ts`) | buffers | format, ship | – | not modelled |
| Builds; Docker client; host capacity, metrics, tuning, security; protocol types | samples, buffers | – | – | not modelled: no decision of the other parts reads them but through an outcome |

The components meet in four places. The work loop runs every other component's handler and decides what
its success, failure or loss means. The app rollout asks the release phases before it creates a
candidate and after it has moved traffic. Both kinds of rollout wait for readiness before they go on.
Both kinds of rollout and the storage handlers share Docker and assume that nothing else changes a
service's containers while one of its items is leased. Heartbeats run beside the work loop: they carry
the health of the databases and the state of the ingress, and bring back the configuration that the
reconciles of Alloy and of Traefik, which deploys ask for too, put in place. All of them tell the
control plane one thing at their end, which may be lost.

## The modules

Each module names the parts of its state by who holds it (control plane, agent, Docker, disk). The
agent's part is lost in a crash, the rest is not.

- **`ReleaseJobs`** – the release phases of one service. `rec` is the control plane's record of each
  job, `runner` the agent's handler of each leased deployment (its `pc` is the await it stands at),
  `box` Docker's container of each attempt, `late` the requests their caller gave up on and that may
  still be carried out. `DecideClaim`, `DecideReport`, `DecideResolution`, `Blockers` and
  `ClassifyExit` are the functions of `release-phases.ts`; `Enquire` to `DiscardBox` are the awaits
  of `release-jobs.ts` in their order; `Activate`, `RollBack` and `EndWork` stand for the rollout
  around them. Leases are not numbered: a runner holds the last lease of its deployment, which the
  scheduler guarantees, so "current" and "older" are all `decideReleaseJobClaim` tells apart.
- **`ReleasePromise`** – the abstract specification: jobs, attempts and commands, with no agent, no
  lease and no container. `ReleaseJobs` implements it under the mapping of its `KeepsPromise`.
- **`ReleaseJobsProofs`** – the theorems about `ReleaseJobs`.
- **`AgentWork`** – the work loop and the agent's own update. `queue` is the control plane's; `poll`,
  `runner`, `update` and `stopping` are the process's; `runtime` and `updater` are Docker's.
  `completionMayBeCommitted` and the delivery of a completion are one field (`delivery`). The answer
  of a poll nobody waits for any more is a lost answer. A batch of leases is a set: the same id twice
  in one answer is not represented.
- **`WorkerJobs`** – the four handlers of a schedule run, one action per file or Docker step. The
  control plane is assumed to send inspect and stop only for a run whose start completed, and cleanup
  last. Whether a volume is in use is a nondeterministic answer.
- **`WorkerRollout`** – `deployWorkerRuntime` and `restartWorkerServiceRuntime` of one service with
  and without a volume. A slot is a container name: a deployment and a replica. Readiness is an
  outcome. A restart may carry metadata recorded before the last rollout. `volume` says whose writes it
  holds: a live version's (`clean`), another's (`touched`), or another's when all its own slot held was
  a leftover of an earlier attempt (`exposed`). Images and consumers of the volume outside the service
  are left out.
- **`AppRollout`** – `deployAppImageWithDependencies` of one service, call by call, with Traefik's
  view of the route (`live`) behind the route file (`file`). Release phases are their answers. Each
  deployment is deployed by one item. A pre-activation success on record is not asked for again.
  Images, ports and mount matching are left out.
- **`Storage`** – the storage handlers of one database service. A handler is the sequence of steps
  still to do (`StepsOf`); a throw skips to what is left of its `finally`. Task containers are
  Docker's: they go on when the agent dies and keep volumes in use until removed. A volume is absent,
  empty, torn (half written) or holds the n-th cluster initialised.
  That the MySQL image replays a dump only into an uninitialised data directory is the image's
  behaviour, modelled as external. One item of the service is leased at a time; imports have a single
  attempt (`index.ts:6286`). Deleting a backup, expiring a repository and changing resource limits
  are left out: nothing here reads what they change.
- **`Readiness`** – the three waits (`waitForAppCandidateReadiness`, `waitForWorkerReadiness`,
  `waitForDatabaseReadiness`) over one container with a clock. `box`, `downs` and `byHand` are
  Docker's: the container goes down and comes up whenever it likes, its restart count is cleared by a
  start by hand, and `RecentRestarts` is what `countRecentRestarts` reads of a log that may be short.
  `truth` is a history. An inspection before a quiesce that fails, or finds no container, does not end
  the wait (`Unseen`, `index.ts:987-1001`): the container is judged without the restarts it had before.
  `wait` is the agent's: evidence, baseline, deadline, what is known so far. A look is three awaits and
  a probe a fourth. `Kinds` are the uses: a candidate, a container kept live or started again after a
  rollback (`undone`), a new worker replica, a kept or restored one, a database, a restarted database.
- **`TraefikRuntime`** – `reconcileTraefikRuntime` call by call, the queue it runs in (`queue`, `run`;
  `createSerializedTaskRunner`), the heartbeats and deploys that ask for it, and the handlers that
  create, join and delete project networks beside it. A configuration is the trusted peers it names; an
  image is pinned or older. A container has the configuration its label names (`cfg`) and the one its
  process read from the static file when it last started (`read`): reconciles write the file before they
  try it and compare the label only. `strayed` notes a primary that Docker restarted over the file of
  another reconcile. How late Traefik follows its route files is `AppRollout`'s.
- **`Heartbeat`** – `createAgentHeartbeatLoop` with its counters (`loop`), one attempt (`work`) from
  its snapshot to the adoption of the answer, and `registerAgent`. A tick is a period of the loop; the
  deadline of an attempt is one period. `token` is the object every caller shares, `stored` the file.
  `ticket` is the registration token the agent was installed with, if any: it is single-use, so it is
  spent by the registration the control plane takes, heard of or not (`agent-heartbeat.ts:13`), and
  without one a refused credential is not followed by a registration (`index.ts:2316`).
  The first heartbeat of a process (`boot`) is outside the loop, as in `main`.
- **`DatabaseHealth`** – passes of `collectDatabaseRuntimeHealthReport`: stamp, list, observe with a
  few workers at once, publish after each observation. `seen` is a history: what a database has been
  since a pass was stamped. A database whose engine cannot be named keeps its placeholder.
- **`AlloyRuntime`** – `ensureAlloyRuntime` and `reconcileAlloyRuntime`: `pending` and `run` are the
  agent's (what waits, and the reconcile under way, whose `pc` is the await it stands at), `files` the
  disk's, `box` Docker's container with the hash label it was made with and what Alloy has loaded. The
  two parts of a configuration, static file and fragment, are numbered as the control plane makes them
  and never return to an older one; `label` stands for everything `isAlloyContainerCurrent` compares.
  `stale` is a history: a crash or a failed write or removal left Alloy without what is on disk
  (`Abandons`), and it has not read the files since.
- **`AgentWorkProofs`**, **`WorkerJobsProofs`**, **`WorkerRolloutProofs`**, **`AppRolloutProofs`**,
  **`StorageProofs`**, **`ReadinessProofs`**, **`HeartbeatProofs`** – the theorems about those modules;
  `HeartbeatProofs` takes `AlloyRuntime`, `DatabaseHealth` and `TraefikRuntime`, whose work heartbeats
  start or carry, as instances (`Alloy`, `Health`, `Traefik`) and has their theorems too.
- **`MC…`** – the model values of the configurations.

Faults are counted: `faults` bounds crashes, failed or unanswered calls and stuck processes together,
so that every mixture of them up to the bound is explored. A failed Docker call is modelled both ways
where it matters: before and after it had its effect.

## The runs

State counts are TLC's distinct states.

| Run | Question | Bounds | States |
|---|---|---|---|
| `release_two` | Do two deployments of a service ever migrate at once; is the evidence of a command kept until it is reported; is a reported success real; does every deployment that waits end; does the detailed protocol implement `ReleasePromise`? | 2 deployments, 2 attempts, 1 fault, fairness | 393,013 |
| `release_one` | With both phases and an operator's retry: is every attempt started at most once, is a verdict final, a rollback only after a definite failure? Also the inductive invariant of the proofs. | 1 deployment, 2 attempts, 3 faults | 93,350 |
| `agent` | Concurrency, restarts of executions, lost completions, the drain of an update and its restart, and the end of every item, against a control plane that respects neither limit nor active ids. | 2 deploys and an update, 2 at once, 2 tries, 2 leases, 1 fault, fairness | 425,534 |
| `worker_jobs` | One run's four handlers interleaved: does its command start once, is a success real, does a verdict stand? | 1 run, 4 faults | 20,417 |
| `worker_rollout` | Rollouts and restarts of two deployments: overlap, what is committed, preserved, rolled back. | 2 replicas, 3 items, 3 faults | 2,116,675 |
| `app_rollout` | Three deployments of an app: what is served, by how many writers, and whether a restore point is left. | 3 deployments, 6 faults | 170,837 |
| `app_quiesce` | *Violation.* "A failed rollout starts it again", of a quiesced container, when creating the candidate fails. | 2 faults | – |
| `storage` | Three items on two volumes, three engines: is a success true when it is reported, and does a wipe destroy once? | 3 items, 3 leases, 3 faults | 946,159 |
| `readiness` | Every wait over a container with a life of its own: are reported failures real, are loops ever called ready, did what is ready stay up? | thresholds and windows of 2, grace 1, 3 instants, 2 downs, 1 fault | 6,543,488 |
| `traefik` | Reconciles beside deploys and deletions: are attachments kept, is the recorded failure true, does the ingress converge? | 2 projects, 1 change of peers, 1 item, 2 faults, fairness | 1,587,839 |
| `heartbeat` | Is the silence of a live agent bounded, is an exit deserved, does the agent recover its token and configuration, wherever the repository does not ask for a reinstall? | limit 5 (the code's), 2 configurations, 6 faults, fairness | 456,762 |
| `database_health` | Does an inventory ever say what was not so since its stamp? | 3 databases (one of no known engine), 2 workers, 2 passes, 3 changes, 1 fault | 1,204,475 |

Why the bounds are enough for the cases that matter: a race between deployments needs two;
a deploy that follows a failed one, with the release before both still serving, needs three
(`app_rollout`); a retry over a retry needs two faults, and a lost answer, a crash and a failed call in
one behaviour need three; an operator's second attempt is the first whose records can be confused with
an earlier one's; a backup, a restore of it and the application of the restored volume are three
storage items. One schedule run is enough because runs share no state in the module. In `agent` two
deploys fill both places while the update waits, and a second lease is the first that can start an
execution over. A window, threshold or probe interval of two instants is the least with an inside, an
edge and an outside. The heartbeat's bound of 21 periods takes several failures with the skips between
them, so its run has the code's own limit and six faults; 21 is reached. Two passes are the least that
can give way to one another, three changes take a database through a removal and a replacement within
a pass. In `traefik` two faults are a failed cutover and the failure of its rollback. Larger instances
were run once and passed: two faults with one attempt (`release_two`, 674,844 states), two items with
one fault (`traefik`, 3,964,191), four changes (`database_health`).

Deadlock is not checked where a model stops when all work is done or its bounds are spent, which is
not an error; `heartbeat` never stops and is checked for it. Symmetry is used only in runs without
liveness properties.

### Fairness

`ReleaseJobs` (`release_two`): the control plane leases queued work again and expires the leases of
an agent that is gone (weak fairness per deployment), the agent's handlers go on (every await of
`release-jobs.ts` has a deadline), and a job's timeout passes. Nothing is assumed of the jobs'
commands, of operators or of late requests. Docker's stop of a container is a call like any other and
may fail each time; `NobodyWaitsForever` says in its own premise (`SF_vars(Stops)`) that, tried again
and again, it works in the end.

`AgentWork` (`agent`): the poll loop is a timer and goes on; an answer that grants work is strongly
fair, because the queue is not always free to grant it when the agent polls; each execution and its
reports, the drain and the update's deadlines go on; leases whose agent is gone expire. The updater gets
to stop the agent only as Docker runs a container that was started; it may die before that, and the
agent may crash.

`TraefikRuntime` (`traefik`): the heartbeat's timer fires and its reconciles go on, and so does each
project's handler. The calls have outcomes, not promises: what fails is bounded by the faults only.

`Heartbeat` (`heartbeat`): the timer fires, an attempt that is not hung goes on, its deadline passes.
Nothing says that a Docker call that hangs ever comes back.

### What the violation shows

`app_quiesce`: for an app with a volume the previous container is stopped, then the candidate is
created outside every `try` (`index.ts:3928`). When that call fails, nothing starts the previous
container again and its route still points at it.

### `AlloyRuntime`

The safety of this module is proved, not only checked, so it has no run in the table. Three configurations
beside it are for a reader who changes it (`tlc -config AlloyRuntime.cfg AlloyRuntime`), each with two
static files and two fragments:

- `AlloyRuntime.cfg`, with crashes, failed calls and failed writes (4 faults, 33,315 states, fairness):
  `SuccessIsLatest`; `SuccessIsLoaded`, what is taken for done is loaded unless Alloy is `stale`; and
  `CollectorConverges`, the static configuration wanted runs in the end;
- `AlloyRuntimeSteady.cfg`, where only Alloy dies and only reloads fail (4 faults, 12,453 states, fairness):
  `SnapshotsRetry`, the same without the exception, and `FragmentConverges`, the fragment runs in the end;
- `AlloyRuntimeCut.cfg`, with failed calls and writes (2 faults): TLC finds `SnapshotsRetry` violated.
  A reload of a new fragment fails, and so does the write that puts the previous one back
  (`alloy-runtime.ts:1284`). The file is then as wanted, so the next validation snapshot reports success
  without a reload, against the comment at `index.ts:2343` ("every later validation snapshot retries the
  reload"). An agent that dies between the rename and the reload (`alloy-runtime.ts:1271`) leaves the
  same state, and so does a removal that fails after the files were written for a container that was
  down only when the agent looked. These three are all: `SuccessIsLoaded`, which excepts them until Alloy
  next reads its files, is proved for every fault.

Fairness there: heartbeats ask again, a reconcile goes on (its calls have deadlines), Docker restarts an
Alloy that ended, and a reload that was taken but not answered is carried out. What fails is bounded by
the faults only.

### Exceptions the properties state

Where the code falls short of its own rule in a known case, the property names the case, so that it
says what is left:

- `OneMigrationAtATime` holds with `SettleRaces` off. On, the control plane may settle a job (an
  operator's verdict, a superseded deployment) after another deployment's runner has read Docker's list
  of running jobs and before it starts its own container. The list is read before the claim, and not
  again (`release-jobs.ts:590`; the record is judged at `release-phases.ts:311`), so a command whose
  record is settled but whose container still runs can meet another one: TLC shows it with two
  deployments, one attempt and one fault.
- `ReportIsTrue` leaves out a MySQL restore that is leased again after its replay was cut off: the target
  volume is not emptied (`index.ts:5545`), the image finds a data directory and replays nothing, and
  ping and schema count pass (`index.ts:5235`).
- `RestorePointKept` of `WorkerRollout` leaves out a volume that is `exposed`. A snapshot in a
  deployment's slot is reused whatever it holds (`worker-runtime.ts:664`); it may be left from an
  attempt of the same deployment that was cut off after its restore, and another version may have been
  live, or have written, since. TLC reaches this within the run's bounds: the agent dies once the
  restore has started a previous replica, the item is leased again, and the candidate writes over data
  of which the reused snapshot is older. Restoring it then loses what the previous version wrote in
  between. Of `AppRollout` the property says only that such a snapshot is there, however old.
- `FailuresAreReal` leaves out a container that already stood stopped when the rollout stopped it: no
  start by hand has cleared its count.
- `LoopsAreNotReady` leaves out a restarted database, whose baseline is read before the restart that
  clears Docker's count (`index.ts:6411`), and does not count what an app container went down before a
  quiesce whose inspection failed: that error is swallowed on purpose, and the rollout goes on with no
  restarts known (`index.ts:987-1001`, `1036-1046`). TLC shows what that costs: without the exception a
  container that has been looping all along is called ready after the rollback, with a log that reaches
  back.
- `IngressConverges` leaves out what the process has read where Docker restarted the primary over the
  file of a reconcile that was rejected after it wrote it (`traefik-runtime.ts:889`). The label is still
  the wanted one, `isTraefikContainerCurrent` compares nothing else, so no later reconcile sees a
  difference and the primary may run with the other configuration until something else replaces it.
- `Recovers` leaves out a process whose first heartbeat hangs in Docker: it runs before the loop and its
  watchdog (`index.ts:7197`). And it leaves out an agent whose stored token is not accepted and that has
  no registration token, or a spent one: the repository asks for a reinstall there (`index.ts:2317`). The
  answer of a first registration that is lost after the control plane took it is such a case.
- `SuccessIsLoaded` of `AlloyRuntime` leaves out a `stale` collector (see above).
- `VerdictStands` leaves out runs whose inspection and stop overlapped.
- `CommittedServes` and `ServedUntilCutover` leave out an app without a volume whose route was being moved
  back to the candidate when it could not be confirmed (`h.astray`). `ServedUntilCutover` speaks of what
  served before the rollout, not of its own candidate, and `PreservedServes` of failures whose way back
  writes the route: an aborted rollout of an app without a volume asks the container only.
- `RestartInterruptsNothingNew` speaks of a restart within the grace the agent gives its updater. One that
  comes later finds an agent that works again, and interrupts what it does.
- `CompletedRuns` is checked with workers and apps alike: only an app's result says that it adopted a
  container, and only that exempts it from the rollback (`index.ts:1867-1871`).

Some behaviours the models reach are described under `hazards` in `PROJECT.json` without a property,
because no document of the repository says what should happen, or because the properties above except
just them: two overlapping handlers of a schedule run, a route that could not be confirmed, an attempt
that removes the candidate traffic goes to, an ingress label that hides what was read.

## The proofs

`ReleaseJobsProofs` proves, for any set of deployments, plans, attempts and faults that satisfy
`ReleaseAssumption`:

- `InvariantHolds`: `InductiveInvariant` is an invariant of the specification;
- `TypeCorrect`: so is `TypeOK`;
- `StartsOnce`: Docker starts the command of an attempt at most once (`AtMostOncePerAttempt`);
- `VerdictsStand`: a recorded verdict is rewritten by nothing but an operator (`VerdictStable`).

`AtMostOncePerAttempt` is not inductive: that a start is the attempt's first needs to know that
nobody who may still start the container stands behind a start that already happened.
`InductiveInvariant` adds what that takes: `Containers` (a created container was never started, one
that runs or exited was), `Attempts` (an attempt beyond the record's was never started), `Runners` (a
runner past its claim holds an attempt the record has reached), `Fresh` (a runner on its way to start
a container finds an attempt without a start) and `AskedAgain` (an attempt open under the current
lease that its runner has still to ask for has no start either). The proof has one lemma per action
(`LateClaimStep`, `BuildStep`, …, `StartedStep`, `DockerFailsStep`), which rest on lemmas about the
operators the actions share: what
entering, leaving and moving a runner changes, what an answer to a claim or a report changes, and that
types and untouched parts are kept (`KeptTypes`, `KeptBoxes`, `KeptRecords`). `ProgressStep` and
`NextInvariant` collect them by the disjuncts of `Next`. `VerdictsStand` uses the invariant and, for
each action, that it leaves a settled record's verdict alone (`Firm`). `InductiveInvariant` is checked
by TLC as well (`release_one`).

`LeaseInvariant` ties the leases to the records: held work has not ended and ended work leaves nothing
running (`Held`), a runner that was handed an attempt finds it as far as it has come (`Handed`), a report
that is late comes from a runner that has made it (`LateReports`), and a rollback is asked for only over a
definite failure (`Rollbacks`). It holds whatever is settled behind a runner's back, and with it

- `LeaseHolds`: `LeaseInvariant` is an invariant;
- `RollbackDeserved`: traffic leaves a release only over a failed verification (`RollbackOnlyOnFailure`).

The other results suppose `SettleRaces` off, and only that, as their statements say (see above for what
happens with it on):

- `OneMigration`: two pre-activation commands of a service never run at once (`OneMigrationAtATime`);
- `EvidenceStays`: the container of a started migration stays until it is reported (`EvidenceKept`);
- `SuccessProved`: a recorded success is one of the command (`SuccessIsReal`);
- `PromiseKept`: `ReleaseJobs` implements `ReleasePromise` (`KeepsPromise`).

`ExclusionInvariant` is what they take. The hard part is a claim on its way: its runner has read which
containers run, and by the time the control plane decides, that may have changed. `StillBlocked` says that
what the claim was told is still true or another deployment's record blocks it in any case; `RunsAlone`
that while one migration is recorded as running nobody else's container runs one, `OneRecordRuns` that one
at most is; `Unsettled` that a runner on its way to a container holds the attempt that is running;
`ProvedReports` and `ProvedRequests` that an outcome on its way to be recorded, in time or late, is what
the container shows. The lemmas give, for each variable, what any step may do to it (`RecordSteps`,
`RunnerSteps`, `WorkSteps`, `BoxSteps` and the like), so that a conjunct is kept by cases on its own
variables only. The refinement maps each of these kinds of step to the promise's `Open`, `Begin`, `End`,
`Settle`, `Abandon` or `Operator`, or to a stutter. TLC checked both invariants first, on both instances.

`AgentWorkProofs` proves, for any items, limits, attempts, leases and faults, courteous control plane or
not:

- `Bounded`: no more work is executed at once than configured (`BoundedConcurrency`);
- `CompletedStays`: the container of a deploy the control plane recorded as completed is there, whatever
  reports were lost, late or rejected (`CompletedRuns`);
- `StartedOnce`: no lease starts an execution under way over (`NeverStartedOver`);
- `RestartsForUpdate`: an update restarts the agent at most once, and the restart interrupts only work that
  outlasted the drain (`RestartInterruptsNothingNew`), if its payload names a version (`Versioned`), which
  is what `isAgentUpdateAlreadyApplied` goes by; without one an update is applied again when its report is
  lost.

`Room` says that what a poll under way may bring still fits. `CompletedRuns` is not inductive by itself,
because a completion may be taken long after its execution ended or went on to something else. `Told`
says that the control plane heard of a completion under some lease, or may yet hear of it from a report
on its way; `Honest` that an execution of which this holds knows it (`delivery` is "unconfirmed") and so
does not roll back; `Fresh` that a lease on its way to the agent is newer than anything told; `Kept` that
of a completion told under the last lease the container is there. A lemma per action, over three that say
what a step that tells nothing new disturbs (`Quiet`, `OneItem`, `AllQuiet`). `StartedOnce` needs only the
types: `Onward` is shown for each action.

`HeartbeatProofs` proves, for any limit, any number of configurations and of faults:

- `SilenceBounded`: the loop has one attempt at a time and is silent for at most
  `Limit * (Limit - 1) + 1` periods (`SilenceIsShort`);
- `ExitDeserved`: it ends the process only after `Limit` periods without a success (`ExitIsDeserved`).

Silence is a history, so its bound is not inductive by itself: `Counted` ties it to the two counters of
the loop (a failure accounts for one period at least and for `Limit` at most), and `Waited` says where
an attempt can be under way. The products of `Limit` are kept in lemmas of their own (`OneMore`,
`Counters`).

`WorkerJobsProofs` proves, for any runs and any number of faults:

- `StartsOnce`: the command of a run is started at most once (`CommandStartsOnce`);
- `VerdictKept`: no handler rewrites a verdict (`VerdictStands`);
- `SuccessReal`: a receipt that says succeeded is of a command that ended with code zero
  (`SuccessIsReal`).

`AloneAt` says that one handler is at work on a run unless an inspection and a stop overlap, `KnowsAt`
what a handler that stands at a place still rightly believes of the receipt it read, and `OnceAt` that a
command that was started has left a receipt and no created container, so that no retry creates or
starts one. A lemma per action, over lemmas about what reading (`Thinks`), writing a receipt
(`Writes`) and touching the container (`Acts`, `BoxInv`) may disturb.

For the success, `Recorded` ties the receipt, the container and the end of the command, and `Judges` says
what a handler that is about to judge has seen of them.

`WorkerRolloutProofs` proves, for any versions, replicas, items and faults, from `RolloutAssumption` only:

- `NoOverlapping`: no two versions where the update mode or a volume forbids it (`NoOverlap`);
- `LiveLeft`: a failed candidate-first deploy leaves what was live running (`FailureLeavesLive`);
- `CommittedRun`: a committed deploy's candidates run, for good (`CommittedRuns`);
- `PreservedReal` and `RollbackWhole`: what a failed deploy says of what it left is true
  (`PreservedIsReal`, `RollbackIsWhole`);
- `RestorePoint`: the volume keeps a way back (`RestorePointKept`).

None is inductive by itself. `Invariant` has a part for each hazard. `Shape` is the handler's course: where
it can stand, and which slots the step it stands at works on (`Course`, `Parts`). `Ready` and `Spared` say
that a prepared replica, and a live one in a candidate's slot, run for good until the outcome; only what no
policy restarts may end by itself. `Undoing` follows a way back: what was signalled and by whom
(`Outcomes`), that nothing is found before it is looked for (`Untried`), and that what is counted as found,
preserved or completed stays so whatever ends late (`Found`, `Real`, `Whole`; a replica an earlier,
interrupted attempt had signalled may still end). `PutBack` is the volume after its restore. `Separate`
says that what the control plane recorded is of one version, and that past its halt a stop-first attempt
finds nothing running but the version it starts (`Alone`). The proof has a lemma per action that says, field
by field, what it does to the handler's record, and one per part that cites them. TLC checked every part
on the run's instance, and on one with a single replica, six items and four faults.

`AppRolloutProofs` proves, for any deployments and any number of faults, from `AppRolloutAssumption` only:

- `Served`: the container that serves is not taken down (`ServedUntilCutover`);
- `Committed` and `Preserved`: what an outcome says of the traffic is so (`CommittedServes`,
  `PreservedServes`);
- `OneWriter`: a volume has one writer (`SingleWriter`);
- `RestorePoint`: it keeps a way back (`RestorePointKept`).

`Known` says that what is recorded is an earlier deployment than the one deployed, `Course` what the
handler has done by where it stands, `Routed` where the route file and Traefik stand then (they differ while
Traefik follows), `Sole` that a step that starts a container on a volume finds none running, and `Covered`
that what a deployment wrote is covered by the clean snapshot of its own slot or by that of an earlier
deployment, which nothing deletes; a dirty snapshot exists only beside such a one. TLC checked each of
them on the run's instance, and with nine faults (364,703 states).

`StorageProofs` proves, for any volumes, engines, numbers of items, leases and faults that satisfy
`StorageAssumption`:

- `StorageInvariant`: `Inv` is an invariant of the specification;
- `ReportsAreTrue`: what a handler reports as done is so (`ReportIsTrue`, with its types);
- `WipesOnce`: a wipe leased again spares the cluster that came after it (`WipedOnce`).

A report says something of Docker after the last of a handler's steps, and the steps before it were taken
among crashes, earlier attempts and their tasks. So `Inv` follows the handler. `Course` says that what is
left of it is in the order of `Rank`, of its `Program`, and complete: what has a try has its finally, what
clears also provisions. `Wiping`, `Served`, `BackedUp`, `Restored` and `Unstaged` say, for each step that
is no longer left, what it established, and for a step that awaits its task, what the task is about to
establish. The other parts hold whatever the handler does. `Stored` follows the tasks that outlive their
handler: a volume has one loader, and what the loader has written is torn or its result; a volume that is
mounted cannot be removed, which is why a new item never meets an old loader (`Traces` does the same for
uploads). `Wiped` and `Receipted` are the two halves of a wipe: what was born since is younger, and before
the receipt is written nothing runs on the volume and nothing is in it, so that an erase, which never
follows a receipt, can destroy nothing. `Counted` bounds the clusters by the leases (an empty volume, or
a handler about to empty or make one, may bring one more), without which types could not be proved. The
lists of steps are reasoned about through membership and order alone (`Tails`, `Joined`, `Advance`,
`Launch`, `Throw`). `StorageAssumption` asks for at least one lease of an item: the first lease is not a
retry. TLC checked every part of `Inv` on the run's instance.

`ReadinessProofs` proves, for any windows, thresholds, limits and faults, and each kind of wait:

- `FailuresReal`: a container called looping went down that often in the time its wait looks back over, and
  one that had recovered is not failed for it (`FailuresAreReal`, with its types);
- `LoopsNotReady`: a loop the log and the count could show, to the inspections that answered, is never
  called ready (`LoopsAreNotReady`);
- `WorkersStayedUp`: a worker found ready has stayed up for the grace period (`StayedUp`).

Each compares a number the agent has pieced together, from a log that may be short and a count that a start
by hand clears, with what happened. `Counting` ties the count to the history: it is what went down since
that start, the first `started` entries of `downs` being before it. `Enough` bounds the evidence from below
at each await: what the log held in the window when it was read is in the evidence or excused, because the
container had outlasted it or the log was short. `Founded` bounds it from above: what is carried is at most
the `Tally` of those crashes that lie in the window, and after `started`, or the first look, every crash
does. That holds of a log read between two others' steps because `Tally` only grows, whoever
acts. Stops by hand are in the log too, so `Hands` says when there can be one, and `truth.down` excuses the
container that stood stopped before its rollout. `Growing` says that a container whose count is that of an
earlier look has not been down since: it has run since before `upSince`. `Standing` fixes what each kind
has established by where its wait stands. The last verdict follows from the evidence as it was just before:
the invariant keeps the parts only until the wait decides. TLC checks the properties on the run's
instance.

`HeartbeatProofs` proves of `TraefikRuntime` (the instance `Traefik`), for any projects, configurations,
items and faults:

- `AttachedThroughout`: no reconcile, and nothing beside one, loses an attachment (`Attached`, with its
  types);
- `RecordTrue`: what a reconcile records of its outcome is so (`RecordIsTrue`).

`Attached` speaks of an ingress that a reconcile saw through, and says nothing while the primary is away;
its proof has to follow the attachments through that gap. `InStage` does: after the networks are listed,
the primary is attached to whatever is not to do, of what a deploy attached it to, even to what is attached
or deleted while the reconcile goes through its list; and the primary is of the image and configuration
its stage says. `Linked` and `Owned` say why the list is enough: a project that Traefik has to be attached
to has its network, and a handler that detaches or removes one works for a project that is being deleted,
which no deploy is. `Asked` says that a deploy waits for one reconcile, its own, so that nobody else's end
moves it. TLC checked every part with the run's bounds, and with three items and one fault (11 million
states).

`HeartbeatProofs` proves of `DatabaseHealth` (the instance `Health`), for any databases, workers, passes,
changes and faults, `InventoryTrue`: what a published inventory says of a database was so since its stamp
(`InventoryIsTrue`). `GroundedAt` says that what a pass holds about a database is something the database
has been since the pass was stamped, `InTurn` that passes follow one another and none publishes out of
its turn.

`HeartbeatProofs` also proves of `AlloyRuntime` (the instance `Alloy`), for any number of configurations
and faults that satisfy `AlloyAssumption`:

- `Latest`: a success is of the latest configuration asked for, which is on disk and whose static part the
  collector was made for and reads (`SuccessIsLatest`), whatever crashes or fails;
- `Loaded`: what is taken for done is loaded, unless a crash or a failed write or removal left Alloy
  without it and it has not read its files since (`SuccessIsLoaded`), whatever else fails.

That a reconcile finds label and file as wanted says by itself nothing of what Alloy read. `InOrder` does:
the label is at most what is loaded, that at most what is on disk, and that at most what was asked for, so
that equality at both ends is equality throughout. `Asking` says that what the drain has still to do ends
with what was asked for last, `InPlace` what each step of a reconcile has put in place. For fragments,
which have no label, `Drawn` says that Alloy is behind the disk only on its way to a reload, to the fragment
before or to another container, or `stale`: what ends a reconcile at one of the three places where Alloy is
behind is what sets it (`FailsDraws`, `CrashDraws`). TLC has checked `Orderly` and `Drawn` on the instances
above.

The assumptions are those the modules name (`ReleaseAssumption`, `WorkAssumption`, `RolloutAssumption`,
`AppRolloutAssumption`, `StorageAssumption`, `HeartbeatAssumption`, `JobsAssumption`,
`DatabaseHealthAssumption`, `AlloyAssumption`, `TraefikAssumption`, `ReadinessAssumption`): types of the
constants, a set that is not empty, and limits of at least one. Where a theorem needs more, it says so
(`SettleRaces`, `Versioned`).

Only model-checked: all liveness, for the prover has no reasoning about fairness or `ENABLED`. Every safety
property a passing run checks is proved. What a recursive definition computes over data could not be proved
with the installed provers; no module here declares one.

## Not modelled

- The text of Alloy's configurations and the checks a snapshot reports of it; a configuration that returns
  to an older one, which a fragment whose way back was cut short could make look loaded.
- The shipping of build, container and service logs: nothing else reads what it keeps.
- Builds: one buildkit run whose output is parsed; an outcome in `AppRollout` and `ReleaseJobs`.
- The Docker client: request formatting. Each module has the calls it makes as actions that succeed,
  fail before or fail after their effect.
- Capacity, metrics, clock, host tuning, security: read, compute, report; the last sample is their state.
- Protocol types and the validation of payloads; Traefik's validation snapshot; the PostgreSQL
  statistics of a health pass.
- Deleting a backup, expiring a repository, changing resource limits, and the header parsing of an
  external backup.

## Plan

Done, in the order the behaviour matters: `ReleaseJobs` with its promise, `AgentWork`, `WorkerJobs`,
`WorkerRollout`, `AppRollout`, `Storage`, `Readiness`, `TraefikRuntime`, `Heartbeat`, `DatabaseHealth` and
`AlloyRuntime`, each with proofs of all its safety properties.

Next, modelling:

1. `packages/runtime/src/external-backup-import.ts`: the header readers as functions over short byte
   sequences.
2. Deletion and expiry of backups in `Storage`.
3. `Heartbeat` composed with `AgentWork`: the update a heartbeat triggers and a loop that ends the
   process while work runs.
