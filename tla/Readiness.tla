------------------------------- MODULE Readiness -------------------------------
(***************************************************************************)
(* How the agent judges whether a container serves: the waits for an app    *)
(* container, a worker replica and a database.  A container under Docker's  *)
(* restart policy goes down and comes up by itself, so one look at it shows *)
(* little: the waits carry evidence from look to look, and for a container  *)
(* that was up before they began they ask Docker's event log how often it   *)
(* went down shortly before.                                                *)
(*                                                                          *)
(* A look is three awaits (the instant is noted, the container inspected,   *)
(* the log read) and a probe is one more; the container lives on between    *)
(* them.  Time is the variable clock.                                       *)
(***************************************************************************)
EXTENDS Naturals, FiniteSets, Sequences, FiniteSetsExt

CONSTANTS
    Kinds,              \* what is waited for, and why
    RecentWindow,       \* RECENT_EXIT_WINDOW_MS
    AppLoop,            \* RESTART_LOOP_THRESHOLD
    WorkerLoop,         \* DEFAULT_WORKER_CRASH_LOOP_RESTART_COUNT
    Grace,              \* DEFAULT_WORKER_RUNNING_GRACE_MS
    Timeout,            \* how long a wait goes on
    ProbeInterval,      \* DEFAULT_READINESS_PROBE_INTERVAL_MS
    MaxTime,            \* bound: the clock
    MaxDowns,           \* bound: how often the container goes down
    MaxFaults           \* bound: short logs, failed calls, hands other than the agent's

ASSUME ReadinessAssumption ==
    /\ Kinds \subseteq {"candidate", "live", "undone", "worker", "replica", "restored",
                        "database", "restarted"}
    /\ {RecentWindow, Grace, Timeout, ProbeInterval, MaxTime, MaxDowns, MaxFaults} \subseteq Nat
    /\ {AppLoop, WorkerLoop} \subseteq Nat \ {0}

VARIABLES
    clock,
    box,        \* Docker: the container
    downs,      \* Docker: the instants at which its process went down by itself
    byHand,     \* Docker: the instants at which it was stopped by hand
    wait,       \* agent: the wait and the evidence it carries
    truth,      \* history: what had really happened when the wait looked
    faults

vars == <<clock, box, downs, byHand, wait, truth, faults>>

(* A kept container was up before the wait, an undone one was stopped by the *)
(* rollout that now wants it back.                                          *)
Kept == {"live", "undone", "replica"}
StoppedFirst == {"undone", "restored", "restarted"}
Worker == {"worker", "replica", "restored"}
Database == {"database", "restarted"}

Threshold == IF wait.kind \in Worker THEN WorkerLoop ELSE AppLoop

(* What an inspection shows.  restarts counts the restart policy's restarts *)
(* since the last start by hand.  Exit codes only word the messages.        *)
Container == [status: {"running", "restarting", "exited", "absent"},
              restarts: 0 .. MaxDowns, since: 0 .. MaxTime, oom: BOOLEAN,
              health: {"none", "starting", "healthy", "unhealthy"}]

Evidence == [oom: BOOLEAN, restarts: 0 .. 2 * MaxDowns]
NotSeen == [status |-> "absent", restarts |-> 0, since |-> 0, oom |-> FALSE, health |-> "none"]
NoEvidence == [oom |-> FALSE, restarts |-> 0]
Verdict == {"none", "ready", "out_of_memory", "restart_loop", "exited", "unhealthy",
            "missing", "deadline", "error"}
Unread == MaxDowns + 1
Never == MaxTime + 1

Wait == [kind: Kinds,
         pc: {"idle", "begin", "inspect", "count", "judge", "probe", "sleep", "stop",
              "start", "done"},
         stage: {"before", "watch"},
         at: 0 .. MaxTime, exits: Nat, snap: Container,
         deadline: 0 .. MaxTime + Timeout, nextProbe: 0 .. MaxTime + ProbeInterval,
         baseline: 0 .. Unread, before: 0 .. MaxDowns, recent: 0 .. MaxDowns,
         outlasted: BOOLEAN, oomAtStart: BOOLEAN, evidence: Evidence,
         lastCount: 0 .. Unread, upSince: 0 .. Never, verdict: Verdict]

Truth == [from: 0 .. Never, before: 0 .. MaxDowns, recent: 0 .. MaxDowns, steady: BOOLEAN,
          started: 0 .. MaxDowns, first: 0 .. Unread, last: 0 .. MaxDowns, short: BOOLEAN,
          blind: BOOLEAN, down: BOOLEAN]

TypeOK ==
    /\ clock \in 0 .. MaxTime
    /\ box \in Container
    /\ downs \in Seq(0 .. MaxTime) /\ Len(downs) <= MaxDowns
    /\ byHand \in Seq(0 .. MaxTime)
    /\ wait \in Wait
    /\ truth \in Truth
    /\ faults \in 0 .. MaxFaults

(* Containers that are stopped first are taken to have no health check.     *)
Init ==
    /\ clock = 0
    /\ downs = <<>> /\ byHand = <<>>
    /\ \E kind \in Kinds :
         /\ \E health \in (IF kind \in StoppedFirst THEN {"none"} ELSE {"none", "starting"}) :
              box = [status |-> "running", restarts |-> 0, since |-> 0, oom |-> FALSE,
                     health |-> health]
         /\ wait = [kind |-> kind, pc |-> "idle",
                    stage |-> IF kind \in StoppedFirst THEN "before" ELSE "watch",
                    at |-> 0, exits |-> 0, snap |-> NotSeen, deadline |-> 0, nextProbe |-> 0,
                    baseline |-> IF kind \in Kept THEN Unread ELSE 0, before |-> 0, recent |-> 0,
                    outlasted |-> FALSE, oomAtStart |-> FALSE, evidence |-> NoEvidence,
                    lastCount |-> Unread, upSince |-> Never, verdict |-> "none"]
    /\ truth = [from |-> Never, before |-> 0, recent |-> 0, steady |-> FALSE, started |-> 0,
                first |-> Unread, last |-> 0, short |-> FALSE, blind |-> FALSE, down |-> FALSE]
    /\ faults = 0

Fault == faults < MaxFaults /\ faults' = faults + 1
Undecided == wait.verdict = "none"

(* Entries of log in the window before instant.                             *)
Recent(log, instant) == Cardinality({i \in DOMAIN log : log[i] + RecentWindow >= instant})

----------------------------------------------------------------------------
(* Docker and time.                                                         *)

Tick ==
    /\ clock < MaxTime /\ Undecided
    /\ clock' = clock + 1
    /\ UNCHANGED <<box, downs, byHand, wait, truth, faults>>

(* The process ends; the restart policy counts and waits.  No worker's wait  *)
(* reads the memory flag.                                                   *)
GoesDown ==
    /\ Undecided /\ box.status = "running" /\ Len(downs) < MaxDowns
    /\ \E killed \in (IF wait.kind \in Worker THEN {FALSE} ELSE BOOLEAN) :
         box' = [box EXCEPT !.status = "restarting", !.restarts = @ + 1, !.oom = @ \/ killed]
    /\ downs' = Append(downs, clock)
    /\ UNCHANGED <<clock, byHand, wait, truth, faults>>

(* Docker versions differ in whether a restart keeps the memory flag.       *)
ComesUp ==
    /\ Undecided /\ box.status = "restarting"
    /\ \E oom \in {box.oom, FALSE} :
         box' = [box EXCEPT !.status = "running", !.since = clock, !.oom = oom,
                            !.health = IF @ = "none" THEN "none" ELSE "starting"]
    /\ UNCHANGED <<clock, downs, byHand, wait, truth, faults>>

(* A process of the container is killed for memory and the container lives  *)
(* on; or its health check settles.                                         *)
OutlivesKill ==
    /\ Undecided /\ box.status = "running" /\ ~box.oom /\ wait.kind \notin Worker
    /\ box' = [box EXCEPT !.oom = TRUE]
    /\ UNCHANGED <<clock, downs, byHand, wait, truth, faults>>

HealthChanges ==
    /\ Undecided /\ box.status = "running"
    /\ box.health = "starting"
    /\ \E health \in {"healthy", "unhealthy"} : box' = [box EXCEPT !.health = health]
    /\ UNCHANGED <<clock, downs, byHand, wait, truth, faults>>

(* Someone else stops or removes the container.                             *)
TakenAway ==
    /\ Undecided /\ box.status # "absent" /\ Fault
    /\ \/ /\ box.status \in {"running", "restarting"}
          /\ box' = [box EXCEPT !.status = "exited"]
          /\ byHand' = Append(byHand, clock)
       \/ box' = [box EXCEPT !.status = "absent"] /\ UNCHANGED byHand
    /\ UNCHANGED <<clock, downs, wait, truth>>

----------------------------------------------------------------------------
(* A look.                                                                  *)

Decide(verdict) == wait' = [wait EXCEPT !.pc = "done", !.verdict = verdict]

Ask ==
    /\ wait.pc = "idle"
    /\ wait' = [wait EXCEPT !.pc = "begin", !.deadline = clock + Timeout]
    /\ UNCHANGED <<clock, box, downs, byHand, truth, faults>>

(* The crashes a perfect log shows at this instant, for the properties.     *)
Noted ==
    LET recent == Cardinality({i \in DOMAIN downs :
                                 i > truth.started /\ downs[i] + RecentWindow >= clock})
    IN  [truth EXCEPT !.from = IF @ = Never /\ wait.kind \in Kept \cup StoppedFirst
                               THEN clock ELSE @,
                      !.before = IF wait.stage = "before" THEN recent ELSE @,
                      !.recent = IF wait.stage = "watch" /\ wait.baseline = Unread
                                 THEN recent ELSE @]

(* inspectedAt: exits logged later are not asked for.  A wait sleeps for an  *)
(* interval between its looks.                                              *)
Begin ==
    /\ wait.pc = "begin" \/ (wait.pc = "sleep" /\ clock > wait.at)
    /\ IF wait.stage = "watch" /\ clock > wait.deadline
       THEN Decide("deadline") /\ UNCHANGED truth
       ELSE /\ wait' = [wait EXCEPT !.pc = "inspect", !.at = clock,
                 !.exits = IF wait.stage = "before" \/ wait.baseline = Unread
                           THEN Recent(downs, clock) + Recent(byHand, clock) ELSE 0]
            /\ truth' = Noted
    /\ UNCHANGED <<clock, box, downs, byHand, faults>>

(* hasOutlastedRestartLoop                                                  *)
Outlasted(seen, instant) ==
    seen.status = "running" /\ (instant - seen.since) * Threshold >= RecentWindow

Seen ==
    LET steady == Outlasted(box, wait.at)
    IN  IF wait.stage = "before"
        THEN [truth EXCEPT !.before = IF steady THEN 0 ELSE @,
                           !.down = box.status = "exited"]
        ELSE [truth EXCEPT !.first = IF wait.baseline = Unread THEN Len(downs) ELSE @,
                           !.steady = IF wait.baseline = Unread THEN steady ELSE @,
                           !.last = Len(downs)]

(* Before a stop, no inspection is no reason to give up: the container is    *)
(* stopped all the same, and judged without the restarts it had before.     *)
Unseen ==
    /\ wait' = [wait EXCEPT !.pc = "stop", !.before = 0, !.exits = 0]
    /\ truth' = [truth EXCEPT !.blind = TRUE]

Inspect ==
    /\ wait.pc = "inspect"
    /\ IF box.status = "absent"
       THEN IF wait.stage = "before" THEN Unseen ELSE Decide("missing") /\ UNCHANGED truth
       ELSE /\ wait' = [wait EXCEPT
                 !.snap = box,
                 !.baseline = IF wait.kind = "restarted" /\ wait.stage = "before"
                              THEN box.restarts ELSE @,
                 !.pc = IF wait.kind = "restarted" /\ wait.stage = "before" THEN "stop"
                        ELSE IF wait.stage = "before" \/ wait.baseline = Unread THEN "count"
                        ELSE "judge"]
            /\ truth' = Seen
    /\ UNCHANGED <<clock, box, downs, byHand, faults>>

\* Fault: the restarts of the container's whole life are taken for recent ones.
RecentRestartsAll == {wait.snap.restarts}

(* countRecentRestarts: what the log still holds, at most the restarts; none *)
(* when it cannot be read.                                                  *)
RecentRestarts == 0 .. Min({wait.snap.restarts, wait.exits})

(* countRestartLoop for an app and before a stop; a worker that is still up *)
(* keeps the count for the case that it goes down again.                    *)
Count ==
    LET outlasted == Outlasted(wait.snap, wait.at)
        kept == wait.kind \in Kept \ Worker
    IN  /\ wait.pc = "count"
        /\ \E n \in RecentRestarts :
             LET counted == IF outlasted /\ (wait.stage = "before" \/ kept) THEN 0 ELSE n
             IN  /\ IF n < Max(RecentRestarts)
                    THEN Fault /\ truth' = [truth EXCEPT !.short = TRUE]
                    ELSE UNCHANGED <<faults, truth>>
                 /\ wait' =
                      IF wait.stage = "before"
                      THEN [wait EXCEPT !.pc = "stop", !.before = counted, !.exits = 0, !.snap = NotSeen]
                      ELSE [wait EXCEPT !.pc = "judge", !.baseline = wait.snap.restarts, !.exits = 0,
                                        !.recent = counted, !.outlasted = outlasted,
                                        !.oomAtStart = wait.snap.status = "running" /\ wait.snap.oom]
        /\ UNCHANGED <<clock, box, downs, byHand>>

(* The rollout stops the container (one that is gone counts as stopped), and *)
(* something later makes it start it again; for a database both are one     *)
(* restart, which fails without a container.                                *)
StopByHand ==
    /\ wait.pc = "stop"
    /\ IF box.status = "absent"
       THEN /\ IF wait.kind = "restarted" THEN Decide("error")
               ELSE wait' = [wait EXCEPT !.pc = "start"]
            /\ UNCHANGED <<box, byHand>>
       ELSE /\ box' = [box EXCEPT !.status = "exited"]
            /\ byHand' = IF box.status = "running" THEN Append(byHand, clock) ELSE byHand
            /\ wait' = [wait EXCEPT !.pc = "start"]
    /\ UNCHANGED <<clock, downs, truth, faults>>

\* Fault: what was read before the stop is forgotten.
StartByHandForgets ==
    /\ wait.pc = "start"
    /\ IF box.status = "absent"
       THEN Decide("error") /\ UNCHANGED <<box, truth>>
       ELSE /\ box' = [box EXCEPT !.status = "running", !.since = clock, !.restarts = 0,
                                  !.oom = FALSE,
                                  !.health = IF @ = "none" THEN "none" ELSE "starting"]
            /\ truth' = [truth EXCEPT !.started = Len(downs)]
            /\ wait' = [wait EXCEPT !.pc = "begin", !.stage = "watch", !.before = 0,
                                    !.deadline = clock + Timeout]
    /\ UNCHANGED <<clock, downs, byHand, faults>>

(* A start by hand clears the restart count and the memory flag.            *)
StartByHand ==
    /\ wait.pc = "start"
    /\ IF box.status = "absent"
       THEN Decide("error") /\ UNCHANGED <<box, truth>>
       ELSE /\ box' = [box EXCEPT !.status = "running", !.since = clock, !.restarts = 0,
                                  !.oom = FALSE,
                                  !.health = IF @ = "none" THEN "none" ELSE "starting"]
            /\ truth' = [truth EXCEPT !.started = Len(downs)]
            /\ wait' = [wait EXCEPT !.pc = "begin", !.stage = "watch",
                                    !.deadline = clock + Timeout]
    /\ UNCHANGED <<clock, downs, byHand, faults>>

----------------------------------------------------------------------------
(* The judgement.                                                           *)

Observed == IF wait.snap.restarts > wait.baseline THEN wait.snap.restarts - wait.baseline ELSE 0

(* readOutOfMemory: of a container that was up before, the flag counts only *)
(* when it was not up with it at the first look, and is seen going down.    *)
MemoryKill(goneDown) ==
    /\ wait.snap.oom
    /\ wait.kind \in Kept => ~wait.oomAtStart /\ (goneDown \/ wait.snap.status # "running")

(* recordEvidence                                                           *)
Gathered ==
    LET before == wait.recent + (IF wait.kind = "undone" THEN wait.before ELSE 0)
        restarts == Max({wait.evidence.restarts, before + Observed})
    IN  [oom |-> wait.evidence.oom \/ MemoryKill(restarts > before),
         restarts |-> restarts]

(* assessCandidateReadiness                                                 *)
Assessed(evidence) ==
    IF evidence.oom THEN "out_of_memory"
    ELSE IF wait.snap.status = "exited" THEN "exited"
    ELSE IF evidence.restarts >= AppLoop THEN "restart_loop"
    ELSE IF wait.snap.health = "healthy" THEN "ready"
    ELSE IF wait.snap.health = "unhealthy" THEN "unhealthy"
    ELSE IF wait.snap.health = "none" /\ wait.snap.status = "running" THEN "probe"
    ELSE "wait"

(* What a look read is gone when the wait sleeps; the evidence is not.       *)
Pause(evidence) ==
    wait' = [wait EXCEPT !.pc = "sleep", !.evidence = evidence, !.at = clock, !.snap = NotSeen]

(* waitForAppCandidateReadiness                                             *)
JudgeApp ==
    LET evidence == Gathered
        step == Assessed(evidence)
    IN  /\ wait.pc = "judge" /\ wait.kind \notin Worker \cup Database
        /\ CASE step = "wait" -> Pause(evidence)
             [] step = "probe" -> wait' = [wait EXCEPT !.pc = "probe", !.evidence = evidence,
                                                       !.snap = NotSeen]
             [] OTHER -> wait' = [wait EXCEPT !.pc = "done", !.verdict = step,
                                              !.evidence = evidence]
        /\ UNCHANGED <<clock, box, downs, byHand, truth, faults>>

(* waitForDatabaseReadiness: only the authenticated probe makes it ready.   *)
JudgeDatabase ==
    LET evidence == Gathered
        step == Assessed(evidence)
    IN  /\ wait.pc = "judge" /\ wait.kind \in Database
        /\ CASE step \notin {"wait", "probe", "ready"} ->
                  wait' = [wait EXCEPT !.pc = "done", !.verdict = step, !.evidence = evidence]
             [] step \in {"wait", "probe", "ready"} /\ clock >= wait.nextProbe ->
                  wait' = [wait EXCEPT !.pc = "probe", !.evidence = evidence,
                                       !.snap = NotSeen, !.nextProbe = clock + ProbeInterval]
             [] OTHER -> Pause(evidence)
        /\ UNCHANGED <<clock, box, downs, byHand, truth, faults>>

(* The restarts that count against a worker: a burst it has outlasted only  *)
(* counts once it goes down again.                                          *)
WorkerRestarts ==
    Observed + (IF wait.kind = "replica"
                THEN (IF wait.outlasted /\ Observed = 0 THEN 0 ELSE wait.recent)
                ELSE wait.before)

\* Fault: a restart between two looks leaves the grace period running.
UpSinceAnyRun ==
    IF wait.snap.status # "running" THEN Never
    ELSE IF wait.upSince # Never THEN wait.upSince
    ELSE clock

(* runningSince: a restart since the last look begins the grace anew.       *)
UpSince ==
    IF wait.snap.status # "running" THEN Never
    ELSE IF wait.upSince # Never /\ wait.snap.restarts <= wait.lastCount THEN wait.upSince
    ELSE clock

(* waitForWorkerReadiness                                                   *)
JudgeWorker ==
    LET started == wait.snap.status = "running"
        checked == wait.snap.health # "none"
        verdict == IF wait.snap.status = "exited" THEN "exited"
                   ELSE IF WorkerRestarts >= WorkerLoop THEN "restart_loop"
                   ELSE IF wait.snap.health = "unhealthy" THEN "unhealthy"
                   ELSE IF /\ started
                           /\ IF checked THEN wait.snap.health = "healthy"
                              ELSE clock - UpSince >= Grace
                   THEN "ready"
                   ELSE "none"
    IN  /\ wait.pc = "judge" /\ wait.kind \in Worker
        /\ wait' = [wait EXCEPT !.pc = IF verdict = "none" THEN "sleep" ELSE "done",
                                !.verdict = verdict, !.at = clock,
                                !.snap = IF verdict = "none" THEN NotSeen ELSE @,
                                !.lastCount = wait.snap.restarts,
                                !.upSince = IF checked THEN @ ELSE UpSince]
        /\ UNCHANGED <<clock, box, downs, byHand, truth, faults>>

(* checkTcpConnect, or the database's authenticated statement.              *)
Probe ==
    /\ wait.pc = "probe"
    /\ \/ box.status = "running" /\ Decide("ready")
       \/ Pause(wait.evidence)
    /\ UNCHANGED <<clock, box, downs, byHand, truth, faults>>

(* An inspection, a stop or a start throws; the quiesce of an app goes on    *)
(* without the inspection it makes first (inspectRetiringAppContainer).     *)
CallFails ==
    /\ wait.pc \in {"inspect", "stop", "start"}
    /\ Fault
    /\ IF wait.kind = "undone" /\ wait.pc = "inspect" /\ wait.stage = "before" THEN Unseen
       ELSE Decide("error") /\ UNCHANGED truth
    /\ UNCHANGED <<clock, box, downs, byHand>>

----------------------------------------------------------------------------

Docker == GoesDown \/ ComesUp \/ OutlivesKill \/ HealthChanges \/ TakenAway

Look == Begin \/ Inspect \/ Count \/ JudgeApp \/ JudgeDatabase \/ JudgeWorker \/ Probe

Next == Tick \/ Docker \/ Ask \/ Look \/ StopByHand \/ StartByHand \/ CallFails

Spec == Init /\ [][Next]_vars

----------------------------------------------------------------------------
(* Properties.                                                              *)

(* "A short log can only miss restarts, never report a loop that did not    *)
(* happen": a container called looping went down that often, a kept one     *)
(* since the window before it was first looked at.  (One that already stood  *)
(* stopped before the rollout stopped it is excepted: no start has cleared   *)
(* its restart count, so its stop by hand is counted for a restart.)  And    *)
(* what it recovered from says nothing about now: a kept container that was *)
(* up long enough before the check and goes on is neither looping nor out   *)
(* of memory.  The types included.                                          *)
FailuresAreReal ==
    /\ TypeOK
    /\ wait.verdict = "restart_loop" /\ ~truth.down =>
         Cardinality({i \in DOMAIN downs :
                        wait.kind \in Kept \cup StoppedFirst => downs[i] + RecentWindow >= truth.from})
           >= Threshold
    /\ wait.kind \in {"live", "replica"} /\ truth.steady /\ truth.last = truth.first
         /\ wait.snap.status = "running" =>
         wait.verdict \notin {"restart_loop", "out_of_memory"}

(* The restarts that count against each kind, had every one been seen that  *)
(* an inspection which answered could show.                                 *)
LoopTruly ==
    LET since == truth.last - truth.first
        before == IF truth.blind THEN 0 ELSE truth.before
    IN  CASE wait.kind \in {"live", "undone"} ->
               before + since + (IF truth.steady THEN 0 ELSE truth.recent)
          [] wait.kind = "replica" ->
               since + (IF truth.steady /\ since = 0 THEN 0 ELSE truth.recent)
          [] wait.kind = "restored" -> before + truth.last - truth.started
          [] OTHER -> truth.last - truth.started

(* A container in a restart loop is up most of the time: finding it up and  *)
(* reachable does not make it ready, across a stop and a start by hand      *)
(* (which clears the count) as well, as long as the log reached back.       *)
(* Two exceptions.  An app container whose inspection before the quiesce    *)
(* failed (truth.blind) is "judged without the restarts it had before", so  *)
(* only those since its start count.  And a restarted database's baseline   *)
(* is read before the restart that clears the count.                        *)
LoopsAreNotReady ==
    wait.verdict = "ready" /\ ~truth.short /\ wait.kind # "restarted" => LoopTruly < Threshold

(* A worker without a health check is ready only when the very process the  *)
(* last look saw has run for the grace period, whatever happened between    *)
(* the looks.                                                               *)
StayedUp ==
    wait.verdict = "ready" /\ wait.kind \in Worker =>
      /\ wait.snap.status = "running"
      /\ wait.snap.health = "none" => wait.snap.since + Grace <= clock

=============================================================================
