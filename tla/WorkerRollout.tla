----------------------------- MODULE WorkerRollout ------------------------------
(***************************************************************************)
(* A worker service's rollouts and restarts: deployWorkerRuntime with        *)
(* planWorkerRollout, stopWorkerContainerGracefully and the volume           *)
(* snapshot, and restartWorkerServiceRuntime.  A slot is a container name:   *)
(* a version (deployment) and a replica index.  One work item of a service   *)
(* is in progress at a time; the agent may die between any two Docker calls  *)
(* and the item is then leased again, or given up and another one issued.    *)
(***************************************************************************)
EXTENDS Naturals

CONSTANTS
    Versions,       \* deployments of the service, any of them deployable again
    MaxReplicas,
    MaxWork,        \* bound: work items issued
    MaxFaults       \* bound: crashes, stuck processes, failed Docker calls

ASSUME RolloutAssumption == /\ Versions # {}
                            /\ MaxReplicas \in Nat \ {0}
                            /\ MaxWork \in Nat
                            /\ MaxFaults \in Nat

VARIABLES
    box,        \* Docker: the container in each slot
    volume,     \* whether the service has a volume, and what is in it
    snap,       \* disk: the snapshot in the slot of each version's deployment
    kept,       \* disk: whether a clean snapshot was moved out of its slot
    recorded,   \* control plane: the slots of the live runtime
    earlier,    \* control plane: what was recorded before
    work,       \* control plane: the work item, if any
    h,          \* agent: the handler of that item
    issued,
    faults

vars == <<box, volume, snap, kept, recorded, earlier, work, h, issued, faults>>

Slots == Versions \X (0 .. MaxReplicas - 1)
VersionOf(s) == s[1]
Replicas(v, n) == {v} \X (0 .. n - 1)

\* auto: the restart policy is unless-stopped.
Container == [run: {"absent", "running", "stopped"}, auto: BOOLEAN]
Absent == [run |-> "absent", auto |-> FALSE]
Started == [run |-> "running", auto |-> TRUE]

Running == {s \in Slots : box[s].run = "running"}
Present == {s \in Slots : box[s].run # "absent"}

(* clean: the volume as the last version that was live left it; touched: a   *)
(* version that is not live has written since; exposed: and all its own slot *)
(* held was a leftover of an earlier attempt, or that has been put back.     *)
Volume == {"none", "clean", "touched", "exposed"}

(* fresh: the volume as the last version that was live left it; stale: that  *)
(* version, or a later one, has written since; dirty: taken after a version  *)
(* that never became live had written.                                       *)
Snapshot == {"none", "fresh", "stale", "dirty"}
Stale(s) == [v \in Versions |-> IF s[v] = "fresh" THEN "stale" ELSE s[v]]

Outcome == {"none", "sent", "already_stopped", "exited", "hung", "unconfirmed"}

Work == [kind: {"none", "deploy", "restart"}, version: Versions, count: 0 .. MaxReplicas,
         noOverlap: BOOLEAN, meta: SUBSET Slots]

Handler ==
    [pc: {"idle", "sweep", "reset", "halt", "snapshot", "slots", "discard",
          "unwind", "restore", "reopen", "judge", "settle", "retire", "remove",
          "restart", "report"},
     order: {"none", "candidate_first", "stop_first"},
     cands: SUBSET Slots,       \* candidateNames
     stale: SUBSET Slots,       \* resetCandidates
     prev: SUBSET Slots,        \* previousContainers
     retired: SUBSET Slots,     \* retiredContainers
     adopted: SUBSET Slots,     \* adoptedLiveReplicas
     live: SUBSET Slots,        \* history: live replicas running when planned
     todo: SUBSET Slots,        \* what the step at pc still has to do
     out: [Slots -> Outcome],   \* shutdowns
     snapshot: BOOLEAN,         \* snapshotName is set
     restored: BOOLEAN,         \* volumeRestored, or nothing to restore
     preserved: BOOLEAN,        \* liveRuntimePreserved
     completed: BOOLEAN,        \* rollbackCompleted
     result: {"none", "committed", "aborted", "error"}]

NoOutcomes == [s \in Slots |-> "none"]
NoWork == [kind |-> "none", version |-> CHOOSE v \in Versions : TRUE, count |-> 0,
           noOverlap |-> FALSE, meta |-> {}]
Idle == [pc |-> "idle", order |-> "none", cands |-> {}, stale |-> {}, prev |-> {},
         retired |-> {}, adopted |-> {}, live |-> {}, todo |-> {}, out |-> NoOutcomes,
         snapshot |-> FALSE, restored |-> FALSE, preserved |-> FALSE,
         completed |-> FALSE, result |-> "none"]

TypeOK ==
    /\ box \in [Slots -> Container]
    /\ volume \in Volume
    /\ snap \in [Versions -> Snapshot]
    /\ kept \in BOOLEAN
    /\ {recorded, earlier} \subseteq SUBSET Slots
    /\ work \in Work
    /\ h \in Handler
    /\ issued \in 0 .. MaxWork
    /\ faults \in 0 .. MaxFaults

Init ==
    /\ box = [s \in Slots |-> Absent]
    /\ volume \in {"none", "clean"}
    /\ snap = [v \in Versions |-> "none"]
    /\ kept = FALSE
    /\ recorded = {} /\ earlier = {}
    /\ work = NoWork
    /\ h = Idle
    /\ issued = 0
    /\ faults = 0

HasVolume == volume # "none"
At(pc) == h.pc = pc
Fault == faults < MaxFaults /\ faults' = faults + 1
MayFail(A, B) == (A /\ UNCHANGED faults) \/ (B /\ Fault)
Finish(result) == [h EXCEPT !.pc = "report", !.result = result]
Remove(gone) == box' = [s \in Slots |-> IF s \in gone THEN Absent ELSE box[s]]

disk == <<volume, snap, kept>>
control == <<recorded, earlier, work, issued>>

----------------------------------------------------------------------------
(* The control plane.                                                       *)

IssueDeploy ==
    /\ work.kind = "none" /\ issued < MaxWork
    /\ issued' = issued + 1
    /\ \E v \in Versions, n \in 0 .. MaxReplicas, once \in BOOLEAN :
         /\ HasVolume => n <= 1
         /\ work' = [kind |-> "deploy", version |-> v, count |-> n, noOverlap |-> once,
                     meta |-> recorded]
    /\ UNCHANGED <<box, disk, recorded, earlier, h, faults>>

(* A restart may have been queued before the rollout that ran in between.   *)
IssueRestart ==
    /\ work.kind = "none" /\ issued < MaxWork
    /\ issued' = issued + 1
    /\ \E meta \in {recorded, earlier}, once \in BOOLEAN :
         /\ meta # {}
         /\ work' = [NoWork EXCEPT !.kind = "restart", !.noOverlap = once, !.meta = meta]
    /\ UNCHANGED <<box, disk, recorded, earlier, h, faults>>

Lease ==
    /\ work.kind # "none" /\ At("idle")
    /\ h' = [Idle EXCEPT !.pc = "sweep",
                         !.cands = IF work.kind = "deploy"
                                   THEN Replicas(work.version, work.count) ELSE {}]
    /\ UNCHANGED <<box, disk, control, faults>>

GiveUp ==
    /\ work.kind # "none" /\ At("idle")
    /\ Fault
    /\ work' = NoWork
    /\ UNCHANGED <<box, disk, recorded, earlier, h, issued>>

(* The report is taken, or lost and the item leased again.                  *)
Report ==
    /\ At("report")
    /\ h' = Idle
    /\ \/ /\ work' = NoWork
          /\ IF h.result = "committed" /\ work.kind = "deploy"
             THEN recorded' = h.cands /\ earlier' = recorded
             ELSE UNCHANGED <<recorded, earlier>>
          /\ UNCHANGED faults
       \/ Fault /\ UNCHANGED <<work, recorded, earlier>>
    /\ UNCHANGED <<box, disk, issued>>

(* The agent dies, and perhaps the host: what Docker then does not start     *)
(* again is stopped.                                                         *)
Crash ==
    /\ ~At("idle")
    /\ Fault
    /\ h' = Idle
    /\ \E host \in BOOLEAN :
         box' = [s \in Slots |-> IF host /\ s \in Running /\ ~box[s].auto
                                 THEN [box[s] EXCEPT !.run = "stopped"] ELSE box[s]]
    /\ UNCHANGED <<disk, control>>

(* A process that was signalled, or that no policy restarts, ends late.     *)
Exits(s) ==
    /\ s \in Running /\ ~box[s].auto
    /\ box' = [box EXCEPT ![s].run = "stopped"]
    /\ UNCHANGED <<disk, control, h, faults>>

----------------------------------------------------------------------------
(* Leftovers and the plan.                                                  *)

Live(s) == s \in Running \/ s \in work.meta

Leftovers == {s \in Present : ~Live(s) /\ s \notin h.cands}

(* A throw before the plan fails the item with nothing else touched.        *)
Sweep(s) ==
    /\ At("sweep") /\ s \in Leftovers
    /\ MayFail(Remove({s}) /\ UNCHANGED h,
               h' = Finish("error") /\ UNCHANGED box)
    /\ UNCHANGED <<disk, control>>

\* Fault: what the control plane records decides the order, not what runs.
StopFirstRecordedOnly(others) ==
    /\ h.cands # {}
    /\ \/ HasVolume /\ \E s \in others : s \in work.meta
       \/ work.noOverlap /\ \E s \in others : s \in work.meta /\ VersionOf(s) # work.version

(* planWorkerRollout                                                        *)
StopFirst(others) ==
    /\ h.cands # {}
    /\ \/ HasVolume /\ \E s \in others : Live(s)
       \/ work.noOverlap /\ \E s \in others : Live(s) /\ VersionOf(s) # work.version

(* adoptedLiveReplicas are listed here and corrected as slots are prepared. *)
Plan ==
    LET others == Present \ h.cands
        first == StopFirst(others)
    IN  /\ At("sweep") /\ work.kind = "deploy" /\ Leftovers = {}
        /\ h' = [h EXCEPT
             !.pc = IF first THEN "reset" ELSE "slots",
             !.order = IF first THEN "stop_first" ELSE "candidate_first",
             !.stale = IF first THEN Present \cap h.cands ELSE {},
             !.todo = IF first THEN Present \cap h.cands ELSE h.cands,
             !.prev = IF first THEN others ELSE {},
             !.retired = IF first THEN {} ELSE others,
             !.adopted = IF first THEN {} ELSE h.cands \cap Running \cap work.meta,
             !.live = IF first THEN {} ELSE {s \in Running \cap work.meta : box[s].auto}]
        /\ UNCHANGED <<box, disk, control, faults>>

----------------------------------------------------------------------------
(* stopAllGracefully: every container of todo is signalled, and each ends   *)
(* with a report of its own.                                                *)

Halting == h.pc \in {"reset", "halt", "discard", "retire"}
Halted == \A s \in h.todo : h.out[s] \notin {"none", "sent"}

MayStillRun(s) == h.out[s] \in {"hung", "unconfirmed"}

(* The restart policy is switched off before the signal is sent.            *)
Signal(s) ==
    /\ Halting /\ s \in h.todo /\ h.out[s] = "none"
    /\ h' = [h EXCEPT !.out[s] = IF s \in Running THEN "sent" ELSE "already_stopped"]
    /\ box' = IF s \in Running THEN [box EXCEPT ![s].auto = FALSE] ELSE box
    /\ UNCHANGED <<disk, control, faults>>

(* It ends by itself, or by SIGKILL, or survives that.                      *)
Confirm(s) ==
    /\ Halting /\ s \in h.todo /\ h.out[s] = "sent"
    /\ \/ /\ h' = [h EXCEPT !.out[s] = "exited"]
          /\ box' = [box EXCEPT ![s].run = "stopped"]
          /\ UNCHANGED faults
       \/ /\ s \in Running /\ Fault
          /\ h' = [h EXCEPT !.out[s] = "hung"]
          /\ UNCHANGED box
    /\ UNCHANGED <<disk, control>>

(* An inspection, the policy update or a kill throws part-way.              *)
HaltThrows(s) ==
    /\ Halting /\ s \in h.todo /\ h.out[s] \in {"none", "sent"}
    /\ Fault
    /\ h' = [h EXCEPT !.out[s] = "unconfirmed"]
    /\ \E off \in BOOLEAN : box' = IF off THEN [box EXCEPT ![s].auto = FALSE] ELSE box
    /\ UNCHANGED <<disk, control>>

----------------------------------------------------------------------------
(* Stop-first: stale candidates, previous containers, snapshot.             *)

Abort == [h EXCEPT !.pc = "restore"]

EndReset ==
    LET clear == [h EXCEPT !.pc = "halt", !.todo = h.prev]
    IN  /\ At("reset") /\ Halted
        /\ IF \E s \in h.stale : MayStillRun(s)
           THEN h' = Abort /\ UNCHANGED <<box, faults>>
           ELSE MayFail(Remove(h.stale) /\ h' = clear,
                        \E gone \in SUBSET h.stale : Remove(gone) /\ h' = Abort)
        /\ UNCHANGED <<disk, control>>

EndHalt ==
    /\ At("halt") /\ Halted
    /\ h' = IF \E s \in h.prev : MayStillRun(s) \/ s \in Running THEN Abort
            ELSE IF HasVolume THEN [h EXCEPT !.pc = "snapshot"]
            ELSE [h EXCEPT !.pc = "slots", !.todo = h.cands]
    /\ UNCHANGED <<box, disk, control, faults>>

\* Fault: a snapshot in the slot is taken again.
TakeSnapshotAnew ==
    /\ At("snapshot")
    /\ MayFail(/\ snap' = [snap EXCEPT ![work.version] =
                             IF volume = "clean" THEN "fresh" ELSE "dirty"]
               /\ h' = [h EXCEPT !.pc = "slots", !.todo = h.cands, !.snapshot = TRUE],
               h' = Abort /\ UNCHANGED snap)
    /\ UNCHANGED <<box, volume, kept, control>>

(* createWorkerVolumeSnapshot: one already in the slot is reused.           *)
TakeSnapshot ==
    /\ At("snapshot")
    /\ MayFail(/\ IF snap[work.version] # "none" THEN UNCHANGED snap
                  ELSE snap' = [snap EXCEPT ![work.version] =
                                  IF volume = "clean" THEN "fresh" ELSE "dirty"]
               /\ h' = [h EXCEPT !.pc = "slots", !.todo = h.cands, !.snapshot = TRUE],
               h' = Abort /\ UNCHANGED snap)
    /\ UNCHANGED <<box, volume, kept, control>>

----------------------------------------------------------------------------
(* Candidates.                                                              *)

\* Fault: the replicas it adopted are discarded with its own.
DiscardAll(adopted) ==
    [h EXCEPT !.pc = "discard", !.todo = h.cands, !.adopted = adopted,
              !.out = [s \in Slots |-> IF s \in h.cands THEN "none" ELSE h.out[s]]]

Discard(adopted) ==
    LET own == h.cands \ adopted
    IN  [h EXCEPT !.pc = "discard", !.todo = own, !.adopted = adopted,
                  !.out = [s \in Slots |-> IF s \in own THEN "none" ELSE h.out[s]]]

\* Fault: a running candidate is adopted as it is.
PrepareSlotAsFound(s) ==
    /\ h' = [h EXCEPT !.todo = @ \ {s}, !.adopted = IF s \in Running THEN @ ELSE @ \ {s}]
    /\ box' = [box EXCEPT ![s] = IF s \in Running THEN @ ELSE Started]

(* prepareCandidateSlot and ensureContainer: a running one is adopted and   *)
(* its policy set, anything else replaced by a new container.               *)
PrepareSlot(s) ==
    /\ h' = [h EXCEPT !.todo = @ \ {s}, !.adopted = IF s \in Running THEN @ ELSE @ \ {s}]
    /\ box' = [box EXCEPT ![s] = Started]

Touched(v) == IF ~(v = "clean" /\ h.order = "stop_first") THEN v
              ELSE IF snap[work.version] = "fresh" THEN "touched" ELSE "exposed"

StartCandidate(s) ==
    /\ At("slots") /\ s \in h.todo
    /\ PrepareSlot(s)
    /\ volume' = Touched(volume)
    /\ UNCHANGED <<snap, kept, control, faults>>

(* The slot cannot be prepared, or what was created in it does not start.   *)
SlotThrows(s) ==
    /\ At("slots") /\ s \in h.todo
    /\ Fault
    /\ \/ h' = Discard(h.adopted) /\ UNCHANGED box
       \/ /\ s \notin Running
          /\ h' = Discard(h.adopted \ {s})
          /\ \E left \in {Absent, [run |-> "stopped", auto |-> TRUE]} :
               box' = [box EXCEPT ![s] = left]
    /\ UNCHANGED <<disk, control>>

(* waitForWorkerReadiness, of every candidate.                              *)
Readiness ==
    /\ At("slots") /\ h.todo = {}
    /\ \/ h' = [h EXCEPT !.pc = "retire", !.todo = h.retired]
       \/ h.cands # {} /\ h' = Discard(h.adopted)
    /\ UNCHANGED <<box, disk, control, faults>>

----------------------------------------------------------------------------
(* A failed attempt.                                                        *)

(* Whether a replica that was never stopped runs, as its readiness says.    *)
AnyReplicaRuns(replicas) == IF replicas \cap Running = {} THEN {FALSE} ELSE BOOLEAN

Discarded(left) ==
    IF h.order = "stop_first"
    THEN h' = [h EXCEPT !.pc = IF left = {} THEN "unwind" ELSE "settle"]
    ELSE \E runs \in AnyReplicaRuns(h.adopted \cup h.retired) :
           h' = [Finish("aborted") EXCEPT !.preserved = runs]

(* discardFailedCandidates: a hung candidate stays, one that could not be   *)
(* confirmed is removed by force, and after a throw all of them are.        *)
EndDiscard ==
    LET hung == {s \in h.todo : h.out[s] = "hung"}
    IN  /\ At("discard") /\ Halted
        /\ \/ Remove(h.todo \ hung) /\ Discarded(hung) /\ UNCHANGED faults
           \/ /\ Fault
              /\ \E left \in SUBSET h.todo : Remove(h.todo \ left) /\ Discarded(left)
        /\ UNCHANGED <<disk, control>>

(* The snapshot put back, before the previous version is.                   *)
RestoreVolume ==
    LET back == IF snap[work.version] # "dirty" THEN "clean"
                ELSE IF volume = "touched" THEN "touched" ELSE "exposed"
        put == [h EXCEPT !.pc = "restore", !.restored = TRUE]
    IN  /\ At("unwind")
        /\ IF ~h.snapshot
           THEN h' = put /\ UNCHANGED <<volume, faults>>
           ELSE MayFail(volume' = back /\ h' = put,
                        UNCHANGED volume /\ h' = [h EXCEPT !.pc = "settle"])
        /\ UNCHANGED <<box, snap, kept, control>>

\* Fault: whatever was found stopped is left alone.
LeftAloneStopped(s) == h.out[s] \in {"hung", "already_stopped"}

LeftAlone(s) == \/ h.out[s] = "hung"
                \/ h.out[s] = "already_stopped" /\ s \notin work.meta

\* Fault: a container that is still running needs nothing.
BackOnAsIs(tried) == box

(* Every container this attempt tried to stop gets its policy back.         *)
BackOn(tried) == [s \in Slots |-> IF s \in tried \cap Running THEN Started ELSE box[s]]

(* restorePreviousWorkerRuntime: what runs is given its policy back, what   *)
(* this attempt stopped is to be started again.  retired holds foundRunning *)
(* from here on; a stop-first rollout retires nothing else.                 *)
RestoreLook ==
    LET seen == {s \in h.prev : ~LeftAlone(s)}
        tried == {s \in seen : h.out[s] # "none"}
    IN  /\ At("restore")
        /\ MayFail(/\ box' = BackOn(tried)
                   /\ h' = [h EXCEPT !.pc = "reopen",
                                     !.retired = seen \cap Running,
                                     !.todo = (tried \cap Present) \ Running,
                                     !.completed = tried \subseteq Present],
                   UNCHANGED box /\ h' = [h EXCEPT !.pc = "judge", !.todo = {}])
        /\ UNCHANGED <<disk, control>>

(* One previous container started again: with a volume, only beside ones    *)
(* this restore knows.  live holds the replicas that came back ready.       *)
RestoreStart(s) ==
    /\ At("reopen") /\ s \in h.todo
    /\ \/ /\ HasVolume => Running \subseteq (h.prev \ {t \in h.prev : LeftAlone(t)})
          /\ box' = [box EXCEPT ![s] = Started]
          /\ snap' = Stale(snap)
          /\ \E ready \in BOOLEAN :
               h' = [h EXCEPT !.todo = @ \ {s}, !.live = IF ready THEN @ \cup {s} ELSE @]
          /\ UNCHANGED faults
       \/ /\ IF HasVolume /\ ~(Running \subseteq (h.prev \ {t \in h.prev : LeftAlone(t)}))
             THEN UNCHANGED faults ELSE Fault
          /\ h' = [h EXCEPT !.pc = "judge", !.completed = FALSE]
          /\ UNCHANGED <<box, snap>>
    /\ UNCHANGED <<volume, kept, control>>

Judge ==
    /\ At("judge") \/ (At("reopen") /\ h.todo = {})
    /\ \E runs \in IF h.live # {} THEN {TRUE} ELSE AnyReplicaRuns(h.retired) :
         h' = [h EXCEPT !.pc = "settle", !.preserved = runs,
                        !.completed = @ /\ runs /\ h.restored]
    /\ UNCHANGED <<box, disk, control, faults>>

(* Deleted once restored, moved out of the slot otherwise.                  *)
DropOrKeep ==
    /\ snap' = [snap EXCEPT ![work.version] = "none"]
    /\ kept' = (kept \/ (~h.restored /\ snap[work.version] # "dirty"))

SettleSnapshot ==
    /\ At("settle")
    /\ h' = Finish("aborted")
    /\ IF ~h.snapshot THEN UNCHANGED <<snap, kept, faults>>
       ELSE MayFail(DropOrKeep, UNCHANGED <<snap, kept>>)
    /\ UNCHANGED <<box, volume, control>>

----------------------------------------------------------------------------
(* A rollout whose candidates are ready: retiring is best effort.           *)

EndRetire ==
    /\ At("retire") /\ Halted
    /\ h' = [h EXCEPT !.pc = "remove",
                      !.todo = h.prev \cup {s \in h.retired : ~MayStillRun(s)}]
    /\ UNCHANGED <<box, disk, control, faults>>

RemoveOld(s) ==
    /\ At("remove") /\ s \in h.todo
    /\ h' = [h EXCEPT !.todo = @ \ {s}]
    /\ MayFail(Remove({s}), UNCHANGED box)
    /\ UNCHANGED <<disk, control>>

Commit ==
    /\ At("remove") /\ h.todo = {}
    /\ h' = Finish("committed")
    /\ volume' = IF HasVolume THEN "clean" ELSE volume
    /\ LET past == Stale(snap)
       IN  IF ~h.snapshot THEN snap' = past /\ UNCHANGED faults
           ELSE MayFail(snap' = [past EXCEPT ![work.version] = "none"], snap' = past)
    /\ UNCHANGED <<box, kept, control>>

----------------------------------------------------------------------------
(* restartWorkerServiceRuntime                                              *)

RestartPlan ==
    LET live == Present \cap work.meta
        others == Running \ work.meta
    IN  /\ At("sweep") /\ work.kind = "restart" /\ Leftovers = {}
        /\ h' = IF live = {} THEN Finish(IF others # {} THEN "committed" ELSE "error")
                ELSE IF others # {} /\ (work.noOverlap \/ HasVolume) THEN Finish("error")
                ELSE [h EXCEPT !.pc = "restart", !.todo = live]
        /\ UNCHANGED <<box, disk, control, faults>>

RestartOne(s) ==
    /\ At("restart") /\ s \in h.todo
    /\ MayFail(/\ box' = [box EXCEPT ![s] = Started]
               /\ snap' = Stale(snap)
               /\ h' = IF h.todo = {s} THEN Finish("committed") ELSE [h EXCEPT !.todo = @ \ {s}],
               UNCHANGED <<box, snap>> /\ h' = Finish("error"))
    /\ UNCHANGED <<volume, kept, control>>

----------------------------------------------------------------------------

StopFirstStep == EndReset \/ EndHalt \/ TakeSnapshot
FailureStep == \/ EndDiscard \/ RestoreVolume \/ RestoreLook \/ Judge \/ SettleSnapshot
RolloutStep == Plan \/ Readiness \/ EndRetire \/ Commit

Next ==
    \/ IssueDeploy \/ IssueRestart \/ Lease \/ GiveUp \/ Report \/ Crash
    \/ StopFirstStep \/ FailureStep \/ RolloutStep \/ RestartPlan
    \/ \E s \in Slots :
         \/ Exits(s) \/ Sweep(s)
         \/ Signal(s) \/ Confirm(s) \/ HaltThrows(s)
         \/ StartCandidate(s) \/ SlotThrows(s)
         \/ RestoreStart(s) \/ RemoveOld(s) \/ RestartOne(s)

Spec == Init /\ [][Next]_vars

----------------------------------------------------------------------------
(* Properties.                                                              *)

RunsBeside(s) == \E t \in Running : VersionOf(t) # VersionOf(s)

(* "Confirms the old process has stopped before the replacement starts": no *)
(* candidate and no restarted replica of a no_overlap or volume-backed      *)
(* worker starts while another version runs, whatever an interrupted        *)
(* attempt, a stuck process or a failed Docker call left behind.            *)
NoOverlap ==
    [][\A s \in Slots :
         /\ work.noOverlap \/ HasVolume
         /\ s \notin Running /\ box'[s].run = "running"
         /\ h.pc \in {"slots", "restart"}
         => ~RunsBeside(s)]_vars

(* A candidate-first attempt that fails leaves every replica that was live  *)
(* when it began running, its restart policy on.                            *)
FailureLeavesLive ==
    h.order = "candidate_first" /\ (h.pc \in {"slots", "discard"} \/ h.result = "aborted")
        => \A s \in h.live : box[s] = Started

(* A committed rollout's replicas run and come back after a reboot, also     *)
(* when it adopted candidates an earlier attempt had begun to stop.  The    *)
(* types included.                                                          *)
CommittedRuns ==
    TypeOK /\ (h.result = "committed" /\ work.kind = "deploy" => \A s \in h.cands : box[s] = Started)

(* liveRuntimePreserved is said only where a container that is no candidate  *)
(* of this attempt goes on running: nothing the attempt signalled ends late, *)
(* only what an earlier, interrupted attempt had.                            *)
PreservedIsReal ==
    h.result = "aborted" /\ h.preserved
        => \E s \in Present \ (h.cands \ h.adopted) :
             s \in Running \/ (~box[s].auto /\ h.out[s] = "none")

(* rollbackCompleted is said only when everything this attempt stopped, but  *)
(* what was never part of the live runtime, is started again for good.      *)
RollbackIsWhole ==
    h.result = "aborted" /\ h.completed
        => \A s \in h.prev : h.out[s] = "exited" \/ s \in work.meta => box[s] = Started

(* Once a version that is not live has written to the volume, what was there *)
(* before is in a snapshot until the version commits or it is put back; not  *)
(* so where the version's slot already held one a failed attempt left, which *)
(* is reused whatever it holds (exposed).                                    *)
RestorePointKept ==
    volume = "touched" => kept \/ \E v \in Versions : snap[v] \in {"fresh", "stale"}

=============================================================================
