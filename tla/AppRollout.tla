------------------------------- MODULE AppRollout -------------------------------
(***************************************************************************)
(* An app service's rollout, deployAppImageWithDependencies: one container   *)
(* per deployment, a Traefik route file that the running Traefik follows      *)
(* with a delay, and, for an app with a volume, one writer at a time and a   *)
(* snapshot.  One work item of a service is in progress at a time; the agent *)
(* may die between any two steps, and the item is then leased again with the *)
(* metadata it was issued with.                                              *)
(***************************************************************************)
EXTENDS Naturals, FiniteSets

CONSTANTS
    Versions,       \* deployments of the service
    NoVersion,      \* stands for no container, no route
    MaxFaults       \* bound: crashes, failed Docker and Traefik calls, lost reports

ASSUME AppRolloutAssumption == /\ NoVersion \notin Versions
                               /\ MaxFaults \in Nat

VARIABLES
    box,        \* Docker: the container of each deployment
    volume,     \* whether the service has a volume, and what is in it
    snap,       \* disk: the snapshot in each deployment's slot
    file,       \* disk: the route file
    live,       \* Traefik: where it sends the service's traffic
    recorded,   \* control plane: the live runtime
    work,       \* control plane: the deploy item, if any
    h,          \* agent: the handler of that item
    issued,     \* deployments issued: each is deployed by one item
    faults

vars == <<box, volume, snap, file, live, recorded, work, h, issued, faults>>

Target == Versions \cup {NoVersion}
Running == {v \in Versions : box[v] = "running"}

\* What the control plane recorded of the deployment's release jobs: passed, the
\* pre-activation job succeeded; rejected, verification reported a rollback.
Work == [version: Target, prev: Target, passed: BOOLEAN, rejected: BOOLEAN]
NoWork == [version |-> NoVersion, prev |-> NoVersion, passed |-> FALSE, rejected |-> FALSE]

Handler ==
    [pc: {"idle", "look", "return", "returning", "pre", "quiesce", "snapshot", "create",
          "ready", "route", "cutover", "verify", "move", "moving", "keep", "keeping",
          "retire", "drop", "discard", "restore", "start", "back", "waitback", "judge", "report"},
     prev: Target,          \* previousContainer
     adopted: BOOLEAN,      \* adoptedCandidate
     quiesced: BOOLEAN,     \* history: this attempt stopped the previous container
     snapshot: BOOLEAN,     \* snapshotName is set
     returned: BOOLEAN,     \* trafficReturnedToPrevious
     astray: BOOLEAN,       \* history: the route back to the candidate is unconfirmed
     failed: {"no", "quiesce", "ready", "cutover"},
     preserved: BOOLEAN,    \* liveRuntimePreserved
     result: {"none", "committed", "aborted", "rolled_back", "error"}]

Idle == [pc |-> "idle", prev |-> NoVersion, adopted |-> FALSE, quiesced |-> FALSE,
         snapshot |-> FALSE, returned |-> FALSE, astray |-> FALSE, failed |-> "no",
         preserved |-> FALSE, result |-> "none"]

TypeOK ==
    /\ box \in [Versions -> {"absent", "running", "stopped"}]
    /\ volume \in {"none", "clean", "touched"}
    /\ snap \in [Versions -> {"none", "clean", "dirty"}]
    /\ {file, live, recorded} \subseteq Target
    /\ work \in Work
    /\ h \in Handler
    /\ issued \subseteq Versions
    /\ faults \in 0 .. MaxFaults

Init ==
    /\ box = [v \in Versions |-> "absent"]
    /\ volume \in {"none", "clean"}
    /\ snap = [v \in Versions |-> "none"]
    /\ file = NoVersion /\ live = NoVersion /\ recorded = NoVersion
    /\ work = NoWork
    /\ h = Idle
    /\ issued = {}
    /\ faults = 0

HasVolume == volume # "none"
Cand == work.version
At(pc) == h.pc = pc
Goto(pc) == h' = [h EXCEPT !.pc = pc]
Finish(result, preserved) ==
    h' = [h EXCEPT !.pc = "report", !.result = result, !.preserved = preserved]
Fault == faults < MaxFaults /\ faults' = faults + 1
NoFault == UNCHANGED faults

storage == <<volume, snap>>
control == <<recorded, work, issued>>

----------------------------------------------------------------------------
(* The control plane, Traefik and the host.                                 *)

Issue ==
    /\ work = NoWork
    /\ \E v \in Versions \ issued :
         /\ issued' = issued \cup {v}
         /\ work' = [NoWork EXCEPT !.version = v, !.prev = recorded]
    /\ UNCHANGED <<box, storage, file, live, recorded, h, faults>>

Lease ==
    /\ work # NoWork /\ At("idle")
    /\ h' = [Idle EXCEPT !.pc = "look", !.prev = work.prev]
    /\ UNCHANGED <<box, storage, file, live, control, faults>>

Report ==
    /\ At("report")
    /\ h' = Idle
    /\ \/ /\ work' = NoWork
          /\ recorded' = IF h.result = "committed" THEN Cand ELSE recorded
          /\ NoFault
       \/ Fault /\ UNCHANGED <<work, recorded>>
    /\ UNCHANGED <<box, storage, file, live, issued>>

Crash ==
    /\ ~At("idle")
    /\ Fault
    /\ h' = Idle
    /\ UNCHANGED <<box, storage, file, live, control>>

TraefikFollows ==
    /\ live # file
    /\ live' = file
    /\ UNCHANGED <<box, storage, file, control, h, faults>>

(* Someone other than the agent stops a container.                          *)
StoppedOutside(v) ==
    /\ v \in Running
    /\ Fault
    /\ box' = [box EXCEPT ![v] = "stopped"]
    /\ UNCHANGED <<storage, file, live, control, h>>

----------------------------------------------------------------------------
(* assertSingleRunningVolumeConsumer                                        *)
SoleConsumer(v) == HasVolume => Running \subseteq {v}

(* previousAppRuntimeCanServe: only what runs may pass.                     *)
CanServe(v) == IF v \in Running THEN BOOLEAN ELSE {FALSE}

(* writeLocalTraefikRoute, or its failure.                                  *)
WriteRoute(v, after, otherwise) ==
    /\ \/ file' = v /\ after /\ NoFault
       \/ otherwise /\ UNCHANGED file /\ Fault
    /\ UNCHANGED <<box, storage, live, control>>

\* Fault: the route is taken as moved once it is written.
WaitCutoverForFile(v, after, otherwise) ==
    /\ \/ file = v /\ after /\ NoFault
       \/ otherwise /\ Fault
    /\ UNCHANGED <<box, storage, file, live, control>>

(* waitForLocalTraefikCutover: confirmed, or Traefik does not say so in time. *)
WaitCutover(v, after, otherwise) ==
    /\ \/ live = v /\ after /\ NoFault
       \/ otherwise /\ Fault
    /\ UNCHANGED <<box, storage, file, live, control>>

(* deleteAppVolumeSnapshotBestEffort                                        *)
DropSnapshot ==
    \/ snap' = [snap EXCEPT ![Cand] = "none"] /\ NoFault
    \/ UNCHANGED snap /\ Fault

(* A failed attempt's way back starts at discard, one of the quiesce later. *)
FailAt(step, pc) == h' = [h EXCEPT !.failed = step, !.pc = pc]

Unwind(step) ==
    IF h.adopted THEN Finish("error", FALSE) ELSE FailAt(step, "discard")

----------------------------------------------------------------------------
(* A candidate an earlier attempt left.                                     *)

Look ==
    LET gone == h.prev = Cand \/ (h.prev \in Versions /\ box[h.prev] = "absent")
        prev == IF box[Cand] # "absent" /\ gone THEN NoVersion ELSE h.prev
        then == IF work.rejected /\ prev # NoVersion THEN "return" ELSE "pre"
    IN  /\ At("look")
        /\ \/ /\ box[Cand] = "running"
              /\ UNCHANGED box /\ NoFault
              /\ IF SoleConsumer(Cand)
                 THEN h' = [h EXCEPT !.pc = then, !.prev = prev, !.adopted = TRUE]
                 ELSE Finish("error", FALSE)
           \/ /\ box[Cand] = "stopped"
              /\ box' = [box EXCEPT ![Cand] = "absent"] /\ NoFault
              /\ IF SoleConsumer(prev)
                 THEN h' = [h EXCEPT !.pc = then, !.prev = prev]
                 ELSE Finish("error", FALSE)
           \/ /\ box[Cand] = "stopped"
              /\ UNCHANGED box /\ Fault
              /\ Finish("error", FALSE)
           \/ /\ box[Cand] = "absent"
              /\ UNCHANGED box /\ NoFault
              /\ h' = [h EXCEPT !.pc = then]
        /\ UNCHANGED <<storage, file, live, control>>

(* returnTrafficFromRejectedRelease: only to a previous one that can serve. *)
ReturnTraffic ==
    /\ At("return")
    /\ \E serves \in CanServe(h.prev) :
         IF serves THEN WriteRoute(h.prev, Goto("returning"), Goto("pre"))
         ELSE Goto("pre") /\ UNCHANGED <<box, storage, file, live, control, faults>>

Returned ==
    /\ At("returning")
    /\ \/ live = h.prev /\ Finish("aborted", TRUE)
          /\ \/ box' = [box EXCEPT ![Cand] = "absent"] /\ NoFault
             \/ UNCHANGED box /\ Fault
       \/ Goto("pre") /\ UNCHANGED box /\ Fault
    /\ UNCHANGED <<storage, file, live, control>>

(* runPreActivation: a recorded success is not run again (ReleaseJobs); a     *)
(* halt is answered with whether what is live serves; a deferral waits for    *)
(* another lease.                                                            *)
PreActivation ==
    LET active == IF h.adopted THEN Cand ELSE h.prev
    IN  /\ At("pre")
        /\ \/ /\ Goto(IF h.adopted THEN "ready" ELSE IF HasVolume THEN "quiesce" ELSE "create")
              /\ work' = [work EXCEPT !.passed = TRUE]
           \/ /\ ~work.passed
              /\ \E serves \in CanServe(active) : Finish("aborted", serves)
              /\ UNCHANGED work
           \/ ~work.passed /\ h' = Idle /\ UNCHANGED work
        /\ UNCHANGED <<box, storage, file, live, recorded, issued, faults>>

----------------------------------------------------------------------------
(* Quiesce and snapshot.                                                    *)

Quiesce ==
    /\ At("quiesce")
    /\ \/ /\ SoleConsumer(h.prev)
          /\ h' = [h EXCEPT !.pc = "snapshot", !.quiesced = h.prev \in Running]
          /\ box' = IF h.prev \in Running THEN [box EXCEPT ![h.prev] = "stopped"] ELSE box
          /\ NoFault
       \/ /\ ~SoleConsumer(h.prev) /\ NoFault
          /\ FailAt("quiesce", "start") /\ UNCHANGED box
       \/ Fault /\ FailAt("quiesce", "start") /\ UNCHANGED box
    /\ UNCHANGED <<storage, file, live, control>>

\* Fault: a snapshot in the slot is taken again.
TakeSnapshotAnew ==
    /\ At("snapshot")
    /\ \/ /\ snap' = [snap EXCEPT ![Cand] = IF volume = "clean" THEN "clean" ELSE "dirty"]
          /\ h' = [h EXCEPT !.pc = "create", !.snapshot = TRUE]
          /\ NoFault
       \/ FailAt("quiesce", "start") /\ UNCHANGED snap /\ Fault
    /\ UNCHANGED <<box, volume, file, live, control>>

(* createAppVolumeSnapshot: one already in the slot is reused.              *)
TakeSnapshot ==
    /\ At("snapshot")
    /\ \/ /\ snap' = IF snap[Cand] # "none" THEN snap
                     ELSE [snap EXCEPT ![Cand] = IF volume = "clean" THEN "clean" ELSE "dirty"]
          /\ h' = [h EXCEPT !.pc = "create", !.snapshot = TRUE]
          /\ NoFault
       \/ FailAt("quiesce", "start") /\ UNCHANGED snap /\ Fault
    /\ UNCHANGED <<box, volume, file, live, control>>

----------------------------------------------------------------------------
(* The candidate.                                                           *)

(* ensureContainer, outside every try: a throw ends the attempt here.       *)
Create ==
    /\ At("create")
    /\ \/ /\ Goto("ready")
          /\ box' = [box EXCEPT ![Cand] = "running"]
          /\ volume' = IF HasVolume THEN "touched" ELSE volume
          /\ NoFault
       \/ /\ Finish("error", FALSE)
          /\ \E left \in {"absent", "stopped"} : box' = [box EXCEPT ![Cand] = left]
          /\ UNCHANGED volume /\ Fault
    /\ UNCHANGED <<snap, file, live, control>>

Readiness ==
    /\ At("ready")
    /\ (Cand \in Running /\ Goto("route")) \/ Unwind("ready")
    /\ UNCHANGED <<box, storage, file, live, control, faults>>

RouteToCandidate ==
    At("route") /\ WriteRoute(Cand, Goto("cutover"), Unwind("cutover"))

ConfirmCutover ==
    At("cutover") /\ WaitCutover(Cand, Goto("verify"), Unwind("cutover"))

----------------------------------------------------------------------------
(* Verification, with the candidate live and the previous one idle.         *)

(* Whether a failed verification rolls back.                                *)
RollbackTarget ==
    IF h.prev # NoVersion /\ ~h.adopted /\ ~HasVolume THEN CanServe(h.prev) ELSE {FALSE}

Verify ==
    /\ At("verify")
    /\ \/ Goto("retire") /\ UNCHANGED work
       \/ /\ TRUE \in RollbackTarget
          /\ work' = [work EXCEPT !.rejected = TRUE]
          /\ Goto("move")
    /\ UNCHANGED <<box, storage, file, live, recorded, issued, faults>>

MoveTraffic == At("move") /\ WriteRoute(h.prev, Goto("moving"), Goto("keep"))

MoveConfirmed ==
    /\ At("moving")
    /\ WaitCutover(h.prev, h' = [h EXCEPT !.returned = TRUE, !.failed = "cutover", !.pc = "discard"],
                   Goto("keep"))

Astray == h' = [h EXCEPT !.pc = "retire", !.astray = TRUE]
KeepCandidate == At("keep") /\ WriteRoute(Cand, Goto("keeping"), Astray)
KeepConfirmed == At("keeping") /\ WaitCutover(Cand, Goto("retire"), Astray)

----------------------------------------------------------------------------
(* The way back of a failed attempt that started its own candidate.         *)

WayBack ==
    IF HasVolume /\ h.snapshot THEN "restore"
    ELSE IF h.failed = "ready" \/ h.returned THEN "judge"
    ELSE "back"

DiscardCandidate ==
    /\ At("discard")
    /\ \/ Goto(WayBack) /\ box' = [box EXCEPT ![Cand] = "absent"] /\ NoFault
       \/ Finish("error", FALSE) /\ UNCHANGED box /\ Fault
    /\ UNCHANGED <<storage, file, live, control>>

(* A throw on the way back: what it was undoing decides the outcome.        *)
BackFails == Finish(IF h.failed = "quiesce" THEN "aborted" ELSE "rolled_back", FALSE)

RestoreVolume ==
    /\ At("restore")
    /\ \/ /\ SoleConsumer(NoVersion) /\ NoFault
          /\ volume' = IF snap[Cand] = "dirty" THEN "touched" ELSE "clean"
          /\ Goto(IF h.prev = NoVersion THEN "back" ELSE "start")
       \/ /\ IF SoleConsumer(NoVersion) THEN Fault ELSE NoFault
          /\ BackFails /\ UNCHANGED volume
    /\ UNCHANGED <<box, snap, file, live, control>>

\* Fault: the volume's consumers are not looked at before the restart.
MayStartPreviousUnchecked == h.prev \in Versions /\ box[h.prev] # "absent"

(* After a failed quiesce or snapshot the volume's consumers are checked.   *)
MayStartPrevious ==
    /\ h.prev \in Versions /\ box[h.prev] # "absent"
    /\ h.failed = "quiesce" => SoleConsumer(NoVersion)

StartPrevious ==
    /\ At("start")
    /\ \/ /\ MayStartPrevious /\ NoFault
          /\ box' = [box EXCEPT ![h.prev] = "running"]
          /\ Goto("back") \/ BackFails
       \/ /\ IF MayStartPrevious THEN Fault ELSE NoFault
          /\ BackFails /\ UNCHANGED box
    /\ UNCHANGED <<storage, file, live, control>>

(* Back to the previous container, or to none at all.                       *)
RouteBack == At("back") /\ WriteRoute(h.prev, Goto("waitback"), BackFails)

RouteBackConfirmed ==
    /\ At("waitback")
    /\ \/ /\ h.prev = NoVersion \/ live = h.prev
          /\ Goto("judge")
          /\ IF h.snapshot /\ h.failed # "quiesce" THEN DropSnapshot ELSE UNCHANGED snap /\ NoFault
       \/ /\ h.prev # NoVersion
          /\ BackFails /\ UNCHANGED snap /\ Fault
    /\ UNCHANGED <<box, volume, file, live, control>>

Judge ==
    /\ At("judge")
    /\ \E serves \in CanServe(h.prev) :
         Finish(IF h.failed = "cutover" THEN "rolled_back" ELSE "aborted", serves)
    /\ UNCHANGED <<box, storage, file, live, control, faults>>

----------------------------------------------------------------------------
(* retirePreviousAppContainer: three attempts, then the container is left.  *)
Commit == IF h.snapshot THEN Goto("drop") ELSE Finish("committed", FALSE)

Retire ==
    /\ At("retire")
    /\ Commit
    /\ IF h.prev \in Versions
       THEN \/ box' = [box EXCEPT ![h.prev] = "absent"] /\ NoFault
            \/ /\ Fault
               /\ \E left \in {box[h.prev], IF h.prev \in Running THEN "stopped" ELSE box[h.prev]} :
                    box' = [box EXCEPT ![h.prev] = left]
       ELSE UNCHANGED box /\ NoFault
    /\ volume' = IF HasVolume THEN "clean" ELSE volume
    /\ UNCHANGED <<snap, file, live, control>>

CommitDrop ==
    /\ At("drop")
    /\ Finish("committed", FALSE) /\ DropSnapshot
    /\ UNCHANGED <<box, volume, file, live, control>>

----------------------------------------------------------------------------

Before == Look \/ ReturnTraffic \/ Returned \/ PreActivation \/ Quiesce \/ TakeSnapshot
Cutover == Create \/ Readiness \/ RouteToCandidate \/ ConfirmCutover \/ Retire \/ CommitDrop
Verification == Verify \/ MoveTraffic \/ MoveConfirmed \/ KeepCandidate \/ KeepConfirmed
Undo == \/ DiscardCandidate \/ RestoreVolume \/ StartPrevious
        \/ RouteBack \/ RouteBackConfirmed \/ Judge

Next ==
    \/ Issue \/ Lease \/ Report \/ Crash \/ TraefikFollows
    \/ Before \/ Cutover \/ Verification \/ Undo
    \/ \E v \in Versions : StoppedOutside(v)

Spec == Init /\ [][Next]_vars

----------------------------------------------------------------------------
(* Properties.                                                              *)

(* Zero downtime: without a volume, no step of a rollout takes down any       *)
(* container but its own candidate while Traefik sends the traffic to it,    *)
(* unless the way back from a rejected verification was lost.                *)
ServedUntilCutover ==
    [][\A v \in Running \ {Cand} :
         ~HasVolume /\ live = v /\ ~h.astray => box'[v] = "running" \/ StoppedOutside(v)]_vars

(* A committed rollout is what the route file and Traefik point at, and its   *)
(* container is there, with the same exception.                              *)
CommittedServes ==
    h.result = "committed" /\ ~h.astray => file = Cand /\ live = Cand /\ box[Cand] # "absent"

(* A rollback, and any failed attempt of a volume app once it had stopped    *)
(* the previous container, reports the live runtime preserved only with that *)
(* container routed to; an aborted one of an app without a volume only asks  *)
(* the container, not the route.                                             *)
PreservedServes ==
    h.preserved /\ (h.failed = "cutover" \/ (HasVolume /\ h.failed # "no"))
        => h.prev # NoVersion /\ file = h.prev /\ live = h.prev

(* A volume has one writer, whatever crashed or failed.  The types included. *)
SingleWriter == TypeOK /\ (HasVolume => Cardinality(Running) <= 1)

(* Once a candidate has written to the volume, what was there before stays   *)
(* in a snapshot until the candidate is committed or the volume restored.    *)
RestorePointKept ==
    volume = "touched" => \E v \in Versions : snap[v] = "clean"

(* Refuted: "a failed rollout starts it again by hand", of the previous      *)
(* container a volume app's rollout stopped.  A candidate that cannot be     *)
(* created, or a failed one that cannot be removed, throws past every undo.  *)
QuiescedStartsAgain ==
    h.result = "error" /\ h.quiesced => h.prev \in Running

=============================================================================
