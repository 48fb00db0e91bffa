-------------------------------- MODULE Storage --------------------------------
(***************************************************************************)
(* A database service's volumes on a server: provisioning, applying another *)
(* volume, restarting, wiping, deleting, backing up, restoring, importing   *)
(* and removing the service.  Each work item runs Docker calls and task containers one after another; a task      *)
(* container outlives the agent that started it, and whatever Docker holds   *)
(* is there when the item is leased again.                                   *)
(***************************************************************************)
EXTENDS Naturals, Sequences

CONSTANTS
    Volumes,        \* names of the service's volumes
    NoVolume,       \* stands for no volume
    Engines,        \* the database engines looked at
    MaxWork,        \* bound: work items issued
    MaxTries,       \* bound: leases of one item, the control plane's attempts
    MaxFaults       \* bound: crashes, failed calls, failed tasks

ASSUME StorageAssumption ==
    /\ NoVolume \notin Volumes
    /\ Engines \subseteq {"postgres", "redis", "mysql"}
    /\ MaxWork \in Nat /\ MaxTries \in Nat \ {0} /\ MaxFaults \in Nat

VARIABLES
    engine,
    data,       \* Docker: what each volume holds
    box,        \* Docker: the volume the database container runs on
    task,       \* Docker: the task containers of each item, and what they mount
    staged,     \* Docker: the items whose staging volume exists
    bucket,     \* object storage: the backup each backup item uploads
    receipt,    \* the agent's disk: the generation each volume was replaced for
    attached,   \* control plane: the service's volume
    saved,      \* control plane: backup items reported complete
    restored,   \* control plane: volumes a restore or an import was reported into
    item,       \* control plane: the item at work, if any
    h,          \* agent: its handler
    issued,
    born,       \* database clusters initialised so far
    faults

vars == <<engine, data, box, task, staged, bucket, receipt, attached, saved, restored, item, h,
          issued, born, faults>>

Ids == 1 .. MaxWork
Foreign == MaxWork * MaxTries + 1     \* what an import brings
Clusters == 0 .. Foreign

\* `emptied` of an item counts the clusters there had been when it emptied its volume.
\* A volume that a restore is writing, or was writing when it was cut off, is torn.
Content == [is: {"absent", "empty", "torn", "cluster"}, id: Clusters]
Absent == [is |-> "absent", id |-> 0]
Empty == [is |-> "empty", id |-> 0]
Torn == [is |-> "torn", id |-> 0]
Cluster(n) == [is |-> "cluster", id |-> n]

Names == {"dump", "upload", "fetch", "load"}
Task == [run: {"none", "running", "ok", "failed"}, stage: BOOLEAN, mounts: SUBSET Volumes,
         result: Content]
NoTask == [run |-> "none", stage |-> FALSE, mounts |-> {}, result |-> Absent]

Item == [id: 0 .. MaxWork, kind: {"none", "provision", "apply", "wipe", "delete", "backup",
                                     "restore", "pitr", "import", "restart", "remove"},
         vol: Volumes \cup {NoVolume}, from: 0 .. MaxWork, gen: 0 .. MaxWork, emptied: Clusters,
         tries: 0 .. MaxTries]
NoItem == [id |-> 0, kind |-> "none", vol |-> NoVolume, from |-> 0, gen |-> 0,
           emptied |-> 0, tries |-> 0]

Steps == {"look", "clear", "erase", "make", "receipt", "provision", "ready", "check",
          "unstage", "stage", "dump", "upload", "fetch", "verify", "load", "await",
          "finally", "sweep", "restart", "dispose"}
Idle == [on |-> FALSE, todo |-> <<>>, at |-> "fetch", failed |-> FALSE]

TypeOK ==
    /\ engine \in Engines
    /\ data \in [Volumes -> Content]
    /\ box \in Volumes \cup {NoVolume}
    /\ task \in [Ids -> [Names -> Task]]
    /\ staged \subseteq Ids
    /\ bucket \in [Ids -> [is: {"none", "unchecked", "good"}, id: Clusters]]
    /\ receipt \in [Volumes -> 0 .. MaxWork]
    /\ attached \in Volumes \cup {NoVolume}
    /\ saved \subseteq Ids /\ restored \subseteq Volumes
    /\ item \in Item
    /\ h \in [on: BOOLEAN, todo: Seq(Steps), at: Names, failed: BOOLEAN]
    /\ issued \in 0 .. MaxWork /\ born \in Clusters /\ faults \in 0 .. MaxFaults

NoObject == [is |-> "none", id |-> 0]

Init ==
    /\ engine \in Engines
    /\ attached \in Volumes
    /\ data = [v \in Volumes |-> IF v = attached THEN Cluster(0) ELSE Absent]
    /\ box = attached
    /\ task = [w \in Ids |-> [n \in Names |-> NoTask]]
    /\ staged = {}
    /\ bucket = [w \in Ids |-> NoObject]
    /\ receipt = [v \in Volumes |-> 0]
    /\ saved = {} /\ restored = {}
    /\ item = NoItem
    /\ h = Idle
    /\ issued = 0 /\ born = 0 /\ faults = 0

docker == <<data, box, task, staged>>
known == <<attached, saved, restored, issued>>
Fault == faults < MaxFaults /\ faults' = faults + 1
NoFault == UNCHANGED faults
W == item.id
Target == item.vol

----------------------------------------------------------------------------
(* What each kind of item does, in the order of its handler.  A finally and a *)
(* sweep run after a failure too, once their try was entered.                *)

Staged(steps) == <<"unstage", "stage">> \o steps \o <<"finally">>

\* Fault: the receipt is written once the replacement serves.
WipeStepsReceiptLast ==
    IF Target = attached
    THEN <<"look", "clear", "erase", "make", "provision", "ready", "receipt", "check">>
    ELSE <<"look", "erase", "make", "receipt", "check">>

WipeSteps ==
    IF Target = attached
    THEN <<"look", "clear", "erase", "make", "receipt", "provision", "ready", "check">>
    ELSE <<"look", "erase", "make", "receipt", "check">>

StepsOf(kind) ==
    CASE kind = "provision" -> <<"provision", "ready">>
      [] kind = "apply"   -> <<"clear", "provision", "ready">>
      [] kind = "restart" -> <<"restart", "ready">>
      [] kind = "remove"  -> <<"dispose">>
      [] kind = "wipe"    -> WipeSteps
      [] kind = "delete"  -> <<"erase">>
      [] kind = "backup"  -> IF engine = "mysql" THEN Staged(<<"dump", "upload">>)
                             ELSE IF engine = "postgres" THEN <<"upload", "fetch">>
                             ELSE <<"upload">>
      [] kind = "restore" -> IF engine = "mysql" THEN <<"make">> \o Staged(<<"fetch", "load">>)
                             ELSE <<"make", "load">>
      [] kind = "pitr"    -> <<"load">>
      [] kind = "import"  -> Staged(<<"fetch", "verify", "make", "load">>) \o <<"sweep">>

Step(name) == h.on /\ h.todo # <<>> /\ Head(h.todo) = name
Went == h' = [h EXCEPT !.todo = Tail(@)]
Finished == h.on /\ h.todo = <<>>

Left(name) == \E i \in DOMAIN h.todo : h.todo[i] = name

(* A throw skips to the finally, if its try was entered.                     *)
Threw ==
    LET cleanup == IF Left("stage") \/ ~Left("finally") THEN <<>>
                   ELSE IF item.kind = "import" THEN <<"finally", "sweep">>
                   ELSE <<"finally">>
    IN  h' = [h EXCEPT !.todo = cleanup, !.failed = TRUE]

(* A call did what it should, and its answer arrived or was lost.            *)
Outcome == (Went /\ NoFault) \/ (Threw /\ Fault)

\* A finally that throws ends the handler, the sweep behind it included.
ThrewForGood == h' = [h EXCEPT !.todo = <<>>, !.failed = TRUE]

----------------------------------------------------------------------------
(* The control plane: one item of the service at a time, leased again when   *)
(* its agent died or its attempt failed.                                     *)

Fresh == {v \in Volumes \ {attached} : data[v].is = "absent"}
Kept == {v \in Volumes \ {attached} : data[v].is # "absent"}

Requests ==
    IF attached = NoVolume THEN [kind: {"delete"}, vol: Kept, from: {0}] ELSE
    [kind: {"provision", "backup", "restart", "remove"}, vol: {attached}, from: {0}]
    \cup [kind: {"apply"}, vol: restored \ {attached}, from: {0}]
    \cup [kind: {"wipe"}, vol: Kept \cup {attached}, from: {0}]
    \cup [kind: {"delete"}, vol: Kept, from: {0}]
    \cup [kind: IF engine = "postgres" THEN {"restore", "pitr"} ELSE {"restore"},
          vol: Fresh, from: saved]
    \cup [kind: {"import"}, vol: IF engine = "mysql" THEN {} ELSE Fresh, from: {issued + 1}]

Issue ==
    /\ item = NoItem /\ issued < MaxWork
    /\ issued' = issued + 1
    /\ \E r \in Requests :
         item' = [id |-> issued', kind |-> r.kind, vol |-> r.vol, from |-> r.from,
                  gen |-> IF r.kind = "wipe" /\ engine = "postgres" THEN issued' ELSE 0,
                  emptied |-> Foreign, tries |-> 0]
    /\ bucket' = IF item'.kind = "import"
                 THEN [bucket EXCEPT ![issued'] = [is |-> "good", id |-> Foreign]] ELSE bucket
    /\ UNCHANGED <<engine, docker, receipt, h, attached, saved, restored, born, faults>>

Lease ==
    /\ item # NoItem /\ ~h.on
    /\ item.tries < IF item.kind = "import" THEN 1 ELSE MaxTries
    /\ item' = [item EXCEPT !.tries = @ + 1]
    /\ h' = [Idle EXCEPT !.on = TRUE, !.todo = StepsOf(item.kind)]
    /\ UNCHANGED <<engine, docker, bucket, receipt, known, born, faults>>

GiveUp ==
    /\ item # NoItem /\ ~h.on
    /\ item' = NoItem
    /\ UNCHANGED <<engine, docker, bucket, receipt, h, known, born, faults>>

Report ==
    /\ Finished
    /\ h' = Idle
    /\ \/ /\ ~h.failed /\ NoFault
          /\ item' = NoItem
          /\ attached' = CASE item.kind = "apply" -> Target
                            [] item.kind = "remove" -> NoVolume
                            [] OTHER -> attached
          /\ saved' = IF item.kind = "backup" THEN saved \cup {W} ELSE saved
          /\ restored' = CASE item.kind \in {"restore", "pitr", "import"} -> restored \cup {Target}
                           [] item.kind \in {"delete", "wipe"} -> restored \ {Target}
                           [] OTHER -> restored
       \/ h.failed /\ UNCHANGED <<item, attached, saved, restored>> /\ NoFault
       \/ Fault /\ UNCHANGED <<item, attached, saved, restored>>
    /\ UNCHANGED <<engine, docker, bucket, receipt, issued, born>>

AgentDies ==
    /\ h.on
    /\ Fault
    /\ h' = Idle
    /\ UNCHANGED <<engine, docker, bucket, receipt, item, known, born>>

HostDies ==
    /\ Fault
    /\ h' = Idle
    /\ task' = [w \in Ids |-> [n \in Names |->
                  IF task[w][n].run = "running" THEN [task[w][n] EXCEPT !.run = "failed"]
                  ELSE task[w][n]]]
    /\ UNCHANGED <<engine, data, box, staged, bucket, receipt, item, known, born>>

----------------------------------------------------------------------------
(* Docker and the engines.                                                  *)

(* removeVolume: Docker keeps a volume that any container still refers to.   *)
InUse(v) == box = v \/ \E w \in Ids, n \in Names : v \in task[w][n].mounts
StageInUse == \E n \in Names : task[W][n].stage

(* An engine that starts on an empty volume initialises a cluster there.     *)
Initialise ==
    /\ box # NoVolume /\ data[box].is = "empty"
    /\ born' = born + 1
    /\ data' = [data EXCEPT ![box] = Cluster(born')]
    /\ UNCHANGED <<engine, box, task, staged, bucket, receipt, item, h, known, faults>>

(* runTaskContainer: what carried the same name before is removed first.     *)
Run(name, mounts, stage, result) ==
    /\ task' = [task EXCEPT ![W][name] = [run |-> "running", stage |-> stage,
                                          mounts |-> mounts, result |-> result]]
    /\ h' = [h EXCEPT !.todo = <<"await">> \o Tail(@), !.at = name]

\* What a task that is cut short leaves of an upload.
CutShort(w, name) ==
    {bucket} \cup IF name = "upload" /\ task[w][name].run = "running"
                  THEN {[bucket EXCEPT ![w].is = "unchecked"]} ELSE {}

TaskEnds(w, name) ==
    LET t == task[w][name]
        sound == name \in {"dump", "upload"} => t.result.is = "cluster"
    IN  /\ t.run = "running"
        /\ \/ /\ sound
              /\ task' = [task EXCEPT ![w][name].run = "ok"] /\ NoFault
              /\ data' = [v \in Volumes |-> IF name = "load" /\ v \in t.mounts
                                            THEN t.result ELSE data[v]]
              /\ bucket' = IF name = "upload"
                           THEN [bucket EXCEPT ![w] = [is |-> "good", id |-> t.result.id]]
                           ELSE bucket
           \/ /\ task' = [task EXCEPT ![w][name].run = "failed"]
              /\ IF sound THEN Fault ELSE NoFault
              /\ bucket' \in CutShort(w, name)
              /\ UNCHANGED data
        /\ UNCHANGED <<engine, box, staged, receipt, item, h, known, born>>

(* The agent reads the outcome, or gives up waiting, and removes the task;   *)
(* a removal that fails leaves the task where it is.                         *)
Await ==
    LET t == task[W][h.at]
        removed == task' = [task EXCEPT ![W][h.at] = NoTask]
    IN  /\ Step("await")
        /\ \/ t.run = "ok" /\ Went /\ NoFault /\ removed /\ UNCHANGED bucket
           \/ t.run = "failed" /\ Threw /\ NoFault /\ removed /\ UNCHANGED bucket
           \/ Threw /\ Fault /\ removed /\ bucket' \in CutShort(W, h.at)
           \/ Threw /\ Fault /\ UNCHANGED <<task, bucket>>
        /\ UNCHANGED <<engine, data, box, staged, receipt, item, known, born>>

----------------------------------------------------------------------------
(* A wipe, an apply and a delete.                                           *)

others == <<engine, bucket, known, item>>

\* Fault: a receipt of any earlier wipe will do.
ReplacedEver == receipt[Target] # 0

(* hasReplacedVolumeForGeneration                                           *)
AlreadyReplaced == item.gen # 0 /\ receipt[Target] = item.gen

(* The receipt, and the public port; an unreadable receipt fails the attempt. *)
Look ==
    /\ Step("look")
    /\ \/ /\ NoFault
          /\ IF AlreadyReplaced
             THEN h' = [h EXCEPT !.todo = IF Target = attached
                                          THEN <<"provision", "ready", "check">>
                                          ELSE <<"check">>]
             ELSE Went
       \/ Threw /\ Fault
    /\ UNCHANGED <<data, box, task, staged, receipt, born, others>>

(* An apply removes the container it was told of, if any; a wipe the one that *)
(* carries the service's name too.                                           *)
Clear ==
    /\ Step("clear")
    /\ \/ /\ Went /\ NoFault
          /\ box' \in IF item.kind = "apply" THEN {box, NoVolume} ELSE {NoVolume}
       \/ Threw /\ Fault /\ box' \in {box, NoVolume}
    /\ UNCHANGED <<data, task, staged, receipt, born, others>>

Erase ==
    /\ Step("erase")
    /\ \/ /\ ~InUse(Target) /\ Outcome
          /\ data' = [data EXCEPT ![Target] = Absent]
          /\ item' = [item EXCEPT !.emptied = born]
       \/ InUse(Target) /\ Threw /\ NoFault /\ UNCHANGED <<data, item>>
       \/ Threw /\ Fault /\ UNCHANGED <<data, item>>
    /\ UNCHANGED <<box, task, staged, receipt, born, engine, bucket, known>>

(* createVolume leaves a volume that exists as it is.                        *)
Created == IF data[Target] = Absent THEN [data EXCEPT ![Target] = Empty] ELSE data

Make ==
    /\ Step("make")
    /\ \/ Outcome /\ data' = Created
       \/ Threw /\ UNCHANGED data /\ Fault
    /\ UNCHANGED <<box, task, staged, receipt, born, others>>

WriteReceipt ==
    /\ Step("receipt")
    /\ \/ /\ Went /\ NoFault
          /\ receipt' = IF item.gen = 0 THEN receipt ELSE [receipt EXCEPT ![Target] = item.gen]
       \/ Threw /\ UNCHANGED receipt /\ Fault
    /\ UNCHANGED <<data, box, task, staged, born, others>>

(* deployDatabaseContainer: the container is recreated on the volume.        *)
Provision ==
    /\ Step("provision")
    /\ \/ Outcome /\ data' = Created /\ box' = Target
       \/ Threw /\ Fault /\ data' = Created /\ box' = NoVolume
       \/ Threw /\ Fault /\ UNCHANGED <<data, box>>
    /\ UNCHANGED <<task, staged, receipt, born, others>>

(* waitForDatabaseReadiness: an authenticated answer of a running engine.    *)
Serves == box # NoVolume /\ data[box].is = "cluster"

Ready ==
    /\ Step("ready")
    /\ \/ Serves /\ Went /\ NoFault
       \/ Threw /\ Fault
    /\ UNCHANGED <<data, box, task, staged, receipt, born, others>>

(* The container is restarted where it is; one that is gone is an error.      *)
Restart ==
    /\ Step("restart")
    /\ \/ box # NoVolume /\ Outcome
       \/ box = NoVolume /\ Threw /\ NoFault
    /\ UNCHANGED <<data, box, task, staged, receipt, born, others>>

(* removeManagedServiceContainers: by label, whatever names are known.        *)
Dispose ==
    /\ Step("dispose")
    /\ \/ box' = NoVolume /\ Outcome
       \/ UNCHANGED box /\ Threw /\ Fault
    /\ UNCHANGED <<data, task, staged, receipt, born, others>>

Check ==
    /\ Step("check")
    /\ IF data[Target].is # "absent" THEN Went ELSE Threw
    /\ UNCHANGED <<data, box, task, staged, receipt, born, others, faults>>

----------------------------------------------------------------------------
(* Backups, restores and imports.                                           *)

still == <<data, box, receipt, born>>

Unstage ==
    /\ Step("unstage")
    /\ \/ ~StageInUse /\ Went /\ staged' = staged \ {W} /\ NoFault
       \/ StageInUse /\ Threw /\ UNCHANGED staged /\ NoFault
       \/ Threw /\ UNCHANGED staged /\ Fault
    /\ UNCHANGED <<task, still, others>>

Stage ==
    /\ Step("stage")
    /\ \/ Went /\ staged' = staged \cup {W} /\ NoFault
       \/ Threw /\ UNCHANGED staged /\ Fault
    /\ UNCHANGED <<task, still, others>>

(* Dumps and backups are taken of the running database.                      *)
Live == IF box = attached THEN data[attached] ELSE Absent

Dump ==
    /\ Step("dump")
    /\ Run("dump", {}, TRUE, Live)
    /\ UNCHANGED <<staged, still, others, faults>>

(* Dumped or not, the artifact is uploaded, read back and compared.          *)
Upload ==
    /\ Step("upload")
    /\ Run("upload", IF engine = "postgres" THEN {attached} ELSE {}, engine = "mysql", Live)
    /\ UNCHANGED <<staged, still, others, faults>>

(* The artifact to restore, or (pgBackRest) the set that was just written.   *)
Fetch ==
    /\ Step("fetch")
    /\ LET pg == item.kind = "backup"
       IN  Run("fetch", IF pg THEN {attached} ELSE {}, ~pg, Absent)
    /\ UNCHANGED <<staged, still, others, faults>>

(* verifyExternalBackupArtifact: an artifact may be refused.                 *)
Verify ==
    /\ Step("verify")
    /\ Went \/ Threw
    /\ UNCHANGED <<task, staged, still, others, faults>>

Artifact == Cluster(bucket[item.from].id)

(* The mysql image replays a dump only where no server has initialised yet;  *)
(* the others write over what is there.                                      *)
Loads(v) == IF engine = "mysql" /\ data[v].is \in {"torn", "cluster"} THEN data[v] ELSE Artifact

Load ==
    /\ Step("load")
    /\ Run("load", {Target}, engine = "mysql" \/ item.kind = "import", Loads(Target))
    /\ data' = [data EXCEPT ![Target] = IF Loads(Target) = @ THEN @ ELSE Torn]
    /\ UNCHANGED <<staged, box, receipt, born, others, faults>>

Finally ==
    /\ Step("finally")
    /\ \/ ~StageInUse /\ Went /\ staged' = staged \ {W} /\ NoFault
       \/ StageInUse /\ ThrewForGood /\ UNCHANGED staged /\ NoFault
       \/ ThrewForGood /\ UNCHANGED staged /\ Fault
    /\ UNCHANGED <<task, still, others>>

(* The imported artifact is deleted if that can be done.                     *)
Sweep ==
    /\ Step("sweep")
    /\ Went
    /\ bucket' \in {bucket, [bucket EXCEPT ![W] = NoObject]}
    /\ UNCHANGED <<engine, known, item, task, staged, still, faults>>

----------------------------------------------------------------------------

ControlPlane == Issue \/ Lease \/ GiveUp \/ Report
Volume == Restart \/ Dispose \/ Look \/ Clear \/ Erase \/ Make \/ WriteReceipt \/ Provision \/ Ready \/ Check
Copies == \/ Unstage \/ Stage \/ Dump \/ Upload \/ Fetch \/ Verify \/ Load
          \/ Finally \/ Sweep \/ Await

Next ==
    \/ ControlPlane \/ AgentDies \/ HostDies \/ Initialise \/ Volume \/ Copies
    \/ \E w \in Ids, name \in Names : TaskEnds(w, name)

Spec == Init /\ [][Next]_vars

----------------------------------------------------------------------------
(* Properties.                                                              *)

(* Once the database has initialised a cluster on the volume that a wipe     *)
(* emptied, no retry of that wipe erases it: the rotated repository is never *)
(* left without the cluster it is bound to (handleWipeVolume, its receipt).  *)
WipedOnce ==
    [][item.kind = "wipe" /\ item.gen # 0 /\ data[Target].is = "cluster"
           /\ data[Target].id > item.emptied
       => data'[Target] = data[Target]]_vars

Succeeded(kinds) == Finished /\ ~h.failed /\ item.kind \in kinds

(* A success is true when it is reported: nothing older than the wipe is     *)
(* left, a deleted volume is gone, the database runs on its volume, a removed *)
(* service runs nowhere, the backup is whole and verified, what was restored *)
(* is what was saved (but for mysql, whose replay is not made sure of), and  *)
(* no staging volume is left.  The types included.                           *)
ReportIsTrue ==
    /\ TypeOK
    /\ Succeeded({"wipe"}) => \/ data[Target].is = "empty" /\ Target # attached
                              \/ data[Target].is = "cluster" /\ data[Target].id > item.emptied
    /\ Succeeded({"delete"}) => data[Target].is = "absent"
    /\ Succeeded({"provision", "apply"}) => box = Target /\ data[Target].is = "cluster"
    /\ Succeeded({"restart"}) => Serves
    /\ Succeeded({"remove"}) => box = NoVolume
    /\ Succeeded({"backup"}) => bucket[W] = [is |-> "good", id |-> data[attached].id]
    /\ Succeeded({"restore", "pitr"}) /\ engine # "mysql" => data[Target] = Artifact
    /\ Succeeded({"import"}) => data[Target] = Cluster(Foreign)
    /\ Succeeded({item.kind}) => W \notin staged

=============================================================================
