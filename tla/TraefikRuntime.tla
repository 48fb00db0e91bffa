---------------------------- MODULE TraefikRuntime ----------------------------
(***************************************************************************)
(* The ingress of a server: one Traefik container, replaced when its static *)
(* configuration or its image changes, by way of a candidate that has to be *)
(* healthy first.  Heartbeats and deploys ask for reconciles, which run one *)
(* at a time; deploys attach Traefik to their project's network themselves, *)
(* and delete_project detaches and removes that network, beside whatever    *)
(* reconcile is under way.                                                  *)
(*                                                                          *)
(* A configuration stands for the trusted peers the control plane names;    *)
(* an agent that starts names none (NoPeers) until its first heartbeat is   *)
(* answered.  Routes are AppRollout's.                                      *)
(***************************************************************************)
EXTENDS Naturals, Sequences

CONSTANTS
    Projects,
    MaxPeers,       \* bound: configurations the control plane goes through
    MaxItems,       \* bound: deploys and deletions queued
    MaxFaults       \* bound: crashes, failed calls, containers that die

TraefikAssumption == {MaxPeers, MaxItems, MaxFaults} \subseteq Nat /\ MaxPeers >= 1

ASSUME TraefikAssumption

VARIABLES
    peers,      \* control plane: the configuration it names
    item,       \* control plane: each project's work item
    items,      \* control plane: items queued so far
    config,     \* agent: the configuration adopted
    beat,       \* agent: the heartbeat under way
    handler,    \* agent: the handler of each project's item
    queue,      \* agent: reconciles waiting their turn
    run,        \* agent: the reconcile under way
    failure,    \* agent: lastTraefikRuntimeFailure
    file,       \* disk: the static configuration file
    box,        \* Docker: the primary and the candidate container
    networks,   \* Docker: the projects that have a network
    joined,     \* history: projects whose deploy attached Traefik
    whole,      \* history: the last reconcile to touch the primary ended well
    faults

vars == <<peers, item, items, config, beat, handler, queue, run, failure, file, box,
          networks, joined, whole, faults>>

control == <<peers, item, items>>
docker == <<box, networks>>

NoPeers == 0
Config == NoPeers .. MaxPeers
Role == {"primary", "candidate"}

(* cfg is the hash label, read what the process read from the file when it  *)
(* started; stale are attachments to networks that were removed.  strayed is *)
(* history: Docker restarted the process over a file with another           *)
(* configuration than its label's.                                          *)
Container == [up: {"absent", "running", "down"}, cfg: Config, read: Config,
              image: {"none", "old", "pinned"}, nets: SUBSET Projects, stale: SUBSET Projects,
              strayed: BOOLEAN]
Absent == [up |-> "absent", cfg |-> NoPeers, read |-> NoPeers, image |-> "none",
           nets |-> {}, stale |-> {}, strayed |-> FALSE]

Asker == {"beat"} \cup Projects
Request == [who: Asker, cfg: Config]
Stage == {"current", "candidate", "primary", "rollback"}
Run == [pc: {"idle", "write", "inspect", "pull", "build", "list", "connect", "health",
             "reject", "cut", "finish"},
        stage: Stage, who: Asker, cfg: Config, previous: {"none", "old", "pinned"},
        todo: SUBSET Projects, ok: BOOLEAN]
NoRun == [pc |-> "idle", stage |-> "current", who |-> "beat", cfg |-> NoPeers,
          previous |-> "none", todo |-> {}, ok |-> TRUE]

Beat == [pc: {"idle", "snapshot", "request", "apply", "adopt"}, cfg: Config, answer: Config]
NoBeat == [pc |-> "idle", cfg |-> NoPeers, answer |-> NoPeers]
Handler == [pc: {"idle", "base", "network", "attach", "find", "inspect", "disconnect", "remove",
                 "done", "fail"},
            role: Role]
NoHandler == [pc |-> "idle", role |-> "primary"]
Failure == {"none", "preflight", "not_rolled_back", "rolled_back", "rollback_failed"}

TypeOK ==
    /\ peers \in Config /\ config \in Config /\ file \in Config
    /\ item \in [Projects -> {"none", "deploy", "delete"}]
    /\ items \in 0 .. MaxItems
    /\ beat \in Beat
    /\ handler \in [Projects -> Handler]
    /\ queue \in Seq(Request) /\ run \in Run
    /\ failure \in Failure
    /\ box \in [Role -> Container]
    /\ networks \in SUBSET Projects /\ joined \in SUBSET Projects
    /\ whole \in BOOLEAN
    /\ faults \in 0 .. MaxFaults

(* A server whose Traefik an earlier agent set up with the previous image,   *)
(* and where some projects are deployed.                                    *)
Init ==
    /\ peers = NoPeers /\ config = NoPeers /\ file = NoPeers
    /\ item = [p \in Projects |-> "none"] /\ items = 0
    /\ beat = NoBeat /\ handler = [p \in Projects |-> NoHandler]
    /\ queue = <<>> /\ run = NoRun
    /\ failure = "none"
    /\ networks \in SUBSET Projects /\ joined = networks /\ whole = TRUE
    /\ box = [r \in Role |->
                IF r = "primary"
                THEN [Absent EXCEPT !.up = "running", !.image = "old", !.nets = networks]
                ELSE Absent]
    /\ faults = 0

Fault == faults < MaxFaults /\ faults' = faults + 1

----------------------------------------------------------------------------
(* The control plane and Docker.                                            *)

PeersChange ==
    /\ peers < MaxPeers
    /\ peers' = peers + 1
    /\ UNCHANGED <<item, items, config, beat, handler, queue, run, failure, file, box,
                   networks, joined, whole, faults>>

(* A project is deleted once it holds nothing; its items are not concurrent.*)
Queue(p) ==
    /\ item[p] = "none" /\ items < MaxItems
    /\ \E kind \in {"deploy", "delete"} : item' = [item EXCEPT ![p] = kind]
    /\ joined' = IF item'[p] = "delete" THEN joined \ {p} ELSE joined
    /\ items' = items + 1
    /\ UNCHANGED <<peers, config, beat, handler, queue, run, failure, file, box, networks,
                   whole, faults>>

Dies(r) ==
    /\ box[r].up = "running"
    /\ Fault
    /\ box' = [box EXCEPT ![r].up = "down"]
    /\ UNCHANGED <<control, config, beat, handler, queue, run, failure, file, networks,
                   joined, whole>>

(* The restart policy of the primary.  The process reads the file as it is  *)
(* by then, and cannot start attached to a network that is gone.            *)
Restarts ==
    /\ box["primary"].up = "down" /\ box["primary"].stale = {}
    /\ box' = [box EXCEPT !["primary"].up = "running", !["primary"].read = file,
                          !["primary"].strayed = file # box["primary"].cfg]
    /\ UNCHANGED <<control, config, beat, handler, queue, run, failure, file, networks,
                   joined, whole, faults>>

Attach(r, p) == box' = [box EXCEPT ![r].nets = @ \cup {p}]

----------------------------------------------------------------------------
(* The queue of reconciles.                                                 *)

Enqueue(who, cfg) == queue' = Append(queue, [who |-> who, cfg |-> cfg])

(* What the one who asked does with the outcome: a heartbeat goes on either *)
(* way, a deploy fails with it.                                             *)
Told(who, ok) ==
    IF who = "beat"
    THEN /\ beat' = [beat EXCEPT !.pc = IF @ = "snapshot" THEN "request" ELSE "adopt"]
         /\ UNCHANGED handler
    ELSE /\ handler' = [handler EXCEPT ![who].pc = IF ok THEN "network" ELSE "fail"]
         /\ UNCHANGED beat

Ends(ok) == run' = NoRun /\ Told(run.who, ok)

StartRun ==
    /\ run.pc = "idle" /\ queue # <<>>
    /\ run' = [NoRun EXCEPT !.pc = "write", !.who = Head(queue).who, !.cfg = Head(queue).cfg]
    /\ queue' = Tail(queue)
    /\ UNCHANGED <<control, config, beat, handler, failure, file, docker, joined, whole, faults>>

----------------------------------------------------------------------------
(* reconcileTraefikRuntime.                                                 *)

Target == IF run.stage = "candidate" THEN "candidate" ELSE "primary"

WriteFile ==
    /\ run.pc = "write"
    /\ file' = run.cfg
    /\ run' = [run EXCEPT !.pc = "inspect"]
    /\ UNCHANGED <<control, config, beat, handler, queue, failure, docker, joined, whole, faults>>

(* isTraefikContainerCurrent                                                *)
Current(c) == c.up = "running" /\ c.image = "pinned" /\ c.cfg = run.cfg

InspectPrimary ==
    /\ run.pc = "inspect"
    /\ run' = IF Current(box["primary"])
              THEN [run EXCEPT !.pc = "list"]
              ELSE [run EXCEPT !.pc = "pull", !.stage = "candidate",
                               !.previous = box["primary"].image]
    /\ UNCHANGED <<control, config, beat, handler, queue, failure, file, docker, joined, whole,
                   faults>>

(* The image is pulled and what is left of an earlier candidate removed.    *)
PullImage ==
    /\ run.pc = "pull"
    /\ box' = [box EXCEPT !["candidate"] = Absent]
    /\ run' = [run EXCEPT !.pc = "build"]
    /\ UNCHANGED <<control, config, beat, handler, queue, failure, file, networks, joined,
                   whole, faults>>

\* Fault: a rollback starts the image that just failed.
BuiltPinned(up) == [Absent EXCEPT !.up = up, !.cfg = run.cfg, !.read = file, !.image = "pinned"]

(* ensureContainer with replace: remove, create, start.                     *)
Built(up) == [Absent EXCEPT !.up = up, !.cfg = run.cfg, !.read = file,
                            !.image = IF run.stage = "rollback" THEN run.previous ELSE "pinned"]

BuildContainer ==
    /\ run.pc = "build"
    /\ box' = [box EXCEPT ![Target] = Built("running")]
    /\ run' = [run EXCEPT !.pc = "list"]
    /\ UNCHANGED <<control, config, beat, handler, queue, failure, file, networks, joined,
                   whole, faults>>

ListNetworks ==
    /\ run.pc = "list"
    /\ run' = [run EXCEPT !.pc = "connect", !.todo = networks]
    /\ UNCHANGED <<control, config, beat, handler, queue, failure, file, docker, joined, whole,
                   faults>>

(* connectTraefikToManagedProjectNetworks: a network that is gone by now is *)
(* skipped.                                                                 *)
ConnectNetwork(p) ==
    /\ run.pc = "connect" /\ p \in run.todo
    /\ p \in networks => box[Target].up # "absent"
    /\ IF p \in networks THEN Attach(Target, p) ELSE UNCHANGED box
    /\ run' = [run EXCEPT !.todo = @ \ {p}]
    /\ UNCHANGED <<control, config, beat, handler, queue, failure, file, networks, joined,
                   whole, faults>>

\* Fault: a container that is current is taken to be attached already.
ConnectedIfCurrent ==
    /\ run.pc = "list" \/ (run.pc = "connect" /\ run.todo = {})
    /\ run.pc = "list" => run.stage = "current"
    /\ IF run.stage = "current"
       THEN Ends(TRUE) /\ failure' = "none" /\ whole' = TRUE
       ELSE run' = [run EXCEPT !.pc = "health"] /\ UNCHANGED <<beat, handler, failure, whole>>
    /\ UNCHANGED <<control, config, queue, file, docker, joined, faults>>

(* Attached everywhere: done, for a container that was current.             *)
Connected ==
    /\ run.pc = "connect" /\ run.todo = {}
    /\ IF run.stage = "current"
       THEN Ends(TRUE) /\ failure' = "none" /\ whole' = TRUE
       ELSE run' = [run EXCEPT !.pc = "health"] /\ UNCHANGED <<beat, handler, failure, whole>>
    /\ UNCHANGED <<control, config, queue, file, docker, joined, faults>>

(* waitForTraefikHealth                                                     *)
Healthy ==
    /\ run.pc = "health" /\ box[Target].up = "running"
    /\ CASE run.stage = "candidate" ->
              run' = [run EXCEPT !.pc = "cut", !.stage = "primary"] /\ UNCHANGED <<failure, whole>>
         [] run.stage = "primary" ->
              run' = [run EXCEPT !.pc = "finish"] /\ failure' = "none" /\ whole' = TRUE
         [] run.stage = "rollback" ->
              run' = [run EXCEPT !.pc = "finish", !.ok = FALSE]
                /\ failure' = "rolled_back" /\ whole' = TRUE
    /\ UNCHANGED <<control, config, beat, handler, queue, file, docker, joined, faults>>

(* Removing the primary: for the new one, or because the new one failed.    *)
CutPrimary ==
    /\ run.pc = "cut"
    /\ box' = [box EXCEPT !["primary"] = Absent]
    /\ whole' = FALSE
    /\ CASE run.stage = "primary" ->
              run' = [run EXCEPT !.pc = "build"] /\ UNCHANGED failure
         [] run.stage = "rollback" /\ run.previous # "none" ->
              run' = [run EXCEPT !.pc = "build"] /\ UNCHANGED failure
         [] OTHER -> run' = [run EXCEPT !.pc = "finish", !.ok = FALSE]
                       /\ failure' = "not_rolled_back"
    /\ UNCHANGED <<control, config, beat, handler, queue, file, networks, joined, faults>>

(* The finally: the candidate goes.                                         *)
Finish ==
    /\ run.pc = "finish"
    /\ box' = [box EXCEPT !["candidate"] = Absent]
    /\ Ends(run.ok)
    /\ UNCHANGED <<control, config, queue, failure, file, networks, joined, whole, faults>>

RejectCandidate ==
    /\ run.pc = "reject"
    /\ box' = [box EXCEPT !["candidate"] = Absent]
    /\ failure' = "preflight"
    /\ Ends(FALSE)
    /\ UNCHANGED <<control, config, queue, file, networks, joined, whole, faults>>

(* Where an error leads: what is inside a try is a failed preflight, a      *)
(* failed cutover or a failed rollback; an error while the failed primary   *)
(* is removed still removes the candidate; any other ends the reconcile     *)
(* where it stands.                                                         *)
Thrown ==
    CASE run.stage = "candidate" /\ run.pc \in {"list", "connect", "health"} ->
           run' = [run EXCEPT !.pc = "reject"] /\ UNCHANGED <<beat, handler, failure>>
      [] run.stage = "primary" /\ run.pc \in {"list", "connect", "health"} ->
           run' = [run EXCEPT !.pc = "cut", !.stage = "rollback"]
             /\ UNCHANGED <<beat, handler, failure>>
      [] run.stage = "rollback" /\ run.pc \in {"build", "list", "connect", "health"} ->
           run' = [run EXCEPT !.pc = "finish", !.ok = FALSE] /\ failure' = "rollback_failed"
             /\ UNCHANGED <<beat, handler>>
      [] run.stage = "rollback" /\ run.pc = "cut" ->
           run' = [run EXCEPT !.pc = "finish", !.ok = FALSE] /\ UNCHANGED <<beat, handler, failure>>
      [] OTHER -> Ends(FALSE) /\ UNCHANGED failure

(* A container that was removed and not created again is gone, one that was *)
(* created and did not start is left behind.                                *)
CallFails ==
    /\ run.pc # "idle"
    /\ Fault
    /\ Thrown
    /\ \/ UNCHANGED box
       \/ /\ run.pc = "build"
          /\ \E left \in {Absent, Built("down")} : box' = [box EXCEPT ![Target] = left]
    /\ UNCHANGED <<control, config, queue, file, networks, joined, whole>>

(* The container a reconcile waits for, or attaches, is not there.          *)
TargetLost ==
    /\ \/ run.pc = "health" /\ box[Target].up # "running"
       \/ run.pc = "connect" /\ run.todo \cap networks # {} /\ box[Target].up = "absent"
    /\ Thrown
    /\ UNCHANGED <<control, config, queue, file, docker, joined, whole, faults>>

----------------------------------------------------------------------------
(* Heartbeats: the snapshot reconciles with the configuration in force, the *)
(* answer's when it differs is reconciled too, and adopted either way.      *)

Snapshot ==
    /\ beat.pc = "idle"
    /\ beat' = [NoBeat EXCEPT !.pc = "snapshot", !.cfg = config]
    /\ Enqueue("beat", config)
    /\ UNCHANGED <<control, config, handler, run, failure, file, docker, joined, whole, faults>>

Answered ==
    /\ beat.pc = "request"
    /\ beat' = [beat EXCEPT !.answer = peers, !.pc = IF peers = beat.cfg THEN "adopt" ELSE "apply"]
    /\ IF peers = beat.cfg THEN UNCHANGED queue ELSE Enqueue("beat", peers)
    /\ UNCHANGED <<control, config, handler, run, failure, file, docker, joined, whole, faults>>

BeatLost ==
    /\ beat.pc = "request"
    /\ Fault
    /\ beat' = NoBeat
    /\ UNCHANGED <<control, config, handler, queue, run, failure, file, docker, joined, whole>>

\* Fault: the configuration is applied and not adopted.
AdoptNothing ==
    /\ beat.pc = "adopt"
    /\ config' = beat.cfg
    /\ beat' = NoBeat
    /\ UNCHANGED <<control, handler, queue, run, failure, file, docker, joined, whole, faults>>

Adopt ==
    /\ beat.pc = "adopt"
    /\ config' = beat.answer
    /\ beat' = NoBeat
    /\ UNCHANGED <<control, handler, queue, run, failure, file, docker, joined, whole, faults>>

----------------------------------------------------------------------------
(* Work items.  A lease brings the configuration with it.  A deploy of an   *)
(* app reconciles Traefik first, one of a database does not.                *)

Goes(p, pc) == handler' = [handler EXCEPT ![p].pc = pc]

Lease(p) ==
    /\ item[p] # "none" /\ handler[p].pc = "idle"
    /\ config' = peers
    /\ \/ item[p] = "deploy" /\ Goes(p, "base") /\ Enqueue(p, peers)
       \/ item[p] = "deploy" /\ Goes(p, "network") /\ UNCHANGED queue
       \/ item[p] = "delete" /\ Goes(p, "find") /\ UNCHANGED queue
    /\ UNCHANGED <<control, beat, run, failure, file, docker, joined, whole, faults>>

CreateNetwork(p) ==
    /\ handler[p].pc = "network"
    /\ networks' = networks \cup {p}
    /\ Goes(p, "attach")
    /\ UNCHANGED <<control, config, beat, queue, run, failure, file, box, joined, whole, faults>>

(* connectNetwork: a missing container fails the deploy.                    *)
JoinNetwork(p) ==
    /\ handler[p].pc = "attach"
    /\ IF box["primary"].up = "absent"
       THEN Goes(p, "fail") /\ UNCHANGED <<box, joined>>
       ELSE Goes(p, "done") /\ Attach("primary", p) /\ joined' = joined \cup {p}
    /\ UNCHANGED <<control, config, beat, queue, run, failure, file, networks, whole, faults>>

(* handleDeleteProject                                                      *)
FindNetwork(p) ==
    /\ handler[p].pc = "find"
    /\ Goes(p, IF p \in networks THEN "inspect" ELSE "done")
    /\ UNCHANGED <<control, config, beat, queue, run, failure, file, docker, joined, whole, faults>>

Past(p) == IF handler[p].role = "primary" THEN [pc |-> "inspect", role |-> "candidate"]
           ELSE [NoHandler EXCEPT !.pc = "remove"]

InspectTraefik(p) ==
    /\ handler[p].pc = "inspect"
    /\ handler' = [handler EXCEPT ![p] = IF p \in box[@.role].nets
                                         THEN [@ EXCEPT !.pc = "disconnect"] ELSE Past(p)]
    /\ UNCHANGED <<control, config, beat, queue, run, failure, file, docker, joined, whole, faults>>

(* Docker answers 404 for a container that is gone, which is fine, and 500  *)
(* for one that is not attached any more.                                   *)
DisconnectTraefik(p) ==
    /\ handler[p].pc = "disconnect"
    /\ LET r == handler[p].role IN
       IF box[r].up # "absent" /\ p \notin box[r].nets
       THEN Goes(p, "fail") /\ UNCHANGED box
       ELSE /\ box' = [box EXCEPT ![r].nets = @ \ {p}]
            /\ handler' = [handler EXCEPT ![p] = Past(p)]
    /\ UNCHANGED <<control, config, beat, queue, run, failure, file, networks, joined, whole, faults>>

(* Docker refuses while a running container is attached; what is down keeps *)
(* an attachment to nothing.                                                *)
RemoveNetwork(p) ==
    /\ handler[p].pc = "remove"
    /\ IF \E r \in Role : box[r].up = "running" /\ p \in box[r].nets
       THEN Goes(p, "fail") /\ UNCHANGED docker
       ELSE /\ networks' = networks \ {p}
            /\ box' = [r \in Role |-> [box[r] EXCEPT
                          !.nets = @ \ {p}, !.stale = @ \cup (box[r].nets \cap {p})]]
            /\ Goes(p, "done")
    /\ UNCHANGED <<control, config, beat, queue, run, failure, file, joined, whole, faults>>

Report(p) ==
    /\ handler[p].pc \in {"done", "fail"}
    /\ handler' = [handler EXCEPT ![p] = NoHandler]
    /\ item' = [item EXCEPT ![p] = "none"]
    /\ UNCHANGED <<peers, items, config, beat, queue, run, failure, file, docker, joined, whole,
                   faults>>

(* Docker fails a call of the handler, or the report of its end is lost and *)
(* the item leased again.                                                   *)
HandlerFails(p) ==
    /\ handler[p].pc \notin {"idle", "base", "fail"}
    /\ Fault
    /\ handler' = [handler EXCEPT ![p] = [NoHandler EXCEPT
                      !.pc = IF handler[p].pc = "done" THEN "idle" ELSE "fail"]]
    /\ UNCHANGED <<control, config, beat, queue, run, failure, file, docker, joined, whole>>

(* Docker restarts the agent, which begins with no peers to trust.          *)
AgentCrash ==
    /\ Fault
    /\ config' = NoPeers /\ beat' = NoBeat /\ failure' = "none"
    /\ handler' = [p \in Projects |-> NoHandler]
    /\ queue' = <<>> /\ run' = NoRun
    /\ UNCHANGED <<control, file, docker, joined, whole>>

----------------------------------------------------------------------------
Reconciles ==
    \/ StartRun \/ WriteFile \/ InspectPrimary \/ PullImage \/ BuildContainer \/ ListNetworks
    \/ (\E p \in Projects : ConnectNetwork(p))
    \/ Connected \/ Healthy \/ CutPrimary \/ Finish \/ RejectCandidate \/ TargetLost

Beats == Snapshot \/ Answered \/ Adopt

Handles(p) ==
    \/ Lease(p) \/ CreateNetwork(p) \/ JoinNetwork(p) \/ FindNetwork(p) \/ InspectTraefik(p)
    \/ DisconnectTraefik(p) \/ RemoveNetwork(p) \/ Report(p)

Next ==
    \/ Reconciles \/ Beats \/ (\E p \in Projects : Handles(p) \/ Queue(p) \/ HandlerFails(p))
    \/ PeersChange \/ (\E r \in Role : Dies(r)) \/ Restarts
    \/ CallFails \/ BeatLost \/ AgentCrash

Spec == Init /\ [][Next]_vars

FairSpec ==
    /\ Spec
    /\ WF_vars(Reconciles) /\ WF_vars(Beats)
    /\ \A p \in Projects : WF_vars(Handles(p))

----------------------------------------------------------------------------
(* Properties.                                                              *)

(* Traefik is never running without a project that a deploy attached it to, *)
(* once a reconcile has seen it through: cutovers, rollbacks, restarts and  *)
(* the deletion of other projects lose no attachment (traefik-runtime.ts's  *)
(* connectTraefikToManagedProjectNetworks at every stage, beside the        *)
(* connectNetwork of the deploys).  The types included.                     *)
Attached ==
    /\ TypeOK
    /\ whole /\ box["primary"].up = "running" => joined \subseteq box["primary"].nets

(* A recorded failure is cleared only for a primary of the pinned image     *)
(* labelled with the configuration asked for, and a rollback is reported    *)
(* only for a primary of the image it had: the record of                    *)
(* reconcileTraefikRuntime.                                                 *)
RecordIsTrue ==
    [][/\ failure # "none" /\ failure' = "none" /\ faults' = faults
            => box["primary"].image = "pinned" /\ box["primary"].cfg = run.cfg
       /\ failure' = "rolled_back" /\ failure # "rolled_back"
            => box["primary"].image = run.previous /\ box["primary"].up = "running"]_vars

(* Whatever failed, once it stops failing the ingress runs, is labelled with *)
(* the configuration the control plane names and read that very one when it *)
(* started, and is attached to every project's network: the reconciles of   *)
(* sendAgentHeartbeat see to it.  What the process read is excepted where   *)
(* Docker restarted it over the file of another reconcile, one that was     *)
(* rejected after it wrote the file: reconciles compare the label only      *)
(* (isTraefikContainerCurrent), so nothing ever repairs that.               *)
Converged ==
    /\ box["primary"].up = "running" /\ box["primary"].cfg = peers
    /\ box["primary"].read = peers \/ box["primary"].strayed
    /\ networks \subseteq box["primary"].nets
IngressConverges == <>[]Converged
=============================================================================
