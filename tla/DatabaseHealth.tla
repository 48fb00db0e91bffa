---------------------------- MODULE DatabaseHealth ----------------------------
(***************************************************************************)
(* The continuing health of the managed databases, as an agent reports it:  *)
(* passes over everything Docker lists, each publishing its inventory at    *)
(* once and again after every observation, so that a heartbeat always       *)
(* carries a whole one.  A service an inventory does not name counts as     *)
(* missing, at the instant the pass was stamped with.                       *)
(***************************************************************************)
EXTENDS Naturals, FiniteSets

CONSTANTS
    Databases,
    Unresolved,     \* those whose engine neither label nor name gives away
    Workers,        \* DEFAULT_OBSERVATION_CONCURRENCY
    MaxPasses,      \* bound: passes begun
    MaxChanges,     \* bound: containers that come, go, start or stop
    MaxFaults       \* bound: Docker calls that fail, probes that cannot run, crashes

ASSUME DatabaseHealthAssumption ==
    /\ Unresolved \subseteq Databases
    /\ {Workers, MaxPasses, MaxChanges, MaxFaults} \subseteq Nat

VARIABLES
    real,       \* Docker: what each database's container is
    pass,       \* agent: the passes, in the order they began
    latest,     \* agent: latestDatabaseRuntimeHealth
    seen,       \* history: what a database has been since a pass was stamped
    newest,     \* history: the last pass to publish anything
    changes, faults

vars == <<real, pass, latest, seen, newest, changes, faults>>

Real == {"absent", "created", "stopped", "up"}
State == {"unknown", "unavailable", "ready"}
Pass == 1 .. MaxPasses

(* What a pass stands at with each database that it listed.                 *)
Stage == {"unlisted", "todo", "inspect", "logs", "probe", "done"}
NewPass == [pc |-> "new", stage |-> [d \in Databases |-> "unlisted"],
            found |-> [d \in Databases |-> "unknown"]]

(* An inventory, its stamp, and what was seen when it was published.        *)
NoReport == [stamp |-> 0, entry |-> [d \in Databases |-> "unknown"],
             grounds |-> [d \in Databases |-> Real]]

TypeOK ==
    /\ real \in [Databases -> Real]
    /\ pass \in [Pass -> [pc: {"new", "list", "observe", "over"}, stage: [Databases -> Stage],
                          found: [Databases -> State]]]
    /\ latest \in [stamp: 0 .. MaxPasses, entry: [Databases -> State \cup {"missing"}],
                   grounds: [Databases -> SUBSET Real]]
    /\ seen \in [Pass -> [Databases -> SUBSET Real]]
    /\ newest \in 0 .. MaxPasses
    /\ changes \in 0 .. MaxChanges /\ faults \in 0 .. MaxFaults

Init ==
    /\ real \in [Databases -> {"absent", "up"}]
    /\ pass = [i \in Pass |-> NewPass]
    /\ latest = NoReport
    /\ seen = [i \in Pass |-> [d \in Databases |-> {}]]
    /\ newest = 0 /\ changes = 0 /\ faults = 0

Fault == faults < MaxFaults /\ faults' = faults + 1

----------------------------------------------------------------------------
(* Docker, and the handlers that provision, restart and delete.             *)

Becomes(d, r) ==
    /\ changes < MaxChanges
    /\ changes' = changes + 1
    /\ real' = [real EXCEPT ![d] = r]
    /\ seen' = [i \in Pass |-> [seen[i] EXCEPT ![d] = IF pass[i].pc = "new" THEN @ ELSE @ \cup {r}]]
    /\ UNCHANGED <<pass, latest, newest, faults>>

Created(d) == real[d] = "absent" /\ Becomes(d, "created")
Starts(d) == real[d] \in {"created", "stopped"} /\ Becomes(d, "up")
Stops(d) == real[d] = "up" /\ Becomes(d, "stopped")
Removed(d) == real[d] # "absent" /\ Becomes(d, "absent")

----------------------------------------------------------------------------
(* The timer of the passes, and the stamp of one.                           *)

\* Fault: a pass begins whether or not the one before has ended.
BeginAnyway(i) ==
    /\ pass[i].pc = "new" /\ \A j \in 1 .. i - 1 : pass[j].pc # "new"
    /\ pass' = [pass EXCEPT ![i].pc = "list"]
    /\ seen' = [seen EXCEPT ![i] = [d \in Databases |-> {real[d]}]]
    /\ UNCHANGED <<real, latest, newest, changes, faults>>

Begin(i) ==
    /\ pass[i].pc = "new" /\ \A j \in 1 .. i - 1 : pass[j].pc = "over"
    /\ pass' = [pass EXCEPT ![i].pc = "list"]
    /\ seen' = [seen EXCEPT ![i] = [d \in Databases |-> {real[d]}]]
    /\ UNCHANGED <<real, latest, newest, changes, faults>>

\* Fault: what has not been observed yet is left out.
PublishObserved(i) ==
    /\ latest' = [stamp |-> i,
                  entry |-> [d \in Databases |-> IF pass'[i].stage[d] # "done" THEN "missing"
                                                 ELSE pass'[i].found[d]],
                  grounds |-> seen[i]]
    /\ newest' = IF newest < i THEN i ELSE newest

(* Every call publishes a whole inventory: what was listed as it is found   *)
(* so far, anything else as missing.                                        *)
Publish(i) ==
    /\ latest' = [stamp |-> i,
                  entry |-> [d \in Databases |-> IF pass'[i].stage[d] = "unlisted" THEN "missing"
                                                 ELSE pass'[i].found[d]],
                  grounds |-> seen[i]]
    /\ newest' = IF newest < i THEN i ELSE newest

Stages(i, d, s) == pass' = [pass EXCEPT ![i].stage[d] = s]

(* Stopped containers are listed too.                                       *)
List(i) ==
    /\ pass[i].pc = "list"
    /\ pass' = [pass EXCEPT ![i].pc = "observe",
                            ![i].stage = [d \in Databases |-> IF real[d] = "absent" THEN "unlisted"
                                                              ELSE "todo"]]
    /\ Publish(i)
    /\ UNCHANGED <<real, seen, changes, faults>>

ListFails(i) ==
    /\ pass[i].pc = "list"
    /\ Fault
    /\ pass' = [pass EXCEPT ![i].pc = "over"]
    /\ UNCHANGED <<real, latest, seen, newest, changes>>

Busy(i) == {d \in Databases : pass[i].stage[d] \in {"inspect", "logs", "probe"}}

(* A worker takes the next container; one without an engine keeps its       *)
(* placeholder.                                                             *)
Take(i, d) ==
    /\ pass[i].stage[d] = "todo" /\ Cardinality(Busy(i)) < Workers
    /\ Stages(i, d, IF d \in Unresolved THEN "done" ELSE "inspect")
    /\ UNCHANGED <<real, latest, seen, newest, changes, faults>>

Finds(i, d, s) ==
    /\ pass' = [pass EXCEPT ![i].stage[d] = "done", ![i].found[d] = s]
    /\ Publish(i)

(* observeDatabaseRuntimeHealth: the container of that name, by now.        *)
Inspect(i, d) ==
    /\ pass[i].stage[d] = "inspect"
    /\ CASE real[d] = "absent" -> Finds(i, d, "unavailable")
         [] real[d] = "created" -> Finds(i, d, "unknown")
         [] real[d] = "stopped" -> Stages(i, d, "logs") /\ UNCHANGED <<latest, newest>>
         [] real[d] = "up" -> Stages(i, d, "probe") /\ UNCHANGED <<latest, newest>>
    /\ UNCHANGED <<real, seen, changes, faults>>

(* The log is read for a kernel that cannot run the engine.                 *)
ReadLog(i, d) ==
    /\ pass[i].stage[d] = "logs"
    /\ Finds(i, d, "unavailable")
    /\ UNCHANGED <<real, seen, changes, faults>>

(* An authenticated statement, from a container beside the database.        *)
Probe(i, d) ==
    /\ pass[i].stage[d] = "probe"
    /\ \/ real[d] = "up" /\ Finds(i, d, "ready")
       \/ Finds(i, d, "unknown")
    /\ UNCHANGED <<real, seen, changes, faults>>

InspectFails(i, d) ==
    /\ pass[i].stage[d] = "inspect"
    /\ Fault
    /\ Finds(i, d, "unknown")
    /\ UNCHANGED <<real, seen, changes>>

EndPass(i) ==
    /\ pass[i].pc = "observe"
    /\ \A d \in Databases : pass[i].stage[d] \in {"unlisted", "done"}
    /\ pass' = [pass EXCEPT ![i].pc = "over"]
    /\ Publish(i)
    /\ UNCHANGED <<real, seen, changes, faults>>

(* The agent starts anew, with nothing to report.                           *)
Crash ==
    /\ Fault
    /\ pass' = [i \in Pass |-> IF pass[i].pc = "new" THEN pass[i] ELSE [NewPass EXCEPT !.pc = "over"]]
    /\ latest' = NoReport
    /\ UNCHANGED <<real, seen, newest, changes>>

----------------------------------------------------------------------------
Observe(i) ==
    \/ Begin(i) \/ List(i) \/ ListFails(i) \/ EndPass(i)
    \/ \E d \in Databases :
         Take(i, d) \/ Inspect(i, d) \/ ReadLog(i, d) \/ Probe(i, d) \/ InspectFails(i, d)

Next ==
    \/ \E i \in Pass : Observe(i)
    \/ \E d \in Databases : Created(d) \/ Starts(d) \/ Stops(d) \/ Removed(d)
    \/ Crash

Spec == Init /\ [][Next]_vars

----------------------------------------------------------------------------
(* What of a database justifies an entry.                                   *)
Grounds == [missing |-> {"absent"}, unavailable |-> {"absent", "stopped"}, ready |-> {"up"},
            unknown |-> Real]

(* An inventory a heartbeat carries says of every database only what it has *)
(* been at or after the stamp: it is missing, unavailable or ready on such  *)
(* grounds alone, whatever comes, goes or is replaced during the pass; and  *)
(* a later inventory never gives way to an earlier one                      *)
(* (collectDatabaseRuntimeHealthReport).  The types included.               *)
InventoryIsTrue ==
    /\ TypeOK
    /\ latest.stamp \in {0, newest}
    /\ \A d \in Databases : latest.grounds[d] \cap Grounds[latest.entry[d]] # {}
===============================================================================
