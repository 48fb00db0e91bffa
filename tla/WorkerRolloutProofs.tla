-------------------------- MODULE WorkerRolloutProofs --------------------------
(***************************************************************************)
(* Proofs about WorkerRollout, for any versions, replicas, work items and   *)
(* faults: a failed deploy leaves what was live, what it says of what it    *)
(* left is true, a committed one runs, the volume keeps a way back, and no  *)
(* two versions run where the service forbids it.                           *)
(*                                                                          *)
(* The first part says what each step does to the handler's record, field   *)
(* by field; each conjunct of Invariant is then kept step by step.          *)
(***************************************************************************)
EXTENDS WorkerRollout, TLAPS

USE RolloutAssumption

(* Where a stop-first attempt is, and where any deploy is.                  *)
StopFirstPcs == {"reset", "halt", "snapshot", "unwind", "restore", "reopen", "judge", "settle"}
DeployPcs == StopFirstPcs \cup {"slots", "discard", "retire", "remove"}

(* An idle handler remembers nothing; one that works has an item of its     *)
(* kind, and the steps that undo belong to a stop-first attempt.            *)
Course ==
    /\ h.pc = "idle" => h = Idle
    /\ h.pc = "sweep" => h = [Idle EXCEPT !.pc = "sweep", !.cands = h.cands]
    /\ h.pc # "idle" => work.kind # "none"
    /\ h.pc \in DeployPcs => work.kind = "deploy"
    /\ h.pc = "restart" => work.kind = "restart"
    /\ h.pc \in StopFirstPcs => h.order = "stop_first"
    /\ h.pc \in {"slots", "discard"} => h.order # "none"
    /\ h.result # "none" <=> h.pc = "report"
    /\ h.restored => h.pc \in {"restore", "reopen", "judge", "settle", "report"}

(* Candidates are of the version deployed and none of those they replace,   *)
(* and each step works on its own part of them.                             *)
Parts ==
    /\ \A s \in h.cands : VersionOf(s) = work.version
    /\ h.cands \cap (h.prev \cup h.retired) = {}
    /\ h.pc = "slots" => h.todo \subseteq h.cands
    /\ h.pc = "discard" => h.todo \subseteq h.cands \ h.adopted
    /\ h.pc = "reset" => h.todo \subseteq h.cands /\ h.stale \subseteq h.cands
    /\ h.pc = "halt" => h.todo = h.prev
    /\ h.pc = "retire" => h.todo = h.retired
    /\ h.pc = "remove" => h.todo \subseteq h.prev \cup h.retired
    /\ h.pc = "reopen" => h.todo \subseteq h.prev
    /\ h.pc = "restart" => h.todo \subseteq work.meta

Shape == TypeOK /\ Course /\ Parts

LEMMA Slotted ==
    ASSUME NEW v \in Versions, NEW n \in 0 .. MaxReplicas
    PROVE  Replicas(v, n) \subseteq Slots /\ \A s \in Replicas(v, n) : VersionOf(s) = v
BY DEF Replicas, Slots, VersionOf

LEMMA Containers == Absent \in Container /\ Started \in Container
BY DEF Absent, Started, Container

LEMMA Starting == NoWork \in Work /\ Idle \in Handler
<1>1. PICK v \in Versions : TRUE
  OBVIOUS
<1>2. NoWork.version \in Versions
  BY <1>1 DEF NoWork
<1>3. NoWork \in Work
  BY <1>2 DEF NoWork, Work
<1>4. NoOutcomes \in [Slots -> Outcome]
  BY DEF NoOutcomes, Outcome
<1> QED
  BY <1>3, <1>4 DEF Idle, Handler

LEMMA TypeInit == Init => TypeOK
<1> SUFFICES ASSUME Init PROVE TypeOK
  OBVIOUS
<1>1. box \in [Slots -> Container]
  BY Containers DEF Init
<1>2. snap \in [Versions -> Snapshot] /\ volume \in Volume
  BY DEF Init, Snapshot, Volume
<1>3. issued \in 0 .. MaxWork /\ faults \in 0 .. MaxFaults
  BY DEF Init
<1> QED
  BY <1>1, <1>2, <1>3, Starting DEF Init, TypeOK

LEMMA Removed ==
    ASSUME TypeOK, NEW gone, Remove(gone)
    PROVE  box' \in [Slots -> Container]
BY Containers DEF TypeOK, Remove

LEMMA Altered ==
    ASSUME TypeOK, NEW s \in Slots, NEW x \in Container, box' = [box EXCEPT ![s] = x]
    PROVE  box' \in [Slots -> Container]
BY DEF TypeOK

LEMMA Ended ==
    ASSUME TypeOK, NEW s \in Slots
    PROVE  /\ [box[s] EXCEPT !.run = "stopped"] \in Container
           /\ [box[s] EXCEPT !.auto = FALSE] \in Container
BY DEF TypeOK, Container

LEMMA Aged == ASSUME TypeOK PROVE Stale(snap) \in [Versions -> Snapshot]
BY DEF TypeOK, Stale, Snapshot

LEMMA Counted ==
    ASSUME TypeOK, Fault \/ UNCHANGED faults PROVE faults' \in 0 .. MaxFaults
BY DEF TypeOK, Fault

LEMMA Fields ==
    ASSUME TypeOK
    PROVE  /\ h.cands \in SUBSET Slots /\ h.stale \in SUBSET Slots /\ h.prev \in SUBSET Slots
           /\ h.retired \in SUBSET Slots /\ h.adopted \in SUBSET Slots
           /\ h.live \in SUBSET Slots /\ h.todo \in SUBSET Slots
           /\ h.out \in [Slots -> Outcome]
BY DEF TypeOK, Handler

LEMMA Handled ==
    ASSUME TypeOK
    PROVE  /\ Abort \in Handler
           /\ \A r \in {"none", "committed", "aborted", "error"} : Finish(r) \in Handler
           /\ \A x \in SUBSET Slots : [h EXCEPT !.todo = x] \in Handler
           /\ \A p \in {"halt", "slots", "retire", "restart", "remove"}, x \in SUBSET Slots :
                [h EXCEPT !.pc = p, !.todo = x] \in Handler
           /\ \A p \in {"snapshot", "unwind", "settle"} : [h EXCEPT !.pc = p] \in Handler
           /\ \A x \in SUBSET Slots : Discard(x) \in Handler
<1> SUFFICES ASSUME h \in Handler
    PROVE  /\ Abort \in Handler
           /\ \A r \in {"none", "committed", "aborted", "error"} : Finish(r) \in Handler
           /\ \A x \in SUBSET Slots : [h EXCEPT !.todo = x] \in Handler
           /\ \A p \in {"halt", "slots", "retire", "restart", "remove"}, x \in SUBSET Slots :
                [h EXCEPT !.pc = p, !.todo = x] \in Handler
           /\ \A p \in {"snapshot", "unwind", "settle"} : [h EXCEPT !.pc = p] \in Handler
           /\ \A x \in SUBSET Slots : Discard(x) \in Handler
  BY DEF TypeOK
<1>1. Abort \in Handler
  BY DEF Abort, Handler
<1>2. \A r \in {"none", "committed", "aborted", "error"} : Finish(r) \in Handler
  BY DEF Finish, Handler
<1>3. \A x \in SUBSET Slots : [h EXCEPT !.todo = x] \in Handler
  BY DEF Handler
<1>4. \A p \in {"halt", "slots", "retire", "restart", "remove"}, x \in SUBSET Slots :
        [h EXCEPT !.pc = p, !.todo = x] \in Handler
  BY DEF Handler
<1>5. \A p \in {"snapshot", "unwind", "settle"} : [h EXCEPT !.pc = p] \in Handler
  BY DEF Handler
<1>6. ASSUME NEW x \in SUBSET Slots PROVE Discard(x) \in Handler
  <2>1. h.out \in [Slots -> Outcome] /\ "none" \in Outcome
    BY DEF Handler, Outcome
  <2>2. [s \in Slots |-> IF s \in h.cands \ x THEN "none" ELSE h.out[s]] \in [Slots -> Outcome]
    BY <2>1
  <2>3. h.cands \ x \in SUBSET Slots
    BY DEF Handler
  <2> QED
    BY <2>2, <2>3 DEF Discard, Handler
<1> QED
  BY <1>1, <1>2, <1>3, <1>4, <1>5, <1>6

LEMMA Typed ==
    ASSUME TypeOK, UNCHANGED control,
           UNCHANGED box \/ box' \in [Slots -> Container],
           UNCHANGED volume \/ volume' \in Volume,
           UNCHANGED snap \/ snap' \in [Versions -> Snapshot],
           UNCHANGED kept \/ kept' \in BOOLEAN,
           UNCHANGED h \/ h' \in Handler,
           UNCHANGED faults \/ faults' \in 0 .. MaxFaults
    PROVE  TypeOK'
BY DEF TypeOK, control

LEMMA TypeStep == TypeOK /\ [Next]_vars => TypeOK'
<1> SUFFICES ASSUME TypeOK, [Next]_vars PROVE TypeOK'
  OBVIOUS
<1> USE DEF disk, control
<1>1. CASE IssueDeploy
  <2>1. PICK v \in Versions, n \in 0 .. MaxReplicas, once \in BOOLEAN :
          work' = [kind |-> "deploy", version |-> v, count |-> n, noOverlap |-> once, meta |-> recorded]
    BY <1>1 DEF IssueDeploy
  <2> QED
    BY <1>1, <2>1 DEF IssueDeploy, TypeOK, Work
<1>2. CASE IssueRestart
  <2>1. PICK meta \in {recorded, earlier}, once \in BOOLEAN :
          work' = [NoWork EXCEPT !.kind = "restart", !.noOverlap = once, !.meta = meta]
    BY <1>2 DEF IssueRestart
  <2>2. work' \in Work
    BY <2>1, Starting DEF TypeOK, Work
  <2> QED
    BY <1>2, <2>2 DEF IssueRestart, TypeOK
<1>3. CASE Lease
  BY <1>3, Starting, Slotted DEF Lease, TypeOK, Handler, Work
<1>4. CASE GiveUp
  BY <1>4, Starting, Counted DEF GiveUp, TypeOK
<1>5. CASE Report
  <2>1. faults' \in 0 .. MaxFaults
    BY <1>5, Counted DEF Report
  <2> QED
    BY <1>5, <2>1, Starting DEF Report, TypeOK, Handler
<1>6. CASE Crash
  <2>1. box' \in [Slots -> Container]
    BY <1>6, Ended DEF Crash, TypeOK
  <2> QED
    BY <1>6, <2>1, Starting, Counted DEF Crash, TypeOK
<1>7. CASE EndReset
  <2>1. box' \in [Slots -> Container]
    BY <1>7, Removed DEF EndReset, MayFail, TypeOK
  <2>2. faults' \in 0 .. MaxFaults
    BY <1>7, Counted DEF EndReset, MayFail
  <2>3. h' \in Handler
    <3>1. [h EXCEPT !.pc = "halt", !.todo = h.prev] \in Handler
      BY Handled, Fields
    <3> QED
      BY <1>7, <3>1, Handled DEF EndReset, MayFail
  <2> QED
    BY <1>7, <2>1, <2>2, <2>3, Typed DEF EndReset
<1>8. CASE EndHalt
  <2>1. \/ h' = Abort \/ h' = [h EXCEPT !.pc = "snapshot"]
        \/ h' = [h EXCEPT !.pc = "slots", !.todo = h.cands]
    BY <1>8 DEF EndHalt
  <2>2. h' \in Handler
    <3>1. Abort \in Handler /\ [h EXCEPT !.pc = "snapshot"] \in Handler
      BY Handled
    <3>2. [h EXCEPT !.pc = "slots", !.todo = h.cands] \in Handler
      BY Handled, Fields
    <3> QED
      BY <2>1, <3>1, <3>2
  <2> QED
    BY <1>8, <2>2, Typed DEF EndHalt
<1>9. CASE TakeSnapshot
  <2>2. faults' \in 0 .. MaxFaults
    BY <1>9, Counted DEF TakeSnapshot, MayFail
  <2>3. h' \in Handler
    <3>1. [h EXCEPT !.pc = "slots", !.todo = h.cands, !.snapshot = TRUE] \in Handler
      BY DEF TypeOK, Handler
    <3> QED
      BY <1>9, <3>1, Handled DEF TakeSnapshot, MayFail
  <2>4. snap' \in [Versions -> Snapshot]
    BY <1>9 DEF TakeSnapshot, MayFail, TypeOK, Snapshot
  <2> QED
    BY <1>9, <2>2, <2>3, <2>4, Typed DEF TakeSnapshot
<1>10. CASE EndDiscard
  <2>1. box' \in [Slots -> Container]
    BY <1>10, Removed DEF EndDiscard
  <2>2. faults' \in 0 .. MaxFaults
    BY <1>10, Counted DEF EndDiscard
  <2>3. h' \in Handler
    <3>1. \A left : Discarded(left) => h' \in Handler
      <4>1. \A runs \in BOOLEAN : [Finish("aborted") EXCEPT !.preserved = runs] \in Handler
        <5>1. \A x \in Handler, runs \in BOOLEAN : [x EXCEPT !.preserved = runs] \in Handler
          BY DEF Handler
        <5> QED
          BY <5>1, Handled
      <4> QED
        BY <4>1, Handled DEF Discarded, AnyReplicaRuns
    <3> QED
      BY <1>10, <3>1 DEF EndDiscard
  <2> QED
    BY <1>10, <2>1, <2>2, <2>3, Typed DEF EndDiscard
<1>11. CASE RestoreVolume
  <2>2. faults' \in 0 .. MaxFaults
    BY <1>11, Counted DEF RestoreVolume, MayFail
  <2>3. h' \in Handler
    <3>1. [h EXCEPT !.pc = "restore", !.restored = TRUE] \in Handler
      BY DEF TypeOK, Handler
    <3> QED
      BY <1>11, <3>1, Handled DEF RestoreVolume, MayFail
  <2>4. volume' \in Volume
    BY <1>11 DEF RestoreVolume, MayFail, TypeOK, Volume
  <2> QED
    BY <1>11, <2>2, <2>3, <2>4, Typed DEF RestoreVolume
<1>12. CASE RestoreLook
  <2>1. box' \in [Slots -> Container]
    BY <1>12, Containers DEF RestoreLook, MayFail, BackOn, TypeOK
  <2>2. faults' \in 0 .. MaxFaults
    BY <1>12, Counted DEF RestoreLook, MayFail
  <2>3. h' \in Handler
    <3>h. h \in Handler
      BY DEF TypeOK
    <3>1. ASSUME NEW x \in SUBSET Slots, NEW y \in SUBSET Slots, NEW b \in BOOLEAN
          PROVE  [h EXCEPT !.pc = "reopen", !.retired = x, !.todo = y, !.completed = b] \in Handler
      BY <3>h DEF Handler
    <3>2. [h EXCEPT !.pc = "judge", !.todo = {}] \in Handler
      BY <3>h DEF Handler
    <3>3. h.prev \subseteq Slots
      BY Fields
    <3> DEFINE seen == {s \in h.prev : ~LeftAlone(s)}
               tried == {s \in seen : h.out[s] # "none"}
    <3>4. /\ seen \cap Running \in SUBSET Slots
          /\ (tried \cap Present) \ Running \in SUBSET Slots
          /\ (tried \subseteq Present) \in BOOLEAN
      BY <3>3
    <3>5. \/ h' = [h EXCEPT !.pc = "reopen",
                           !.retired = seen \cap Running,
                           !.todo = (tried \cap Present) \ Running,
                           !.completed = tried \subseteq Present]
          \/ h' = [h EXCEPT !.pc = "judge", !.todo = {}]
      BY <1>12 DEF RestoreLook, MayFail
    <3>6. \/ \E x, y \in SUBSET Slots, b \in BOOLEAN :
               h' = [h EXCEPT !.pc = "reopen", !.retired = x, !.todo = y, !.completed = b]
          \/ h' = [h EXCEPT !.pc = "judge", !.todo = {}]
      <4> HIDE DEF seen, tried
      <4> QED
        BY <3>4, <3>5, Zenon
    <3>7. ASSUME NEW x \in SUBSET Slots, NEW y \in SUBSET Slots, NEW b \in BOOLEAN,
                 h' = [h EXCEPT !.pc = "reopen", !.retired = x, !.todo = y, !.completed = b]
          PROVE  h' \in Handler
      BY <3>1, <3>7
    <3> QED
      BY <3>2, <3>6, <3>7
  <2> QED
    BY <1>12, <2>1, <2>2, <2>3, Typed DEF RestoreLook
<1>13. CASE Judge
  <2>3. h' \in Handler
    <3>1. \A b, c \in BOOLEAN :
            [h EXCEPT !.pc = "settle", !.preserved = b, !.completed = c] \in Handler
      BY DEF TypeOK, Handler
    <3>2. PICK runs \in BOOLEAN :
            h' = [h EXCEPT !.pc = "settle", !.preserved = runs,
                           !.completed = h.completed /\ runs /\ h.restored]
      BY <1>13 DEF Judge, AnyReplicaRuns
    <3> QED
      BY <3>1, <3>2
  <2> QED
    BY <1>13, <2>3, Typed DEF Judge
<1>14. CASE SettleSnapshot
  <2>2. faults' \in 0 .. MaxFaults
    BY <1>14, Counted DEF SettleSnapshot, MayFail
  <2>3. h' \in Handler
    BY <1>14 DEF SettleSnapshot, Finish, TypeOK, Handler
  <2>4. snap' \in [Versions -> Snapshot] /\ kept' \in BOOLEAN
    BY <1>14 DEF SettleSnapshot, MayFail, DropOrKeep, TypeOK, Snapshot
  <2> QED
    BY <1>14, <2>2, <2>3, <2>4, Typed DEF SettleSnapshot
<1>15. CASE Plan
  <2>3. h' \in Handler
    <3>1. h \in Handler
      BY DEF TypeOK
    <3>2. /\ Present \subseteq Slots /\ Running \subseteq Slots /\ h.cands \subseteq Slots
          /\ {s \in Running \cap work.meta : box[s].auto} \subseteq Slots
      BY Fields DEF Present, Running
    <3> DEFINE others == Present \ h.cands
               first == StopFirst(others)
    <3>3. h' = [h EXCEPT
             !.pc = IF first THEN "reset" ELSE "slots",
             !.order = IF first THEN "stop_first" ELSE "candidate_first",
             !.stale = IF first THEN Present \cap h.cands ELSE {},
             !.todo = IF first THEN Present \cap h.cands ELSE h.cands,
             !.prev = IF first THEN others ELSE {},
             !.retired = IF first THEN {} ELSE others,
             !.adopted = IF first THEN {} ELSE h.cands \cap Running \cap work.meta,
             !.live = IF first THEN {} ELSE {s \in Running \cap work.meta : box[s].auto}]
      BY <1>15 DEF Plan
    <3>4. /\ others \in SUBSET Slots /\ {} \in SUBSET Slots /\ h.cands \in SUBSET Slots
          /\ Present \cap h.cands \in SUBSET Slots
          /\ h.cands \cap Running \cap work.meta \in SUBSET Slots
          /\ {s \in Running \cap work.meta : box[s].auto} \in SUBSET Slots
      BY <3>2
    <3>5. CASE first
      <4> DEFINE a == Present \cap h.cands
                 x == [h EXCEPT !.pc = "reset", !.order = "stop_first", !.stale = a]
                 y == [x EXCEPT !.todo = a, !.prev = others, !.retired = {}]
                 z == [y EXCEPT !.adopted = {}, !.live = {}]
      <4>1. h' = [h EXCEPT !.pc = "reset", !.order = "stop_first", !.stale = a, !.todo = a,
                   !.prev = others, !.retired = {}, !.adopted = {}, !.live = {}]
        BY <3>3, <3>5
      <4>2. a \in SUBSET Slots
        BY <3>4
      <4> HIDE DEF a, others
      <4>3. h' = z
        BY <4>1
      <4>4. x \in Handler
        BY <3>1, <4>2 DEF Handler
      <4> HIDE DEF x
      <4>5. y \in Handler
        BY <3>4, <4>2, <4>4 DEF Handler
      <4> HIDE DEF y
      <4>6. z \in Handler
        BY <3>4, <4>5 DEF Handler
      <4> QED
        BY <4>3, <4>6
    <3>6. CASE ~first
      <4> DEFINE own == h.cands \cap Running \cap work.meta
                 reps == {s \in Running \cap work.meta : box[s].auto}
                 x == [h EXCEPT !.pc = "slots", !.order = "candidate_first", !.stale = {}]
                 y == [x EXCEPT !.todo = h.cands, !.prev = {}, !.retired = others]
                 z == [y EXCEPT !.adopted = own, !.live = reps]
      <4>1. h' = [h EXCEPT !.pc = "slots", !.order = "candidate_first", !.stale = {},
                   !.todo = h.cands, !.prev = {}, !.retired = others, !.adopted = own, !.live = reps]
        BY <3>3, <3>6
      <4>2. own \in SUBSET Slots /\ reps \in SUBSET Slots
        BY <3>4
      <4> HIDE DEF own, reps, others
      <4>3. h' = z
        BY <4>1
      <4>4. x \in Handler
        BY <3>1, <3>4 DEF Handler
      <4> HIDE DEF x
      <4>5. y \in Handler
        BY <3>4, <4>4 DEF Handler
      <4> HIDE DEF y
      <4>6. z \in Handler
        BY <4>2, <4>5 DEF Handler
      <4> QED
        BY <4>3, <4>6
    <3> QED
      BY <3>5, <3>6
  <2> QED
    BY <1>15, <2>3, Typed DEF Plan
<1>16. CASE Readiness
  <2>3. h' \in Handler
    <3>1. h' = [h EXCEPT !.pc = "retire", !.todo = h.retired] \/ h' = Discard(h.adopted)
      BY <1>16 DEF Readiness
    <3>2. h.retired \in SUBSET Slots /\ h.adopted \in SUBSET Slots
      BY Fields
    <3>3. [h EXCEPT !.pc = "retire", !.todo = h.retired] \in Handler
      BY <3>2, Handled
    <3>4. Discard(h.adopted) \in Handler
      BY <3>2, Handled
    <3> QED
      BY <3>1, <3>3, <3>4
  <2> QED
    BY <1>16, <2>3, Typed DEF Readiness
<1>17. CASE EndRetire
  <2>3. h' \in Handler
    BY <1>17 DEF EndRetire, TypeOK, Handler
  <2> QED
    BY <1>17, <2>3, Typed DEF EndRetire
<1>18. CASE Commit
  <2>2. faults' \in 0 .. MaxFaults
    BY <1>18, Counted DEF Commit, MayFail
  <2>3. h' \in Handler
    BY <1>18 DEF Commit, Finish, TypeOK, Handler
  <2>4. snap' \in [Versions -> Snapshot]
    BY <1>18, Aged DEF Commit, MayFail, TypeOK, Snapshot
  <2>5. volume' \in Volume
    BY <1>18 DEF Commit, TypeOK, Volume
  <2> QED
    BY <1>18, <2>2, <2>3, <2>4, <2>5, Typed DEF Commit
<1>19. CASE RestartPlan
  <2>3. h' \in Handler
    <3> DEFINE x == Present \cap work.meta
    <3>1. \/ h' = Finish("committed") \/ h' = Finish("error")
          \/ h' = [h EXCEPT !.pc = "restart", !.todo = x]
      BY <1>19 DEF RestartPlan
    <3>2. x \in SUBSET Slots
      BY DEF Present
    <3> HIDE DEF x
    <3>3. [h EXCEPT !.pc = "restart", !.todo = x] \in Handler
      BY <3>2, Handled
    <3>4. Finish("committed") \in Handler /\ Finish("error") \in Handler
      BY Handled
    <3> QED
      BY <3>1, <3>3, <3>4
  <2> QED
    BY <1>19, <2>3, Typed DEF RestartPlan
<1>20. ASSUME NEW s \in Slots, Exits(s) PROVE TypeOK'
  BY <1>20, Altered, Ended DEF Exits, TypeOK
<1>21. ASSUME NEW s \in Slots, Sweep(s) PROVE TypeOK'
  <2>1. box' \in [Slots -> Container]
    BY <1>21, Removed DEF Sweep, MayFail, TypeOK
  <2>2. faults' \in 0 .. MaxFaults
    BY <1>21, Counted DEF Sweep, MayFail
  <2>3. h' \in Handler
    BY <1>21, Handled DEF Sweep, MayFail, TypeOK
  <2> QED
    BY <1>21, <2>1, <2>2, <2>3, Typed DEF Sweep
<1>22. ASSUME NEW s \in Slots, Signal(s) PROVE TypeOK'
  <2>1. box' \in [Slots -> Container]
    BY <1>22, Altered, Ended DEF Signal, TypeOK
  <2>3. h' \in Handler
    BY <1>22 DEF Signal, Outcome, TypeOK, Handler
  <2> QED
    BY <1>22, <2>1, <2>3, Typed DEF Signal
<1>23. ASSUME NEW s \in Slots, Confirm(s) PROVE TypeOK'
  <2>1. box' \in [Slots -> Container]
    BY <1>23, Altered, Ended DEF Confirm, TypeOK
  <2>2. faults' \in 0 .. MaxFaults
    BY <1>23, Counted DEF Confirm
  <2>3. h' \in Handler
    BY <1>23 DEF Confirm, Outcome, TypeOK, Handler
  <2> QED
    BY <1>23, <2>1, <2>2, <2>3, Typed DEF Confirm
<1>24. ASSUME NEW s \in Slots, HaltThrows(s) PROVE TypeOK'
  <2>1. box' \in [Slots -> Container]
    BY <1>24, Altered, Ended DEF HaltThrows, TypeOK
  <2>3. h' \in Handler
    BY <1>24 DEF HaltThrows, Outcome, TypeOK, Handler
  <2> QED
    BY <1>24, <2>1, <2>3, Counted, Typed DEF HaltThrows
<1>25. ASSUME NEW s \in Slots, StartCandidate(s) PROVE TypeOK'
  <2>1. box' \in [Slots -> Container]
    BY <1>25, Altered, Containers DEF StartCandidate, PrepareSlot
  <2>3. h' \in Handler
    BY <1>25 DEF StartCandidate, PrepareSlot, TypeOK, Handler
  <2>5. volume' \in Volume
    BY <1>25 DEF StartCandidate, Touched, TypeOK, Volume
  <2> QED
    BY <1>25, <2>1, <2>3, <2>5, Typed DEF StartCandidate
<1>26. ASSUME NEW s \in Slots, SlotThrows(s) PROVE TypeOK'
  <2>1. box' \in [Slots -> Container]
    <3>1. [run |-> "stopped", auto |-> TRUE] \in Container
      BY DEF Container
    <3> QED
      BY <1>26, <3>1, Altered, Containers DEF SlotThrows, TypeOK
  <2>3. h' \in Handler
    BY <1>26, Handled, Fields DEF SlotThrows
  <2> QED
    BY <1>26, <2>1, <2>3, Counted, Typed DEF SlotThrows
<1>27. ASSUME NEW s \in Slots, RestoreStart(s) PROVE TypeOK'
  <2>1. box' \in [Slots -> Container]
    BY <1>27, Altered, Containers DEF RestoreStart, TypeOK
  <2>2. faults' \in 0 .. MaxFaults
    BY <1>27, Counted DEF RestoreStart
  <2>3. h' \in Handler
    <3>1. \A x, y \in SUBSET Slots :
            [h EXCEPT !.todo = x, !.live = y] \in Handler
      BY DEF TypeOK, Handler
    <3>2. [h EXCEPT !.pc = "judge", !.completed = FALSE] \in Handler
      BY DEF TypeOK, Handler
    <3>3. \/ \E x, y \in SUBSET Slots : h' = [h EXCEPT !.todo = x, !.live = y]
          \/ h' = [h EXCEPT !.pc = "judge", !.completed = FALSE]
      <4>1. /\ h.todo \ {s} \in SUBSET Slots
            /\ h.live \in SUBSET Slots /\ h.live \cup {s} \in SUBSET Slots
        BY Fields
      <4>2. h' = [h EXCEPT !.pc = "judge", !.completed = FALSE]
            \/ \E y \in {h.live, h.live \cup {s}} :
                 h' = [h EXCEPT !.todo = h.todo \ {s}, !.live = y]
        BY <1>27 DEF RestoreStart
      <4> QED
        BY <4>1, <4>2
    <3> QED
      BY <3>1, <3>2, <3>3
  <2>4. snap' \in [Versions -> Snapshot]
    BY <1>27, Aged DEF RestoreStart, TypeOK
  <2> QED
    BY <1>27, <2>1, <2>2, <2>3, <2>4, Typed DEF RestoreStart
<1>28. ASSUME NEW s \in Slots, RemoveOld(s) PROVE TypeOK'
  <2>1. box' \in [Slots -> Container]
    BY <1>28, Removed DEF RemoveOld, MayFail, TypeOK
  <2>2. faults' \in 0 .. MaxFaults
    BY <1>28, Counted DEF RemoveOld, MayFail
  <2>3. h' \in Handler
    BY <1>28 DEF RemoveOld, TypeOK, Handler
  <2> QED
    BY <1>28, <2>1, <2>2, <2>3, Typed DEF RemoveOld
<1>29. ASSUME NEW s \in Slots, RestartOne(s) PROVE TypeOK'
  <2>1. box' \in [Slots -> Container]
    BY <1>29, Altered, Containers DEF RestartOne, MayFail, TypeOK
  <2>2. faults' \in 0 .. MaxFaults
    BY <1>29, Counted DEF RestartOne, MayFail
  <2>3. h' \in Handler
    BY <1>29, Handled, Fields DEF RestartOne, MayFail
  <2>4. snap' \in [Versions -> Snapshot]
    BY <1>29, Aged DEF RestartOne, MayFail, TypeOK
  <2> QED
    BY <1>29, <2>1, <2>2, <2>3, <2>4, Typed DEF RestartOne
<1>30. CASE UNCHANGED vars
  BY <1>30 DEF vars, TypeOK
<1> QED
  BY <1>1, <1>2, <1>3, <1>4, <1>5, <1>6, <1>7, <1>8, <1>9, <1>10, <1>11, <1>12, <1>13, <1>14,
     <1>15, <1>16, <1>17, <1>18, <1>19, <1>20, <1>21, <1>22, <1>23, <1>24, <1>25, <1>26, <1>27,
     <1>28, <1>29, <1>30 DEF Next, StopFirstStep, FailureStep, RolloutStep



LEMMA AtRest ==
    /\ Idle.pc = "idle" /\ Idle.order = "none" /\ Idle.result = "none"
    /\ Idle.cands = {} /\ Idle.stale = {} /\ Idle.prev = {} /\ Idle.retired = {}
    /\ Idle.adopted = {} /\ Idle.live = {} /\ Idle.todo = {} /\ Idle.out = NoOutcomes
    /\ ~Idle.snapshot /\ ~Idle.restored /\ ~Idle.preserved /\ ~Idle.completed
BY DEF Idle

(* What the handler's steps leave alone of the plan, of the containers it    *)
(* tells apart and of what it has noted.                                     *)
SamePlan ==
    h'.order = h.order /\ h'.cands = h.cands /\ h'.stale = h.stale /\ h'.prev = h.prev
SameRoles == h'.retired = h.retired /\ h'.adopted = h.adopted /\ h'.live = h.live
SameMarks ==
    /\ h'.snapshot = h.snapshot /\ h'.restored = h.restored
    /\ h'.preserved = h.preserved /\ h'.completed = h.completed /\ h'.result = h.result
OutOnly == h'.pc = h.pc /\ h'.todo = h.todo /\ SamePlan /\ SameRoles /\ SameMarks

LEMMA Reported ==
    ASSUME TypeOK, NEW s \in Slots, NEW o, h' = [h EXCEPT !.out[s] = o]
    PROVE  OutOnly /\ h'.out = [h.out EXCEPT ![s] = o]
<1>1. h \in Handler
  BY DEF TypeOK
<1> QED
  BY <1>1 DEF OutOnly, SamePlan, SameRoles, SameMarks, Handler

(* A step of stopping changes the container it is about, and no other.      *)
Stopping(s) ==
    /\ Halting /\ s \in h.todo /\ h.out[s] \in {"none", "sent"}
    /\ OutOnly /\ UNCHANGED <<disk, control>>
    /\ h'.out[s] # "none"
    /\ \A t \in Slots : t # s => box'[t] = box[t] /\ h'.out[t] = h.out[t]
    /\ box'[s].run = "running" => box[s].run = "running"
    /\ box'[s].run = "absent" => box[s].run = "absent"

LEMMA Halts ==
    ASSUME TypeOK, NEW s \in Slots, Signal(s) \/ Confirm(s) \/ HaltThrows(s)
    PROVE  Stopping(s)
<1> DEFINE reports == {"sent", "already_stopped", "exited", "hung", "unconfirmed"}
<1>1. PICK o \in reports : h' = [h EXCEPT !.out[s] = o]
  <2>1. CASE Signal(s)
    BY <2>1 DEF Signal
  <2>2. CASE Confirm(s)
    BY <2>2 DEF Confirm
  <2>3. CASE HaltThrows(s)
    BY <2>3 DEF HaltThrows
  <2> QED
    BY <2>1, <2>2, <2>3
<1>2. OutOnly /\ h'.out = [h.out EXCEPT ![s] = o]
  BY <1>1, Reported
<1>3. h'.out[s] = o /\ \A t \in Slots : t # s => h'.out[t] = h.out[t]
  BY <1>2, Fields
<1>4. /\ Halting /\ s \in h.todo /\ h.out[s] \in {"none", "sent"}
      /\ UNCHANGED <<disk, control>>
  BY DEF Signal, Confirm, HaltThrows
<1>5. /\ \A t \in Slots : t # s => box'[t] = box[t]
      /\ box'[s].run = "running" => box[s].run = "running"
      /\ box'[s].run = "absent" => box[s].run = "absent"
  BY DEF Signal, Confirm, HaltThrows, TypeOK, Container
<1> QED
  BY <1>2, <1>3, <1>4, <1>5 DEF Stopping

LEMMA Finished ==
    ASSUME TypeOK, NEW r, h' = Finish(r)
    PROVE  /\ h'.pc = "report" /\ h'.result = r /\ SamePlan /\ SameRoles
           /\ h'.todo = h.todo /\ h'.out = h.out /\ h'.snapshot = h.snapshot
           /\ h'.restored = h.restored /\ h'.preserved = h.preserved /\ h'.completed = h.completed
<1>1. h \in Handler
  BY DEF TypeOK
<1> QED
  BY <1>1 DEF SamePlan, SameRoles, SameMarks, Finish, Discard, Handler

LEMMA Goes ==
    ASSUME TypeOK, NEW p, h' = [h EXCEPT !.pc = p]
    PROVE  h'.pc = p /\ h'.todo = h.todo /\ h'.out = h.out /\ SamePlan /\ SameRoles /\ SameMarks
<1>1. h \in Handler
  BY DEF TypeOK
<1> QED
  BY <1>1 DEF SamePlan, SameRoles, SameMarks, Finish, Discard, Handler

LEMMA GoesFor ==
    ASSUME TypeOK, NEW p, NEW x, h' = [h EXCEPT !.pc = p, !.todo = x]
    PROVE  h'.pc = p /\ h'.todo = x /\ h'.out = h.out /\ SamePlan /\ SameRoles /\ SameMarks
<1>1. h \in Handler
  BY DEF TypeOK
<1> QED
  BY <1>1 DEF SamePlan, SameRoles, SameMarks, Finish, Discard, Handler

LEMMA Takes ==
    ASSUME TypeOK, NEW x, h' = [h EXCEPT !.todo = x]
    PROVE  h'.pc = h.pc /\ h'.todo = x /\ h'.out = h.out /\ SamePlan /\ SameRoles /\ SameMarks
<1>1. h \in Handler
  BY DEF TypeOK
<1> QED
  BY <1>1 DEF SamePlan, SameRoles, SameMarks, Finish, Discard, Handler

LEMMA Discards ==
    ASSUME TypeOK, NEW x, h' = Discard(x)
    PROVE  /\ h'.pc = "discard" /\ h'.todo = h.cands \ x /\ h'.adopted = x
           /\ \A s \in Slots : h'.out[s] = IF s \in h.cands \ x THEN "none" ELSE h.out[s]
           /\ SamePlan /\ h'.retired = h.retired /\ h'.live = h.live /\ SameMarks
<1>1. h \in Handler
  BY DEF TypeOK
<1> QED
  BY <1>1 DEF SamePlan, SameRoles, SameMarks, Finish, Discard, Handler

LEMMA Ends ==
    ASSUME TypeOK, NEW b, h' = [Finish("aborted") EXCEPT !.preserved = b]
    PROVE  /\ h'.pc = "report" /\ h'.result = "aborted" /\ h'.preserved = b /\ SamePlan /\ SameRoles
           /\ h'.todo = h.todo /\ h'.out = h.out /\ h'.snapshot = h.snapshot
           /\ h'.restored = h.restored /\ h'.completed = h.completed
<1>1. h \in Handler
  BY DEF TypeOK
<1> QED
  BY <1>1 DEF SamePlan, SameRoles, SameMarks, Finish, Discard, Handler

LEMMA Snapped ==
    ASSUME TypeOK, h' = [h EXCEPT !.pc = "slots", !.todo = h.cands, !.snapshot = TRUE]
    PROVE  /\ h'.pc = "slots" /\ h'.todo = h.cands /\ h'.out = h.out /\ SamePlan /\ SameRoles
           /\ h'.snapshot /\ h'.restored = h.restored
           /\ h'.preserved = h.preserved /\ h'.completed = h.completed /\ h'.result = h.result
<1>1. h \in Handler
  BY DEF TypeOK
<1> QED
  BY <1>1 DEF SamePlan, SameRoles, SameMarks, Finish, Discard, Handler

LEMMA Restores ==
    ASSUME TypeOK, h' = [h EXCEPT !.pc = "restore", !.restored = TRUE]
    PROVE  /\ h'.pc = "restore" /\ h'.todo = h.todo /\ h'.out = h.out /\ SamePlan /\ SameRoles
           /\ h'.restored /\ h'.snapshot = h.snapshot
           /\ h'.preserved = h.preserved /\ h'.completed = h.completed /\ h'.result = h.result
<1>1. h \in Handler
  BY DEF TypeOK
<1> QED
  BY <1>1 DEF SamePlan, SameRoles, SameMarks, Finish, Discard, Handler

LEMMA Reopens ==
    ASSUME TypeOK, NEW x, NEW y, NEW b,
           h' = [h EXCEPT !.pc = "reopen", !.retired = x, !.todo = y, !.completed = b]
    PROVE  /\ h'.pc = "reopen" /\ h'.retired = x /\ h'.todo = y /\ h'.completed = b
           /\ h'.out = h.out /\ SamePlan /\ h'.adopted = h.adopted /\ h'.live = h.live
           /\ h'.snapshot = h.snapshot /\ h'.restored = h.restored
           /\ h'.preserved = h.preserved /\ h'.result = h.result
<1>1. h \in Handler
  BY DEF TypeOK
<1> QED
  BY <1>1 DEF SamePlan, SameRoles, SameMarks, Finish, Discard, Handler

LEMMA Judges ==
    ASSUME TypeOK, NEW b, NEW c,
           h' = [h EXCEPT !.pc = "settle", !.preserved = b, !.completed = c]
    PROVE  /\ h'.pc = "settle" /\ h'.preserved = b /\ h'.completed = c
           /\ h'.todo = h.todo /\ h'.out = h.out /\ SamePlan /\ SameRoles
           /\ h'.snapshot = h.snapshot /\ h'.restored = h.restored /\ h'.result = h.result
<1>1. h \in Handler
  BY DEF TypeOK
<1> QED
  BY <1>1 DEF SamePlan, SameRoles, SameMarks, Finish, Discard, Handler

LEMMA Reverts ==
    ASSUME TypeOK, h' = [h EXCEPT !.pc = "judge", !.completed = FALSE]
    PROVE  /\ h'.pc = "judge" /\ ~h'.completed /\ h'.todo = h.todo /\ h'.out = h.out
           /\ SamePlan /\ SameRoles /\ h'.snapshot = h.snapshot
           /\ h'.restored = h.restored /\ h'.preserved = h.preserved /\ h'.result = h.result
<1>1. h \in Handler
  BY DEF TypeOK
<1> QED
  BY <1>1 DEF SamePlan, SameRoles, SameMarks, Finish, Discard, Handler

LEMMA Revives ==
    ASSUME TypeOK, NEW x, NEW y, h' = [h EXCEPT !.todo = x, !.live = y]
    PROVE  /\ h'.pc = h.pc /\ h'.todo = x /\ h'.live = y /\ h'.out = h.out
           /\ SamePlan /\ h'.retired = h.retired /\ h'.adopted = h.adopted /\ SameMarks
<1>1. h \in Handler
  BY DEF TypeOK
<1> QED
  BY <1>1 DEF SamePlan, SameRoles, SameMarks, Finish, Discard, Handler

LEMMA Prepares ==
    ASSUME TypeOK, NEW x, NEW y, h' = [h EXCEPT !.todo = x, !.adopted = y]
    PROVE  /\ h'.pc = h.pc /\ h'.todo = x /\ h'.adopted = y /\ h'.out = h.out
           /\ SamePlan /\ h'.retired = h.retired /\ h'.live = h.live /\ SameMarks
<1>1. h \in Handler
  BY DEF TypeOK
<1> QED
  BY <1>1 DEF SamePlan, SameRoles, SameMarks, Finish, Discard, Handler

(* What each step does, said field by field.                                *)
LEMMA Removes ==
    ASSUME NEW gone, Remove(gone), NEW s \in Slots
    PROVE  box'[s] = IF s \in gone THEN Absent ELSE box[s]
BY DEF Remove

LEMMA EndResets ==
    ASSUME TypeOK, EndReset
    PROVE  /\ h.pc = "reset" /\ UNCHANGED <<disk, control>>
           /\ (h'.pc = "restore" /\ h'.todo = h.todo) \/ (h'.pc = "halt" /\ h'.todo = h.prev)
           /\ h'.out = h.out /\ SamePlan /\ SameRoles /\ SameMarks
           /\ \A s \in Slots : box'[s] = box[s] \/ (s \in h.stale /\ box'[s] = Absent)
<1>1. h.pc = "reset" /\ UNCHANGED <<disk, control>>
  BY DEF EndReset, At
<1>2. h' = [h EXCEPT !.pc = "restore"] \/ h' = [h EXCEPT !.pc = "halt", !.todo = h.prev]
  BY DEF EndReset, MayFail, Abort
<1>3. \A s \in Slots : box'[s] = box[s] \/ (s \in h.stale /\ box'[s] = Absent)
  <2>1. box' = box \/ \E gone \in SUBSET h.stale : Remove(gone)
    BY DEF EndReset, MayFail
  <2>2. CASE box' = box
    BY <2>2
  <2>3. CASE \E gone \in SUBSET h.stale : Remove(gone)
    BY <2>3, Removes
  <2> QED
    BY <2>1, <2>2, <2>3
<1>4. CASE h' = [h EXCEPT !.pc = "restore"]
  BY <1>1, <1>3, <1>4, Goes
<1>5. CASE h' = [h EXCEPT !.pc = "halt", !.todo = h.prev]
  BY <1>1, <1>3, <1>5, GoesFor
<1> QED
  BY <1>2, <1>4, <1>5

LEMMA EndHalts ==
    ASSUME TypeOK, EndHalt
    PROVE  /\ h.pc = "halt" /\ Halted /\ UNCHANGED <<box, disk, control>>
           /\ h'.out = h.out /\ SamePlan /\ SameRoles /\ SameMarks
           /\ \/ h'.pc = "restore" /\ h'.todo = h.todo
              \/ /\ \A s \in h.prev : ~MayStillRun(s) /\ s \notin Running
                 /\ \/ HasVolume /\ h'.pc = "snapshot" /\ h'.todo = h.todo
                    \/ ~HasVolume /\ h'.pc = "slots" /\ h'.todo = h.cands
<1>1. h.pc = "halt" /\ Halted /\ UNCHANGED <<box, disk, control>>
  BY DEF EndHalt, At
<1>2. CASE \E s \in h.prev : MayStillRun(s) \/ s \in Running
  BY <1>1, <1>2, Goes DEF EndHalt, Abort
<1>3. CASE ~(\E s \in h.prev : MayStillRun(s) \/ s \in Running)
  <2>1. CASE HasVolume
    BY <1>1, <1>3, <2>1, Goes DEF EndHalt
  <2>2. CASE ~HasVolume
    BY <1>1, <1>3, <2>2, GoesFor DEF EndHalt
  <2> QED
    BY <2>1, <2>2
<1> QED
  BY <1>2, <1>3

LEMMA TakesSnapshot ==
    ASSUME TypeOK, TakeSnapshot
    PROVE  /\ h.pc = "snapshot" /\ UNCHANGED <<box, volume, kept, control>>
           /\ h'.out = h.out /\ SamePlan /\ SameRoles
           /\ h'.restored = h.restored /\ h'.preserved = h.preserved
           /\ h'.completed = h.completed /\ h'.result = h.result
           /\ \/ /\ h'.pc = "restore" /\ h'.todo = h.todo /\ snap' = snap
              \/ /\ h'.pc = "slots" /\ h'.todo = h.cands
                 /\ \/ snap' = snap
                    \/ /\ snap[work.version] = "none"
                       /\ \E x \in {"fresh", "dirty"} : snap' = [snap EXCEPT ![work.version] = x]
<1>1. h.pc = "snapshot" /\ UNCHANGED <<box, volume, kept, control>>
  BY DEF TakeSnapshot, At
<1>2. CASE h' = [h EXCEPT !.pc = "restore"] /\ snap' = snap
  BY <1>1, <1>2, Goes DEF SameMarks
<1>3. CASE /\ h' = [h EXCEPT !.pc = "slots", !.todo = h.cands, !.snapshot = TRUE]
           /\ \/ snap' = snap
              \/ /\ snap[work.version] = "none"
                 /\ \E x \in {"fresh", "dirty"} : snap' = [snap EXCEPT ![work.version] = x]
  BY <1>1, <1>3, Snapped
<1> QED
  BY <1>2, <1>3 DEF TakeSnapshot, MayFail, Abort

LEMMA EndDiscards ==
    ASSUME TypeOK, EndDiscard
    PROVE  /\ h.pc = "discard" /\ Halted /\ UNCHANGED <<disk, control>>
           /\ h'.todo = h.todo /\ h'.out = h.out /\ SamePlan /\ SameRoles
           /\ h'.snapshot = h.snapshot /\ h'.restored = h.restored /\ h'.completed = h.completed
           /\ \A s \in Slots : box'[s] = box[s] \/ (s \in h.todo /\ box'[s] = Absent)
           /\ \/ /\ h.order = "stop_first" /\ h'.pc \in {"unwind", "settle"}
                 /\ h'.preserved = h.preserved /\ h'.result = h.result
              \/ /\ h.order # "stop_first" /\ h'.pc = "report" /\ h'.result = "aborted"
                 /\ h'.preserved => (h.adopted \cup h.retired) \cap Running # {}
<1>1. h.pc = "discard" /\ Halted /\ UNCHANGED <<disk, control>>
  BY DEF EndDiscard, At
<1>2. PICK left : Discarded(left) /\ Remove(h.todo \ left)
  BY DEF EndDiscard
<1>3. \A s \in Slots : box'[s] = box[s] \/ (s \in h.todo /\ box'[s] = Absent)
  BY <1>2, Removes
<1>4. CASE h.order = "stop_first"
  <2>1. PICK p \in {"unwind", "settle"} : h' = [h EXCEPT !.pc = p]
    BY <1>2, <1>4 DEF Discarded
  <2> QED
    BY <1>1, <1>3, <1>4, <2>1, Goes DEF SameMarks
<1>5. CASE h.order # "stop_first"
  <2>1. PICK runs \in AnyReplicaRuns(h.adopted \cup h.retired) :
          h' = [Finish("aborted") EXCEPT !.preserved = runs]
    BY <1>2, <1>5 DEF Discarded
  <2>2. runs => (h.adopted \cup h.retired) \cap Running # {}
    BY DEF AnyReplicaRuns
  <2> QED
    BY <1>1, <1>3, <1>5, <2>1, <2>2, Ends
<1> QED
  BY <1>4, <1>5

LEMMA RestoresVolume ==
    ASSUME TypeOK, RestoreVolume
    PROVE  /\ h.pc = "unwind" /\ UNCHANGED <<box, snap, kept, control>>
           /\ h'.todo = h.todo /\ h'.out = h.out /\ SamePlan /\ SameRoles
           /\ h'.snapshot = h.snapshot /\ h'.preserved = h.preserved
           /\ h'.completed = h.completed /\ h'.result = h.result
           /\ \/ h'.pc = "restore" /\ h'.restored /\ ~h.snapshot /\ volume' = volume
              \/ /\ h'.pc = "restore" /\ h'.restored
                 /\ volume' = IF snap[work.version] # "dirty" THEN "clean"
                              ELSE IF volume = "touched" THEN "touched" ELSE "exposed"
              \/ h'.pc = "settle" /\ h'.restored = h.restored /\ volume' = volume
<1>1. h.pc = "unwind" /\ UNCHANGED <<box, snap, kept, control>>
  BY DEF RestoreVolume, At
<1>2. CASE h' = [h EXCEPT !.pc = "settle"] /\ volume' = volume
  BY <1>1, <1>2, Goes DEF SameMarks
<1>3. CASE /\ h' = [h EXCEPT !.pc = "restore", !.restored = TRUE]
           /\ \/ ~h.snapshot /\ volume' = volume
              \/ volume' = IF snap[work.version] # "dirty" THEN "clean"
                           ELSE IF volume = "touched" THEN "touched" ELSE "exposed"
  BY <1>1, <1>3, Restores
<1> QED
  BY <1>2, <1>3 DEF RestoreVolume, MayFail

Seen == {s \in h.prev : ~LeftAlone(s)}
Tried == {s \in Seen : h.out[s] # "none"}

LEMMA RestoreLooks ==
    ASSUME TypeOK, RestoreLook
    PROVE  /\ h.pc = "restore" /\ UNCHANGED <<disk, control>>
           /\ h'.out = h.out /\ SamePlan /\ h'.adopted = h.adopted /\ h'.live = h.live
           /\ h'.snapshot = h.snapshot /\ h'.restored = h.restored
           /\ h'.preserved = h.preserved /\ h'.result = h.result
           /\ \/ /\ h'.pc = "reopen" /\ h'.retired = Seen \cap Running
                 /\ h'.todo = (Tried \cap Present) \ Running
                 /\ h'.completed = (Tried \subseteq Present)
                 /\ box' = BackOn(Tried)
              \/ /\ h'.pc = "judge" /\ h'.todo = {} /\ h'.retired = h.retired
                 /\ h'.completed = h.completed /\ box' = box
<1>1. h.pc = "restore" /\ UNCHANGED <<disk, control>>
  BY DEF RestoreLook, At
<1>2. CASE h' = [h EXCEPT !.pc = "judge", !.todo = {}] /\ box' = box
  BY <1>1, <1>2, GoesFor DEF SameMarks, SameRoles
<1>3. CASE /\ box' = BackOn(Tried)
           /\ h' = [h EXCEPT !.pc = "reopen", !.retired = Seen \cap Running,
                             !.todo = (Tried \cap Present) \ Running,
                             !.completed = Tried \subseteq Present]
  <2> DEFINE x == Seen \cap Running
             y == (Tried \cap Present) \ Running
             b == Tried \subseteq Present
  <2>1. h' = [h EXCEPT !.pc = "reopen", !.retired = x, !.todo = y, !.completed = b]
    BY <1>3
  <2>2. /\ h'.pc = "reopen" /\ h'.retired = x /\ h'.todo = y /\ h'.completed = b
        /\ h'.out = h.out /\ SamePlan /\ h'.adopted = h.adopted /\ h'.live = h.live
        /\ h'.snapshot = h.snapshot /\ h'.restored = h.restored
        /\ h'.preserved = h.preserved /\ h'.result = h.result
    <3> HIDE DEF x, y, b
    <3> QED
      BY <2>1, Reopens
  <2> QED
    BY <1>1, <1>3, <2>2
<1> QED
  BY <1>2, <1>3 DEF RestoreLook, MayFail, Seen, Tried

LEMMA RestoreStarts ==
    ASSUME TypeOK, NEW s \in Slots, RestoreStart(s)
    PROVE  /\ h.pc = "reopen" /\ s \in h.todo /\ UNCHANGED <<volume, kept, control>>
           /\ h'.out = h.out /\ SamePlan /\ h'.retired = h.retired /\ h'.adopted = h.adopted
           /\ h'.snapshot = h.snapshot /\ h'.restored = h.restored
           /\ h'.preserved = h.preserved /\ h'.result = h.result
           /\ \/ /\ h'.pc = "reopen" /\ h'.todo = h.todo \ {s}
                 /\ h'.live \subseteq h.live \cup {s} /\ h'.completed = h.completed
                 /\ box' = [box EXCEPT ![s] = Started] /\ snap' = Stale(snap)
              \/ /\ h'.pc = "judge" /\ h'.live = h.live /\ ~h'.completed
                 /\ UNCHANGED <<box, snap>>
<1>1. h.pc = "reopen" /\ s \in h.todo /\ UNCHANGED <<volume, kept, control>>
  BY DEF RestoreStart, At
<1>2. CASE h' = [h EXCEPT !.pc = "judge", !.completed = FALSE] /\ UNCHANGED <<box, snap>>
  BY <1>1, <1>2, Reverts DEF SameRoles
<1>3. CASE /\ box' = [box EXCEPT ![s] = Started] /\ snap' = Stale(snap)
           /\ \E y \in {h.live, h.live \cup {s}} :
                h' = [h EXCEPT !.todo = h.todo \ {s}, !.live = y]
  <2>1. PICK y \in {h.live, h.live \cup {s}} : h' = [h EXCEPT !.todo = h.todo \ {s}, !.live = y]
    BY <1>3
  <2>2. /\ h'.pc = h.pc /\ h'.todo = h.todo \ {s} /\ h'.live = y /\ h'.out = h.out
        /\ SamePlan /\ h'.retired = h.retired /\ h'.adopted = h.adopted /\ SameMarks
    BY <2>1, Revives
  <2> QED
    BY <1>1, <1>3, <2>2 DEF SameMarks
<1> QED
  BY <1>2, <1>3 DEF RestoreStart

LEMMA Judged ==
    ASSUME TypeOK, Judge
    PROVE  /\ h.pc = "judge" \/ (h.pc = "reopen" /\ h.todo = {})
           /\ h'.pc = "settle" /\ UNCHANGED <<box, disk, control>>
           /\ h'.todo = h.todo /\ h'.out = h.out /\ SamePlan /\ SameRoles
           /\ h'.snapshot = h.snapshot /\ h'.restored = h.restored /\ h'.result = h.result
           /\ h'.preserved => h.live # {} \/ h.retired \cap Running # {}
           /\ h'.completed => h.completed /\ h.restored
<1>1. PICK runs \in BOOLEAN :
        /\ h' = [h EXCEPT !.pc = "settle", !.preserved = runs,
                          !.completed = h.completed /\ runs /\ h.restored]
        /\ runs => h.live # {} \/ h.retired \cap Running # {}
  BY DEF Judge, AnyReplicaRuns
<1>2. /\ h'.pc = "settle" /\ h'.preserved = runs
      /\ h'.completed = (h.completed /\ runs /\ h.restored)
      /\ h'.todo = h.todo /\ h'.out = h.out /\ SamePlan /\ SameRoles
      /\ h'.snapshot = h.snapshot /\ h'.restored = h.restored /\ h'.result = h.result
  BY <1>1, Judges
<1>3. h'.completed => h.completed /\ h.restored
  BY <1>2
<1>4. h.pc = "judge" \/ (h.pc = "reopen" /\ h.todo = {})
  BY DEF Judge, At
<1>5. UNCHANGED <<box, disk, control>>
  BY DEF Judge
<1>6. h'.preserved => h.live # {} \/ h.retired \cap Running # {}
  BY <1>1, <1>2
<1> QED
  BY <1>2, <1>3, <1>4, <1>5, <1>6

LEMMA Settles ==
    ASSUME TypeOK, SettleSnapshot
    PROVE  /\ h.pc = "settle" /\ h'.pc = "report" /\ h'.result = "aborted"
           /\ UNCHANGED <<box, volume, control>>
           /\ h'.todo = h.todo /\ h'.out = h.out /\ SamePlan /\ SameRoles
           /\ h'.snapshot = h.snapshot /\ h'.restored = h.restored
           /\ h'.preserved = h.preserved /\ h'.completed = h.completed
           /\ UNCHANGED <<snap, kept>> \/ (h.snapshot /\ DropOrKeep)
<1>1. h' = Finish("aborted")
  BY DEF SettleSnapshot
<1>2. UNCHANGED <<snap, kept>> \/ (h.snapshot /\ DropOrKeep)
  BY DEF SettleSnapshot, MayFail
<1>3. h.pc = "settle" /\ UNCHANGED <<box, volume, control>>
  BY DEF SettleSnapshot, At
<1> QED
  BY <1>1, <1>2, <1>3, Finished

LEMMA Plans ==
    ASSUME TypeOK, Plan
    PROVE  /\ h.pc = "sweep" /\ work.kind = "deploy" /\ Leftovers = {}
           /\ UNCHANGED <<box, disk, control>>
           /\ h'.cands = h.cands /\ h'.out = h.out /\ SameMarks
           /\ \/ /\ h'.pc = "reset" /\ h'.order = "stop_first"
                 /\ h'.stale = Present \cap h.cands /\ h'.todo = Present \cap h.cands
                 /\ h'.prev = Present \ h.cands
                 /\ h'.retired = {} /\ h'.adopted = {} /\ h'.live = {}
              \/ /\ ~StopFirst(Present \ h.cands)
                 /\ h'.pc = "slots" /\ h'.order = "candidate_first"
                 /\ h'.stale = {} /\ h'.todo = h.cands
                 /\ h'.prev = {} /\ h'.retired = Present \ h.cands
                 /\ h'.adopted = h.cands \cap Running \cap work.meta
                 /\ h'.live = {s \in Running \cap work.meta : box[s].auto}
<1> DEFINE others == Present \ h.cands
<1>1. h \in Handler
  BY DEF TypeOK
<1>2. /\ h.pc = "sweep" /\ work.kind = "deploy" /\ Leftovers = {}
      /\ UNCHANGED <<box, disk, control>>
  BY DEF Plan, At
<1>3. CASE StopFirst(others)
  <2>1. h' = [h EXCEPT !.pc = "reset", !.order = "stop_first", !.stale = Present \cap h.cands,
               !.todo = Present \cap h.cands, !.prev = others, !.retired = {},
               !.adopted = {}, !.live = {}]
    BY <1>3 DEF Plan
  <2> QED
    BY <1>1, <1>2, <2>1 DEF SameMarks, Handler
<1>4. CASE ~StopFirst(others)
  <2> DEFINE reps == {s \in Running \cap work.meta : box[s].auto}
             own == h.cands \cap Running \cap work.meta
  <2>1. h' = [h EXCEPT !.pc = "slots", !.order = "candidate_first", !.stale = {},
               !.todo = h.cands, !.prev = {}, !.retired = others,
               !.adopted = own, !.live = reps]
    BY <1>4 DEF Plan
  <2>2. /\ h'.pc = "slots" /\ h'.order = "candidate_first"
        /\ h'.stale = {} /\ h'.todo = h.cands
        /\ h'.prev = {} /\ h'.retired = others /\ h'.adopted = own /\ h'.live = reps
        /\ h'.cands = h.cands /\ h'.out = h.out /\ SameMarks
    <3> HIDE DEF others, reps, own
    <3> QED
      BY <1>1, <2>1 DEF SameMarks, Handler
  <2> QED
    BY <1>2, <1>4, <2>2
<1> QED
  BY <1>3, <1>4

LEMMA Readies ==
    ASSUME TypeOK, Readiness
    PROVE  /\ h.pc = "slots" /\ h.todo = {} /\ UNCHANGED <<box, disk, control>>
           /\ SamePlan /\ SameRoles /\ SameMarks
           /\ \/ h'.pc = "retire" /\ h'.todo = h.retired /\ h'.out = h.out
              \/ /\ h'.pc = "discard" /\ h'.todo = h.cands \ h.adopted
                 /\ \A s \in Slots : h'.out[s] = IF s \in h.cands \ h.adopted THEN "none" ELSE h.out[s]
<1>1. h.pc = "slots" /\ h.todo = {} /\ UNCHANGED <<box, disk, control>>
  BY DEF Readiness, At
<1>2. CASE h' = [h EXCEPT !.pc = "retire", !.todo = h.retired]
  BY <1>1, <1>2, GoesFor
<1>3. CASE h' = Discard(h.adopted)
  BY <1>1, <1>3, Discards DEF SameRoles
<1> QED
  BY <1>2, <1>3 DEF Readiness

LEMMA EndRetires ==
    ASSUME TypeOK, EndRetire
    PROVE  /\ h.pc = "retire" /\ h'.pc = "remove" /\ UNCHANGED <<box, disk, control>>
           /\ h'.todo \subseteq h.prev \cup h.retired /\ h'.out = h.out
           /\ SamePlan /\ SameRoles /\ SameMarks
<1> DEFINE x == h.prev \cup {s \in h.retired : ~MayStillRun(s)}
<1>1. h' = [h EXCEPT !.pc = "remove", !.todo = x]
  BY DEF EndRetire
<1>2. x \subseteq h.prev \cup h.retired
  OBVIOUS
<1>3. h'.pc = "remove" /\ h'.todo = x /\ h'.out = h.out /\ SamePlan /\ SameRoles /\ SameMarks
  <2> HIDE DEF x
  <2> QED
    BY <1>1, GoesFor
<1> QED
  BY <1>2, <1>3 DEF EndRetire, At

LEMMA Commits ==
    ASSUME TypeOK, Commit
    PROVE  /\ h.pc = "remove" /\ h'.pc = "report" /\ h'.result = "committed"
           /\ UNCHANGED <<box, kept, control>> /\ volume' = IF HasVolume THEN "clean" ELSE volume
           /\ h'.out = h.out /\ SamePlan /\ SameRoles
           /\ h'.restored = h.restored /\ h'.preserved = h.preserved
           /\ h'.completed = h.completed
<1>1. h' = Finish("committed")
  BY DEF Commit
<1> QED
  BY <1>1, Finished DEF Commit, At

LEMMA RestartPlans ==
    ASSUME TypeOK, RestartPlan
    PROVE  /\ h.pc = "sweep" /\ work.kind = "restart" /\ UNCHANGED <<box, disk, control>>
           /\ h'.out = h.out /\ SamePlan /\ SameRoles
           /\ h'.snapshot = h.snapshot /\ h'.restored = h.restored
           /\ h'.preserved = h.preserved /\ h'.completed = h.completed
           /\ \/ h'.pc = "report" /\ h'.result \in {"committed", "error"}
              \/ /\ h'.pc = "restart" /\ h'.result = h.result /\ h'.todo = Present \cap work.meta
                 /\ work.noOverlap \/ HasVolume => Running \subseteq work.meta
<1>1. h.pc = "sweep" /\ work.kind = "restart" /\ UNCHANGED <<box, disk, control>>
  BY DEF RestartPlan, At
<1>2. CASE \E r \in {"committed", "error"} : h' = Finish(r)
  <2>1. PICK r \in {"committed", "error"} : h' = Finish(r)
    BY <1>2
  <2> QED
    BY <1>1, <2>1, Finished
<1>3. CASE /\ h' = [h EXCEPT !.pc = "restart", !.todo = Present \cap work.meta]
           /\ work.noOverlap \/ HasVolume => Running \subseteq work.meta
  <2>1. /\ h'.pc = "restart" /\ h'.todo = Present \cap work.meta /\ h'.out = h.out
        /\ SamePlan /\ SameRoles /\ SameMarks
    BY <1>3, GoesFor
  <2> QED
    BY <1>1, <1>3, <2>1 DEF SameMarks
<1> QED
  BY <1>2, <1>3 DEF RestartPlan

LEMMA Sweeps ==
    ASSUME TypeOK, NEW s \in Slots, Sweep(s)
    PROVE  /\ h.pc = "sweep" /\ UNCHANGED <<disk, control>>
           /\ \/ h' = h
              \/ /\ h'.pc = "report" /\ h'.result = "error" /\ SamePlan /\ SameRoles
                 /\ h'.out = h.out /\ h'.snapshot = h.snapshot /\ h'.restored = h.restored
                 /\ h'.preserved = h.preserved /\ h'.completed = h.completed
<1>1. h.pc = "sweep" /\ UNCHANGED <<disk, control>>
  BY DEF Sweep, At
<1>2. h' = h \/ h' = Finish("error")
  BY DEF Sweep, MayFail
<1> QED
  BY <1>1, <1>2, Finished

LEMMA StartsCandidate ==
    ASSUME TypeOK, NEW s \in Slots, StartCandidate(s)
    PROVE  /\ h.pc = "slots" /\ s \in h.todo /\ UNCHANGED <<snap, kept, control>>
           /\ box' = [box EXCEPT ![s] = Started] /\ volume' = Touched(volume)
           /\ h'.pc = "slots" /\ h'.todo = h.todo \ {s} /\ h'.out = h.out
           /\ h'.adopted = IF s \in Running THEN h.adopted ELSE h.adopted \ {s}
           /\ SamePlan /\ h'.retired = h.retired /\ h'.live = h.live /\ SameMarks
<1> DEFINE own == IF s \in Running THEN h.adopted ELSE h.adopted \ {s}
<1>1. h' = [h EXCEPT !.todo = h.todo \ {s}, !.adopted = own]
  BY DEF StartCandidate, PrepareSlot
<1> HIDE DEF own
<1>2. /\ h'.pc = h.pc /\ h'.todo = h.todo \ {s} /\ h'.adopted = own /\ h'.out = h.out
      /\ SamePlan /\ h'.retired = h.retired /\ h'.live = h.live /\ SameMarks
  BY <1>1, Prepares
<1> QED
  BY <1>2 DEF StartCandidate, PrepareSlot, At, own

LEMMA SlotThrown ==
    ASSUME TypeOK, NEW s \in Slots, SlotThrows(s)
    PROVE  /\ h.pc = "slots" /\ h'.pc = "discard" /\ s \in h.todo /\ UNCHANGED <<disk, control>>
           /\ h'.todo = h.cands \ h'.adopted
           /\ \A t \in Slots : h'.out[t] = IF t \in h.cands \ h'.adopted THEN "none" ELSE h.out[t]
           /\ SamePlan /\ h'.retired = h.retired /\ h'.live = h.live /\ SameMarks
           /\ \/ box' = box /\ h'.adopted = h.adopted
              \/ /\ s \notin Running /\ h'.adopted = h.adopted \ {s}
                 /\ box'[s].run # "running"
                 /\ \A t \in Slots : t # s => box'[t] = box[t]
<1>1. h.pc = "slots" /\ s \in h.todo /\ UNCHANGED <<disk, control>>
  BY DEF SlotThrows, At
<1>2. CASE h' = Discard(h.adopted) /\ box' = box
  BY <1>1, <1>2, Discards
<1>3. CASE /\ s \notin Running /\ h' = Discard(h.adopted \ {s})
           /\ \E left \in {Absent, [run |-> "stopped", auto |-> TRUE]} :
                box' = [box EXCEPT ![s] = left]
  <2>1. box'[s].run # "running" /\ \A t \in Slots : t # s => box'[t] = box[t]
    BY <1>3 DEF TypeOK, Absent
  <2> QED
    BY <1>1, <1>3, <2>1, Discards
<1> QED
  BY <1>2, <1>3 DEF SlotThrows

LEMMA RemovesOld ==
    ASSUME TypeOK, NEW s \in Slots, RemoveOld(s)
    PROVE  /\ h.pc = "remove" /\ h'.pc = "remove" /\ s \in h.todo /\ UNCHANGED <<disk, control>>
           /\ h'.todo = h.todo \ {s} /\ h'.out = h.out /\ SamePlan /\ SameRoles /\ SameMarks
           /\ \A t \in Slots : t # s => box'[t] = box[t]
<1>1. h' = [h EXCEPT !.todo = h.todo \ {s}]
  BY DEF RemoveOld
<1>2. \A t \in Slots : t # s => box'[t] = box[t]
  BY DEF RemoveOld, MayFail, Remove
<1> QED
  BY <1>1, <1>2, Takes DEF RemoveOld, At

LEMMA RestartsOne ==
    ASSUME TypeOK, NEW s \in Slots, RestartOne(s)
    PROVE  /\ h.pc = "restart" /\ s \in h.todo /\ UNCHANGED <<volume, kept, control>>
           /\ h'.out = h.out /\ SamePlan /\ SameRoles
           /\ h'.snapshot = h.snapshot /\ h'.restored = h.restored
           /\ h'.preserved = h.preserved /\ h'.completed = h.completed
           /\ \/ h'.pc = "report" /\ h'.result \in {"committed", "error"}
              \/ h'.pc = "restart" /\ h'.result = h.result /\ h'.todo = h.todo \ {s}
           /\ \/ box' = [box EXCEPT ![s] = Started] /\ snap' = Stale(snap)
              \/ UNCHANGED <<box, snap>>
<1>1. h.pc = "restart" /\ s \in h.todo /\ UNCHANGED <<volume, kept, control>>
  BY DEF RestartOne, At
<1>2. \/ box' = [box EXCEPT ![s] = Started] /\ snap' = Stale(snap)
      \/ UNCHANGED <<box, snap>>
  BY DEF RestartOne, MayFail
<1>3. CASE \E r \in {"committed", "error"} : h' = Finish(r)
  <2>1. PICK r \in {"committed", "error"} : h' = Finish(r)
    BY <1>3
  <2> QED
    BY <1>1, <1>2, <2>1, Finished
<1>4. CASE h' = [h EXCEPT !.todo = h.todo \ {s}]
  BY <1>1, <1>2, <1>4, Takes DEF SameMarks
<1> QED
  BY <1>3, <1>4 DEF RestartOne, MayFail

LEMMA CourseStep == TypeOK /\ Course /\ Parts /\ [Next]_vars => Course'
<1> SUFFICES ASSUME TypeOK, Course, Parts, [Next]_vars PROVE Course'
  OBVIOUS
<1> USE DEF disk, control, At, StopFirstPcs, DeployPcs
<1>h. h \in Handler
  BY DEF TypeOK
<1>1. CASE IssueDeploy
  BY <1>h, <1>1 DEF IssueDeploy, Course, Handler
<1>2. CASE IssueRestart
  BY <1>h, <1>2 DEF IssueRestart, Course, Handler
<1>3. CASE Lease
  BY <1>h, <1>3 DEF Lease, Course, Handler
<1>4. CASE GiveUp
  BY <1>h, <1>4, AtRest DEF GiveUp, Course
<1>5. CASE Report
  BY <1>5, AtRest DEF Report, Course
<1>6. CASE Crash
  BY <1>6, AtRest DEF Crash, Course
<1>7. CASE EndReset
  BY <1>7, EndResets DEF SamePlan, SameMarks, Course
<1>8. CASE EndHalt
  BY <1>8, EndHalts DEF SamePlan, SameMarks, Course
<1>9. CASE TakeSnapshot
  BY <1>9, TakesSnapshot DEF SamePlan, Course
<1>10. CASE EndDiscard
  BY <1>10, EndDiscards DEF SamePlan, Course
<1>11. CASE RestoreVolume
  BY <1>11, RestoresVolume DEF SamePlan, Course
<1>12. CASE RestoreLook
  BY <1>12, RestoreLooks DEF SamePlan, Course
<1>13. CASE Judge
  BY <1>13, Judged DEF SamePlan, Course
<1>14. CASE SettleSnapshot
  BY <1>14, Settles DEF SamePlan, Course
<1>15. CASE Plan
  BY <1>15, Plans DEF SamePlan, SameMarks, Course
<1>16. CASE Readiness
  BY <1>16, Readies DEF SamePlan, SameMarks, Course
<1>17. CASE EndRetire
  BY <1>17, EndRetires DEF SamePlan, SameMarks, Course
<1>18. CASE Commit
  BY <1>18, Commits DEF SamePlan, Course
<1>19. CASE RestartPlan
  BY <1>19, RestartPlans DEF SamePlan, Course
<1>20. ASSUME NEW s \in Slots, Exits(s) PROVE Course'
  BY <1>h, <1>20 DEF Exits, Course, Handler
<1>21. ASSUME NEW s \in Slots, Sweep(s) PROVE Course'
  BY <1>21, Sweeps DEF SamePlan, Course
<1>22. ASSUME NEW s \in Slots, Signal(s) PROVE Course'
  <2>1. h'.pc # "idle" /\ h'.pc # "sweep"
    BY <1>22, Halts DEF Stopping, Halting, OutOnly
  <2> QED
    BY <1>22, <2>1, Halts DEF Stopping, OutOnly, SamePlan, SameMarks, Course
<1>23. ASSUME NEW s \in Slots, Confirm(s) PROVE Course'
  <2>1. h'.pc # "idle" /\ h'.pc # "sweep"
    BY <1>23, Halts DEF Stopping, Halting, OutOnly
  <2> QED
    BY <1>23, <2>1, Halts DEF Stopping, OutOnly, SamePlan, SameMarks, Course
<1>24. ASSUME NEW s \in Slots, HaltThrows(s) PROVE Course'
  <2>1. h'.pc # "idle" /\ h'.pc # "sweep"
    BY <1>24, Halts DEF Stopping, Halting, OutOnly
  <2> QED
    BY <1>24, <2>1, Halts DEF Stopping, OutOnly, SamePlan, SameMarks, Course
<1>25. ASSUME NEW s \in Slots, StartCandidate(s) PROVE Course'
  BY <1>25, StartsCandidate DEF SamePlan, SameMarks, Course
<1>26. ASSUME NEW s \in Slots, SlotThrows(s) PROVE Course'
  BY <1>26, SlotThrown DEF SamePlan, SameMarks, Course
<1>27. ASSUME NEW s \in Slots, RestoreStart(s) PROVE Course'
  BY <1>27, RestoreStarts DEF SamePlan, Course
<1>28. ASSUME NEW s \in Slots, RemoveOld(s) PROVE Course'
  BY <1>28, RemovesOld DEF SamePlan, SameMarks, Course
<1>29. ASSUME NEW s \in Slots, RestartOne(s) PROVE Course'
  BY <1>29, RestartsOne DEF SamePlan, Course
<1>30. CASE UNCHANGED vars
  BY <1>30 DEF vars, Course
<1> QED
  BY <1>1, <1>2, <1>3, <1>4, <1>5, <1>6, <1>7, <1>8, <1>9, <1>10, <1>11, <1>12, <1>13, <1>14, <1>15, <1>16, <1>17, <1>18, <1>19, <1>20, <1>21, <1>22, <1>23, <1>24, <1>25, <1>26, <1>27, <1>28, <1>29, <1>30 DEF Next, StopFirstStep, FailureStep, RolloutStep

LEMMA PartsStep == Shape /\ [Next]_vars => Parts'
<1> SUFFICES ASSUME Shape, [Next]_vars PROVE Parts'
  OBVIOUS
<1> USE DEF disk, control, StopFirstPcs, DeployPcs
<1>t. TypeOK
  BY DEF Shape
<1>i. h.pc = "idle" => h = Idle
  BY DEF Shape, Course
<1>r. h.pc = "sweep" => h.prev = {} /\ h.retired = {}
  BY AtRest DEF Shape, Course, Idle
<1>1. CASE IssueDeploy
  BY <1>t, <1>i, <1>1, AtRest DEF IssueDeploy, At, Parts, Course, Shape
<1>2. CASE IssueRestart
  BY <1>t, <1>i, <1>2, AtRest DEF IssueRestart, At, Parts, Course, Shape
<1>3. CASE Lease
  BY <1>t, <1>3, AtRest, Slotted DEF Lease, Parts, Idle, TypeOK, Work
<1>4. CASE GiveUp
  BY <1>t, <1>i, <1>4, AtRest DEF GiveUp, At, Parts, Shape
<1>5. CASE Report
  BY <1>t, <1>i, <1>5, AtRest DEF Report, At, Parts, Course, Shape
<1>6. CASE Crash
  BY <1>t, <1>i, <1>6, AtRest DEF Crash, At, Parts, Course, Shape
<1>7. CASE EndReset
  BY <1>t, <1>7, EndResets DEF SamePlan, SameRoles, SameMarks, Parts, Course, Shape
<1>8. CASE EndHalt
  BY <1>t, <1>8, EndHalts DEF SamePlan, SameRoles, SameMarks, Parts, Course, Shape
<1>9. CASE TakeSnapshot
  BY <1>t, <1>9, TakesSnapshot DEF SamePlan, SameRoles, SameMarks, Parts, Course, Shape
<1>10. CASE EndDiscard
  BY <1>t, <1>10, EndDiscards DEF SamePlan, SameRoles, SameMarks, Parts, Course, Shape
<1>11. CASE RestoreVolume
  BY <1>t, <1>11, RestoresVolume DEF SamePlan, SameRoles, SameMarks, Parts, Course, Shape
<1>12. CASE RestoreLook
  BY <1>t, <1>12, RestoreLooks DEF Seen, Tried, SamePlan, SameRoles, SameMarks, Parts, Course, Shape
<1>13. CASE Judge
  BY <1>t, <1>13, Judged DEF SamePlan, SameRoles, SameMarks, Parts, Course, Shape
<1>14. CASE SettleSnapshot
  BY <1>t, <1>14, Settles DEF SamePlan, SameRoles, SameMarks, Parts, Course, Shape
<1>15. CASE Plan
  BY <1>t, <1>15, Plans DEF SamePlan, SameRoles, SameMarks, Parts, Course, Shape
<1>16. CASE Readiness
  BY <1>t, <1>16, Readies DEF SamePlan, SameRoles, SameMarks, Parts, Course, Shape
<1>17. CASE EndRetire
  BY <1>t, <1>17, EndRetires DEF SamePlan, SameRoles, SameMarks, Parts, Course, Shape
<1>18. CASE Commit
  BY <1>t, <1>18, Commits DEF SamePlan, SameRoles, SameMarks, Parts, Course, Shape
<1>19. CASE RestartPlan
  BY <1>t, <1>19, RestartPlans DEF SamePlan, SameRoles, SameMarks, Parts, Course, Shape
<1>20. ASSUME NEW s \in Slots, Exits(s) PROVE Parts'
  BY <1>t, <1>i, <1>20, AtRest DEF Exits, At, Parts, Course, Shape
<1>21. ASSUME NEW s \in Slots, Sweep(s) PROVE Parts'
  BY <1>t, <1>21, Sweeps DEF SamePlan, SameRoles, SameMarks, Parts, Course, Shape
<1>22. ASSUME NEW s \in Slots, Signal(s) PROVE Parts'
  BY <1>t, <1>22, Halts DEF Stopping, Halting, OutOnly, SamePlan, SameRoles, SameMarks, Parts, Course, Shape
<1>23. ASSUME NEW s \in Slots, Confirm(s) PROVE Parts'
  BY <1>t, <1>23, Halts DEF Stopping, Halting, OutOnly, SamePlan, SameRoles, SameMarks, Parts, Course, Shape
<1>24. ASSUME NEW s \in Slots, HaltThrows(s) PROVE Parts'
  BY <1>t, <1>24, Halts DEF Stopping, Halting, OutOnly, SamePlan, SameRoles, SameMarks, Parts, Course, Shape
<1>25. ASSUME NEW s \in Slots, StartCandidate(s) PROVE Parts'
  <2>1. /\ h.pc = "slots" /\ h'.pc = "slots" /\ h'.todo = h.todo \ {s} /\ work' = work
        /\ h'.cands = h.cands /\ h'.prev = h.prev /\ h'.retired = h.retired
    BY <1>t, <1>25, StartsCandidate DEF SamePlan
  <2> QED
    BY <2>1 DEF Parts, Shape
<1>26. ASSUME NEW s \in Slots, SlotThrows(s) PROVE Parts'
  BY <1>t, <1>26, SlotThrown DEF SamePlan, SameRoles, SameMarks, Parts, Course, Shape
<1>27. ASSUME NEW s \in Slots, RestoreStart(s) PROVE Parts'
  BY <1>t, <1>27, RestoreStarts DEF SamePlan, SameRoles, SameMarks, Parts, Course, Shape
<1>28. ASSUME NEW s \in Slots, RemoveOld(s) PROVE Parts'
  BY <1>t, <1>28, RemovesOld DEF SamePlan, SameRoles, SameMarks, Parts, Course, Shape
<1>29. ASSUME NEW s \in Slots, RestartOne(s) PROVE Parts'
  BY <1>t, <1>29, RestartsOne DEF SamePlan, SameRoles, SameMarks, Parts, Course, Shape
<1>30. CASE UNCHANGED vars
  BY <1>30 DEF vars, Parts, Course, Shape
<1> QED
  BY <1>1, <1>2, <1>3, <1>4, <1>5, <1>6, <1>7, <1>8, <1>9, <1>10, <1>11, <1>12, <1>13,
     <1>14, <1>15, <1>16, <1>17, <1>18, <1>19, <1>20, <1>21, <1>22, <1>23, <1>24,
     <1>25, <1>26, <1>27, <1>28, <1>29, <1>30
     DEF Next, StopFirstStep, FailureStep, RolloutStep

LEMMA Leased ==
    ASSUME Lease
    PROVE  /\ h.pc = "idle" /\ work.kind # "none" /\ UNCHANGED <<box, disk, control>>
           /\ h'.pc = "sweep" /\ h'.order = "none" /\ h'.result = "none"
           /\ h'.prev = {} /\ h'.retired = {} /\ h'.adopted = {} /\ h'.live = {} /\ h'.todo = {}
           /\ h'.out = NoOutcomes /\ ~h'.snapshot /\ ~h'.restored /\ ~h'.preserved /\ ~h'.completed
BY DEF Lease, At, Idle

LEMMA ShapeStep == Shape /\ [Next]_vars => Shape'
BY TypeStep, CourseStep, PartsStep DEF Shape

----------------------------------------------------------------------------
(* What serves: replicas that are ready, and replicas that were live.        *)

(* A replica that was prepared runs and comes back after a reboot, until the *)
(* rollout commits.                                                          *)
Ready ==
    /\ h.pc = "slots" => \A s \in h.cands \ h.todo : box[s] = Started
    /\ h.pc \in {"retire", "remove"} => \A s \in h.cands : box[s] = Started
    /\ (h.result = "committed" /\ work.kind = "deploy") => \A s \in h.cands : box[s] = Started

(* A live replica in a candidate's slot is never the attempt's to discard.  *)
Spared ==
    (h.order = "candidate_first" /\ h.pc \in {"slots", "discard"})
        => h.live \cap h.cands \subseteq h.adopted

LiveKept == Spared /\ FailureLeavesLive

LEMMA StartedRuns ==
    ASSUME TypeOK, NEW s \in Slots, box[s] = Started
    PROVE  box[s].run = "running" /\ box[s].auto /\ s \in Running /\ s \in Present
BY DEF Started, Running, Present

(* Only a container that no policy restarts ends by itself.                  *)
LEMMA Exited ==
    ASSUME TypeOK, NEW s \in Slots, Exits(s)
    PROVE  /\ UNCHANGED <<disk, control, h>> /\ box[s] # Started
           /\ s \in Running /\ ~box[s].auto
           /\ box'[s].run = "stopped" /\ box'[s].auto = box[s].auto
           /\ \A t \in Slots : t # s => box'[t] = box[t]
BY DEF Exits, Started, TypeOK, Container

LEMMA ReadyStep == Shape /\ Ready /\ [Next]_vars => Ready'
<1> SUFFICES ASSUME Shape, Ready, [Next]_vars PROVE Ready'
  OBVIOUS
<1> USE DEF disk, control, StopFirstPcs, DeployPcs
<1>t. TypeOK
  BY DEF Shape
<1>i. h.pc = "idle" => h = Idle
  BY DEF Shape, Course
<1>f. h.cands \in SUBSET Slots /\ h.todo \in SUBSET Slots /\ h.stale \in SUBSET Slots
  BY Fields DEF Shape
<1>1. CASE IssueDeploy
  BY <1>t, <1>i, <1>1, AtRest, <1>f DEF IssueDeploy, At, Ready, Parts, Course, Shape
<1>2. CASE IssueRestart
  BY <1>t, <1>i, <1>2, AtRest, <1>f DEF IssueRestart, At, Ready, Parts, Course, Shape
<1>3. CASE Lease
  BY <1>3, Leased DEF Ready
<1>4. CASE GiveUp
  BY <1>t, <1>i, <1>4, AtRest, <1>f DEF GiveUp, At, Ready, Parts, Course, Shape
<1>5. CASE Report
  BY <1>t, <1>i, <1>5, AtRest, <1>f DEF Report, At, Ready, Parts, Course, Shape
<1>6. CASE Crash
  BY <1>t, <1>i, <1>6, AtRest, <1>f DEF Crash, At, Ready, Parts, Course, Shape
<1>7. CASE EndReset
  BY <1>t, <1>7, EndResets, <1>f DEF SamePlan, SameRoles, SameMarks, Ready, Parts, Course, Shape
<1>8. CASE EndHalt
  BY <1>t, <1>8, EndHalts, <1>f DEF SamePlan, SameRoles, SameMarks, Ready, Parts, Course, Shape
<1>9. CASE TakeSnapshot
  BY <1>t, <1>9, TakesSnapshot, <1>f DEF SamePlan, SameRoles, SameMarks, Ready, Parts, Course, Shape
<1>10. CASE EndDiscard
  BY <1>t, <1>10, EndDiscards, <1>f DEF SamePlan, SameRoles, SameMarks, Ready, Parts, Course, Shape
<1>11. CASE RestoreVolume
  BY <1>t, <1>11, RestoresVolume, <1>f DEF SamePlan, SameRoles, SameMarks, Ready, Parts, Course, Shape
<1>12. CASE RestoreLook
  BY <1>t, <1>12, RestoreLooks, <1>f DEF SamePlan, SameRoles, SameMarks, Ready, Parts, Course, Shape
<1>13. CASE Judge
  BY <1>t, <1>13, Judged, <1>f DEF SamePlan, SameRoles, SameMarks, Ready, Parts, Course, Shape
<1>14. CASE SettleSnapshot
  BY <1>t, <1>14, Settles, <1>f DEF SamePlan, SameRoles, SameMarks, Ready, Parts, Course, Shape
<1>15. CASE Plan
  BY <1>t, <1>f, <1>15, Plans DEF Ready, Course, Shape, SamePlan, SameRoles, SameMarks
<1>16. CASE Readiness
  BY <1>t, <1>16, Readies, <1>f DEF SamePlan, SameRoles, SameMarks, Ready, Parts, Course, Shape
<1>17. CASE EndRetire
  BY <1>t, <1>17, EndRetires, <1>f DEF SamePlan, SameRoles, SameMarks, Ready, Parts, Course, Shape
<1>18. CASE Commit
  BY <1>t, <1>18, Commits, <1>f DEF SamePlan, SameRoles, SameMarks, Ready, Parts, Course, Shape
<1>19. CASE RestartPlan
  BY <1>t, <1>19, RestartPlans, <1>f DEF SamePlan, SameRoles, SameMarks, Ready, Parts, Course, Shape
<1>20. ASSUME NEW s \in Slots, Exits(s) PROVE Ready'
  BY <1>t, <1>f, <1>20, Exited DEF Ready
<1>21. ASSUME NEW s \in Slots, Sweep(s) PROVE Ready'
  BY <1>t, <1>21, Sweeps, <1>f DEF SamePlan, SameRoles, SameMarks, Ready, Parts, Course, Shape
<1>22. ASSUME NEW s \in Slots, Signal(s) PROVE Ready'
  BY <1>t, <1>22, Halts, <1>f DEF Stopping, Halting, OutOnly, SamePlan, SameRoles, SameMarks, Ready, Parts, Course, Shape
<1>23. ASSUME NEW s \in Slots, Confirm(s) PROVE Ready'
  BY <1>t, <1>23, Halts, <1>f DEF Stopping, Halting, OutOnly, SamePlan, SameRoles, SameMarks, Ready, Parts, Course, Shape
<1>24. ASSUME NEW s \in Slots, HaltThrows(s) PROVE Ready'
  BY <1>t, <1>24, Halts, <1>f DEF Stopping, Halting, OutOnly, SamePlan, SameRoles, SameMarks, Ready, Parts, Course, Shape
<1>25. ASSUME NEW s \in Slots, StartCandidate(s) PROVE Ready'
  <2>1. /\ h.pc = "slots" /\ h'.pc = "slots" /\ h'.todo = h.todo \ {s} /\ h'.cands = h.cands
        /\ h'.result = h.result /\ box' = [box EXCEPT ![s] = Started]
    BY <1>t, <1>25, StartsCandidate DEF SamePlan, SameMarks
  <2>2. h.result = "none"
    BY <2>1 DEF Shape, Course
  <2>3. \A t \in h'.cands \ h'.todo : box'[t] = Started
    BY <1>t, <1>f, <2>1 DEF Ready, TypeOK
  <2> QED
    BY <2>1, <2>2, <2>3 DEF Ready
<1>26. ASSUME NEW s \in Slots, SlotThrows(s) PROVE Ready'
  BY <1>t, <1>26, SlotThrown, <1>f DEF SamePlan, SameRoles, SameMarks, Ready, Parts, Course, Shape
<1>27. ASSUME NEW s \in Slots, RestoreStart(s) PROVE Ready'
  BY <1>t, <1>27, RestoreStarts, <1>f DEF SamePlan, SameRoles, SameMarks, Ready, Parts, Course, Shape
<1>28. ASSUME NEW s \in Slots, RemoveOld(s) PROVE Ready'
  BY <1>t, <1>28, RemovesOld, <1>f DEF SamePlan, SameRoles, SameMarks, Ready, Parts, Course, Shape
<1>29. ASSUME NEW s \in Slots, RestartOne(s) PROVE Ready'
  BY <1>t, <1>29, RestartsOne, <1>f DEF SamePlan, SameRoles, SameMarks, Ready, Parts, Course, Shape
<1>30. CASE UNCHANGED vars
  BY <1>30 DEF vars, Ready, Parts, Course, Shape
<1> QED
  BY <1>1, <1>2, <1>3, <1>4, <1>5, <1>6, <1>7, <1>8, <1>9, <1>10, <1>11, <1>12, <1>13,
     <1>14, <1>15, <1>16, <1>17, <1>18, <1>19, <1>20, <1>21, <1>22, <1>23, <1>24,
     <1>25, <1>26, <1>27, <1>28, <1>29, <1>30
     DEF Next, StopFirstStep, FailureStep, RolloutStep

LEMMA RunsForGood ==
    ASSUME TypeOK, NEW s \in Slots, s \in Running, box[s].auto
    PROVE  box[s] = Started
BY DEF TypeOK, Container, Running, Started

LEMMA LiveStep == Shape /\ LiveKept /\ [Next]_vars => LiveKept'
<1> SUFFICES ASSUME Shape, LiveKept, [Next]_vars PROVE LiveKept'
  OBVIOUS
<1> USE DEF disk, control, StopFirstPcs, DeployPcs
<1>t. TypeOK
  BY DEF Shape
<1>i. h.pc = "idle" => h = Idle
  BY DEF Shape, Course
<1>f. /\ h.cands \in SUBSET Slots /\ h.todo \in SUBSET Slots
      /\ h.live \in SUBSET Slots /\ h.adopted \in SUBSET Slots
  BY Fields DEF Shape
<1>1. CASE IssueDeploy
  BY <1>t, <1>i, <1>1, AtRest, <1>f DEF IssueDeploy, At, LiveKept, Spared, FailureLeavesLive, Parts, Course, Shape
<1>2. CASE IssueRestart
  BY <1>t, <1>i, <1>2, AtRest, <1>f DEF IssueRestart, At, LiveKept, Spared, FailureLeavesLive, Parts, Course, Shape
<1>3. CASE Lease
  BY <1>3, Leased DEF LiveKept, Spared, FailureLeavesLive
<1>4. CASE GiveUp
  BY <1>t, <1>i, <1>4, AtRest, <1>f DEF GiveUp, At, LiveKept, Spared, FailureLeavesLive, Parts, Course, Shape
<1>5. CASE Report
  BY <1>t, <1>i, <1>5, AtRest, <1>f DEF Report, At, LiveKept, Spared, FailureLeavesLive, Parts, Course, Shape
<1>6. CASE Crash
  BY <1>t, <1>i, <1>6, AtRest, <1>f DEF Crash, At, LiveKept, Spared, FailureLeavesLive, Parts, Course, Shape
<1>7. CASE EndReset
  BY <1>t, <1>7, EndResets, <1>f DEF SamePlan, SameRoles, SameMarks, LiveKept, Spared, FailureLeavesLive, Parts, Course, Shape
<1>8. CASE EndHalt
  BY <1>t, <1>8, EndHalts, <1>f DEF SamePlan, SameRoles, SameMarks, LiveKept, Spared, FailureLeavesLive, Parts, Course, Shape
<1>9. CASE TakeSnapshot
  BY <1>t, <1>9, TakesSnapshot, <1>f DEF SamePlan, SameRoles, SameMarks, LiveKept, Spared, FailureLeavesLive, Parts, Course, Shape
<1>10. CASE EndDiscard
  BY <1>t, <1>10, EndDiscards, <1>f DEF SamePlan, SameRoles, SameMarks, LiveKept, Spared, FailureLeavesLive, Parts, Course, Shape
<1>11. CASE RestoreVolume
  BY <1>t, <1>11, RestoresVolume, <1>f DEF SamePlan, SameRoles, SameMarks, LiveKept, Spared, FailureLeavesLive, Parts, Course, Shape
<1>12. CASE RestoreLook
  BY <1>t, <1>12, RestoreLooks, <1>f DEF SamePlan, SameRoles, SameMarks, LiveKept, Spared, FailureLeavesLive, Parts, Course, Shape
<1>13. CASE Judge
  BY <1>t, <1>13, Judged, <1>f DEF SamePlan, SameRoles, SameMarks, LiveKept, Spared, FailureLeavesLive, Parts, Course, Shape
<1>14. CASE SettleSnapshot
  BY <1>t, <1>14, Settles, <1>f DEF SamePlan, SameRoles, SameMarks, LiveKept, Spared, FailureLeavesLive, Parts, Course, Shape
<1>15. CASE Plan
  <2>1. h'.order = "candidate_first" =>
          /\ h'.live = {s \in Running \cap work.meta : box[s].auto} /\ h'.cands = h.cands
          /\ h'.adopted = h.cands \cap Running \cap work.meta /\ box' = box
    BY <1>t, <1>15, Plans
  <2>2. h'.order = "candidate_first" => \A s \in h'.live : box'[s] = Started
    BY <1>t, <2>1, RunsForGood DEF Running
  <2>3. h'.order = "candidate_first" => h'.live \cap h'.cands \subseteq h'.adopted
    BY <2>1
  <2> QED
    BY <2>2, <2>3 DEF LiveKept, Spared, FailureLeavesLive
<1>16. CASE Readiness
  BY <1>t, <1>16, Readies, <1>f DEF SamePlan, SameRoles, SameMarks, LiveKept, Spared, FailureLeavesLive, Parts, Course, Shape
<1>17. CASE EndRetire
  BY <1>t, <1>17, EndRetires, <1>f DEF SamePlan, SameRoles, SameMarks, LiveKept, Spared, FailureLeavesLive, Parts, Course, Shape
<1>18. CASE Commit
  BY <1>t, <1>18, Commits, <1>f DEF SamePlan, SameRoles, SameMarks, LiveKept, Spared, FailureLeavesLive, Parts, Course, Shape
<1>19. CASE RestartPlan
  BY <1>t, <1>19, RestartPlans, <1>f DEF SamePlan, SameRoles, SameMarks, LiveKept, Spared, FailureLeavesLive, Parts, Course, Shape
<1>20. ASSUME NEW s \in Slots, Exits(s) PROVE LiveKept'
  BY <1>t, <1>f, <1>20, Exited DEF LiveKept, Spared, FailureLeavesLive
<1>21. ASSUME NEW s \in Slots, Sweep(s) PROVE LiveKept'
  BY <1>t, <1>21, Sweeps, <1>f DEF SamePlan, SameRoles, SameMarks, LiveKept, Spared, FailureLeavesLive, Parts, Course, Shape
<1>22. ASSUME NEW s \in Slots, Signal(s) PROVE LiveKept'
  BY <1>t, <1>22, Halts, <1>f DEF Stopping, Halting, OutOnly, SamePlan, SameRoles, SameMarks, LiveKept, Spared, FailureLeavesLive, Parts, Course, Shape
<1>23. ASSUME NEW s \in Slots, Confirm(s) PROVE LiveKept'
  BY <1>t, <1>23, Halts, <1>f DEF Stopping, Halting, OutOnly, SamePlan, SameRoles, SameMarks, LiveKept, Spared, FailureLeavesLive, Parts, Course, Shape
<1>24. ASSUME NEW s \in Slots, HaltThrows(s) PROVE LiveKept'
  BY <1>t, <1>24, Halts, <1>f DEF Stopping, Halting, OutOnly, SamePlan, SameRoles, SameMarks, LiveKept, Spared, FailureLeavesLive, Parts, Course, Shape
<1>25. ASSUME NEW s \in Slots, StartCandidate(s) PROVE LiveKept'
  <2>1. /\ h.pc = "slots" /\ h'.order = h.order /\ h'.cands = h.cands /\ h'.live = h.live
        /\ h'.adopted = IF s \in Running THEN h.adopted ELSE h.adopted \ {s}
        /\ box' = [box EXCEPT ![s] = Started]
    BY <1>t, <1>25, StartsCandidate DEF SamePlan
  <2>2. h.order = "candidate_first" => \A t \in h.live : box[t] = Started /\ t \in Running
    BY <1>t, <1>f, <2>1, StartedRuns DEF LiveKept, FailureLeavesLive
  <2>3. h.order = "candidate_first" => \A t \in h.live : box'[t] = Started
    BY <1>t, <1>f, <2>1, <2>2 DEF TypeOK
  <2>4. h.order = "candidate_first" => h.live \cap h.cands \subseteq h'.adopted
    BY <2>1, <2>2 DEF LiveKept, Spared
  <2> QED
    BY <2>1, <2>3, <2>4 DEF LiveKept, Spared, FailureLeavesLive
<1>26. ASSUME NEW s \in Slots, SlotThrows(s) PROVE LiveKept'
  <2>1. /\ h.pc = "slots" /\ h'.order = h.order /\ h'.cands = h.cands /\ h'.live = h.live
        /\ \/ box' = box /\ h'.adopted = h.adopted
           \/ /\ s \notin Running /\ h'.adopted = h.adopted \ {s}
              /\ \A t \in Slots : t # s => box'[t] = box[t]
    BY <1>t, <1>26, SlotThrown DEF SamePlan
  <2>2. h.order = "candidate_first" => \A t \in h.live : box[t] = Started /\ t \in Running
    BY <1>t, <1>f, <2>1, StartedRuns DEF LiveKept, FailureLeavesLive
  <2>3. h.order = "candidate_first" => \A t \in h.live : box'[t] = Started
    BY <1>f, <2>1, <2>2
  <2>4. h.order = "candidate_first" => h.live \cap h.cands \subseteq h'.adopted
    BY <2>1, <2>2 DEF LiveKept, Spared
  <2> QED
    BY <2>1, <2>3, <2>4 DEF LiveKept, Spared, FailureLeavesLive
<1>27. ASSUME NEW s \in Slots, RestoreStart(s) PROVE LiveKept'
  BY <1>t, <1>27, RestoreStarts, <1>f DEF SamePlan, SameRoles, SameMarks, LiveKept, Spared, FailureLeavesLive, Parts, Course, Shape
<1>28. ASSUME NEW s \in Slots, RemoveOld(s) PROVE LiveKept'
  BY <1>t, <1>28, RemovesOld, <1>f DEF SamePlan, SameRoles, SameMarks, LiveKept, Spared, FailureLeavesLive, Parts, Course, Shape
<1>29. ASSUME NEW s \in Slots, RestartOne(s) PROVE LiveKept'
  BY <1>t, <1>29, RestartsOne, <1>f DEF SamePlan, SameRoles, SameMarks, LiveKept, Spared, FailureLeavesLive, Parts, Course, Shape
<1>30. CASE UNCHANGED vars
  BY <1>30 DEF vars, LiveKept, Spared, FailureLeavesLive, Parts, Course, Shape
<1> QED
  BY <1>1, <1>2, <1>3, <1>4, <1>5, <1>6, <1>7, <1>8, <1>9, <1>10, <1>11, <1>12, <1>13,
     <1>14, <1>15, <1>16, <1>17, <1>18, <1>19, <1>20, <1>21, <1>22, <1>23, <1>24,
     <1>25, <1>26, <1>27, <1>28, <1>29, <1>30
     DEF Next, StopFirstStep, FailureStep, RolloutStep

----------------------------------------------------------------------------
(* The way back: what a failed attempt says of what it left.                *)

Quiet(s) == h.out[s] = "none"
Over(s) == h.out[s] \in {"already_stopped", "exited"}

(* A candidate-first attempt has signalled what it discards and nothing     *)
(* else; a stop-first one got past the halt only when all had ended.        *)
Outcomes ==
    /\ (h.order = "candidate_first" /\ h.pc = "slots") => \A s \in Slots : Quiet(s)
    /\ (h.order = "candidate_first" /\ h.pc = "discard") => \A s \in Slots \ h.todo : Quiet(s)
    /\ (h.order = "stop_first" /\ (h.pc \in {"snapshot", "slots", "discard", "unwind"} \/ h.restored))
         => \A s \in h.prev : Over(s)

(* Until it looks at what it can bring back, a stop-first attempt has found *)
(* nothing.                                                                  *)
Untried ==
    (h.order = "stop_first"
       /\ h.pc \in {"reset", "halt", "snapshot", "slots", "discard", "unwind", "restore"})
       => h.retired = {} /\ h.live = {}

LEMMA OutcomesStep == Shape /\ Outcomes /\ [Next]_vars => Outcomes'
<1> SUFFICES ASSUME Shape, Outcomes, [Next]_vars PROVE Outcomes'
  OBVIOUS
<1> USE DEF disk, control, StopFirstPcs, DeployPcs
<1>t. TypeOK
  BY DEF Shape
<1>i. h.pc = "idle" => h = Idle
  BY DEF Shape, Course
<1>f. /\ h.cands \in SUBSET Slots /\ h.todo \in SUBSET Slots /\ h.prev \in SUBSET Slots
      /\ h.out \in [Slots -> Outcome]
  BY Fields DEF Shape
<1>s. h.pc = "sweep" => h.out = NoOutcomes /\ \A s \in Slots : NoOutcomes[s] = "none"
  BY AtRest DEF Shape, Course, Idle, NoOutcomes
<1>1. CASE IssueDeploy
  BY <1>t, <1>i, <1>1, AtRest, <1>f DEF IssueDeploy, At, Outcomes, Quiet, Over, Parts, Course, Shape
<1>2. CASE IssueRestart
  BY <1>t, <1>i, <1>2, AtRest, <1>f DEF IssueRestart, At, Outcomes, Quiet, Over, Parts, Course, Shape
<1>3. CASE Lease
  BY <1>3, Leased DEF Outcomes
<1>4. CASE GiveUp
  BY <1>t, <1>i, <1>4, AtRest, <1>f DEF GiveUp, At, Outcomes, Quiet, Over, Parts, Course, Shape
<1>5. CASE Report
  BY <1>t, <1>i, <1>5, AtRest, <1>f DEF Report, At, Outcomes, Quiet, Over, Parts, Course, Shape
<1>6. CASE Crash
  BY <1>t, <1>i, <1>6, AtRest, <1>f DEF Crash, At, Outcomes, Quiet, Over, Parts, Course, Shape
<1>7. CASE EndReset
  BY <1>t, <1>7, EndResets, <1>f DEF SamePlan, SameRoles, SameMarks, Outcomes, Quiet, Over, Parts, Course, Shape
<1>8. CASE EndHalt
  <2>1. /\ h.pc = "halt" /\ Halted /\ h'.pc \in {"restore", "snapshot", "slots"}
        /\ h'.pc # "restore" => \A s \in h.prev : ~MayStillRun(s)
        /\ h'.out = h.out /\ h'.order = h.order /\ h'.prev = h.prev /\ h'.restored = h.restored
    BY <1>t, <1>8, EndHalts DEF SamePlan, SameMarks
  <2>2. h.order = "stop_first" /\ ~h.restored
    BY <2>1 DEF Shape, Course
  <2>3. h'.pc # "restore" => \A s \in h.prev : h.out[s] \in {"already_stopped", "exited"}
    BY <1>f, <2>1 DEF Halted, MayStillRun, Outcome, Shape, Parts
  <2> QED
    BY <2>1, <2>2, <2>3 DEF Outcomes, Over
<1>9. CASE TakeSnapshot
  BY <1>t, <1>9, TakesSnapshot, <1>f DEF SamePlan, SameRoles, SameMarks, Outcomes, Quiet, Over, Parts, Course, Shape
<1>10. CASE EndDiscard
  BY <1>t, <1>10, EndDiscards, <1>f DEF SamePlan, SameRoles, SameMarks, Outcomes, Quiet, Over, Parts, Course, Shape
<1>11. CASE RestoreVolume
  BY <1>t, <1>11, RestoresVolume, <1>f DEF SamePlan, SameRoles, SameMarks, Outcomes, Quiet, Over, Parts, Course, Shape
<1>12. CASE RestoreLook
  BY <1>t, <1>12, RestoreLooks, <1>f DEF SamePlan, SameRoles, SameMarks, Outcomes, Quiet, Over, Parts, Course, Shape
<1>13. CASE Judge
  BY <1>t, <1>13, Judged, <1>f DEF SamePlan, SameRoles, SameMarks, Outcomes, Quiet, Over, Parts, Course, Shape
<1>14. CASE SettleSnapshot
  BY <1>t, <1>14, Settles, <1>f DEF SamePlan, SameRoles, SameMarks, Outcomes, Quiet, Over, Parts, Course, Shape
<1>15. CASE Plan
  BY <1>t, <1>s, <1>f, <1>15, Plans DEF SameMarks, Outcomes, Quiet, Course, Shape
<1>16. CASE Readiness
  BY <1>t, <1>16, Readies, <1>f DEF SamePlan, SameRoles, SameMarks, Outcomes, Quiet, Over, Parts, Course, Shape
<1>17. CASE EndRetire
  BY <1>t, <1>17, EndRetires, <1>f DEF SamePlan, SameRoles, SameMarks, Outcomes, Quiet, Over, Parts, Course, Shape
<1>18. CASE Commit
  BY <1>t, <1>18, Commits, <1>f DEF SamePlan, SameRoles, SameMarks, Outcomes, Quiet, Over, Parts, Course, Shape
<1>19. CASE RestartPlan
  BY <1>t, <1>19, RestartPlans, <1>f DEF SamePlan, SameRoles, SameMarks, Outcomes, Quiet, Over, Parts, Course, Shape
<1>20. ASSUME NEW s \in Slots, Exits(s) PROVE Outcomes'
  BY <1>t, <1>f, <1>20, Exited DEF Outcomes, Quiet, Over
<1>21. ASSUME NEW s \in Slots, Sweep(s) PROVE Outcomes'
  BY <1>t, <1>21, Sweeps, <1>f DEF SamePlan, SameRoles, SameMarks, Outcomes, Quiet, Over, Parts, Course, Shape
<1>22. ASSUME NEW s \in Slots, Signal(s) PROVE Outcomes'
  BY <1>t, <1>22, Halts, <1>f DEF Stopping, Halting, OutOnly, SamePlan, SameRoles, SameMarks, Outcomes, Quiet, Over, Parts, Course, Shape
<1>23. ASSUME NEW s \in Slots, Confirm(s) PROVE Outcomes'
  BY <1>t, <1>23, Halts, <1>f DEF Stopping, Halting, OutOnly, SamePlan, SameRoles, SameMarks, Outcomes, Quiet, Over, Parts, Course, Shape
<1>24. ASSUME NEW s \in Slots, HaltThrows(s) PROVE Outcomes'
  BY <1>t, <1>24, Halts, <1>f DEF Stopping, Halting, OutOnly, SamePlan, SameRoles, SameMarks, Outcomes, Quiet, Over, Parts, Course, Shape
<1>25. ASSUME NEW s \in Slots, StartCandidate(s) PROVE Outcomes'
  <2>1. /\ h'.pc = h.pc /\ h.pc = "slots" /\ h'.out = h.out /\ h'.order = h.order /\ h'.prev = h.prev
        /\ h'.restored = h.restored
    BY <1>t, <1>25, StartsCandidate DEF SamePlan, SameMarks
  <2> QED
    BY <2>1 DEF Outcomes, Quiet, Over
<1>26. ASSUME NEW s \in Slots, SlotThrows(s) PROVE Outcomes'
  BY <1>t, <1>26, SlotThrown, <1>f DEF SamePlan, SameRoles, SameMarks, Outcomes, Quiet, Over, Parts, Course, Shape
<1>27. ASSUME NEW s \in Slots, RestoreStart(s) PROVE Outcomes'
  BY <1>t, <1>27, RestoreStarts, <1>f DEF SamePlan, SameRoles, SameMarks, Outcomes, Quiet, Over, Parts, Course, Shape
<1>28. ASSUME NEW s \in Slots, RemoveOld(s) PROVE Outcomes'
  BY <1>t, <1>28, RemovesOld, <1>f DEF SamePlan, SameRoles, SameMarks, Outcomes, Quiet, Over, Parts, Course, Shape
<1>29. ASSUME NEW s \in Slots, RestartOne(s) PROVE Outcomes'
  BY <1>t, <1>29, RestartsOne, <1>f DEF SamePlan, SameRoles, SameMarks, Outcomes, Quiet, Over, Parts, Course, Shape
<1>30. CASE UNCHANGED vars
  BY <1>30 DEF vars, Outcomes, Quiet, Over, Parts, Course, Shape
<1> QED
  BY <1>1, <1>2, <1>3, <1>4, <1>5, <1>6, <1>7, <1>8, <1>9, <1>10, <1>11, <1>12, <1>13,
     <1>14, <1>15, <1>16, <1>17, <1>18, <1>19, <1>20, <1>21, <1>22, <1>23, <1>24,
     <1>25, <1>26, <1>27, <1>28, <1>29, <1>30
     DEF Next, StopFirstStep, FailureStep, RolloutStep

LEMMA UntriedStep == Shape /\ Untried /\ [Next]_vars => Untried'
<1> SUFFICES ASSUME Shape, Untried, [Next]_vars PROVE Untried'
  OBVIOUS
<1> USE DEF disk, control, StopFirstPcs, DeployPcs
<1>t. TypeOK
  BY DEF Shape
<1>i. h.pc = "idle" => h = Idle
  BY DEF Shape, Course
<1>1. CASE IssueDeploy
  BY <1>t, <1>i, <1>1, AtRest DEF IssueDeploy, At, Untried, Parts, Course, Shape
<1>2. CASE IssueRestart
  BY <1>t, <1>i, <1>2, AtRest DEF IssueRestart, At, Untried, Parts, Course, Shape
<1>3. CASE Lease
  BY <1>3, Leased DEF Untried
<1>4. CASE GiveUp
  BY <1>t, <1>i, <1>4, AtRest DEF GiveUp, At, Untried, Parts, Course, Shape
<1>5. CASE Report
  BY <1>t, <1>i, <1>5, AtRest DEF Report, At, Untried, Parts, Course, Shape
<1>6. CASE Crash
  BY <1>t, <1>i, <1>6, AtRest DEF Crash, At, Untried, Parts, Course, Shape
<1>7. CASE EndReset
  BY <1>t, <1>7, EndResets DEF SamePlan, SameRoles, SameMarks, Untried, Parts, Course, Shape
<1>8. CASE EndHalt
  BY <1>t, <1>8, EndHalts DEF SamePlan, SameRoles, SameMarks, Untried, Parts, Course, Shape
<1>9. CASE TakeSnapshot
  BY <1>t, <1>9, TakesSnapshot DEF SamePlan, SameRoles, SameMarks, Untried, Parts, Course, Shape
<1>10. CASE EndDiscard
  BY <1>t, <1>10, EndDiscards DEF SamePlan, SameRoles, SameMarks, Untried, Parts, Course, Shape
<1>11. CASE RestoreVolume
  BY <1>t, <1>11, RestoresVolume DEF SamePlan, SameRoles, SameMarks, Untried, Parts, Course, Shape
<1>12. CASE RestoreLook
  BY <1>t, <1>12, RestoreLooks DEF SamePlan, SameRoles, SameMarks, Untried, Parts, Course, Shape
<1>13. CASE Judge
  BY <1>t, <1>13, Judged DEF SamePlan, SameRoles, SameMarks, Untried, Parts, Course, Shape
<1>14. CASE SettleSnapshot
  BY <1>t, <1>14, Settles DEF SamePlan, SameRoles, SameMarks, Untried, Parts, Course, Shape
<1>15. CASE Plan
  BY <1>t, <1>15, Plans DEF SamePlan, SameRoles, SameMarks, Untried, Parts, Course, Shape
<1>16. CASE Readiness
  BY <1>t, <1>16, Readies DEF SamePlan, SameRoles, SameMarks, Untried, Parts, Course, Shape
<1>17. CASE EndRetire
  BY <1>t, <1>17, EndRetires DEF SamePlan, SameRoles, SameMarks, Untried, Parts, Course, Shape
<1>18. CASE Commit
  BY <1>t, <1>18, Commits DEF SamePlan, SameRoles, SameMarks, Untried, Parts, Course, Shape
<1>19. CASE RestartPlan
  BY <1>t, <1>19, RestartPlans DEF SamePlan, SameRoles, SameMarks, Untried, Parts, Course, Shape
<1>20. ASSUME NEW s \in Slots, Exits(s) PROVE Untried'
  BY <1>t, <1>20, Exited DEF Untried
<1>21. ASSUME NEW s \in Slots, Sweep(s) PROVE Untried'
  BY <1>t, <1>21, Sweeps DEF SamePlan, SameRoles, SameMarks, Untried, Parts, Course, Shape
<1>22. ASSUME NEW s \in Slots, Signal(s) PROVE Untried'
  BY <1>t, <1>22, Halts DEF Stopping, Halting, OutOnly, SamePlan, SameRoles, SameMarks, Untried, Parts, Course, Shape
<1>23. ASSUME NEW s \in Slots, Confirm(s) PROVE Untried'
  BY <1>t, <1>23, Halts DEF Stopping, Halting, OutOnly, SamePlan, SameRoles, SameMarks, Untried, Parts, Course, Shape
<1>24. ASSUME NEW s \in Slots, HaltThrows(s) PROVE Untried'
  BY <1>t, <1>24, Halts DEF Stopping, Halting, OutOnly, SamePlan, SameRoles, SameMarks, Untried, Parts, Course, Shape
<1>25. ASSUME NEW s \in Slots, StartCandidate(s) PROVE Untried'
  BY <1>t, <1>25, StartsCandidate DEF SamePlan, SameRoles, SameMarks, Untried, Parts, Course, Shape
<1>26. ASSUME NEW s \in Slots, SlotThrows(s) PROVE Untried'
  BY <1>t, <1>26, SlotThrown DEF SamePlan, SameRoles, SameMarks, Untried, Parts, Course, Shape
<1>27. ASSUME NEW s \in Slots, RestoreStart(s) PROVE Untried'
  BY <1>t, <1>27, RestoreStarts DEF SamePlan, SameRoles, SameMarks, Untried, Parts, Course, Shape
<1>28. ASSUME NEW s \in Slots, RemoveOld(s) PROVE Untried'
  BY <1>t, <1>28, RemovesOld DEF SamePlan, SameRoles, SameMarks, Untried, Parts, Course, Shape
<1>29. ASSUME NEW s \in Slots, RestartOne(s) PROVE Untried'
  BY <1>t, <1>29, RestartsOne DEF SamePlan, SameRoles, SameMarks, Untried, Parts, Course, Shape
<1>30. CASE UNCHANGED vars
  BY <1>30 DEF vars, Untried, Parts, Course, Shape
<1> QED
  BY <1>1, <1>2, <1>3, <1>4, <1>5, <1>6, <1>7, <1>8, <1>9, <1>10, <1>11, <1>12, <1>13,
     <1>14, <1>15, <1>16, <1>17, <1>18, <1>19, <1>20, <1>21, <1>22, <1>23, <1>24,
     <1>25, <1>26, <1>27, <1>28, <1>29, <1>30
     DEF Next, StopFirstStep, FailureStep, RolloutStep

(* What goes on running whatever ends late: a replica running for good, or  *)
(* one this attempt never signalled.                                        *)
Stays(s) ==
    \/ box[s] = Started
    \/ /\ Quiet(s)
       /\ box[s].run = "running" \/ (box[s].run = "stopped" /\ ~box[s].auto)

(* What was found running stays, and what came back ready runs.             *)
Found ==
    h.pc \in {"reopen", "judge"} =>
       /\ \A s \in h.retired : Stays(s)
       /\ \A s \in h.live : s \in h.prev /\ box[s] = Started

(* What is said to be preserved is no candidate that was discarded.         *)
Real ==
    h.preserved => /\ h.pc \in {"settle", "report"}
                   /\ \E s \in Slots : s \notin h.cands \ h.adopted /\ Stays(s)

(* What a rollback owes: what this attempt stopped, and what was live.      *)
Due(s) == h.out[s] = "exited" \/ s \in work.meta

(* Each of them runs for good or is still to be started.                    *)
Whole ==
    /\ h.completed => h.pc \in {"reopen", "settle", "report"}
    /\ (h.completed /\ h.pc = "reopen" /\ h.restored)
          => \A s \in h.prev : Due(s) => box[s] = Started \/ s \in h.todo
    /\ (h.completed /\ h.pc \in {"settle", "report"}) => \A s \in h.prev : Due(s) => box[s] = Started

Undoing == Outcomes /\ Untried /\ Found /\ Real /\ Whole

(* A step that leaves a container as it was, or ends it late, or starts it  *)
(* for good, and reports nothing of it.                                     *)
LEMMA Staying ==
    ASSUME TypeOK, NEW s \in Slots, Stays(s), h'.out[s] = h.out[s],
           \/ box'[s] = box[s] \/ box'[s] = Started
           \/ Exits(s)
    PROVE  Stays(s)'
<1>1. CASE box'[s] = box[s]
  BY <1>1 DEF Stays, Quiet
<1>2. CASE box'[s] = Started
  BY <1>2 DEF Stays
<1>3. CASE Exits(s)
  BY <1>3, Exited DEF Stays, Quiet, Started
<1> QED
  BY <1>1, <1>2, <1>3

LEMMA FoundStep == Shape /\ Untried /\ Found /\ [Next]_vars => Found'
<1> SUFFICES ASSUME Shape, Untried, Found, [Next]_vars PROVE Found'
  OBVIOUS
<1> USE DEF disk, control, StopFirstPcs, DeployPcs
<1>t. TypeOK
  BY DEF Shape
<1>i. h.pc = "idle" => h = Idle
  BY DEF Shape, Course
<1>f. /\ h.cands \in SUBSET Slots /\ h.todo \in SUBSET Slots /\ h.prev \in SUBSET Slots
      /\ h.out \in [Slots -> Outcome] /\ h.retired \in SUBSET Slots
      /\ h.live \in SUBSET Slots /\ h.adopted \in SUBSET Slots
  BY Fields DEF Shape
<1>1. CASE IssueDeploy
  BY <1>t, <1>i, <1>1, AtRest DEF IssueDeploy, At, Found, Parts, Course, Shape
<1>2. CASE IssueRestart
  BY <1>t, <1>i, <1>2, AtRest DEF IssueRestart, At, Found, Parts, Course, Shape
<1>3. CASE Lease
  BY <1>3, Leased DEF Found
<1>4. CASE GiveUp
  BY <1>t, <1>i, <1>4, AtRest DEF GiveUp, At, Found, Parts, Course, Shape
<1>5. CASE Report
  BY <1>t, <1>i, <1>5, AtRest DEF Report, At, Found, Parts, Course, Shape
<1>6. CASE Crash
  BY <1>t, <1>i, <1>6, AtRest DEF Crash, At, Found, Parts, Course, Shape
<1>7. CASE EndReset
  BY <1>t, <1>7, EndResets DEF SamePlan, SameRoles, SameMarks, Found, Parts, Course, Shape
<1>8. CASE EndHalt
  BY <1>t, <1>8, EndHalts DEF SamePlan, SameRoles, SameMarks, Found, Parts, Course, Shape
<1>9. CASE TakeSnapshot
  BY <1>t, <1>9, TakesSnapshot DEF SamePlan, SameRoles, SameMarks, Found, Parts, Course, Shape
<1>10. CASE EndDiscard
  BY <1>t, <1>10, EndDiscards DEF SamePlan, SameRoles, SameMarks, Found, Parts, Course, Shape
<1>11. CASE RestoreVolume
  BY <1>t, <1>11, RestoresVolume DEF SamePlan, SameRoles, SameMarks, Found, Parts, Course, Shape
<1>12. CASE RestoreLook
  <2>1. /\ h.pc = "restore" /\ h'.out = h.out /\ h'.live = h.live
        /\ \/ h'.pc = "reopen" /\ h'.retired = Seen \cap Running /\ box' = BackOn(Tried)
           \/ h'.pc = "judge" /\ h'.retired = h.retired
    BY <1>t, <1>12, RestoreLooks
  <2>2. h.retired = {} /\ h.live = {}
    BY <2>1 DEF Shape, Course, Untried
  <2>3. ASSUME box' = BackOn(Tried), NEW s \in Seen \cap Running PROVE Stays(s)'
    <3>1. s \in Slots /\ box[s].run = "running"
      BY DEF Running
    <3>2. CASE s \in Tried
      BY <2>3, <3>1, <3>2 DEF BackOn, Stays
    <3>3. CASE s \notin Tried
      BY <2>1, <2>3, <3>1, <3>3 DEF BackOn, Tried, Stays, Quiet
    <3> QED
      BY <3>2, <3>3
  <2> QED
    BY <2>1, <2>2, <2>3 DEF Found
<1>13. CASE Judge
  BY <1>t, <1>13, Judged DEF SamePlan, SameRoles, SameMarks, Found, Parts, Course, Shape
<1>14. CASE SettleSnapshot
  BY <1>t, <1>14, Settles DEF SamePlan, SameRoles, SameMarks, Found, Parts, Course, Shape
<1>15. CASE Plan
  BY <1>t, <1>15, Plans DEF SamePlan, SameRoles, SameMarks, Found, Parts, Course, Shape
<1>16. CASE Readiness
  BY <1>t, <1>16, Readies DEF SamePlan, SameRoles, SameMarks, Found, Parts, Course, Shape
<1>17. CASE EndRetire
  BY <1>t, <1>17, EndRetires DEF SamePlan, SameRoles, SameMarks, Found, Parts, Course, Shape
<1>18. CASE Commit
  BY <1>t, <1>18, Commits DEF SamePlan, SameRoles, SameMarks, Found, Parts, Course, Shape
<1>19. CASE RestartPlan
  BY <1>t, <1>19, RestartPlans DEF SamePlan, SameRoles, SameMarks, Found, Parts, Course, Shape
<1>20. ASSUME NEW s \in Slots, Exits(s) PROVE Found'
  <2>1. /\ h' = h /\ box[s] # Started /\ \A t \in Slots : t # s => box'[t] = box[t]
    BY <1>t, <1>20, Exited
  <2>2. \A t \in Slots : Stays(t) => Stays(t)'
    BY <1>t, <1>20, <2>1, Staying
  <2> QED
    BY <1>f, <2>1, <2>2 DEF Found
<1>21. ASSUME NEW s \in Slots, Sweep(s) PROVE Found'
  BY <1>t, <1>21, Sweeps DEF SamePlan, SameRoles, SameMarks, Found, Parts, Course, Shape
<1>22. ASSUME NEW s \in Slots, Signal(s) PROVE Found'
  BY <1>t, <1>22, Halts DEF Stopping, Halting, OutOnly, SamePlan, SameRoles, SameMarks, Found, Parts, Course, Shape
<1>23. ASSUME NEW s \in Slots, Confirm(s) PROVE Found'
  BY <1>t, <1>23, Halts DEF Stopping, Halting, OutOnly, SamePlan, SameRoles, SameMarks, Found, Parts, Course, Shape
<1>24. ASSUME NEW s \in Slots, HaltThrows(s) PROVE Found'
  BY <1>t, <1>24, Halts DEF Stopping, Halting, OutOnly, SamePlan, SameRoles, SameMarks, Found, Parts, Course, Shape
<1>25. ASSUME NEW s \in Slots, StartCandidate(s) PROVE Found'
  BY <1>t, <1>25, StartsCandidate DEF SamePlan, SameRoles, SameMarks, Found, Parts, Course, Shape
<1>26. ASSUME NEW s \in Slots, SlotThrows(s) PROVE Found'
  BY <1>t, <1>26, SlotThrown DEF SamePlan, SameRoles, SameMarks, Found, Parts, Course, Shape
<1>27. ASSUME NEW s \in Slots, RestoreStart(s) PROVE Found'
  <2>1. /\ h.pc = "reopen" /\ s \in h.prev /\ h'.out = h.out /\ h'.retired = h.retired
        /\ h'.prev = h.prev
        /\ \/ h'.live \subseteq h.live \cup {s} /\ box' = [box EXCEPT ![s] = Started]
           \/ h'.live = h.live /\ box' = box
    BY <1>t, <1>27, RestoreStarts DEF SamePlan, Shape, Parts
  <2>2. \A t \in Slots : box'[t] = box[t] \/ box'[t] = Started
    BY <1>t, <2>1 DEF TypeOK
  <2>3. h'.live = h.live \/ (h'.live \subseteq h.live \cup {s} /\ box'[s] = Started)
    BY <1>t, <2>1 DEF TypeOK
  <2>4. \A t \in Slots : Stays(t) => Stays(t)'
    BY <1>t, <2>1, <2>2, Staying
  <2>5. \A t \in h'.live : t \in h'.prev /\ box'[t] = Started
    BY <1>f, <2>1, <2>2, <2>3 DEF Found
  <2> QED
    BY <1>f, <2>1, <2>4, <2>5 DEF Found
<1>28. ASSUME NEW s \in Slots, RemoveOld(s) PROVE Found'
  BY <1>t, <1>28, RemovesOld DEF SamePlan, SameRoles, SameMarks, Found, Parts, Course, Shape
<1>29. ASSUME NEW s \in Slots, RestartOne(s) PROVE Found'
  BY <1>t, <1>29, RestartsOne DEF SamePlan, SameRoles, SameMarks, Found, Parts, Course, Shape
<1>30. CASE UNCHANGED vars
  BY <1>30 DEF vars, Found, Stays, Quiet
<1> QED
  BY <1>1, <1>2, <1>3, <1>4, <1>5, <1>6, <1>7, <1>8, <1>9, <1>10, <1>11, <1>12, <1>13,
     <1>14, <1>15, <1>16, <1>17, <1>18, <1>19, <1>20, <1>21, <1>22, <1>23, <1>24,
     <1>25, <1>26, <1>27, <1>28, <1>29, <1>30
     DEF Next, StopFirstStep, FailureStep, RolloutStep

LEMMA RealStep == Shape /\ Outcomes /\ Found /\ Real /\ [Next]_vars => Real'
<1> SUFFICES ASSUME Shape, Outcomes, Found, Real, [Next]_vars PROVE Real'
  OBVIOUS
<1> USE DEF disk, control, StopFirstPcs, DeployPcs
<1>t. TypeOK
  BY DEF Shape
<1>i. h.pc = "idle" => h = Idle
  BY DEF Shape, Course
<1>f. /\ h.cands \in SUBSET Slots /\ h.todo \in SUBSET Slots /\ h.prev \in SUBSET Slots
      /\ h.out \in [Slots -> Outcome] /\ h.retired \in SUBSET Slots
      /\ h.live \in SUBSET Slots /\ h.adopted \in SUBSET Slots
  BY Fields DEF Shape
<1>1. CASE IssueDeploy
  BY <1>t, <1>i, <1>1, AtRest DEF IssueDeploy, At, Real, Parts, Course, Shape
<1>2. CASE IssueRestart
  BY <1>t, <1>i, <1>2, AtRest DEF IssueRestart, At, Real, Parts, Course, Shape
<1>3. CASE Lease
  BY <1>3, Leased DEF Real
<1>4. CASE GiveUp
  BY <1>t, <1>i, <1>4, AtRest DEF GiveUp, At, Real, Parts, Course, Shape
<1>5. CASE Report
  BY <1>t, <1>i, <1>5, AtRest DEF Report, At, Real, Parts, Course, Shape
<1>6. CASE Crash
  BY <1>t, <1>i, <1>6, AtRest DEF Crash, At, Real, Parts, Course, Shape
<1>7. CASE EndReset
  BY <1>t, <1>7, EndResets DEF SamePlan, SameRoles, SameMarks, Real, Parts, Course, Shape
<1>8. CASE EndHalt
  BY <1>t, <1>8, EndHalts DEF SamePlan, SameRoles, SameMarks, Real, Parts, Course, Shape
<1>9. CASE TakeSnapshot
  BY <1>t, <1>9, TakesSnapshot DEF SamePlan, SameRoles, SameMarks, Real, Parts, Course, Shape
<1>10. CASE EndDiscard
  <2>1. /\ h.pc = "discard" /\ h'.out = h.out /\ h'.cands = h.cands /\ h'.adopted = h.adopted
        /\ \A s \in Slots : box'[s] = box[s] \/ s \in h.todo
        /\ h'.preserved = h.preserved \/
             (h.order = "candidate_first" /\ h'.pc = "report"
                /\ (h'.preserved => (h.adopted \cup h.retired) \cap Running # {}))
    <3>1. h.pc = "discard" /\ h.order \in {"stop_first", "candidate_first"}
      BY <1>t, <1>10, EndDiscards DEF Shape, Course, TypeOK, Handler
    <3> QED
      BY <1>t, <1>10, <3>1, EndDiscards DEF SamePlan, SameRoles
  <2>2. ~h.preserved
    BY <2>1 DEF Real
  <2>3. SUFFICES ASSUME h'.preserved PROVE Real'
    BY DEF Real
  <2>4. h.order = "candidate_first" /\ h'.pc = "report"
    BY <2>1, <2>2, <2>3
  <2>5. PICK s \in h.adopted \cup h.retired : s \in Running
    BY <2>1, <2>2, <2>3
  <2>6. s \in Slots /\ s \notin h.cands \ h.adopted /\ s \notin h.todo /\ box[s].run = "running"
    BY <2>1, <2>5 DEF Running, Shape, Parts
  <2>7. Quiet(s) /\ box'[s] = box[s]
    BY <2>1, <2>4, <2>6 DEF Outcomes
  <2>8. Stays(s)'
    BY <2>1, <2>6, <2>7 DEF Stays, Quiet
  <2> QED
    BY <2>1, <2>4, <2>6, <2>8 DEF Real
<1>11. CASE RestoreVolume
  BY <1>t, <1>11, RestoresVolume DEF SamePlan, SameRoles, SameMarks, Real, Parts, Course, Shape
<1>12. CASE RestoreLook
  BY <1>t, <1>12, RestoreLooks DEF SamePlan, SameRoles, SameMarks, Real, Parts, Course, Shape
<1>13. CASE Judge
  <2>1. /\ h.pc \in {"judge", "reopen"} /\ h'.pc = "settle" /\ box' = box /\ h'.out = h.out
        /\ h'.cands = h.cands /\ h'.adopted = h.adopted
        /\ h'.preserved => h.live # {} \/ h.retired \cap Running # {}
    BY <1>t, <1>13, Judged DEF SamePlan, SameRoles
  <2>2. SUFFICES ASSUME h'.preserved PROVE Real'
    BY DEF Real
  <2>3. \E s \in h.live \cup h.retired : Stays(s)
    BY <2>1, <2>2 DEF Found, Stays
  <2>4. PICK s \in h.prev \cup h.retired : Stays(s)
    BY <2>1, <2>3 DEF Found
  <2>5. s \in Slots /\ s \notin h.cands
    BY <1>f, <2>4 DEF Shape, Parts
  <2>6. Stays(s)'
    BY <2>1, <2>4 DEF Stays, Quiet
  <2> QED
    BY <2>1, <2>5, <2>6 DEF Real
<1>14. CASE SettleSnapshot
  <2>1. /\ h.pc = "settle" /\ h'.pc = "report" /\ box' = box /\ h'.out = h.out
        /\ h'.cands = h.cands /\ h'.adopted = h.adopted /\ h'.preserved = h.preserved
    BY <1>t, <1>14, Settles DEF SamePlan, SameRoles
  <2> QED
    BY <2>1 DEF Real, Stays, Quiet
<1>15. CASE Plan
  BY <1>t, <1>15, Plans DEF SamePlan, SameRoles, SameMarks, Real, Parts, Course, Shape
<1>16. CASE Readiness
  BY <1>t, <1>16, Readies DEF SamePlan, SameRoles, SameMarks, Real, Parts, Course, Shape
<1>17. CASE EndRetire
  BY <1>t, <1>17, EndRetires DEF SamePlan, SameRoles, SameMarks, Real, Parts, Course, Shape
<1>18. CASE Commit
  BY <1>t, <1>18, Commits DEF SamePlan, SameRoles, SameMarks, Real, Parts, Course, Shape
<1>19. CASE RestartPlan
  BY <1>t, <1>19, RestartPlans DEF SamePlan, SameRoles, SameMarks, Real, Parts, Course, Shape
<1>20. ASSUME NEW s \in Slots, Exits(s) PROVE Real'
  <2>1. h' = h /\ \A t \in Slots : t # s => box'[t] = box[t]
    BY <1>t, <1>20, Exited
  <2>2. \A t \in Slots : Stays(t) => Stays(t)'
    BY <1>t, <1>20, <2>1, Staying
  <2> QED
    BY <2>1, <2>2 DEF Real
<1>21. ASSUME NEW s \in Slots, Sweep(s) PROVE Real'
  BY <1>t, <1>21, Sweeps DEF SamePlan, SameRoles, SameMarks, Real, Parts, Course, Shape
<1>22. ASSUME NEW s \in Slots, Signal(s) PROVE Real'
  BY <1>t, <1>22, Halts DEF Stopping, Halting, OutOnly, SamePlan, SameRoles, SameMarks, Real, Parts, Course, Shape
<1>23. ASSUME NEW s \in Slots, Confirm(s) PROVE Real'
  BY <1>t, <1>23, Halts DEF Stopping, Halting, OutOnly, SamePlan, SameRoles, SameMarks, Real, Parts, Course, Shape
<1>24. ASSUME NEW s \in Slots, HaltThrows(s) PROVE Real'
  BY <1>t, <1>24, Halts DEF Stopping, Halting, OutOnly, SamePlan, SameRoles, SameMarks, Real, Parts, Course, Shape
<1>25. ASSUME NEW s \in Slots, StartCandidate(s) PROVE Real'
  BY <1>t, <1>25, StartsCandidate DEF SamePlan, SameRoles, SameMarks, Real, Parts, Course, Shape
<1>26. ASSUME NEW s \in Slots, SlotThrows(s) PROVE Real'
  BY <1>t, <1>26, SlotThrown DEF SamePlan, SameRoles, SameMarks, Real, Parts, Course, Shape
<1>27. ASSUME NEW s \in Slots, RestoreStart(s) PROVE Real'
  BY <1>t, <1>27, RestoreStarts DEF SamePlan, SameRoles, SameMarks, Real, Parts, Course, Shape
<1>28. ASSUME NEW s \in Slots, RemoveOld(s) PROVE Real'
  BY <1>t, <1>28, RemovesOld DEF SamePlan, SameRoles, SameMarks, Real, Parts, Course, Shape
<1>29. ASSUME NEW s \in Slots, RestartOne(s) PROVE Real'
  BY <1>t, <1>29, RestartsOne DEF SamePlan, SameRoles, SameMarks, Real, Parts, Course, Shape
<1>30. CASE UNCHANGED vars
  BY <1>30 DEF vars, Real, Stays, Quiet
<1> QED
  BY <1>1, <1>2, <1>3, <1>4, <1>5, <1>6, <1>7, <1>8, <1>9, <1>10, <1>11, <1>12, <1>13,
     <1>14, <1>15, <1>16, <1>17, <1>18, <1>19, <1>20, <1>21, <1>22, <1>23, <1>24,
     <1>25, <1>26, <1>27, <1>28, <1>29, <1>30
     DEF Next, StopFirstStep, FailureStep, RolloutStep

LEMMA WholeStep == Shape /\ Outcomes /\ Whole /\ [Next]_vars => Whole'
<1> SUFFICES ASSUME Shape, Outcomes, Whole, [Next]_vars PROVE Whole'
  OBVIOUS
<1> USE DEF disk, control, StopFirstPcs, DeployPcs
<1>t. TypeOK
  BY DEF Shape
<1>i. h.pc = "idle" => h = Idle
  BY DEF Shape, Course
<1>f. h.cands \in SUBSET Slots /\ h.todo \in SUBSET Slots /\ h.prev \in SUBSET Slots
  BY Fields DEF Shape
<1>1. CASE IssueDeploy
  BY <1>t, <1>i, <1>1, AtRest, <1>f DEF IssueDeploy, At, Whole, Due, Parts, Course, Shape
<1>2. CASE IssueRestart
  BY <1>t, <1>i, <1>2, AtRest, <1>f DEF IssueRestart, At, Whole, Due, Parts, Course, Shape
<1>3. CASE Lease
  BY <1>3, Leased DEF Whole
<1>4. CASE GiveUp
  BY <1>t, <1>i, <1>4, AtRest, <1>f DEF GiveUp, At, Whole, Due, Parts, Course, Shape
<1>5. CASE Report
  BY <1>t, <1>i, <1>5, AtRest, <1>f DEF Report, At, Whole, Due, Parts, Course, Shape
<1>6. CASE Crash
  BY <1>t, <1>i, <1>6, AtRest, <1>f DEF Crash, At, Whole, Due, Parts, Course, Shape
<1>7. CASE EndReset
  BY <1>t, <1>7, EndResets, <1>f DEF SamePlan, SameRoles, SameMarks, Whole, Due, Parts, Course, Shape
<1>8. CASE EndHalt
  BY <1>t, <1>8, EndHalts, <1>f DEF SamePlan, SameRoles, SameMarks, Whole, Due, Parts, Course, Shape
<1>9. CASE TakeSnapshot
  BY <1>t, <1>9, TakesSnapshot, <1>f DEF SamePlan, SameRoles, SameMarks, Whole, Due, Parts, Course, Shape
<1>10. CASE EndDiscard
  BY <1>t, <1>10, EndDiscards, <1>f DEF SamePlan, SameRoles, SameMarks, Whole, Due, Parts, Course, Shape
<1>11. CASE RestoreVolume
  BY <1>t, <1>11, RestoresVolume, <1>f DEF SamePlan, SameRoles, SameMarks, Whole, Due, Parts, Course, Shape
<1>12. CASE RestoreLook
  <2>1. /\ h.pc = "restore" /\ h'.out = h.out /\ h'.prev = h.prev /\ h'.restored = h.restored
        /\ work' = work
        /\ \/ /\ h'.pc = "reopen" /\ box' = BackOn(Tried) /\ h'.completed = (Tried \subseteq Present)
              /\ h'.todo = (Tried \cap Present) \ Running
           \/ h'.pc = "judge" /\ h'.completed = h.completed
    BY <1>t, <1>12, RestoreLooks DEF SamePlan
  <2>2. ~h.completed
    BY <2>1 DEF Whole
  <2>3. SUFFICES ASSUME h'.pc = "reopen", h'.completed, h'.restored, NEW s \in h.prev, Due(s)
        PROVE  box'[s] = Started \/ s \in h'.todo
    BY <2>1, <2>2 DEF Whole, Due
  <2>4. Over(s)
    BY <2>1, <2>3 DEF Outcomes, Shape, Course
  <2>5. s \in Tried
    BY <2>3, <2>4 DEF Over, Due, Tried, Seen, LeftAlone
  <2>6. s \in Present
    BY <2>1, <2>3, <2>5
  <2> QED
    BY <1>f, <2>1, <2>3, <2>5, <2>6 DEF BackOn
<1>13. CASE Judge
  <2>1. /\ h.pc = "judge" \/ (h.pc = "reopen" /\ h.todo = {})
        /\ h'.pc = "settle" /\ box' = box /\ work' = work /\ h'.out = h.out /\ h'.prev = h.prev
        /\ h'.completed => h.completed /\ h.restored
    BY <1>t, <1>13, Judged DEF SamePlan
  <2> QED
    BY <2>1 DEF Whole, Due
<1>14. CASE SettleSnapshot
  BY <1>t, <1>14, Settles, <1>f DEF SamePlan, SameRoles, SameMarks, Whole, Due, Parts, Course, Shape
<1>15. CASE Plan
  BY <1>t, <1>15, Plans, <1>f DEF SamePlan, SameRoles, SameMarks, Whole, Due, Parts, Course, Shape
<1>16. CASE Readiness
  BY <1>t, <1>16, Readies, <1>f DEF SamePlan, SameRoles, SameMarks, Whole, Due, Parts, Course, Shape
<1>17. CASE EndRetire
  BY <1>t, <1>17, EndRetires, <1>f DEF SamePlan, SameRoles, SameMarks, Whole, Due, Parts, Course, Shape
<1>18. CASE Commit
  BY <1>t, <1>18, Commits, <1>f DEF SamePlan, SameRoles, SameMarks, Whole, Due, Parts, Course, Shape
<1>19. CASE RestartPlan
  BY <1>t, <1>19, RestartPlans, <1>f DEF SamePlan, SameRoles, SameMarks, Whole, Due, Parts, Course, Shape
<1>20. ASSUME NEW s \in Slots, Exits(s) PROVE Whole'
  BY <1>t, <1>f, <1>20, Exited DEF Whole, Due
<1>21. ASSUME NEW s \in Slots, Sweep(s) PROVE Whole'
  BY <1>t, <1>21, Sweeps, <1>f DEF SamePlan, SameRoles, SameMarks, Whole, Due, Parts, Course, Shape
<1>22. ASSUME NEW s \in Slots, Signal(s) PROVE Whole'
  BY <1>t, <1>22, Halts, <1>f DEF Stopping, Halting, OutOnly, SamePlan, SameRoles, SameMarks, Whole, Due, Parts, Course, Shape
<1>23. ASSUME NEW s \in Slots, Confirm(s) PROVE Whole'
  BY <1>t, <1>23, Halts, <1>f DEF Stopping, Halting, OutOnly, SamePlan, SameRoles, SameMarks, Whole, Due, Parts, Course, Shape
<1>24. ASSUME NEW s \in Slots, HaltThrows(s) PROVE Whole'
  BY <1>t, <1>24, Halts, <1>f DEF Stopping, Halting, OutOnly, SamePlan, SameRoles, SameMarks, Whole, Due, Parts, Course, Shape
<1>25. ASSUME NEW s \in Slots, StartCandidate(s) PROVE Whole'
  BY <1>t, <1>25, StartsCandidate, <1>f DEF SamePlan, SameRoles, SameMarks, Whole, Due, Parts, Course, Shape
<1>26. ASSUME NEW s \in Slots, SlotThrows(s) PROVE Whole'
  BY <1>t, <1>26, SlotThrown, <1>f DEF SamePlan, SameRoles, SameMarks, Whole, Due, Parts, Course, Shape
<1>27. ASSUME NEW s \in Slots, RestoreStart(s) PROVE Whole'
  <2>1. /\ h.pc = "reopen" /\ h'.out = h.out /\ h'.prev = h.prev /\ h'.restored = h.restored
        /\ work' = work
        /\ \/ /\ h'.pc = "reopen" /\ h'.completed = h.completed /\ h'.todo = h.todo \ {s}
              /\ box' = [box EXCEPT ![s] = Started]
           \/ h'.pc = "judge" /\ ~h'.completed
    BY <1>t, <1>27, RestoreStarts DEF SamePlan
  <2>2. h'.pc = "reopen" => \A t \in Slots : box'[t] = IF t = s THEN Started ELSE box[t]
    BY <1>t, <2>1 DEF TypeOK
  <2>3. SUFFICES ASSUME h'.pc = "reopen", h'.completed, h'.restored, NEW t \in h.prev, Due(t)
        PROVE  box'[t] = Started \/ t \in h'.todo
    BY <2>1 DEF Whole, Due
  <2> QED
    BY <1>f, <2>1, <2>2, <2>3 DEF Whole
<1>28. ASSUME NEW s \in Slots, RemoveOld(s) PROVE Whole'
  BY <1>t, <1>28, RemovesOld, <1>f DEF SamePlan, SameRoles, SameMarks, Whole, Due, Parts, Course, Shape
<1>29. ASSUME NEW s \in Slots, RestartOne(s) PROVE Whole'
  BY <1>t, <1>29, RestartsOne, <1>f DEF SamePlan, SameRoles, SameMarks, Whole, Due, Parts, Course, Shape
<1>30. CASE UNCHANGED vars
  BY <1>30 DEF vars, Whole, Due, Parts, Course, Shape
<1> QED
  BY <1>1, <1>2, <1>3, <1>4, <1>5, <1>6, <1>7, <1>8, <1>9, <1>10, <1>11, <1>12, <1>13,
     <1>14, <1>15, <1>16, <1>17, <1>18, <1>19, <1>20, <1>21, <1>22, <1>23, <1>24,
     <1>25, <1>26, <1>27, <1>28, <1>29, <1>30
     DEF Next, StopFirstStep, FailureStep, RolloutStep

----------------------------------------------------------------------------
(* The volume.                                                              *)

(* Once put back the volume is as a live version left it, unless what was    *)
(* put back was not.                                                         *)
PutBack ==
    (h.snapshot /\ h.restored /\ h.pc \in {"restore", "reopen", "judge", "settle"})
       => volume = "clean" \/ snap[work.version] = "dirty"

Guarded == PutBack /\ RestorePointKept

LEMMA Ages ==
    ASSUME TypeOK, NEW v \in Versions
    PROVE  /\ snap[v] \in {"fresh", "stale"} => Stale(snap)[v] \in {"fresh", "stale"}
           /\ snap[v] = "dirty" => Stale(snap)[v] = "dirty"
BY DEF TypeOK, Stale

LEMMA GuardedStep == Shape /\ Guarded /\ [Next]_vars => Guarded'
<1> SUFFICES ASSUME Shape, Guarded, [Next]_vars PROVE Guarded'
  OBVIOUS
<1> USE DEF disk, control, StopFirstPcs, DeployPcs
<1>t. TypeOK
  BY DEF Shape
<1>i. h.pc = "idle" => h = Idle
  BY DEF Shape, Course
<1>f. /\ work.version \in Versions /\ volume \in Volume /\ snap \in [Versions -> Snapshot]
      /\ kept \in BOOLEAN
  BY <1>t DEF TypeOK, Work
<1>1. CASE IssueDeploy
  BY <1>t, <1>i, <1>1, AtRest, <1>f DEF IssueDeploy, At, Guarded, PutBack, RestorePointKept, Parts, Course, Shape
<1>2. CASE IssueRestart
  BY <1>t, <1>i, <1>2, AtRest, <1>f DEF IssueRestart, At, Guarded, PutBack, RestorePointKept, Parts, Course, Shape
<1>3. CASE Lease
  BY <1>3, Leased DEF Guarded, PutBack, RestorePointKept
<1>4. CASE GiveUp
  BY <1>t, <1>i, <1>4, AtRest, <1>f DEF GiveUp, At, Guarded, PutBack, RestorePointKept, Parts, Course, Shape
<1>5. CASE Report
  BY <1>t, <1>i, <1>5, AtRest, <1>f DEF Report, At, Guarded, PutBack, RestorePointKept, Parts, Course, Shape
<1>6. CASE Crash
  BY <1>t, <1>i, <1>6, AtRest, <1>f DEF Crash, At, Guarded, PutBack, RestorePointKept, Parts, Course, Shape
<1>7. CASE EndReset
  BY <1>t, <1>7, EndResets, <1>f DEF SamePlan, SameRoles, SameMarks, Guarded, PutBack, RestorePointKept, Parts, Course, Shape
<1>8. CASE EndHalt
  BY <1>t, <1>8, EndHalts, <1>f DEF SamePlan, SameRoles, SameMarks, Guarded, PutBack, RestorePointKept, Parts, Course, Shape
<1>9. CASE TakeSnapshot
  <2>1. /\ h.pc = "snapshot" /\ h'.pc \in {"restore", "slots"} /\ volume' = volume /\ kept' = kept
        /\ work' = work /\ h'.restored = h.restored
        /\ \/ snap' = snap
           \/ /\ snap[work.version] = "none"
              /\ \E x \in {"fresh", "dirty"} : snap' = [snap EXCEPT ![work.version] = x]
    BY <1>t, <1>9, TakesSnapshot
  <2>2. ~h.restored
    BY <2>1 DEF Shape, Course
  <2>3. \A v \in Versions : snap[v] \in {"fresh", "stale"} => snap'[v] \in {"fresh", "stale"}
    BY <1>f, <2>1
  <2> QED
    BY <2>1, <2>2, <2>3 DEF Guarded, PutBack, RestorePointKept
<1>10. CASE EndDiscard
  BY <1>t, <1>10, EndDiscards, <1>f DEF SamePlan, SameRoles, SameMarks, Guarded, PutBack, RestorePointKept, Parts, Course, Shape
<1>11. CASE RestoreVolume
  BY <1>t, <1>11, RestoresVolume, <1>f DEF SamePlan, SameRoles, SameMarks, Guarded, PutBack, RestorePointKept, Parts, Course, Shape
<1>12. CASE RestoreLook
  BY <1>t, <1>12, RestoreLooks, <1>f DEF SamePlan, SameRoles, SameMarks, Guarded, PutBack, RestorePointKept, Parts, Course, Shape
<1>13. CASE Judge
  BY <1>t, <1>13, Judged, <1>f DEF SamePlan, SameRoles, SameMarks, Guarded, PutBack, RestorePointKept, Parts, Course, Shape
<1>14. CASE SettleSnapshot
  <2>1. /\ h.pc = "settle" /\ h'.pc = "report" /\ volume' = volume
        /\ UNCHANGED <<snap, kept>> \/ (h.snapshot /\ DropOrKeep)
    BY <1>t, <1>14, Settles
  <2>2. CASE UNCHANGED <<snap, kept>>
    BY <2>1, <2>2 DEF Guarded, PutBack, RestorePointKept
  <2>3. CASE h.snapshot /\ DropOrKeep
    <3>1. /\ kept' = (kept \/ (~h.restored /\ snap[work.version] # "dirty"))
          /\ \A v \in Versions : v # work.version => snap'[v] = snap[v]
      BY <1>f, <2>3 DEF DropOrKeep
    <3>2. ~h.restored => kept' \/ snap[work.version] = "dirty"
      BY <1>f, <3>1
    <3>3. volume = "touched" => kept' \/ snap[work.version] = "dirty"
      BY <2>1, <2>3, <3>2 DEF Guarded, PutBack
    <3>4. kept => kept'
      BY <1>f, <3>1
    <3>5. volume = "touched" => kept' \/ \E v \in Versions : snap'[v] \in {"fresh", "stale"}
      BY <3>1, <3>3, <3>4 DEF Guarded, RestorePointKept
    <3> QED
      BY <2>1, <3>5 DEF Guarded, PutBack, RestorePointKept
  <2> QED
    BY <2>1, <2>2, <2>3
<1>15. CASE Plan
  BY <1>t, <1>15, Plans, <1>f DEF SamePlan, SameRoles, SameMarks, Guarded, PutBack, RestorePointKept, Parts, Course, Shape
<1>16. CASE Readiness
  BY <1>t, <1>16, Readies, <1>f DEF SamePlan, SameRoles, SameMarks, Guarded, PutBack, RestorePointKept, Parts, Course, Shape
<1>17. CASE EndRetire
  BY <1>t, <1>17, EndRetires, <1>f DEF SamePlan, SameRoles, SameMarks, Guarded, PutBack, RestorePointKept, Parts, Course, Shape
<1>18. CASE Commit
  <2>1. h.pc = "remove" /\ h'.pc = "report" /\ volume' # "touched"
    BY <1>t, <1>f, <1>18, Commits DEF HasVolume, Volume, Guarded
  <2> QED
    BY <2>1 DEF Guarded, PutBack, RestorePointKept
<1>19. CASE RestartPlan
  BY <1>t, <1>19, RestartPlans, <1>f DEF SamePlan, SameRoles, SameMarks, Guarded, PutBack, RestorePointKept, Parts, Course, Shape
<1>20. ASSUME NEW s \in Slots, Exits(s) PROVE Guarded'
  BY <1>t, <1>20, Exited DEF Guarded, PutBack, RestorePointKept
<1>21. ASSUME NEW s \in Slots, Sweep(s) PROVE Guarded'
  BY <1>t, <1>21, Sweeps, <1>f DEF SamePlan, SameRoles, SameMarks, Guarded, PutBack, RestorePointKept, Parts, Course, Shape
<1>22. ASSUME NEW s \in Slots, Signal(s) PROVE Guarded'
  BY <1>t, <1>22, Halts, <1>f DEF Stopping, Halting, OutOnly, SamePlan, SameRoles, SameMarks, Guarded, PutBack, RestorePointKept, Parts, Course, Shape
<1>23. ASSUME NEW s \in Slots, Confirm(s) PROVE Guarded'
  BY <1>t, <1>23, Halts, <1>f DEF Stopping, Halting, OutOnly, SamePlan, SameRoles, SameMarks, Guarded, PutBack, RestorePointKept, Parts, Course, Shape
<1>24. ASSUME NEW s \in Slots, HaltThrows(s) PROVE Guarded'
  BY <1>t, <1>24, Halts, <1>f DEF Stopping, Halting, OutOnly, SamePlan, SameRoles, SameMarks, Guarded, PutBack, RestorePointKept, Parts, Course, Shape
<1>25. ASSUME NEW s \in Slots, StartCandidate(s) PROVE Guarded'
  <2>1. /\ h.pc = "slots" /\ h'.pc = "slots" /\ snap' = snap /\ kept' = kept
        /\ volume' = Touched(volume)
    BY <1>t, <1>25, StartsCandidate
  <2>2. volume' = "touched" => volume = "touched" \/ snap[work.version] = "fresh"
    BY <2>1 DEF Touched
  <2> QED
    BY <1>f, <2>1, <2>2 DEF Guarded, PutBack, RestorePointKept
<1>26. ASSUME NEW s \in Slots, SlotThrows(s) PROVE Guarded'
  BY <1>t, <1>26, SlotThrown, <1>f DEF SamePlan, SameRoles, SameMarks, Guarded, PutBack, RestorePointKept, Parts, Course, Shape
<1>27. ASSUME NEW s \in Slots, RestoreStart(s) PROVE Guarded'
  <2>1. /\ h.pc = "reopen" /\ volume' = volume /\ kept' = kept /\ work' = work
        /\ h'.snapshot = h.snapshot /\ h'.restored = h.restored
        /\ snap' = Stale(snap) \/ snap' = snap
    BY <1>t, <1>27, RestoreStarts
  <2> QED
    BY <1>t, <1>f, <2>1, Ages DEF Guarded, PutBack, RestorePointKept
<1>28. ASSUME NEW s \in Slots, RemoveOld(s) PROVE Guarded'
  BY <1>t, <1>28, RemovesOld, <1>f DEF SamePlan, SameRoles, SameMarks, Guarded, PutBack, RestorePointKept, Parts, Course, Shape
<1>29. ASSUME NEW s \in Slots, RestartOne(s) PROVE Guarded'
  <2>1. /\ h.pc = "restart" /\ h'.pc \in {"restart", "report"} /\ volume' = volume /\ kept' = kept
        /\ snap' = Stale(snap) \/ snap' = snap
    BY <1>t, <1>29, RestartsOne
  <2> QED
    BY <1>t, <1>f, <2>1, Ages DEF Guarded, PutBack, RestorePointKept
<1>30. CASE UNCHANGED vars
  BY <1>30 DEF vars, Guarded, PutBack, RestorePointKept, Parts, Course, Shape
<1> QED
  BY <1>1, <1>2, <1>3, <1>4, <1>5, <1>6, <1>7, <1>8, <1>9, <1>10, <1>11, <1>12, <1>13,
     <1>14, <1>15, <1>16, <1>17, <1>18, <1>19, <1>20, <1>21, <1>22, <1>23, <1>24,
     <1>25, <1>26, <1>27, <1>28, <1>29, <1>30
     DEF Next, StopFirstStep, FailureStep, RolloutStep

----------------------------------------------------------------------------
(* No overlap.                                                              *)

(* What the control plane records of a runtime is of one version.           *)
OneVersion(S) == \A s, t \in S : VersionOf(s) = VersionOf(t)
Versioned == OneVersion(recorded) /\ OneVersion(earlier) /\ OneVersion(work.meta)

(* A stop-first attempt knows whatever runs, and where overlap is forbidden *)
(* nothing but the version to start, or to restart, runs when it starts.    *)
Alone ==
    /\ h.pc \in {"reset", "halt", "snapshot"} => Running \subseteq h.cands \cup h.prev
    /\ h.pc = "snapshot" => h.prev \cap Running = {}
    /\ (h.pc = "slots" /\ h.cands # {} /\ (work.noOverlap \/ HasVolume))
         => \A s \in Running : VersionOf(s) = work.version
    /\ (h.pc = "restart" /\ (work.noOverlap \/ HasVolume)) => Running \subseteq work.meta

Separate == Versioned /\ Alone

LEMMA VersionedStep == Shape /\ Versioned /\ [Next]_vars => Versioned'
<1> SUFFICES ASSUME Shape, Versioned, [Next]_vars PROVE Versioned'
  OBVIOUS
<1> USE DEF disk, control
<1>t. TypeOK
  BY DEF Shape
<1>1. CASE IssueDeploy
  <2>1. recorded' = recorded /\ earlier' = earlier /\ work'.meta = recorded
    BY <1>1 DEF IssueDeploy
  <2> QED
    BY <2>1 DEF Versioned, OneVersion
<1>2. CASE IssueRestart
  <2>1. recorded' = recorded /\ earlier' = earlier /\ work'.meta \in {recorded, earlier}
    BY <1>2 DEF IssueRestart, NoWork
  <2> QED
    BY <2>1 DEF Versioned, OneVersion
<1>3. CASE GiveUp
  <2>1. recorded' = recorded /\ earlier' = earlier /\ work'.meta = {}
    BY <1>3 DEF GiveUp, NoWork
  <2> QED
    BY <2>1 DEF Versioned, OneVersion
<1>4. CASE Report
  <2>1. OneVersion(h.cands)
    BY DEF OneVersion, Shape, Parts
  <2>2. work' = work \/ work'.meta = {}
    BY <1>4 DEF Report, NoWork
  <2>3. /\ recorded' = h.cands \/ recorded' = recorded
        /\ earlier' = recorded \/ earlier' = earlier
    BY <1>4 DEF Report
  <2> QED
    BY <2>1, <2>2, <2>3 DEF Versioned, OneVersion
<1>5. CASE UNCHANGED <<recorded, earlier, work>>
  BY <1>5 DEF Versioned, OneVersion
<1>6. UNCHANGED <<recorded, earlier, work>> \/ IssueDeploy \/ IssueRestart \/ GiveUp \/ Report
  <2>1. CASE UNCHANGED vars
    BY <2>1 DEF vars
  <2>2. CASE Lease \/ Crash \/ RestartPlan \/ StopFirstStep
    BY <2>2 DEF Lease, Crash, RestartPlan, StopFirstStep, EndReset, EndHalt, TakeSnapshot
  <2>3. CASE FailureStep
    BY <2>3 DEF FailureStep, EndDiscard, RestoreVolume, RestoreLook, Judge, SettleSnapshot
  <2>4. CASE RolloutStep
    BY <2>4 DEF RolloutStep, Plan, Readiness, EndRetire, Commit
  <2>5. ASSUME NEW s \in Slots,
               \/ Exits(s) \/ Sweep(s) \/ Signal(s) \/ Confirm(s) \/ HaltThrows(s)
               \/ StartCandidate(s) \/ SlotThrows(s)
               \/ RestoreStart(s) \/ RemoveOld(s) \/ RestartOne(s)
        PROVE  UNCHANGED <<recorded, earlier, work>>
    BY <2>5 DEF Exits, Sweep, Signal, Confirm, HaltThrows, StartCandidate, SlotThrows,
                RestoreStart, RemoveOld, RestartOne
  <2> QED
    BY <2>1, <2>2, <2>3, <2>4, <2>5 DEF Next
<1> QED
  BY <1>1, <1>2, <1>3, <1>4, <1>5, <1>6

LEMMA AloneStep == Shape /\ Alone /\ [Next]_vars => Alone'
<1> SUFFICES ASSUME Shape, Alone, [Next]_vars PROVE Alone'
  OBVIOUS
<1> USE DEF disk, control, StopFirstPcs, DeployPcs
<1>t. TypeOK
  BY DEF Shape
<1>i. h.pc = "idle" => h = Idle
  BY DEF Shape, Course
<1>f. h.cands \in SUBSET Slots /\ h.todo \in SUBSET Slots /\ h.prev \in SUBSET Slots
  BY Fields DEF Shape
<1>1. CASE IssueDeploy
  BY <1>t, <1>i, <1>1, AtRest, <1>f DEF IssueDeploy, At, Alone, Running, HasVolume, Parts, Course, Shape
<1>2. CASE IssueRestart
  BY <1>t, <1>i, <1>2, AtRest, <1>f DEF IssueRestart, At, Alone, Running, HasVolume, Parts, Course, Shape
<1>3. CASE Lease
  BY <1>3, Leased DEF Alone
<1>4. CASE GiveUp
  BY <1>t, <1>i, <1>4, AtRest, <1>f DEF GiveUp, At, Alone, Running, HasVolume, Parts, Course, Shape
<1>5. CASE Report
  BY <1>t, <1>i, <1>5, AtRest, <1>f DEF Report, At, Alone, Running, HasVolume, Parts, Course, Shape
<1>6. CASE Crash
  BY <1>t, <1>i, <1>6, AtRest, <1>f DEF Crash, At, Alone, Running, HasVolume, Parts, Course, Shape
<1>7. CASE EndReset
  <2>1. /\ h.pc = "reset" /\ h'.pc \in {"restore", "halt"} /\ h'.cands = h.cands /\ h'.prev = h.prev
        /\ \A s \in Slots : box'[s] = box[s] \/ box'[s] = Absent
    BY <1>t, <1>7, EndResets DEF SamePlan
  <2>2. Running' \subseteq Running
    BY <2>1 DEF Running, Absent
  <2> QED
    BY <2>1, <2>2 DEF Alone
<1>8. CASE EndHalt
  <2>1. /\ h.pc = "halt" /\ box' = box /\ h'.cands = h.cands /\ h'.prev = h.prev /\ work' = work
        /\ h'.pc \in {"restore", "snapshot", "slots"}
        /\ h'.pc # "restore" => h.prev \cap Running = {}
    BY <1>t, <1>8, EndHalts DEF SamePlan
  <2>2. h'.pc # "restore" => \A s \in Running : s \in h.cands /\ VersionOf(s) = work.version
    BY <2>1 DEF Alone, Shape, Parts
  <2>3. Running' = Running
    BY <2>1 DEF Running
  <2> QED
    BY <2>1, <2>2, <2>3 DEF Alone
<1>9. CASE TakeSnapshot
  <2>1. /\ h.pc = "snapshot" /\ h'.pc \in {"restore", "slots"} /\ box' = box /\ work' = work
    BY <1>t, <1>9, TakesSnapshot
  <2>2. \A s \in Running : VersionOf(s) = work.version
    BY <2>1 DEF Alone, Shape, Parts
  <2>3. Running' = Running
    BY <2>1 DEF Running
  <2> QED
    BY <2>1, <2>2, <2>3 DEF Alone
<1>10. CASE EndDiscard
  BY <1>t, <1>10, EndDiscards, <1>f DEF SamePlan, SameRoles, SameMarks, Alone, Running, HasVolume, Parts, Course, Shape
<1>11. CASE RestoreVolume
  BY <1>t, <1>11, RestoresVolume, <1>f DEF SamePlan, SameRoles, SameMarks, Alone, Running, HasVolume, Parts, Course, Shape
<1>12. CASE RestoreLook
  BY <1>t, <1>12, RestoreLooks, <1>f DEF SamePlan, SameRoles, SameMarks, Alone, Running, HasVolume, Parts, Course, Shape
<1>13. CASE Judge
  BY <1>t, <1>13, Judged, <1>f DEF SamePlan, SameRoles, SameMarks, Alone, Running, HasVolume, Parts, Course, Shape
<1>14. CASE SettleSnapshot
  BY <1>t, <1>14, Settles, <1>f DEF SamePlan, SameRoles, SameMarks, Alone, Running, HasVolume, Parts, Course, Shape
<1>15. CASE Plan
  <2>1. /\ box' = box /\ work' = work /\ volume' = volume /\ h'.cands = h.cands
        /\ \/ h'.pc = "reset" /\ h'.prev = Present \ h.cands
           \/ h'.pc = "slots" /\ ~StopFirst(Present \ h.cands)
    BY <1>t, <1>15, Plans DEF SamePlan
  <2>2. Running' = Running /\ Running \subseteq Present
    BY <2>1 DEF Running, Present
  <2>3. ASSUME h.cands # {}, work.noOverlap \/ HasVolume, ~StopFirst(Present \ h.cands),
               NEW s \in Running
        PROVE  VersionOf(s) = work.version
    BY <2>2, <2>3 DEF StopFirst, Live, Shape, Parts
  <2> QED
    BY <2>1, <2>2, <2>3 DEF Alone, HasVolume
<1>16. CASE Readiness
  BY <1>t, <1>16, Readies, <1>f DEF SamePlan, SameRoles, SameMarks, Alone, Running, HasVolume, Parts, Course, Shape
<1>17. CASE EndRetire
  BY <1>t, <1>17, EndRetires, <1>f DEF SamePlan, SameRoles, SameMarks, Alone, Running, HasVolume, Parts, Course, Shape
<1>18. CASE Commit
  BY <1>t, <1>18, Commits, <1>f DEF SamePlan, SameRoles, SameMarks, Alone, Running, HasVolume, Parts, Course, Shape
<1>19. CASE RestartPlan
  <2>1. /\ h'.pc \in {"report", "restart"} /\ box' = box /\ work' = work /\ volume' = volume
        /\ h'.pc = "restart" => (work.noOverlap \/ HasVolume => Running \subseteq work.meta)
    BY <1>t, <1>19, RestartPlans
  <2> QED
    BY <2>1 DEF Alone, HasVolume, Running
<1>20. ASSUME NEW s \in Slots, Exits(s) PROVE Alone'
  BY <1>t, <1>20, Exited DEF Alone, Running, HasVolume
<1>21. ASSUME NEW s \in Slots, Sweep(s) PROVE Alone'
  BY <1>t, <1>21, Sweeps, <1>f DEF SamePlan, SameRoles, SameMarks, Alone, Running, HasVolume, Parts, Course, Shape
<1>22. ASSUME NEW s \in Slots, Signal(s) PROVE Alone'
  BY <1>t, <1>22, Halts, <1>f DEF Stopping, Halting, OutOnly, SamePlan, SameRoles, SameMarks, Alone, Running, HasVolume, Parts, Course, Shape
<1>23. ASSUME NEW s \in Slots, Confirm(s) PROVE Alone'
  BY <1>t, <1>23, Halts, <1>f DEF Stopping, Halting, OutOnly, SamePlan, SameRoles, SameMarks, Alone, Running, HasVolume, Parts, Course, Shape
<1>24. ASSUME NEW s \in Slots, HaltThrows(s) PROVE Alone'
  BY <1>t, <1>24, Halts, <1>f DEF Stopping, Halting, OutOnly, SamePlan, SameRoles, SameMarks, Alone, Running, HasVolume, Parts, Course, Shape
<1>25. ASSUME NEW s \in Slots, StartCandidate(s) PROVE Alone'
  <2>1. /\ h.pc = "slots" /\ h'.pc = "slots" /\ s \in h.cands /\ work' = work
        /\ h'.cands = h.cands /\ box' = [box EXCEPT ![s] = Started]
        /\ HasVolume' = HasVolume
    BY <1>t, <1>25, StartsCandidate DEF SamePlan, Shape, Parts, Touched, HasVolume
  <2>2. Running' \subseteq Running \cup {s}
    BY <1>t, <2>1 DEF Running, TypeOK
  <2>3. VersionOf(s) = work.version
    BY <2>1 DEF Shape, Parts
  <2> QED
    BY <2>1, <2>2, <2>3 DEF Alone
<1>26. ASSUME NEW s \in Slots, SlotThrows(s) PROVE Alone'
  <2>1. h'.pc = "discard"
    BY <1>t, <1>26, SlotThrown
  <2> QED
    BY <2>1 DEF Alone
<1>27. ASSUME NEW s \in Slots, RestoreStart(s) PROVE Alone'
  BY <1>t, <1>27, RestoreStarts, <1>f DEF SamePlan, SameRoles, SameMarks, Alone, Running, HasVolume, Parts, Course, Shape
<1>28. ASSUME NEW s \in Slots, RemoveOld(s) PROVE Alone'
  BY <1>t, <1>28, RemovesOld, <1>f DEF SamePlan, SameRoles, SameMarks, Alone, Running, HasVolume, Parts, Course, Shape
<1>29. ASSUME NEW s \in Slots, RestartOne(s) PROVE Alone'
  <2>1. /\ h.pc = "restart" /\ h'.pc \in {"restart", "report"} /\ s \in work.meta
        /\ work' = work /\ volume' = volume
        /\ box' = [box EXCEPT ![s] = Started] \/ box' = box
    BY <1>t, <1>29, RestartsOne DEF Shape, Parts
  <2>2. Running' \subseteq Running \cup {s}
    BY <1>t, <2>1 DEF Running, TypeOK
  <2> QED
    BY <2>1, <2>2 DEF Alone, HasVolume
<1>30. CASE UNCHANGED vars
  BY <1>30 DEF vars, Alone, Running, HasVolume, Parts, Course, Shape
<1> QED
  BY <1>1, <1>2, <1>3, <1>4, <1>5, <1>6, <1>7, <1>8, <1>9, <1>10, <1>11, <1>12, <1>13,
     <1>14, <1>15, <1>16, <1>17, <1>18, <1>19, <1>20, <1>21, <1>22, <1>23, <1>24,
     <1>25, <1>26, <1>27, <1>28, <1>29, <1>30
     DEF Next, StopFirstStep, FailureStep, RolloutStep

LEMMA Begins ==
    Init => Shape /\ Ready /\ LiveKept /\ Undoing /\ Guarded /\ Separate
<1> SUFFICES ASSUME Init
    PROVE  Shape /\ Ready /\ LiveKept /\ Undoing /\ Guarded /\ Separate
  OBVIOUS
<1>1. h = Idle /\ work = NoWork /\ recorded = {} /\ earlier = {} /\ volume \in {"none", "clean"}
  BY DEF Init
<1>2. work.meta = {} /\ work.kind = "none"
  BY <1>1 DEF NoWork
<1>3. Shape
  BY <1>1, <1>2, AtRest, TypeInit DEF Shape, Course, Parts, StopFirstPcs, DeployPcs
<1>4. Ready /\ LiveKept
  BY <1>1, AtRest DEF Ready, LiveKept, Spared, FailureLeavesLive
<1>5. Undoing
  BY <1>1, AtRest DEF Undoing, Outcomes, Untried, Found, Real, Whole
<1>6. Guarded
  BY <1>1, AtRest DEF Guarded, PutBack, RestorePointKept
<1>7. Separate
  BY <1>1, <1>2, AtRest DEF Separate, Versioned, OneVersion, Alone
<1> QED
  BY <1>3, <1>4, <1>5, <1>6, <1>7

(* All of it together.                                                       *)
Invariant == Shape /\ Ready /\ LiveKept /\ Undoing /\ Guarded /\ Separate

LEMMA Continues == Invariant /\ [Next]_vars => Invariant'
BY ShapeStep, ReadyStep, LiveStep, OutcomesStep, UntriedStep, FoundStep, RealStep, WholeStep,
   GuardedStep, VersionedStep, AloneStep DEF Invariant, Undoing, Separate

(* The invariant of the rollout and the restart: course, parts, readiness,  *)
(* what is spared, undone, guarded and kept apart.                          *)
THEOREM InvariantHolds == Spec => []Invariant
<1>1. Init => Invariant
  BY Begins DEF Invariant
<1> QED
  BY <1>1, Continues, PTL DEF Spec

(* CommittedRuns: when a deploy ends committed, every candidate, adopted ones *)
(* included, runs and comes back after a reboot.                            *)
THEOREM CommittedRun == Spec => []CommittedRuns
<1>1. Invariant => CommittedRuns
  BY DEF Invariant, Shape, Ready, CommittedRuns
<1> QED
  BY <1>1, InvariantHolds, PTL

(* FailureLeavesLive: what was live when a candidate-first deploy began runs *)
(* on after it failed: discardFailedCandidates spares it.                   *)
THEOREM LiveLeft == Spec => []FailureLeavesLive
<1>1. Invariant => FailureLeavesLive
  BY DEF Invariant, LiveKept
<1> QED
  BY <1>1, InvariantHolds, PTL

(* PreservedIsReal: a failed deploy reports liveRuntimePreserved only with a *)
(* replica left that is no discarded candidate, and that runs or was to be  *)
(* left to end by itself, whatever dies while it is rolled back.            *)
THEOREM PreservedReal == Spec => []PreservedIsReal
<1>1. Invariant => PreservedIsReal
  <2> SUFFICES ASSUME Invariant, h.preserved
      PROVE  \E s \in Present \ (h.cands \ h.adopted) :
               s \in Running \/ (~box[s].auto /\ h.out[s] = "none")
    BY DEF PreservedIsReal
  <2>1. PICK s \in Slots : s \notin h.cands \ h.adopted /\ Stays(s)
    BY DEF Invariant, Undoing, Real
  <2> QED
    BY <2>1 DEF Stays, Quiet, Started, Running, Present
<1> QED
  BY <1>1, InvariantHolds, PTL

(* RollbackIsWhole: a failed deploy reports rollbackCompleted only when all *)
(* this attempt stopped, and all that was live, runs again or for good.     *)
THEOREM RollbackWhole == Spec => []RollbackIsWhole
<1>1. Invariant => RollbackIsWhole
  BY DEF Invariant, Undoing, Whole, Due, RollbackIsWhole, Shape, Course
<1> QED
  BY <1>1, InvariantHolds, PTL

(* RestorePointKept: while the volume holds what a version that is not live *)
(* wrote, and not over a leftover of its own slot, what a live version left *)
(* is in some slot, or was moved out of it to be kept.                      *)
THEOREM RestorePoint == Spec => []RestorePointKept
<1>1. Invariant => RestorePointKept
  BY DEF Invariant, Guarded
<1> QED
  BY <1>1, InvariantHolds, PTL

(* NoOverlap: no step of a deploy or a restart starts a replica beside one  *)
(* of another version where the update mode, or a volume, forbids it.       *)
THEOREM NoOverlapping == Spec => NoOverlap
<1> DEFINE Starts(s) ==
      /\ work.noOverlap \/ HasVolume
      /\ s \notin Running /\ box'[s].run = "running"
      /\ h.pc \in {"slots", "restart"}
<1>1. ASSUME Invariant, [Next]_vars, NEW s \in Slots, Starts(s) PROVE ~RunsBeside(s)
  <2> USE DEF disk, control
  <2>t. TypeOK
    BY <1>1 DEF Invariant, Shape
  <2>0. box[s].run # "running"
    BY <1>1 DEF Running
  <2>1. ASSUME NEW t \in Slots, StartCandidate(t) PROVE ~RunsBeside(s)
    <3>1. box' = [box EXCEPT ![t] = Started] /\ h.pc = "slots" /\ t \in h.todo
      BY <2>t, <2>1, StartsCandidate
    <3>2. t = s
      BY <1>1, <2>0, <2>t, <3>1 DEF TypeOK
    <3>3. s \in h.cands /\ VersionOf(s) = work.version
      BY <1>1, <3>1, <3>2 DEF Invariant, Shape, Parts
    <3> QED
      BY <1>1, <3>1, <3>3 DEF Invariant, Separate, Alone, RunsBeside
  <2>2. ASSUME NEW t \in Slots, RestartOne(t) PROVE ~RunsBeside(s)
    <3>1. /\ h.pc = "restart" /\ t \in h.todo
          /\ box' = [box EXCEPT ![t] = Started] \/ box' = box
      BY <2>t, <2>2, RestartsOne
    <3>2. t = s
      BY <1>1, <2>0, <2>t, <3>1 DEF TypeOK
    <3>3. s \in work.meta
      BY <1>1, <3>1, <3>2 DEF Invariant, Shape, Parts
    <3> QED
      BY <1>1, <3>1, <3>3 DEF Invariant, Separate, Versioned, OneVersion, Alone, RunsBeside
  <2>3. ASSUME ~(\E t \in Slots : StartCandidate(t) \/ RestartOne(t)) PROVE FALSE
    <3>1. box'[s] # box[s] /\ h.pc \in {"slots", "restart"}
      BY <1>1, <2>0
    <3>2. CASE IssueDeploy \/ IssueRestart \/ Lease \/ GiveUp \/ Report \/ UNCHANGED vars
      BY <3>1, <3>2 DEF IssueDeploy, IssueRestart, Lease, GiveUp, Report, vars
    <3>3. CASE Crash
      BY <1>1, <2>0, <3>3 DEF Crash
    <3>4. CASE StopFirstStep
      BY <2>t, <3>1, <3>4, EndResets, EndHalts, TakesSnapshot DEF StopFirstStep
    <3>5. CASE FailureStep
      BY <2>t, <3>1, <3>5, EndDiscards, RestoresVolume, RestoreLooks, Judged, Settles
         DEF FailureStep
    <3>6. CASE RolloutStep \/ RestartPlan
      BY <2>t, <3>1, <3>6, Plans, Readies, EndRetires, Commits, RestartPlans DEF RolloutStep
    <3>7. ASSUME NEW t \in Slots, Exits(t) PROVE FALSE
      BY <1>1, <2>t, <3>1, <3>7, Exited
    <3>8. ASSUME NEW t \in Slots, Sweep(t) \/ Signal(t) \/ Confirm(t) \/ HaltThrows(t) PROVE FALSE
      BY <2>t, <3>1, <3>8, Sweeps, Halts DEF Stopping, Halting
    <3>9. ASSUME NEW t \in Slots, SlotThrows(t) PROVE FALSE
      BY <1>1, <2>t, <3>1, <3>9, SlotThrown
    <3>10. ASSUME NEW t \in Slots, RestoreStart(t) \/ RemoveOld(t) PROVE FALSE
      BY <2>t, <3>1, <3>10, RestoreStarts, RemovesOld
    <3> QED
      BY <1>1, <2>3, <3>2, <3>3, <3>4, <3>5, <3>6, <3>7, <3>8, <3>9, <3>10 DEF Next
  <2> QED
    BY <2>1, <2>2, <2>3
<1>2. Invariant /\ [Next]_vars => [\A s \in Slots : Starts(s) => ~RunsBeside(s)]_vars
  BY <1>1
<1> QED
  BY <1>2, InvariantHolds, PTL DEF Spec, NoOverlap

=============================================================================
