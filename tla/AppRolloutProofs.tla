--------------------------- MODULE AppRolloutProofs ---------------------------
(***************************************************************************)
(* Proofs about AppRollout, for any deployments and any number of faults:   *)
(* what a committed or rolled back rollout says of the traffic is true, a   *)
(* volume has one writer and keeps a way back, and the container that       *)
(* serves an app without a volume is not taken down.                        *)
(*                                                                          *)
(* The first part says what each step does to the handler's record, field   *)
(* by field; each conjunct of Invariant is then kept step by step.          *)
(***************************************************************************)
EXTENDS AppRollout, FiniteSetTheorems, TLAPS

USE AppRolloutAssumption

(* A deployment is issued once, and what is recorded is an earlier one.      *)
Known ==
    /\ recorded \in issued \cup {NoVersion}
    /\ work.version = NoVersion => work = NoWork
    /\ work.version # NoVersion => /\ work.version \in issued
                                   /\ work.prev \in (issued \cup {NoVersion}) \ {work.version}
    /\ \A v \in Versions : snap[v] # "none" => v \in issued

(* Before the candidate is there; once it serves; while the traffic of a     *)
(* rejected one is moved; on the way back of a failed attempt.               *)
FreshPcs == {"look", "return", "returning", "pre", "quiesce", "snapshot"}
DonePcs == {"retire", "drop"}
MovePcs == {"move", "moving", "keep", "keeping"}
UndoPcs == {"discard", "restore", "start", "back", "waitback", "judge"}

(* An idle handler remembers nothing; one at work has an item, and knows its *)
(* candidate, what was live before it, and what its attempt has done.        *)
Course ==
    /\ h.pc = "idle" => h = Idle
    /\ h.pc # "idle" => Cand \in Versions /\ h.prev \in {work.prev, NoVersion}
    /\ h.pc # "report" => h.result = "none" /\ ~h.preserved
    /\ h.pc \in {"return", "returning"} => h.prev # NoVersion
    /\ h.pc \in {"quiesce", "snapshot", "restore", "start"} => HasVolume
    /\ h.pc \in {"look", "quiesce", "snapshot", "create"} => ~h.adopted
    /\ h.pc \in {"create", "ready", "route", "cutover"} /\ HasVolume => h.adopted \/ h.snapshot
    /\ h.pc \in FreshPcs => ~h.snapshot
    /\ h.snapshot => HasVolume
    /\ h.pc \in MovePcs => ~HasVolume /\ h.prev # NoVersion
    /\ h.pc \in {"discard", "restore"} =>
         /\ h.failed \in {"ready", "cutover"}
         /\ HasVolume => h.snapshot
    /\ h.pc \in {"start", "back", "waitback", "judge"} => h.failed # "no"
    /\ h.pc = "back" \/ h.pc = "waitback" => HasVolume \/ h.failed = "cutover"
    /\ h.pc \notin UndoPcs \cup {"report"} => h.failed = "no" /\ ~h.returned
    /\ h.returned => ~HasVolume /\ h.failed = "cutover"
    /\ h.pc \notin DonePcs \cup {"report"} => ~h.astray

(* Where the attempt's route stands, and that its candidate is there.        *)
Routed ==
    /\ h.pc \in {"ready", "route", "cutover", "verify", "move", "moving", "keep", "keeping", "retire", "drop"}
         => box[Cand] # "absent"
    /\ h.adopted /\ h.pc \in {"return", "returning", "pre"} => box[Cand] # "absent"
    /\ h.pc \in {"cutover", "keeping"} => file = Cand
    /\ h.pc \in {"verify", "move"} => file = Cand /\ live = Cand
    /\ h.pc \in DonePcs /\ ~h.astray => file = Cand /\ live = Cand
    /\ h.pc \in {"moving", "waitback"} => file = h.prev
    /\ h.returned /\ h.pc # "report" => file = h.prev /\ live = h.prev
    /\ h.pc = "judge" /\ (HasVolume \/ h.failed = "cutover") =>
         file = h.prev /\ (h.prev = NoVersion \/ live = h.prev)

(* A volume app's steps that start a container find none running.            *)
Sole ==
    HasVolume =>
      /\ \A v, w \in Running : v = w
      /\ h.pc \in {"snapshot", "create"} => Running = {}
      /\ h.pc = "start" /\ h.failed # "quiesce" => Running = {}

(* A deployment that is not the item's has left a clean snapshot, which      *)
(* nothing deletes; one does wherever a slot holds what was never committed. *)
Earlier == \E v \in Versions : v # Cand /\ snap[v] = "clean"
Old == \A v \in Versions : snap[v] = "dirty" => \E w \in Versions : w # Cand /\ snap[w] = "clean"

(* What a deployment wrote to the volume is covered by the clean snapshot of *)
(* its own slot or by an earlier one, until it is put back or committed.     *)
Covered ==
    /\ volume = "touched" => Earlier \/ (Cand \in Versions /\ snap[Cand] = "clean")
    /\ Old
    /\ h.snapshot /\ h.pc \in {"create", "ready", "route", "cutover", "discard", "restore"} =>
         snap[Cand] # "none"
    /\ h.pc \in {"start", "back", "waitback"} /\ h.snapshot /\ h.failed # "quiesce" =>
         volume = "clean" \/ Earlier
    /\ h.pc = "drop" => volume # "touched"

(* All of it together.                                                       *)
Invariant == /\ TypeOK /\ Known /\ Course /\ Routed /\ Sole /\ Covered
             /\ CommittedServes /\ PreservedServes

----------------------------------------------------------------------------
(* What each step does to the handler's record, said field by field.        *)

(* The ranges of the handler's fields, as Handler has them.                  *)
Pc == {"idle", "look", "return", "returning", "pre", "quiesce", "snapshot", "create",
       "ready", "route", "cutover", "verify", "move", "moving", "keep", "keeping",
       "retire", "drop", "discard", "restore", "start", "back", "waitback", "judge", "report"}
Result == {"none", "committed", "aborted", "rolled_back", "error"}
Failed == {"no", "quiesce", "ready", "cutover"}

SameStart == h'.prev = h.prev /\ h'.adopted = h.adopted
SameMarks == h'.snapshot = h.snapshot /\ h'.returned = h.returned /\ h'.astray = h.astray
SameEnd == h'.result = h.result /\ h'.preserved = h.preserved

(* The handler goes on to pc; or fails at step; or ends.                     *)
Goes(pc) == h'.pc = pc /\ SameStart /\ SameMarks /\ SameEnd /\ h'.failed = h.failed
Fails(step, pc) == h'.pc = pc /\ SameStart /\ SameMarks /\ SameEnd /\ h'.failed = step
Ends(result, preserved) ==
    /\ h'.pc = "report" /\ h'.result = result /\ h'.preserved = preserved
    /\ SameStart /\ SameMarks /\ h'.failed = h.failed

LEMMA Going ==
    ASSUME TypeOK, NEW pc \in Pc, Goto(pc)
    PROVE  h' \in Handler /\ Goes(pc)
<1>1. h \in Handler /\ h' = [h EXCEPT !.pc = pc]
  BY DEF TypeOK, Goto
<1>2. h' \in Handler
  BY <1>1 DEF Handler, Pc
<1> QED
  BY <1>1, <1>2 DEF Goes, SameStart, SameMarks, SameEnd, Handler

LEMMA Failing ==
    ASSUME TypeOK, NEW step \in Failed, NEW pc \in Pc, FailAt(step, pc)
    PROVE  h' \in Handler /\ Fails(step, pc)
<1>1. h \in Handler /\ h' = [h EXCEPT !.failed = step, !.pc = pc]
  BY DEF TypeOK, FailAt
<1>2. h' \in Handler
  BY <1>1 DEF Handler, Pc, Failed
<1> QED
  BY <1>1, <1>2 DEF Fails, SameStart, SameMarks, SameEnd, Handler

LEMMA Ending ==
    ASSUME TypeOK, NEW result \in Result, NEW preserved \in BOOLEAN, Finish(result, preserved)
    PROVE  h' \in Handler /\ Ends(result, preserved)
<1>1. h \in Handler /\ h' = [h EXCEPT !.pc = "report", !.result = result, !.preserved = preserved]
  BY DEF TypeOK, Finish
<1>2. h' \in Handler
  BY <1>1 DEF Handler, Result
<1> QED
  BY <1>1, <1>2 DEF Ends, SameStart, SameMarks, SameEnd, Handler

(* A failed rollout is undone unless its candidate was adopted; the way back *)
(* may fail itself.                                                          *)
Undone(step) == (h.adopted /\ Ends("error", FALSE)) \/ (~h.adopted /\ Fails(step, "discard"))
Lost == IF h.failed = "quiesce" THEN Ends("aborted", FALSE) ELSE Ends("rolled_back", FALSE)

LEMMA Unwinding ==
    ASSUME TypeOK, NEW step \in Failed, Unwind(step)
    PROVE  h' \in Handler /\ Undone(step)
<1>1. "discard" \in Pc /\ "error" \in Result
  BY DEF Pc, Result
<1> QED
  BY <1>1, Failing, Ending DEF Unwind, Undone

LEMMA Losing ==
    ASSUME TypeOK, BackFails
    PROVE  h' \in Handler /\ Lost
<1>1. "aborted" \in Result /\ "rolled_back" \in Result
  BY DEF Result
<1> QED
  BY <1>1, Ending DEF BackFails, Lost

LEMMA Starting == Idle \in Handler /\ NoWork \in Work
BY DEF Idle, Handler, Target, NoWork, Work

LEMMA AtRest ==
    /\ Idle.pc = "idle" /\ Idle.prev = NoVersion /\ Idle.adopted = FALSE /\ Idle.snapshot = FALSE
    /\ Idle.returned = FALSE /\ Idle.astray = FALSE /\ Idle.failed = "no"
    /\ Idle.preserved = FALSE /\ Idle.result = "none"
    /\ NoWork.version = NoVersion /\ NoWork.prev = NoVersion
BY DEF Idle, NoWork

LEMMA Leased ==
    ASSUME TypeOK, Lease
    PROVE  /\ work # NoWork /\ h' \in Handler
           /\ h'.pc = "look" /\ h'.prev = work.prev /\ ~h'.adopted /\ ~h'.snapshot /\ ~h'.returned
           /\ ~h'.astray /\ h'.failed = "no" /\ ~h'.preserved /\ h'.result = "none"
           /\ UNCHANGED <<box, volume, snap, file, live, recorded, work, issued, faults>>
<1>1. h' = [Idle EXCEPT !.pc = "look", !.prev = work.prev] /\ work.prev \in Target
  BY DEF Lease, TypeOK, Work
<1>2. h' \in Handler
  BY <1>1, Starting DEF Handler
<1> QED
  BY <1>1, <1>2 DEF Lease, storage, control, Idle

LEMMA Counted ==
    ASSUME TypeOK, Fault \/ NoFault
    PROVE  faults' \in 0 .. MaxFaults
BY DEF TypeOK, Fault, NoFault

(* The container of one deployment changes, and no other.                    *)
LEMMA Moved ==
    ASSUME TypeOK, NEW v \in Versions, NEW s \in {"absent", "running", "stopped"},
           box' = [box EXCEPT ![v] = s]
    PROVE  /\ box' \in [Versions -> {"absent", "running", "stopped"}]
           /\ box'[v] = s /\ \A w \in Versions : w # v => box'[w] = box[w]
BY DEF TypeOK

----------------------------------------------------------------------------
(* What each step does.                                                     *)

State == {"absent", "running", "stopped"}
(* No container but v's changes; nor the traffic and the control plane.      *)
Only(v) == /\ box' \in [Versions -> State]
           /\ \A w \in Versions : w # v => box'[w] = box[w]
SameTraffic == file' = file /\ live' = live
SameControl == recorded' = recorded /\ work' = work /\ issued' = issued

LEMMA Looks ==
    ASSUME TypeOK, Course, Look
    PROVE  /\ h.pc = "look" /\ h' \in Handler /\ faults' \in 0 .. MaxFaults
           /\ volume' = volume /\ snap' = snap /\ SameTraffic /\ SameControl
           /\ Only(Cand) /\ box'[Cand] \in {box[Cand], "absent"}
           /\ \/ Ends("error", FALSE)
              \/ /\ h'.pc \in {"return", "pre"} /\ h'.prev \in {h.prev, NoVersion}
                 /\ h'.pc = "return" => h'.prev # NoVersion
                 /\ SameMarks /\ SameEnd /\ h'.failed = h.failed
                 /\ h'.adopted = h.adopted \/ box'[Cand] = "running"
<1> Cand \in Versions
  BY DEF Course, Look, At
<1> DEFINE gone == h.prev = Cand \/ (h.prev \in Versions /\ box[h.prev] = "absent")
           prev == IF box[Cand] # "absent" /\ gone THEN NoVersion ELSE h.prev
           then == IF work.rejected /\ prev # NoVersion THEN "return" ELSE "pre"
<1>1. /\ prev \in {h.prev, NoVersion} /\ prev \in Target /\ then \in {"return", "pre"}
      /\ then = "return" => prev # NoVersion
      /\ h \in Handler
  BY DEF TypeOK, Target, Handler
<1>2. h.pc = "look" /\ volume' = volume /\ snap' = snap /\ SameTraffic /\ SameControl
  BY DEF Look, At, storage, control, SameTraffic, SameControl
<1>3. faults' \in 0 .. MaxFaults
  BY Counted DEF Look
<1>4. Only(Cand) /\ box'[Cand] \in {box[Cand], "absent"}
  BY Moved DEF Look, Only, State, TypeOK
<1>5. "error" \in Result
  BY DEF Result
<1>6. \/ Finish("error", FALSE)
      \/ h' = [h EXCEPT !.pc = then, !.prev = prev, !.adopted = TRUE] /\ box' = box /\ box[Cand] = "running"
      \/ h' = [h EXCEPT !.pc = then, !.prev = prev]
      \/ h' = [h EXCEPT !.pc = then] /\ prev = h.prev
  BY DEF Look
<1> HIDE DEF gone, prev, then
<1>7. CASE Finish("error", FALSE)
  BY <1>2, <1>3, <1>4, <1>5, <1>7, Ending
<1>8. CASE h' = [h EXCEPT !.pc = then, !.prev = prev, !.adopted = TRUE] /\ box' = box /\ box[Cand] = "running"
  <2>1. h' \in Handler
    BY <1>1, <1>8 DEF Handler
  <2>2. h'.pc = then /\ h'.prev = prev /\ SameMarks /\ SameEnd /\ h'.failed = h.failed
    BY <1>1, <1>8 DEF Handler, SameMarks, SameEnd
  <2> QED
    BY <1>1, <1>2, <1>3, <1>4, <1>8, <2>1, <2>2
<1>9. CASE h' = [h EXCEPT !.pc = then, !.prev = prev]
  <2>1. h' \in Handler
    BY <1>1, <1>9 DEF Handler
  <2>2. h'.pc = then /\ h'.prev = prev /\ SameMarks /\ SameEnd /\ h'.failed = h.failed /\ h'.adopted = h.adopted
    BY <1>1, <1>9 DEF Handler, SameMarks, SameEnd
  <2> QED
    BY <1>1, <1>2, <1>3, <1>4, <2>1, <2>2
<1>10. CASE h' = [h EXCEPT !.pc = then] /\ prev = h.prev
  <2>1. h' \in Handler
    BY <1>1, <1>10 DEF Handler
  <2>2. h'.pc = then /\ h'.prev = prev /\ SameMarks /\ SameEnd /\ h'.failed = h.failed /\ h'.adopted = h.adopted
    BY <1>1, <1>10 DEF Handler, SameMarks, SameEnd
  <2> QED
    BY <1>1, <1>2, <1>3, <1>4, <2>1, <2>2
<1> QED
  BY <1>6, <1>7, <1>8, <1>9, <1>10

(* The route file is written for v, or not.                                  *)
LEMMA Writes ==
    ASSUME TypeOK, NEW v \in Target, NEW after, NEW otherwise, WriteRoute(v, after, otherwise)
    PROVE  /\ faults' \in 0 .. MaxFaults
           /\ box' = box /\ volume' = volume /\ snap' = snap /\ live' = live /\ SameControl
           /\ (file' = v /\ after) \/ (file' = file /\ otherwise)
BY Counted DEF WriteRoute, storage, control, SameControl

(* Traefik confirms that it sends the traffic to v, or not in time.          *)
LEMMA Waits ==
    ASSUME TypeOK, NEW v \in Target, NEW after, NEW otherwise, WaitCutover(v, after, otherwise)
    PROVE  /\ faults' \in 0 .. MaxFaults
           /\ box' = box /\ volume' = volume /\ snap' = snap /\ SameTraffic /\ SameControl
           /\ (live = v /\ after) \/ otherwise
BY Counted DEF WaitCutover, storage, control, SameTraffic, SameControl

LEMMA ReturnsTraffic ==
    ASSUME TypeOK, ReturnTraffic
    PROVE  /\ h.pc = "return" /\ h' \in Handler /\ faults' \in 0 .. MaxFaults
           /\ box' = box /\ volume' = volume /\ snap' = snap /\ live' = live /\ SameControl
           /\ \/ Goes("returning") /\ file' = h.prev
              \/ Goes("pre") /\ file' = file
<1>1. "pre" \in Pc /\ "returning" \in Pc /\ h.prev \in Target
  BY DEF Pc, TypeOK, Handler
<1>2. h.pc = "return"
  BY DEF ReturnTraffic, At
<1>3. CASE WriteRoute(h.prev, Goto("returning"), Goto("pre"))
  BY <1>1, <1>2, <1>3, Writes, Going
<1>4. CASE Goto("pre") /\ UNCHANGED <<box, storage, file, live, control, faults>>
  BY <1>1, <1>2, <1>4, Going DEF storage, control, SameControl, TypeOK
<1> QED
  BY <1>3, <1>4 DEF ReturnTraffic

LEMMA Returns ==
    ASSUME TypeOK, Course, Returned
    PROVE  /\ h.pc = "returning" /\ h' \in Handler /\ faults' \in 0 .. MaxFaults
           /\ volume' = volume /\ snap' = snap /\ SameTraffic /\ SameControl
           /\ Only(Cand) /\ box'[Cand] \in {box[Cand], "absent"}
           /\ \/ Ends("aborted", TRUE) /\ live = h.prev
              \/ Goes("pre") /\ box' = box
<1> Cand \in Versions
  BY DEF Course, Returned, At
<1>1. "pre" \in Pc /\ "aborted" \in Result
  BY DEF Pc, Result
<1>2. h.pc = "returning" /\ volume' = volume /\ snap' = snap /\ SameTraffic /\ SameControl
  BY DEF Returned, At, storage, control, SameTraffic, SameControl
<1>3. faults' \in 0 .. MaxFaults
  BY Counted DEF Returned
<1>4. Only(Cand) /\ box'[Cand] \in {box[Cand], "absent"}
  BY Moved DEF Returned, Only, State, TypeOK
<1> QED
  BY <1>1, <1>2, <1>3, <1>4, Going, Ending DEF Returned

LEMMA PreActivates ==
    ASSUME TypeOK, Course, PreActivation
    PROVE  /\ h.pc = "pre" /\ h' \in Handler /\ faults' = faults
           /\ box' = box /\ volume' = volume /\ snap' = snap /\ SameTraffic
           /\ recorded' = recorded /\ issued' = issued
           /\ work' \in Work /\ Cand' = Cand /\ work'.prev = work.prev
           /\ \/ Goes(IF h.adopted THEN "ready" ELSE IF HasVolume THEN "quiesce" ELSE "create")
              \/ \E serves \in BOOLEAN : Ends("aborted", serves)
              \/ h' = Idle
<1> Cand \in Versions
  BY DEF Course, PreActivation, At
<1>1. /\ "ready" \in Pc /\ "quiesce" \in Pc /\ "create" \in Pc /\ "aborted" \in Result
      /\ \A v \in Target : CanServe(v) \subseteq BOOLEAN
  BY DEF Pc, Result, CanServe
<1>2. /\ h.pc = "pre" /\ box' = box /\ volume' = volume /\ snap' = snap /\ SameTraffic
      /\ recorded' = recorded /\ issued' = issued /\ faults' = faults
  BY DEF PreActivation, At, storage, SameTraffic
<1>3. work' \in Work /\ Cand' = Cand /\ work'.prev = work.prev
  BY DEF PreActivation, TypeOK, Work, Cand
<1>4. \/ Goto(IF h.adopted THEN "ready" ELSE IF HasVolume THEN "quiesce" ELSE "create")
      \/ \E serves \in BOOLEAN : Finish("aborted", serves)
      \/ h' = Idle
  BY <1>1 DEF PreActivation, TypeOK, Handler, CanServe
<1> DEFINE next == IF h.adopted THEN "ready" ELSE IF HasVolume THEN "quiesce" ELSE "create"
<1>5. next \in Pc
  BY <1>1
<1> HIDE DEF next
<1>6. \/ h' \in Handler /\ Goes(next)
      \/ h' \in Handler /\ \E serves \in BOOLEAN : Ends("aborted", serves)
      \/ h' \in Handler /\ h' = Idle
  BY <1>1, <1>4, <1>5, Going, Ending, Starting DEF next
<1> QED
  BY <1>2, <1>3, <1>6 DEF next

LEMMA Quiesces ==
    ASSUME TypeOK, Quiesce
    PROVE  /\ h.pc = "quiesce" /\ h' \in Handler /\ faults' \in 0 .. MaxFaults
           /\ volume' = volume /\ snap' = snap /\ SameTraffic /\ SameControl
           /\ \A v \in Versions : box'[v] = box[v] \/ (v = h.prev /\ box'[v] = "stopped")
           /\ box' \in [Versions -> State]
           /\ \/ /\ h'.pc = "snapshot" /\ SameStart /\ SameMarks /\ SameEnd /\ h'.failed = h.failed
                 /\ SoleConsumer(h.prev)
                 /\ h.prev \in Running => box'[h.prev] = "stopped"
              \/ Fails("quiesce", "start") /\ box' = box
<1>1. "quiesce" \in Failed /\ "start" \in Pc
  BY DEF Pc, Failed
<1>2. h.pc = "quiesce" /\ volume' = volume /\ snap' = snap /\ SameTraffic /\ SameControl
  BY DEF Quiesce, At, storage, control, SameTraffic, SameControl
<1>3. faults' \in 0 .. MaxFaults
  BY Counted DEF Quiesce
<1>4. CASE FailAt("quiesce", "start") /\ box' = box
  BY <1>1, <1>2, <1>3, <1>4, Failing DEF State, TypeOK
<1>5. CASE /\ SoleConsumer(h.prev)
           /\ h' = [h EXCEPT !.pc = "snapshot", !.quiesced = h.prev \in Running]
           /\ box' = IF h.prev \in Running THEN [box EXCEPT ![h.prev] = "stopped"] ELSE box
  <2>1. h \in Handler
    BY DEF TypeOK
  <2> DEFINE running == h.prev \in Running
  <2>2. running \in BOOLEAN /\ h' = [h EXCEPT !.pc = "snapshot", !.quiesced = running]
    BY <1>5
  <2> HIDE DEF running
  <2>3. h' \in Handler
    BY <2>1, <2>2 DEF Handler
  <2>4. h'.pc = "snapshot" /\ SameStart /\ SameMarks /\ SameEnd /\ h'.failed = h.failed
    BY <2>1, <2>2 DEF Handler, SameStart, SameMarks, SameEnd
  <2>5. /\ box' \in [Versions -> State]
        /\ \A v \in Versions : box'[v] = box[v] \/ (v = h.prev /\ box'[v] = "stopped")
        /\ h.prev \in Running => box'[h.prev] = "stopped"
    BY <1>5 DEF TypeOK, State, Running
  <2> QED
    BY <1>2, <1>3, <1>5, <2>3, <2>4, <2>5
<1> QED
  BY <1>4, <1>5 DEF Quiesce

LEMMA TakesSnapshot ==
    ASSUME TypeOK, Course, TakeSnapshot
    PROVE  /\ h.pc = "snapshot" /\ h' \in Handler /\ faults' \in 0 .. MaxFaults
           /\ box' = box /\ volume' = volume /\ SameTraffic /\ SameControl
           /\ snap' \in [Versions -> {"none", "clean", "dirty"}]
           /\ \A v \in Versions : v # Cand => snap'[v] = snap[v]
           /\ \/ /\ h'.pc = "create" /\ h'.snapshot /\ h'.returned = h.returned
                 /\ h'.astray = h.astray /\ SameStart /\ SameEnd /\ h'.failed = h.failed
                 /\ snap'[Cand] = IF snap[Cand] # "none" THEN snap[Cand]
                                  ELSE IF volume = "clean" THEN "clean" ELSE "dirty"
              \/ Fails("quiesce", "start") /\ snap' = snap
<1> Cand \in Versions
  BY DEF Course, TakeSnapshot, At
<1>1. "quiesce" \in Failed /\ "start" \in Pc
  BY DEF Pc, Failed
<1>2. h.pc = "snapshot" /\ box' = box /\ volume' = volume /\ SameTraffic /\ SameControl
  BY DEF TakeSnapshot, At, control, SameTraffic, SameControl
<1>3. faults' \in 0 .. MaxFaults
  BY Counted DEF TakeSnapshot
<1>4. CASE FailAt("quiesce", "start") /\ snap' = snap
  BY <1>1, <1>2, <1>3, <1>4, Failing DEF TypeOK
<1>5. CASE /\ snap' = IF snap[Cand] # "none" THEN snap
                      ELSE [snap EXCEPT ![Cand] = IF volume = "clean" THEN "clean" ELSE "dirty"]
           /\ h' = [h EXCEPT !.pc = "create", !.snapshot = TRUE]
  <2>1. h \in Handler /\ snap \in [Versions -> {"none", "clean", "dirty"}]
    BY DEF TypeOK
  <2>2. h' \in Handler
    BY <1>5, <2>1 DEF Handler
  <2>3. /\ h'.pc = "create" /\ h'.snapshot /\ h'.returned = h.returned
        /\ h'.astray = h.astray /\ SameStart /\ SameEnd /\ h'.failed = h.failed
    BY <1>5, <2>1 DEF Handler, SameStart, SameEnd
  <2>4. /\ snap' \in [Versions -> {"none", "clean", "dirty"}]
        /\ \A v \in Versions : v # Cand => snap'[v] = snap[v]
        /\ snap'[Cand] = IF snap[Cand] # "none" THEN snap[Cand]
                         ELSE IF volume = "clean" THEN "clean" ELSE "dirty"
    BY <1>5, <2>1
  <2> QED
    BY <1>2, <1>3, <2>2, <2>3, <2>4
<1> QED
  BY <1>4, <1>5 DEF TakeSnapshot

LEMMA Creates ==
    ASSUME TypeOK, Course, Create
    PROVE  /\ h.pc = "create" /\ h' \in Handler /\ faults' \in 0 .. MaxFaults
           /\ snap' = snap /\ SameTraffic /\ SameControl /\ Only(Cand)
           /\ \/ /\ Goes("ready") /\ box'[Cand] = "running"
                 /\ volume' = IF HasVolume THEN "touched" ELSE volume
              \/ /\ Ends("error", FALSE) /\ box'[Cand] \in {"absent", "stopped"}
                 /\ volume' = volume
<1> Cand \in Versions
  BY DEF Course, Create, At
<1>1. "ready" \in Pc /\ "error" \in Result
  BY DEF Pc, Result
<1>2. h.pc = "create" /\ snap' = snap /\ SameTraffic /\ SameControl /\ faults' \in 0 .. MaxFaults
  BY Counted DEF Create, At, control, SameTraffic, SameControl
<1>3. \/ /\ Goto("ready") /\ box' = [box EXCEPT ![Cand] = "running"]
         /\ volume' = IF HasVolume THEN "touched" ELSE volume
      \/ \E left \in {"absent", "stopped"} :
           /\ Finish("error", FALSE) /\ box' = [box EXCEPT ![Cand] = left]
           /\ volume' = volume
  BY DEF Create
<1>4. Only(Cand)
  BY <1>3, Moved DEF Only, State
<1> QED
  BY <1>1, <1>2, <1>3, <1>4, Going, Ending, Moved

LEMMA Readies ==
    ASSUME TypeOK, Readiness
    PROVE  /\ h.pc = "ready" /\ h' \in Handler /\ faults' = faults
           /\ box' = box /\ volume' = volume /\ snap' = snap /\ SameTraffic /\ SameControl
           /\ Goes("route") \/ Undone("ready")
<1>1. "route" \in Pc /\ "ready" \in Failed
  BY DEF Pc, Failed
<1> QED
  BY <1>1, Going, Unwinding DEF Readiness, At, storage, control, SameTraffic, SameControl

LEMMA Routes ==
    ASSUME TypeOK, RouteToCandidate
    PROVE  /\ h.pc = "route" /\ h' \in Handler /\ faults' \in 0 .. MaxFaults
           /\ box' = box /\ volume' = volume /\ snap' = snap /\ live' = live /\ SameControl
           /\ (file' = Cand /\ Goes("cutover")) \/ (file' = file /\ Undone("cutover"))
<1>1. "cutover" \in Pc /\ "cutover" \in Failed /\ Cand \in Target
  BY DEF Pc, Failed, TypeOK, Work, Cand
<1> QED
  BY <1>1, Writes, Going, Unwinding DEF RouteToCandidate, At

LEMMA Confirms ==
    ASSUME TypeOK, ConfirmCutover
    PROVE  /\ h.pc = "cutover" /\ h' \in Handler /\ faults' \in 0 .. MaxFaults
           /\ box' = box /\ volume' = volume /\ snap' = snap /\ SameTraffic /\ SameControl
           /\ (live = Cand /\ Goes("verify")) \/ Undone("cutover")
<1>1. "verify" \in Pc /\ "cutover" \in Failed /\ Cand \in Target
  BY DEF Pc, Failed, TypeOK, Work, Cand
<1> QED
  BY <1>1, Waits, Going, Unwinding DEF ConfirmCutover, At

LEMMA Verifies ==
    ASSUME TypeOK, Verify
    PROVE  /\ h.pc = "verify" /\ h' \in Handler /\ faults' = faults
           /\ box' = box /\ volume' = volume /\ snap' = snap /\ SameTraffic
           /\ recorded' = recorded /\ issued' = issued
           /\ work' \in Work /\ Cand' = Cand /\ work'.prev = work.prev
           /\ \/ Goes("retire")
              \/ Goes("move") /\ h.prev # NoVersion /\ ~HasVolume
<1>1. "retire" \in Pc /\ "move" \in Pc
  BY DEF Pc
<1>2. TRUE \in RollbackTarget => h.prev # NoVersion /\ ~HasVolume
  BY DEF RollbackTarget
<1>3. work' \in Work /\ Cand' = Cand /\ work'.prev = work.prev
  BY DEF Verify, TypeOK, Work, Cand
<1> QED
  BY <1>1, <1>2, <1>3, Going DEF Verify, At, storage, SameTraffic

LEMMA MovesTraffic ==
    ASSUME TypeOK, MoveTraffic
    PROVE  /\ h.pc = "move" /\ h' \in Handler /\ faults' \in 0 .. MaxFaults
           /\ box' = box /\ volume' = volume /\ snap' = snap /\ live' = live /\ SameControl
           /\ (file' = h.prev /\ Goes("moving")) \/ (file' = file /\ Goes("keep"))
<1>1. "moving" \in Pc /\ "keep" \in Pc /\ h.prev \in Target
  BY DEF Pc, TypeOK, Handler
<1> QED
  BY <1>1, Writes, Going DEF MoveTraffic, At

LEMMA MoveConfirms ==
    ASSUME TypeOK, MoveConfirmed
    PROVE  /\ h.pc = "moving" /\ h' \in Handler /\ faults' \in 0 .. MaxFaults
           /\ box' = box /\ volume' = volume /\ snap' = snap /\ SameTraffic /\ SameControl
           /\ \/ /\ live = h.prev /\ h'.pc = "discard" /\ h'.failed = "cutover" /\ SameStart
                 /\ h'.snapshot = h.snapshot /\ h'.astray = h.astray /\ SameEnd
              \/ Goes("keep")
<1>1. "keep" \in Pc /\ h \in Handler
  BY DEF Pc, TypeOK
<1>2. /\ h.pc = "moving" /\ faults' \in 0 .. MaxFaults
      /\ box' = box /\ volume' = volume /\ snap' = snap /\ SameTraffic /\ SameControl
  BY Counted DEF MoveConfirmed, WaitCutover, At, storage, control, SameTraffic, SameControl
<1>3. \/ live = h.prev /\ h' = [h EXCEPT !.returned = TRUE, !.failed = "cutover", !.pc = "discard"]
      \/ Goto("keep")
  BY DEF MoveConfirmed, WaitCutover
<1>4. CASE live = h.prev /\ h' = [h EXCEPT !.returned = TRUE, !.failed = "cutover", !.pc = "discard"]
  <2>1. h' \in Handler
    BY <1>1, <1>4 DEF Handler
  <2>2. /\ h'.pc = "discard" /\ h'.failed = "cutover" /\ SameStart
        /\ h'.snapshot = h.snapshot /\ h'.astray = h.astray /\ SameEnd
    BY <1>1, <1>4 DEF Handler, SameStart, SameEnd
  <2> QED
    BY <1>2, <1>4, <2>1, <2>2
<1> QED
  BY <1>1, <1>2, <1>3, <1>4, Going

Strays(pc) == /\ h'.pc = pc /\ h'.astray /\ SameStart /\ SameEnd
              /\ h'.snapshot = h.snapshot /\ h'.returned = h.returned /\ h'.failed = h.failed

LEMMA GoesAstray ==
    ASSUME TypeOK, Astray
    PROVE  h' \in Handler /\ Strays("retire")
<1>1. h \in Handler /\ h' = [h EXCEPT !.pc = "retire", !.astray = TRUE]
  BY DEF TypeOK, Astray
<1>2. h' \in Handler
  BY <1>1 DEF Handler
<1> QED
  BY <1>1, <1>2 DEF Strays, SameStart, SameEnd, Handler

LEMMA Keeps ==
    ASSUME TypeOK, KeepCandidate
    PROVE  /\ h.pc = "keep" /\ h' \in Handler /\ faults' \in 0 .. MaxFaults
           /\ box' = box /\ volume' = volume /\ snap' = snap /\ live' = live /\ SameControl
           /\ (file' = Cand /\ Goes("keeping")) \/ (file' = file /\ Strays("retire"))
<1>1. "keeping" \in Pc /\ Cand \in Target
  BY DEF Pc, TypeOK, Work, Cand
<1> QED
  BY <1>1, Writes, Going, GoesAstray DEF KeepCandidate, At

LEMMA KeepConfirms ==
    ASSUME TypeOK, KeepConfirmed
    PROVE  /\ h.pc = "keeping" /\ h' \in Handler /\ faults' \in 0 .. MaxFaults
           /\ box' = box /\ volume' = volume /\ snap' = snap /\ SameTraffic /\ SameControl
           /\ (live = Cand /\ Goes("retire")) \/ Strays("retire")
<1>1. "retire" \in Pc /\ Cand \in Target
  BY DEF Pc, TypeOK, Work, Cand
<1> QED
  BY <1>1, Waits, Going, GoesAstray DEF KeepConfirmed, At

LEMMA Discards ==
    ASSUME TypeOK, Course, DiscardCandidate
    PROVE  /\ h.pc = "discard" /\ h' \in Handler /\ faults' \in 0 .. MaxFaults
           /\ volume' = volume /\ snap' = snap /\ SameTraffic /\ SameControl
           /\ Only(Cand) /\ box'[Cand] \in {box[Cand], "absent"}
           /\ Goes(WayBack) \/ Ends("error", FALSE)
<1> Cand \in Versions
  BY DEF Course, DiscardCandidate, At
<1>1. WayBack \in Pc /\ "error" \in Result
  BY DEF Pc, Result, WayBack
<1>2. h.pc = "discard" /\ volume' = volume /\ snap' = snap /\ SameTraffic /\ SameControl
  BY DEF DiscardCandidate, At, storage, control, SameTraffic, SameControl
<1>3. faults' \in 0 .. MaxFaults
  BY Counted DEF DiscardCandidate
<1>4. Only(Cand) /\ box'[Cand] \in {box[Cand], "absent"}
  BY Moved DEF DiscardCandidate, Only, State, TypeOK
<1> QED
  BY <1>1, <1>2, <1>3, <1>4, Going, Ending DEF DiscardCandidate

LEMMA RestoresVolume ==
    ASSUME TypeOK, RestoreVolume
    PROVE  /\ h.pc = "restore" /\ h' \in Handler /\ faults' \in 0 .. MaxFaults
           /\ box' = box /\ snap' = snap /\ SameTraffic /\ SameControl
           /\ \/ /\ SoleConsumer(NoVersion)
                 /\ volume' = IF snap[Cand] = "dirty" THEN "touched" ELSE "clean"
                 /\ Goes(IF h.prev = NoVersion THEN "back" ELSE "start")
              \/ Lost /\ volume' = volume
<1> DEFINE next == IF h.prev = NoVersion THEN "back" ELSE "start"
<1>1. next \in Pc
  BY DEF Pc
<1>2. h.pc = "restore" /\ box' = box /\ snap' = snap /\ SameTraffic /\ SameControl
  BY DEF RestoreVolume, At, control, SameTraffic, SameControl
<1>3. faults' \in 0 .. MaxFaults
  BY Counted DEF RestoreVolume
<1>4. \/ /\ SoleConsumer(NoVersion)
         /\ volume' = IF snap[Cand] = "dirty" THEN "touched" ELSE "clean"
         /\ Goto(next)
      \/ BackFails /\ volume' = volume
  BY DEF RestoreVolume
<1> HIDE DEF next
<1>5. \/ /\ SoleConsumer(NoVersion) /\ h' \in Handler
         /\ volume' = IF snap[Cand] = "dirty" THEN "touched" ELSE "clean"
         /\ Goes(next)
      \/ Lost /\ volume' = volume /\ h' \in Handler
  BY <1>1, <1>4, Going, Losing
<1> QED
  BY <1>2, <1>3, <1>5 DEF next

LEMMA StartsPrevious ==
    ASSUME TypeOK, StartPrevious
    PROVE  /\ h.pc = "start" /\ h' \in Handler /\ faults' \in 0 .. MaxFaults
           /\ volume' = volume /\ snap' = snap /\ SameTraffic /\ SameControl
           /\ \/ box' = box
              \/ /\ MayStartPrevious /\ Only(h.prev) /\ box'[h.prev] = "running"
           /\ Goes("back") \/ Lost
<1>1. "back" \in Pc
  BY DEF Pc
<1>2. h.pc = "start" /\ volume' = volume /\ snap' = snap /\ SameTraffic /\ SameControl
  BY DEF StartPrevious, At, storage, control, SameTraffic, SameControl
<1>3. faults' \in 0 .. MaxFaults
  BY Counted DEF StartPrevious
<1>4. \/ box' = box
      \/ MayStartPrevious /\ Only(h.prev) /\ box'[h.prev] = "running"
  BY Moved DEF StartPrevious, MayStartPrevious, Only, State
<1>5. Goto("back") \/ BackFails
  BY DEF StartPrevious
<1> QED
  BY <1>1, <1>2, <1>3, <1>4, <1>5, Going, Losing

LEMMA RoutesBack ==
    ASSUME TypeOK, RouteBack
    PROVE  /\ h.pc = "back" /\ h' \in Handler /\ faults' \in 0 .. MaxFaults
           /\ box' = box /\ volume' = volume /\ snap' = snap /\ live' = live /\ SameControl
           /\ (file' = h.prev /\ Goes("waitback")) \/ (file' = file /\ Lost)
<1>1. "waitback" \in Pc /\ h.prev \in Target
  BY DEF Pc, TypeOK, Handler
<1> QED
  BY <1>1, Writes, Going, Losing DEF RouteBack, At

(* A snapshot is dropped from the candidate's slot, or left.                 *)
LEMMA Drops ==
    ASSUME TypeOK, Cand \in Versions, DropSnapshot
    PROVE  /\ snap' \in [Versions -> {"none", "clean", "dirty"}]
           /\ \A v \in Versions : v # Cand => snap'[v] = snap[v]
           /\ snap'[Cand] \in {snap[Cand], "none"}
           /\ faults' \in 0 .. MaxFaults
BY Counted DEF DropSnapshot, TypeOK

LEMMA BackConfirms ==
    ASSUME TypeOK, Course, RouteBackConfirmed
    PROVE  /\ h.pc = "waitback" /\ h' \in Handler /\ faults' \in 0 .. MaxFaults
           /\ box' = box /\ volume' = volume /\ SameTraffic /\ SameControl
           /\ snap' \in [Versions -> {"none", "clean", "dirty"}]
           /\ \A v \in Versions : v # Cand => snap'[v] = snap[v]
           /\ \/ snap' = snap
              \/ h.snapshot /\ h.failed # "quiesce" /\ snap'[Cand] \in {snap[Cand], "none"}
           /\ \/ Goes("judge") /\ (h.prev = NoVersion \/ live = h.prev)
              \/ Lost
<1> Cand \in Versions
  BY DEF Course, RouteBackConfirmed, At
<1>1. "judge" \in Pc /\ snap \in [Versions -> {"none", "clean", "dirty"}]
  BY DEF Pc, TypeOK
<1>2. h.pc = "waitback" /\ box' = box /\ volume' = volume /\ SameTraffic /\ SameControl
  BY DEF RouteBackConfirmed, At, control, SameTraffic, SameControl
<1>3. \/ DropSnapshot /\ h.snapshot /\ h.failed # "quiesce"
      \/ UNCHANGED snap /\ (Fault \/ NoFault)
  BY DEF RouteBackConfirmed
<1>4. \/ Goto("judge") /\ (h.prev = NoVersion \/ live = h.prev)
      \/ BackFails
  BY DEF RouteBackConfirmed
<1>5. /\ faults' \in 0 .. MaxFaults
      /\ snap' \in [Versions -> {"none", "clean", "dirty"}]
      /\ \A v \in Versions : v # Cand => snap'[v] = snap[v]
      /\ \/ snap' = snap
         \/ h.snapshot /\ h.failed # "quiesce" /\ snap'[Cand] \in {snap[Cand], "none"}
  BY <1>1, <1>3, Drops, Counted
<1> QED
  BY <1>1, <1>2, <1>4, <1>5, Going, Losing

LEMMA Judged ==
    ASSUME TypeOK, Judge
    PROVE  /\ h.pc = "judge" /\ h' \in Handler /\ faults' = faults
           /\ box' = box /\ volume' = volume /\ snap' = snap /\ SameTraffic /\ SameControl
           /\ \E serves \in BOOLEAN :
                /\ serves => h.prev # NoVersion
                /\ Ends(IF h.failed = "cutover" THEN "rolled_back" ELSE "aborted", serves)
<1> DEFINE result == IF h.failed = "cutover" THEN "rolled_back" ELSE "aborted"
<1>1. result \in Result
  BY DEF Result
<1>2. PICK serves \in CanServe(h.prev) : Finish(result, serves)
  BY DEF Judge
<1>3. serves \in BOOLEAN /\ (serves => h.prev # NoVersion)
  BY DEF CanServe, Running
<1> HIDE DEF result
<1>4. h' \in Handler /\ Ends(result, serves)
  BY <1>1, <1>2, <1>3, Ending
<1> QED
  BY <1>3, <1>4 DEF Judge, At, storage, control, SameTraffic, SameControl, result

LEMMA Retires ==
    ASSUME TypeOK, Retire
    PROVE  /\ h.pc = "retire" /\ h' \in Handler /\ faults' \in 0 .. MaxFaults
           /\ snap' = snap /\ SameTraffic /\ SameControl
           /\ box' \in [Versions -> State]
           /\ \A v \in Versions : v # h.prev => box'[v] = box[v]
           /\ \A v \in Versions : box'[v] \in {box[v], "stopped", "absent"}
           /\ volume' = IF HasVolume THEN "clean" ELSE volume
           /\ Goes("drop") \/ Ends("committed", FALSE)
<1>1. "drop" \in Pc /\ "committed" \in Result
  BY DEF Pc, Result
<1>2. /\ h.pc = "retire" /\ snap' = snap /\ SameTraffic /\ SameControl
      /\ volume' = IF HasVolume THEN "clean" ELSE volume
  BY DEF Retire, At, control, SameTraffic, SameControl
<1>3. faults' \in 0 .. MaxFaults
  BY Counted DEF Retire
<1>4. /\ box' \in [Versions -> State]
      /\ \A v \in Versions : v # h.prev => box'[v] = box[v]
      /\ \A v \in Versions : box'[v] \in {box[v], "stopped", "absent"}
  BY DEF Retire, State, TypeOK
<1>5. Goto("drop") \/ Finish("committed", FALSE)
  BY DEF Retire, Commit
<1> QED
  BY <1>1, <1>2, <1>3, <1>4, <1>5, Going, Ending

LEMMA CommitDrops ==
    ASSUME TypeOK, Course, CommitDrop
    PROVE  /\ h.pc = "drop" /\ h' \in Handler /\ faults' \in 0 .. MaxFaults
           /\ box' = box /\ volume' = volume /\ SameTraffic /\ SameControl
           /\ snap' \in [Versions -> {"none", "clean", "dirty"}]
           /\ \A v \in Versions : v # Cand => snap'[v] = snap[v]
           /\ snap'[Cand] \in {snap[Cand], "none"}
           /\ Ends("committed", FALSE)
<1> Cand \in Versions
  BY DEF Course, CommitDrop, At
<1>1. "committed" \in Result
  BY DEF Result
<1> QED
  BY <1>1, Drops, Ending DEF CommitDrop, At, control, SameTraffic, SameControl

(* Someone else stops a container.                                           *)
LEMMA Stops ==
    ASSUME TypeOK, NEW v \in Versions, StoppedOutside(v)
    PROVE  /\ h' = h /\ volume' = volume /\ snap' = snap /\ SameTraffic /\ SameControl
           /\ faults' \in 0 .. MaxFaults
           /\ Only(v) /\ box[v] = "running" /\ box'[v] = "stopped"
BY Counted, Moved DEF StoppedOutside, storage, control, SameTraffic, SameControl, Only, State,
   Running

LEMMA Issues ==
    ASSUME TypeOK, Known, Issue
    PROVE  /\ h' = h /\ box' = box /\ volume' = volume /\ snap' = snap /\ SameTraffic
           /\ recorded' = recorded /\ faults' = faults
           /\ work = NoWork /\ work' \in Work
           /\ \E v \in Versions \ issued :
                /\ issued' = issued \cup {v} /\ work'.version = v /\ work'.prev = recorded
<1>1. PICK v \in Versions \ issued :
        /\ issued' = issued \cup {v} /\ work' = [NoWork EXCEPT !.version = v, !.prev = recorded]
  BY DEF Issue
<1>2. recorded \in Target
  BY DEF TypeOK
<1>3. work' \in Work /\ work'.version = v /\ work'.prev = recorded
  BY <1>1, <1>2 DEF NoWork, Work, Target
<1> QED
  BY <1>1, <1>3 DEF Issue, storage, SameTraffic

LEMMA Reports ==
    ASSUME TypeOK, Report
    PROVE  /\ h.pc = "report" /\ h' = Idle /\ faults' \in 0 .. MaxFaults
           /\ box' = box /\ volume' = volume /\ snap' = snap /\ SameTraffic /\ issued' = issued
           /\ \/ work' = NoWork /\ recorded' \in {Cand, recorded}
              \/ work' = work /\ recorded' = recorded
BY Counted DEF Report, At, storage, SameTraffic

LEMMA Crashes ==
    ASSUME TypeOK, Crash
    PROVE  /\ h.pc # "idle" /\ h' = Idle /\ faults' \in 0 .. MaxFaults
           /\ box' = box /\ volume' = volume /\ snap' = snap /\ SameTraffic /\ SameControl
BY Counted DEF Crash, At, storage, control, SameTraffic, SameControl

LEMMA Follows ==
    ASSUME TypeOK, TraefikFollows
    PROVE  /\ h' = h /\ box' = box /\ volume' = volume /\ snap' = snap /\ SameControl
           /\ file' = file /\ live' = file /\ faults' = faults
BY DEF TraefikFollows, storage, control, SameControl

----------------------------------------------------------------------------
(* Each conjunct is kept.                                                   *)

LEMMA TypeStep == TypeOK /\ Known /\ Course /\ [Next]_vars => TypeOK'
<1> SUFFICES ASSUME TypeOK, Known, Course, [Next]_vars PROVE TypeOK'
  OBVIOUS
<1>h. h.prev \in Target /\ Cand \in Target
  BY DEF TypeOK, Handler, Work, Cand
<1>1. CASE Issue
  BY <1>1, Issues, AtRest, <1>h, Starting DEF SameTraffic, TypeOK
<1>2. CASE Lease
  BY <1>2, Leased, AtRest, <1>h, Starting DEF TypeOK
<1>3. CASE Report
  BY <1>3, Reports, AtRest, <1>h, Starting DEF SameTraffic, TypeOK
<1>4. CASE Crash
  BY <1>4, Crashes, AtRest, <1>h, Starting DEF SameTraffic, SameControl, TypeOK
<1>5. CASE TraefikFollows
  BY <1>5, Follows, <1>h, Starting DEF SameControl, TypeOK
<1>6. CASE Look
  BY <1>6, Looks, <1>h, Starting DEF SameTraffic, SameControl, Only, State, TypeOK
<1>7. CASE ReturnTraffic
  BY <1>7, ReturnsTraffic, <1>h, Starting DEF SameControl, TypeOK
<1>8. CASE Returned
  BY <1>8, Returns, <1>h, Starting DEF SameTraffic, SameControl, Only, State, TypeOK
<1>9. CASE PreActivation
  BY <1>9, PreActivates, AtRest, <1>h, Starting DEF SameTraffic, TypeOK
<1>10. CASE Quiesce
  BY <1>10, Quiesces, <1>h, Starting DEF SameTraffic, SameControl, State, TypeOK
<1>11. CASE TakeSnapshot
  BY <1>11, TakesSnapshot, <1>h, Starting DEF SameTraffic, SameControl, TypeOK
<1>12. CASE Create
  BY <1>12, Creates, <1>h, Starting DEF SameTraffic, SameControl, Only, State, TypeOK
<1>13. CASE Readiness
  BY <1>13, Readies, <1>h, Starting DEF SameTraffic, SameControl, TypeOK
<1>14. CASE RouteToCandidate
  BY <1>14, Routes, <1>h, Starting DEF SameControl, TypeOK
<1>15. CASE ConfirmCutover
  BY <1>15, Confirms, <1>h, Starting DEF SameTraffic, SameControl, TypeOK
<1>16. CASE Retire
  BY <1>16, Retires, <1>h, Starting DEF SameTraffic, SameControl, State, TypeOK
<1>17. CASE CommitDrop
  BY <1>17, CommitDrops, <1>h, Starting DEF SameTraffic, SameControl, TypeOK
<1>18. CASE Verify
  BY <1>18, Verifies, <1>h, Starting DEF SameTraffic, TypeOK
<1>19. CASE MoveTraffic
  BY <1>19, MovesTraffic, <1>h, Starting DEF SameControl, TypeOK
<1>20. CASE MoveConfirmed
  BY <1>20, MoveConfirms, <1>h, Starting DEF SameTraffic, SameControl, TypeOK
<1>21. CASE KeepCandidate
  BY <1>21, Keeps, <1>h, Starting DEF SameControl, TypeOK
<1>22. CASE KeepConfirmed
  BY <1>22, KeepConfirms, <1>h, Starting DEF SameTraffic, SameControl, TypeOK
<1>23. CASE DiscardCandidate
  BY <1>23, Discards, <1>h, Starting DEF SameTraffic, SameControl, Only, State, TypeOK
<1>24. CASE RestoreVolume
  BY <1>24, RestoresVolume, <1>h, Starting DEF SameTraffic, SameControl, TypeOK
<1>25. CASE StartPrevious
  BY <1>25, <1>h, StartsPrevious DEF SameTraffic, SameControl, Only, State, TypeOK
<1>26. CASE RouteBack
  BY <1>26, <1>h, RoutesBack DEF SameControl, TypeOK
<1>27. CASE RouteBackConfirmed
  BY <1>27, BackConfirms, <1>h, Starting DEF SameTraffic, SameControl, TypeOK
<1>28. CASE Judge
  BY <1>28, Judged, <1>h, Starting DEF SameTraffic, SameControl, TypeOK
<1>29. ASSUME NEW v \in Versions, StoppedOutside(v) PROVE TypeOK'
  BY <1>29, Stops, <1>h, Starting DEF SameTraffic, SameControl, Only, State, TypeOK
<1>30. CASE UNCHANGED vars
  BY <1>30 DEF vars, TypeOK
<1> QED
  BY <1>1, <1>2, <1>3, <1>4, <1>5, <1>6, <1>7, <1>8, <1>9, <1>10, <1>11, <1>12, <1>13,
     <1>14, <1>15, <1>16, <1>17, <1>18, <1>19, <1>20, <1>21, <1>22, <1>23, <1>24,
     <1>25, <1>26, <1>27, <1>28, <1>29, <1>30
     DEF Next, Before, Cutover, Verification, Undo

LEMMA KnownStep == TypeOK /\ Known /\ Course /\ [Next]_vars => Known'
<1> SUFFICES ASSUME TypeOK, Known, Course, [Next]_vars PROVE Known'
  OBVIOUS
<1>t. recorded \in Target /\ work \in Work
  BY DEF TypeOK
<1>1. CASE Issue
  BY <1>1, Issues, AtRest, <1>t DEF SameTraffic, Known, Cand
<1>2. CASE Lease
  BY <1>2, Leased, AtRest, <1>t DEF Known, Cand
<1>3. CASE Report
  BY <1>3, Reports, AtRest, <1>t DEF SameTraffic, Known, Cand
<1>4. CASE Crash
  BY <1>4, Crashes, AtRest, <1>t DEF SameTraffic, SameControl, Known, Cand
<1>5. CASE TraefikFollows
  BY <1>5, Follows, <1>t DEF SameControl, Known, Cand
<1>6. CASE Look
  BY <1>6, Looks, <1>t DEF Ends, SameStart, SameMarks, SameEnd, SameTraffic, SameControl,
     Only, State, Known, Cand
<1>7. CASE ReturnTraffic
  BY <1>7, ReturnsTraffic, <1>t DEF Goes, SameStart, SameMarks, SameEnd, SameControl, Known,
     Cand
<1>8. CASE Returned
  BY <1>8, Returns, <1>t DEF Goes, Ends, SameStart, SameMarks, SameEnd, SameTraffic,
     SameControl, Only, State, Known, Cand
<1>9. CASE PreActivation
  BY <1>9, PreActivates, AtRest, <1>t DEF Goes, Ends, SameStart, SameMarks, SameEnd,
     SameTraffic, Known, Cand, Course
<1>10. CASE Quiesce
  BY <1>10, Quiesces, <1>t DEF Fails, SameStart, SameMarks, SameEnd, SameTraffic, SameControl,
     State, Known, Cand
<1>11. CASE TakeSnapshot
  BY <1>11, TakesSnapshot, <1>t DEF Fails, SameStart, SameMarks, SameEnd, SameTraffic,
     SameControl, Known, Cand
<1>12. CASE Create
  BY <1>12, Creates, <1>t DEF Goes, Ends, SameStart, SameMarks, SameEnd, SameTraffic,
     SameControl, Only, State, Known, Cand
<1>13. CASE Readiness
  BY <1>13, Readies, <1>t DEF Goes, Fails, Ends, Undone, SameStart, SameMarks, SameEnd,
     SameTraffic, SameControl, Known, Cand
<1>14. CASE RouteToCandidate
  BY <1>14, Routes, <1>t DEF Goes, Fails, Ends, Undone, SameStart, SameMarks, SameEnd,
     SameControl, Known, Cand
<1>15. CASE ConfirmCutover
  BY <1>15, Confirms, <1>t DEF Goes, Fails, Ends, Undone, SameStart, SameMarks, SameEnd,
     SameTraffic, SameControl, Known, Cand
<1>16. CASE Retire
  BY <1>16, Retires, <1>t DEF Goes, Ends, SameStart, SameMarks, SameEnd, SameTraffic,
     SameControl, State, Known, Cand
<1>17. CASE CommitDrop
  BY <1>17, CommitDrops, <1>t DEF Ends, SameStart, SameMarks, SameTraffic, SameControl, Known,
     Cand
<1>18. CASE Verify
  BY <1>18, Verifies, <1>t DEF Goes, SameStart, SameMarks, SameEnd, SameTraffic, Known, Cand,
     Course
<1>19. CASE MoveTraffic
  BY <1>19, MovesTraffic, <1>t DEF Goes, SameStart, SameMarks, SameEnd, SameControl, Known, Cand
<1>20. CASE MoveConfirmed
  BY <1>20, MoveConfirms, <1>t DEF Goes, SameStart, SameMarks, SameEnd, SameTraffic,
     SameControl, Known, Cand
<1>21. CASE KeepCandidate
  BY <1>21, Keeps, <1>t DEF Goes, Strays, SameStart, SameMarks, SameEnd, SameControl, Known,
     Cand
<1>22. CASE KeepConfirmed
  BY <1>22, KeepConfirms, <1>t DEF Goes, Strays, SameStart, SameMarks, SameEnd, SameTraffic,
     SameControl, Known, Cand
<1>23. CASE DiscardCandidate
  BY <1>23, Discards, <1>t DEF Goes, Ends, SameStart, SameMarks, SameEnd, SameTraffic,
     SameControl, Only, State, Known, Cand
<1>24. CASE RestoreVolume
  BY <1>24, RestoresVolume, <1>t DEF Goes, Ends, Lost, SameStart, SameMarks, SameEnd,
     SameTraffic, SameControl, Known, Cand
<1>25. CASE StartPrevious
  BY <1>25, StartsPrevious, <1>t DEF Goes, Ends, Lost, SameStart, SameMarks, SameEnd,
     SameTraffic, SameControl, Only, State, Known, Cand
<1>26. CASE RouteBack
  BY <1>26, RoutesBack, <1>t DEF Goes, Ends, Lost, SameStart, SameMarks, SameEnd, SameControl,
     Known, Cand
<1>27. CASE RouteBackConfirmed
  BY <1>27, BackConfirms, <1>t DEF Goes, Ends, Lost, SameStart, SameMarks, SameEnd,
     SameTraffic, SameControl, Known, Cand
<1>28. CASE Judge
  BY <1>28, Judged, <1>t DEF Ends, SameStart, SameMarks, SameTraffic, SameControl, Known, Cand
<1>29. ASSUME NEW v \in Versions, StoppedOutside(v) PROVE Known'
  BY <1>29, Stops, <1>t DEF SameTraffic, SameControl, Only, State, Known, Cand
<1>30. CASE UNCHANGED vars
  BY <1>30 DEF vars, Known
<1> QED
  BY <1>1, <1>2, <1>3, <1>4, <1>5, <1>6, <1>7, <1>8, <1>9, <1>10, <1>11, <1>12, <1>13,
     <1>14, <1>15, <1>16, <1>17, <1>18, <1>19, <1>20, <1>21, <1>22, <1>23, <1>24,
     <1>25, <1>26, <1>27, <1>28, <1>29, <1>30
     DEF Next, Before, Cutover, Verification, Undo

LEMMA CourseStep == TypeOK /\ Known /\ Course /\ [Next]_vars => Course'
<1> SUFFICES ASSUME TypeOK, Known, Course, [Next]_vars PROVE Course'
  OBVIOUS
<1>t. Cand \in Target
  BY DEF TypeOK, Work, Cand
<1>i. h.pc \in Pc /\ h.failed \in Failed
  BY DEF TypeOK, Handler, Pc, Failed
<1>1. CASE Issue
  BY <1>1, Issues, AtRest, <1>i, <1>t DEF SameTraffic, Cand, Course, HasVolume, FreshPcs,
     DonePcs, MovePcs, UndoPcs
<1>2. CASE Lease
  BY <1>2, Leased, AtRest, <1>i, <1>t DEF Cand, Course, HasVolume, FreshPcs, DonePcs, MovePcs,
     UndoPcs, Known, Target
<1>3. CASE Report
  BY <1>3, Reports, AtRest, <1>i, <1>t DEF SameTraffic, Cand, Course, HasVolume, FreshPcs,
     DonePcs, MovePcs, UndoPcs
<1>4. CASE Crash
  BY <1>4, Crashes, AtRest, <1>i, <1>t DEF SameTraffic, SameControl, Cand, Course, HasVolume,
     FreshPcs, DonePcs, MovePcs, UndoPcs
<1>5. CASE TraefikFollows
  BY <1>5, Follows, <1>i, <1>t DEF SameControl, Cand, Course, HasVolume, FreshPcs, DonePcs,
     MovePcs, UndoPcs
<1>6. CASE Look
  BY <1>6, Looks, <1>i, <1>t DEF Ends, SameStart, SameMarks, SameEnd, SameTraffic,
     SameControl, Only, State, Cand, Course, HasVolume, FreshPcs, DonePcs, MovePcs, UndoPcs
<1>7. CASE ReturnTraffic
  BY <1>7, ReturnsTraffic, <1>i, <1>t DEF Goes, SameStart, SameMarks, SameEnd, SameControl,
     Cand, Course, HasVolume, FreshPcs, DonePcs, MovePcs, UndoPcs
<1>8. CASE Returned
  BY <1>8, Returns, <1>i, <1>t DEF Goes, Ends, SameStart, SameMarks, SameEnd, SameTraffic,
     SameControl, Only, State, Cand, Course, HasVolume, FreshPcs, DonePcs, MovePcs, UndoPcs
<1>9. CASE PreActivation
  BY <1>9, PreActivates, AtRest, <1>i, <1>t DEF Goes, Ends, SameStart, SameMarks, SameEnd,
     SameTraffic, Cand, Course, HasVolume, FreshPcs, DonePcs, MovePcs, UndoPcs
<1>10. CASE Quiesce
  BY <1>10, Quiesces, <1>i, <1>t DEF Fails, SameStart, SameMarks, SameEnd, SameTraffic,
     SameControl, State, Cand, Course, HasVolume, FreshPcs, DonePcs, MovePcs, UndoPcs
<1>11. CASE TakeSnapshot
  BY <1>11, TakesSnapshot, <1>i, <1>t DEF Fails, SameStart, SameMarks, SameEnd, SameTraffic,
     SameControl, Cand, Course, HasVolume, FreshPcs, DonePcs, MovePcs, UndoPcs
<1>12. CASE Create
  BY <1>12, Creates, <1>i, <1>t DEF Goes, Ends, SameStart, SameMarks, SameEnd, SameTraffic,
     SameControl, Only, State, Cand, Course, HasVolume, FreshPcs, DonePcs, MovePcs, UndoPcs
<1>13. CASE Readiness
  BY <1>13, Readies, <1>i, <1>t DEF Goes, Fails, Ends, Undone, SameStart, SameMarks, SameEnd,
     SameTraffic, SameControl, Cand, Course, HasVolume, FreshPcs, DonePcs, MovePcs, UndoPcs
<1>14. CASE RouteToCandidate
  BY <1>14, Routes, <1>i, <1>t DEF Goes, Fails, Ends, Undone, SameStart, SameMarks, SameEnd,
     SameControl, Cand, Course, HasVolume, FreshPcs, DonePcs, MovePcs, UndoPcs
<1>15. CASE ConfirmCutover
  BY <1>15, Confirms, <1>i, <1>t DEF Goes, Fails, Ends, Undone, SameStart, SameMarks, SameEnd,
     SameTraffic, SameControl, Cand, Course, HasVolume, FreshPcs, DonePcs, MovePcs, UndoPcs
<1>16. CASE Retire
  BY <1>16, Retires, <1>i, <1>t DEF Goes, Ends, SameStart, SameMarks, SameEnd, SameTraffic,
     SameControl, State, Cand, Course, HasVolume, FreshPcs, DonePcs, MovePcs, UndoPcs
<1>17. CASE CommitDrop
  BY <1>17, CommitDrops, <1>i, <1>t DEF Ends, SameStart, SameMarks, SameTraffic, SameControl,
     Cand, Course, HasVolume, FreshPcs, DonePcs, MovePcs, UndoPcs
<1>18. CASE Verify
  BY <1>18, Verifies, <1>i, <1>t DEF Goes, SameStart, SameMarks, SameEnd, SameTraffic, Cand,
     Course, HasVolume, FreshPcs, DonePcs, MovePcs, UndoPcs
<1>19. CASE MoveTraffic
  BY <1>19, MovesTraffic, <1>i, <1>t DEF Goes, SameStart, SameMarks, SameEnd, SameControl,
     Cand, Course, HasVolume, FreshPcs, DonePcs, MovePcs, UndoPcs
<1>20. CASE MoveConfirmed
  BY <1>20, MoveConfirms, <1>i, <1>t DEF Goes, SameStart, SameMarks, SameEnd, SameTraffic,
     SameControl, Cand, Course, HasVolume, FreshPcs, DonePcs, MovePcs, UndoPcs
<1>21. CASE KeepCandidate
  BY <1>21, Keeps, <1>i, <1>t DEF Goes, Strays, SameStart, SameMarks, SameEnd, SameControl,
     Cand, Course, HasVolume, FreshPcs, DonePcs, MovePcs, UndoPcs
<1>22. CASE KeepConfirmed
  BY <1>22, KeepConfirms, <1>i, <1>t DEF Goes, Strays, SameStart, SameMarks, SameEnd,
     SameTraffic, SameControl, Cand, Course, HasVolume, FreshPcs, DonePcs, MovePcs, UndoPcs
<1>23. CASE DiscardCandidate
  BY <1>23, Discards, <1>i, <1>t DEF Goes, Ends, SameStart, SameMarks, SameEnd, SameTraffic,
     SameControl, Only, State, Cand, Course, HasVolume, FreshPcs, DonePcs, MovePcs, UndoPcs,
     WayBack
<1>24. CASE RestoreVolume
  BY <1>24, RestoresVolume, <1>i, <1>t DEF Goes, Ends, Lost, SameStart, SameMarks, SameEnd,
     SameTraffic, SameControl, Cand, Course, HasVolume, FreshPcs, DonePcs, MovePcs, UndoPcs
<1>25. CASE StartPrevious
  BY <1>25, StartsPrevious, <1>i, <1>t DEF Goes, Ends, Lost, SameStart, SameMarks, SameEnd,
     SameTraffic, SameControl, Only, State, Cand, Course, HasVolume, FreshPcs, DonePcs, MovePcs,
     UndoPcs
<1>26. CASE RouteBack
  BY <1>26, RoutesBack, <1>i, <1>t DEF Goes, Ends, Lost, SameStart, SameMarks, SameEnd,
     SameControl, Cand, Course, HasVolume, FreshPcs, DonePcs, MovePcs, UndoPcs
<1>27. CASE RouteBackConfirmed
  BY <1>27, BackConfirms, <1>i, <1>t DEF Goes, Ends, Lost, SameStart, SameMarks, SameEnd,
     SameTraffic, SameControl, Cand, Course, HasVolume, FreshPcs, DonePcs, MovePcs, UndoPcs
<1>28. CASE Judge
  BY <1>28, Judged, <1>i, <1>t DEF Ends, SameStart, SameMarks, SameTraffic, SameControl, Cand,
     Course, HasVolume, FreshPcs, DonePcs, MovePcs, UndoPcs
<1>29. ASSUME NEW v \in Versions, StoppedOutside(v) PROVE Course'
  BY <1>29, Stops, <1>i, <1>t DEF SameTraffic, SameControl, Only, State, Cand, Course,
     HasVolume, FreshPcs, DonePcs, MovePcs, UndoPcs
<1>30. CASE UNCHANGED vars
  BY <1>30 DEF vars, Cand, Course, HasVolume, FreshPcs, DonePcs, MovePcs, UndoPcs
<1> QED
  BY <1>1, <1>2, <1>3, <1>4, <1>5, <1>6, <1>7, <1>8, <1>9, <1>10, <1>11, <1>12, <1>13,
     <1>14, <1>15, <1>16, <1>17, <1>18, <1>19, <1>20, <1>21, <1>22, <1>23, <1>24,
     <1>25, <1>26, <1>27, <1>28, <1>29, <1>30
     DEF Next, Before, Cutover, Verification, Undo

(* What was live before is never the candidate itself.                       *)
LEMMA Distinct == ASSUME Known, Course, h.pc # "idle" PROVE Cand \in Versions /\ h.prev # Cand
BY DEF Known, Course, Cand

LEMMA RoutedStep == TypeOK /\ Known /\ Course /\ Routed /\ [Next]_vars => Routed'
<1> SUFFICES ASSUME TypeOK, Known, Course, Routed, [Next]_vars PROVE Routed'
  OBVIOUS
<1>d. h.pc # "idle" => Cand \in Versions /\ h.prev # Cand
  BY Distinct
<1>c. h.pc # "idle" => Cand \in Versions
  BY <1>d
<1>1. CASE Issue
  BY <1>1, Issues, AtRest, <1>d DEF SameTraffic, Routed, Cand, HasVolume, DonePcs, Course
<1>2. CASE Lease
  BY <1>2, Leased, AtRest, <1>d DEF Routed, Cand, HasVolume, DonePcs, Course
<1>3. CASE Report
  BY <1>3, Reports, AtRest, <1>d DEF SameTraffic, Routed, Cand, HasVolume, DonePcs, Course
<1>4. CASE Crash
  BY <1>4, Crashes, AtRest, <1>d DEF SameTraffic, SameControl, Routed, Cand, HasVolume,
     DonePcs, Course
<1>5. CASE TraefikFollows
  BY <1>5, Follows, <1>d DEF SameControl, Routed, Cand, HasVolume
<1>6. CASE Look
  BY <1>6, Looks, <1>d DEF Ends, SameStart, SameMarks, SameEnd, SameTraffic, SameControl,
     Only, State, Routed, Cand, HasVolume, DonePcs, Course, MovePcs, UndoPcs, WayBack
<1>7. CASE ReturnTraffic
  BY <1>7, ReturnsTraffic, <1>d DEF Goes, SameStart, SameMarks, SameEnd, SameControl, Routed,
     Cand, HasVolume, DonePcs, Course
<1>8. CASE Returned
  BY <1>8, Returns, <1>d DEF Goes, Ends, SameStart, SameMarks, SameEnd, SameTraffic,
     SameControl, Only, State, Routed, Cand, HasVolume, DonePcs, Course
<1>9. CASE PreActivation
  BY <1>9, PreActivates, AtRest, <1>d DEF Goes, Ends, SameStart, SameMarks, SameEnd,
     SameTraffic, Routed, Cand, HasVolume, DonePcs, Course
<1>10. CASE Quiesce
  BY <1>10, Quiesces, <1>d DEF Fails, SameStart, SameMarks, SameEnd, SameTraffic, SameControl,
     State, Routed, Cand, HasVolume, DonePcs, Course
<1>11. CASE TakeSnapshot
  BY <1>11, TakesSnapshot, <1>d DEF Fails, SameStart, SameMarks, SameEnd, SameTraffic,
     SameControl, Routed, Cand, HasVolume, DonePcs, Course
<1>12. CASE Create
  BY <1>12, Creates, <1>d DEF Goes, Ends, SameStart, SameMarks, SameEnd, SameTraffic,
     SameControl, Only, State, Routed, Cand, HasVolume, DonePcs, Course
<1>13. CASE Readiness
  BY <1>13, Readies, <1>d DEF Goes, Fails, Ends, Undone, SameStart, SameMarks, SameEnd,
     SameTraffic, SameControl, Routed, Cand, HasVolume, DonePcs, Course
<1>14. CASE RouteToCandidate
  BY <1>14, Routes, <1>d DEF Goes, Fails, Ends, Undone, SameStart, SameMarks, SameEnd,
     SameControl, Routed, Cand, HasVolume, DonePcs, Course, MovePcs, UndoPcs, WayBack
<1>15. CASE ConfirmCutover
  BY <1>15, Confirms, <1>d DEF Goes, Fails, Ends, Undone, SameStart, SameMarks, SameEnd,
     SameTraffic, SameControl, Routed, Cand, HasVolume, DonePcs, Course
<1>16. CASE Retire
  <2>1. /\ h.pc = "retire" /\ file' = file /\ live' = live /\ Cand' = Cand
        /\ Goes("drop") \/ Ends("committed", FALSE)
    BY <1>16, Retires DEF SameTraffic, SameControl, Cand
  <2>2. box'[Cand] = box[Cand]
    BY <1>16, <1>d, <2>1, Retires
  <2>3. ~h.returned /\ ~h'.returned /\ h'.astray = h.astray
    BY <2>1 DEF Course, Goes, Ends, SameMarks, UndoPcs
  <2>4. CASE Goes("drop")
    BY <2>1, <2>2, <2>3, <2>4 DEF Goes, Routed, DonePcs
  <2>5. CASE Ends("committed", FALSE)
    BY <2>1, <2>3, <2>5 DEF Ends, Routed, DonePcs
  <2> QED
    BY <2>1, <2>4, <2>5
<1>17. CASE CommitDrop
  BY <1>17, CommitDrops, <1>d DEF Ends, SameStart, SameMarks, SameTraffic, SameControl,
     Routed, Cand, HasVolume, DonePcs, Course
<1>18. CASE Verify
  BY <1>18, Verifies, <1>d DEF Goes, SameStart, SameMarks, SameEnd, SameTraffic, Routed, Cand,
     HasVolume
<1>19. CASE MoveTraffic
  BY <1>19, MovesTraffic, <1>d DEF Goes, SameStart, SameMarks, SameEnd, SameControl, Routed,
     Cand, HasVolume, DonePcs, Course
<1>20. CASE MoveConfirmed
  BY <1>20, MoveConfirms, <1>d DEF Goes, SameStart, SameMarks, SameEnd, SameTraffic,
     SameControl, Routed, Cand, HasVolume, DonePcs, Course
<1>21. CASE KeepCandidate
  BY <1>21, Keeps, <1>d DEF Goes, Strays, SameStart, SameMarks, SameEnd, SameControl, Routed,
     Cand, HasVolume, DonePcs, Course, MovePcs, UndoPcs, WayBack
<1>22. CASE KeepConfirmed
  BY <1>22, KeepConfirms, <1>d DEF Goes, Strays, SameStart, SameMarks, SameEnd, SameTraffic,
     SameControl, Routed, Cand, HasVolume
<1>23. CASE DiscardCandidate
  BY <1>23, Discards, <1>d DEF Goes, Ends, SameStart, SameMarks, SameEnd, SameTraffic,
     SameControl, Only, State, Routed, Cand, HasVolume, DonePcs, Course, MovePcs, UndoPcs,
     WayBack
<1>24. CASE RestoreVolume
  BY <1>24, RestoresVolume, <1>d DEF Goes, Ends, Lost, SameStart, SameMarks, SameEnd,
     SameTraffic, SameControl, Routed, Cand, HasVolume, DonePcs, Course
<1>25. CASE StartPrevious
  BY <1>25, StartsPrevious, <1>d DEF Goes, Ends, Lost, SameStart, SameMarks, SameEnd,
     SameTraffic, SameControl, Only, State, Routed, Cand, HasVolume, DonePcs, Course
<1>26. CASE RouteBack
  BY <1>26, RoutesBack, <1>d DEF Goes, Ends, Lost, SameStart, SameMarks, SameEnd, SameControl,
     Routed, Cand, HasVolume, DonePcs, Course
<1>27. CASE RouteBackConfirmed
  BY <1>27, BackConfirms, <1>d DEF Goes, Ends, Lost, SameStart, SameMarks, SameEnd,
     SameTraffic, SameControl, Routed, Cand, HasVolume, DonePcs, Course
<1>28. CASE Judge
  BY <1>28, Judged, <1>d DEF Ends, SameStart, SameMarks, SameTraffic, SameControl, Routed,
     Cand, HasVolume, DonePcs, Course
<1>29. ASSUME NEW v \in Versions, StoppedOutside(v) PROVE Routed'
  BY <1>29, Stops, <1>d DEF SameTraffic, SameControl, Only, State, Routed, Cand, HasVolume
<1>30. CASE UNCHANGED vars
  BY <1>30 DEF vars, Routed, Cand, HasVolume, DonePcs
<1> QED
  BY <1>1, <1>2, <1>3, <1>4, <1>5, <1>6, <1>7, <1>8, <1>9, <1>10, <1>11, <1>12, <1>13,
     <1>14, <1>15, <1>16, <1>17, <1>18, <1>19, <1>20, <1>21, <1>22, <1>23, <1>24,
     <1>25, <1>26, <1>27, <1>28, <1>29, <1>30
     DEF Next, Before, Cutover, Verification, Undo

LEMMA CommittedStep == TypeOK /\ Known /\ Course /\ Routed /\ CommittedServes /\ [Next]_vars => CommittedServes'
<1> SUFFICES ASSUME TypeOK, Known, Course, Routed, CommittedServes, [Next]_vars PROVE CommittedServes'
  OBVIOUS
<1>d. h.pc # "idle" => Cand \in Versions /\ h.prev # Cand
  BY Distinct
<1>1. CASE Issue
  BY <1>1, Issues, AtRest, <1>d DEF SameTraffic, CommittedServes, Cand, Routed, DonePcs, Course
<1>2. CASE Lease
  BY <1>2, Leased, AtRest, <1>d DEF CommittedServes, Cand, Routed
<1>3. CASE Report
  BY <1>3, Reports, AtRest, <1>d DEF SameTraffic, CommittedServes, Cand, Routed
<1>4. CASE Crash
  BY <1>4, Crashes, AtRest, <1>d DEF SameTraffic, SameControl, CommittedServes, Cand, Routed
<1>5. CASE TraefikFollows
  BY <1>5, Follows, <1>d DEF SameControl, CommittedServes, Cand, Routed
<1>6. CASE Look
  BY <1>6, Looks, <1>d DEF Ends, SameStart, SameMarks, SameEnd, SameTraffic, SameControl,
     Only, State, CommittedServes, Cand, Routed, DonePcs, Course
<1>7. CASE ReturnTraffic
  BY <1>7, ReturnsTraffic, <1>d DEF Goes, SameStart, SameMarks, SameEnd, SameControl,
     CommittedServes, Cand, Routed, DonePcs, Course
<1>8. CASE Returned
  BY <1>8, Returns, <1>d DEF Goes, Ends, SameStart, SameMarks, SameEnd, SameTraffic,
     SameControl, Only, State, CommittedServes, Cand, Routed
<1>9. CASE PreActivation
  BY <1>9, PreActivates, AtRest, <1>d DEF Goes, Ends, SameStart, SameMarks, SameEnd,
     SameTraffic, CommittedServes, Cand, Routed
<1>10. CASE Quiesce
  BY <1>10, Quiesces, <1>d DEF Fails, SameStart, SameMarks, SameEnd, SameTraffic, SameControl,
     State, CommittedServes, Cand, Routed
<1>11. CASE TakeSnapshot
  BY <1>11, TakesSnapshot, <1>d DEF Fails, SameStart, SameMarks, SameEnd, SameTraffic,
     SameControl, CommittedServes, Cand, Routed
<1>12. CASE Create
  BY <1>12, Creates, <1>d DEF Goes, Ends, SameStart, SameMarks, SameEnd, SameTraffic,
     SameControl, Only, State, CommittedServes, Cand, Routed
<1>13. CASE Readiness
  BY <1>13, Readies, <1>d DEF Goes, Fails, Ends, Undone, SameStart, SameMarks, SameEnd,
     SameTraffic, SameControl, CommittedServes, Cand, Routed
<1>14. CASE RouteToCandidate
  BY <1>14, Routes, <1>d DEF Goes, Fails, Ends, Undone, SameStart, SameMarks, SameEnd,
     SameControl, CommittedServes, Cand, Routed
<1>15. CASE ConfirmCutover
  BY <1>15, Confirms, <1>d DEF Goes, Fails, Ends, Undone, SameStart, SameMarks, SameEnd,
     SameTraffic, SameControl, CommittedServes, Cand, Routed
<1>16. CASE Retire
  BY <1>16, Retires, <1>d DEF Goes, Ends, SameStart, SameMarks, SameEnd, SameTraffic,
     SameControl, State, CommittedServes, Cand, Routed, DonePcs, Course
<1>17. CASE CommitDrop
  BY <1>17, CommitDrops, <1>d DEF Ends, SameStart, SameMarks, SameTraffic, SameControl,
     CommittedServes, Cand, Routed, DonePcs, Course
<1>18. CASE Verify
  BY <1>18, Verifies, <1>d DEF Goes, SameStart, SameMarks, SameEnd, SameTraffic,
     CommittedServes, Cand, Routed
<1>19. CASE MoveTraffic
  BY <1>19, MovesTraffic, <1>d DEF Goes, SameStart, SameMarks, SameEnd, SameControl,
     CommittedServes, Cand, Routed, DonePcs, Course
<1>20. CASE MoveConfirmed
  BY <1>20, MoveConfirms, <1>d DEF Goes, SameStart, SameMarks, SameEnd, SameTraffic,
     SameControl, CommittedServes, Cand, Routed
<1>21. CASE KeepCandidate
  BY <1>21, Keeps, <1>d DEF Goes, Strays, SameStart, SameMarks, SameEnd, SameControl,
     CommittedServes, Cand, Routed
<1>22. CASE KeepConfirmed
  BY <1>22, KeepConfirms, <1>d DEF Goes, Strays, SameStart, SameMarks, SameEnd, SameTraffic,
     SameControl, CommittedServes, Cand, Routed
<1>23. CASE DiscardCandidate
  BY <1>23, Discards, <1>d DEF Goes, Ends, SameStart, SameMarks, SameEnd, SameTraffic,
     SameControl, Only, State, CommittedServes, Cand, Routed, DonePcs, Course
<1>24. CASE RestoreVolume
  BY <1>24, RestoresVolume, <1>d DEF Goes, Ends, Lost, SameStart, SameMarks, SameEnd,
     SameTraffic, SameControl, CommittedServes, Cand, Routed
<1>25. CASE StartPrevious
  BY <1>25, StartsPrevious, <1>d DEF Goes, Ends, Lost, SameStart, SameMarks, SameEnd,
     SameTraffic, SameControl, Only, State, CommittedServes, Cand, Routed
<1>26. CASE RouteBack
  BY <1>26, RoutesBack, <1>d DEF Goes, Ends, Lost, SameStart, SameMarks, SameEnd, SameControl,
     CommittedServes, Cand, Routed, DonePcs, Course
<1>27. CASE RouteBackConfirmed
  BY <1>27, BackConfirms, <1>d DEF Goes, Ends, Lost, SameStart, SameMarks, SameEnd,
     SameTraffic, SameControl, CommittedServes, Cand, Routed
<1>28. CASE Judge
  BY <1>28, Judged, <1>d DEF Ends, SameStart, SameMarks, SameTraffic, SameControl,
     CommittedServes, Cand, Routed
<1>29. ASSUME NEW v \in Versions, StoppedOutside(v) PROVE CommittedServes'
  BY <1>29, Stops, <1>d DEF SameTraffic, SameControl, Only, State, CommittedServes, Cand,
     Routed, DonePcs, Course
<1>30. CASE UNCHANGED vars
  BY <1>30 DEF vars, CommittedServes, Cand
<1> QED
  BY <1>1, <1>2, <1>3, <1>4, <1>5, <1>6, <1>7, <1>8, <1>9, <1>10, <1>11, <1>12, <1>13,
     <1>14, <1>15, <1>16, <1>17, <1>18, <1>19, <1>20, <1>21, <1>22, <1>23, <1>24,
     <1>25, <1>26, <1>27, <1>28, <1>29, <1>30
     DEF Next, Before, Cutover, Verification, Undo

LEMMA PreservedStep == TypeOK /\ Known /\ Course /\ Routed /\ PreservedServes /\ [Next]_vars => PreservedServes'
<1> SUFFICES ASSUME TypeOK, Known, Course, Routed, PreservedServes, [Next]_vars PROVE PreservedServes'
  OBVIOUS
<1>1. CASE Issue
  BY <1>1, Issues, AtRest DEF SameTraffic, PreservedServes, Cand, Routed, HasVolume
<1>2. CASE Lease
  BY <1>2, Leased, AtRest DEF PreservedServes, Cand, Routed, HasVolume
<1>3. CASE Report
  BY <1>3, Reports, AtRest DEF SameTraffic, PreservedServes, Cand, Routed, HasVolume
<1>4. CASE Crash
  BY <1>4, Crashes, AtRest DEF SameTraffic, SameControl, PreservedServes, Cand, Routed,
     HasVolume
<1>5. CASE TraefikFollows
  BY <1>5, Follows DEF SameControl, PreservedServes, Cand, Routed, HasVolume
<1>6. CASE Look
  BY <1>6, Looks DEF Ends, SameStart, SameMarks, SameEnd, SameTraffic, SameControl, Only,
     State, PreservedServes, Cand, Routed, DonePcs, HasVolume, Course
<1>7. CASE ReturnTraffic
  BY <1>7, ReturnsTraffic DEF Goes, SameStart, SameMarks, SameEnd, SameControl,
     PreservedServes, Cand, Routed, HasVolume
<1>8. CASE Returned
  BY <1>8, Returns DEF Goes, Ends, SameStart, SameMarks, SameEnd, SameTraffic, SameControl,
     Only, State, PreservedServes, Cand, Routed, DonePcs, HasVolume, Course, UndoPcs, MovePcs
<1>9. CASE PreActivation
  BY <1>9, PreActivates, AtRest DEF Goes, Ends, SameStart, SameMarks, SameEnd, SameTraffic,
     PreservedServes, Cand, Routed, DonePcs, HasVolume, Course, UndoPcs, MovePcs
<1>10. CASE Quiesce
  BY <1>10, Quiesces DEF Fails, SameStart, SameMarks, SameEnd, SameTraffic, SameControl,
     State, PreservedServes, Cand, Routed, DonePcs, HasVolume, Course
<1>11. CASE TakeSnapshot
  BY <1>11, TakesSnapshot DEF Fails, SameStart, SameMarks, SameEnd, SameTraffic, SameControl,
     PreservedServes, Cand, Routed, DonePcs, HasVolume, Course
<1>12. CASE Create
  BY <1>12, Creates DEF Goes, Ends, SameStart, SameMarks, SameEnd, SameTraffic, SameControl,
     Only, State, PreservedServes, Cand, Routed, HasVolume
<1>13. CASE Readiness
  BY <1>13, Readies DEF Goes, Fails, Ends, Undone, SameStart, SameMarks, SameEnd, SameTraffic,
     SameControl, PreservedServes, Cand, Routed, DonePcs, HasVolume, Course
<1>14. CASE RouteToCandidate
  BY <1>14, Routes DEF Goes, Fails, Ends, Undone, SameStart, SameMarks, SameEnd, SameControl,
     PreservedServes, Cand, Routed, DonePcs, HasVolume, Course
<1>15. CASE ConfirmCutover
  BY <1>15, Confirms DEF Goes, Fails, Ends, Undone, SameStart, SameMarks, SameEnd,
     SameTraffic, SameControl, PreservedServes, Cand, Routed, DonePcs, HasVolume, Course
<1>16. CASE Retire
  BY <1>16, Retires DEF Goes, Ends, SameStart, SameMarks, SameEnd, SameTraffic, SameControl,
     State, PreservedServes, Cand, Routed, HasVolume
<1>17. CASE CommitDrop
  BY <1>17, CommitDrops DEF Ends, SameStart, SameMarks, SameTraffic, SameControl,
     PreservedServes, Cand, Routed, HasVolume
<1>18. CASE Verify
  BY <1>18, Verifies DEF Goes, SameStart, SameMarks, SameEnd, SameTraffic, PreservedServes,
     Cand, Routed, HasVolume
<1>19. CASE MoveTraffic
  BY <1>19, MovesTraffic DEF Goes, SameStart, SameMarks, SameEnd, SameControl,
     PreservedServes, Cand, Routed, HasVolume
<1>20. CASE MoveConfirmed
  BY <1>20, MoveConfirms DEF Goes, SameStart, SameMarks, SameEnd, SameTraffic, SameControl,
     PreservedServes, Cand, Routed, DonePcs, HasVolume, Course
<1>21. CASE KeepCandidate
  BY <1>21, Keeps DEF Goes, Strays, SameStart, SameMarks, SameEnd, SameControl,
     PreservedServes, Cand, Routed, DonePcs, HasVolume, Course
<1>22. CASE KeepConfirmed
  BY <1>22, KeepConfirms DEF Goes, Strays, SameStart, SameMarks, SameEnd, SameTraffic,
     SameControl, PreservedServes, Cand, Routed, HasVolume
<1>23. CASE DiscardCandidate
  BY <1>23, Discards DEF Goes, Ends, SameStart, SameMarks, SameEnd, SameTraffic, SameControl,
     Only, State, PreservedServes, Cand, Routed, HasVolume
<1>24. CASE RestoreVolume
  BY <1>24, RestoresVolume DEF Goes, Ends, Lost, SameStart, SameMarks, SameEnd, SameTraffic,
     SameControl, PreservedServes, Cand, Routed, DonePcs, HasVolume, Course
<1>25. CASE StartPrevious
  BY <1>25, StartsPrevious DEF Goes, Ends, Lost, SameStart, SameMarks, SameEnd, SameTraffic,
     SameControl, Only, State, PreservedServes, Cand, Routed, HasVolume
<1>26. CASE RouteBack
  BY <1>26, RoutesBack DEF Goes, Ends, Lost, SameStart, SameMarks, SameEnd, SameControl,
     PreservedServes, Cand, Routed, HasVolume
<1>27. CASE RouteBackConfirmed
  BY <1>27, BackConfirms DEF Goes, Ends, Lost, SameStart, SameMarks, SameEnd, SameTraffic,
     SameControl, PreservedServes, Cand, Routed, HasVolume
<1>28. CASE Judge
  BY <1>28, Judged DEF Ends, SameStart, SameMarks, SameTraffic, SameControl, PreservedServes,
     Cand, Routed, HasVolume
<1>29. ASSUME NEW v \in Versions, StoppedOutside(v) PROVE PreservedServes'
  BY <1>29, Stops DEF SameTraffic, SameControl, Only, State, PreservedServes, Cand, Routed,
     HasVolume
<1>30. CASE UNCHANGED vars
  BY <1>30 DEF vars, PreservedServes, HasVolume
<1> QED
  BY <1>1, <1>2, <1>3, <1>4, <1>5, <1>6, <1>7, <1>8, <1>9, <1>10, <1>11, <1>12, <1>13,
     <1>14, <1>15, <1>16, <1>17, <1>18, <1>19, <1>20, <1>21, <1>22, <1>23, <1>24,
     <1>25, <1>26, <1>27, <1>28, <1>29, <1>30
     DEF Next, Before, Cutover, Verification, Undo

(* Stopping containers leaves a sole writer, if none is to be started next.  *)
LEMMA Fewer ==
    ASSUME Sole, Running' \subseteq Running, HasVolume' <=> HasVolume,
           h'.pc \notin {"snapshot", "create", "start"}
    PROVE  Sole'
BY DEF Sole

LEMMA SoleStep == TypeOK /\ Known /\ Course /\ Sole /\ [Next]_vars => Sole'
<1> SUFFICES ASSUME TypeOK, Known, Course, Sole, [Next]_vars PROVE Sole'
  OBVIOUS
<1>d. h.pc # "idle" => Cand \in Versions /\ h.prev # Cand
  BY Distinct
<1>1. CASE Issue
  BY <1>1, Issues, AtRest, <1>d DEF SameTraffic, Sole, Running, HasVolume, SoleConsumer, Cand
<1>2. CASE Lease
  BY <1>2, Leased, AtRest, <1>d DEF Sole, Running, HasVolume, SoleConsumer, Cand
<1>3. CASE Report
  BY <1>3, Reports, AtRest, <1>d DEF SameTraffic, Sole, Running, HasVolume, SoleConsumer, Cand
<1>4. CASE Crash
  BY <1>4, Crashes, AtRest, <1>d DEF SameTraffic, SameControl, Sole, Running, HasVolume,
     SoleConsumer, Cand
<1>5. CASE TraefikFollows
  BY <1>5, Follows, <1>d DEF SameControl, Sole, Running, HasVolume, SoleConsumer, Cand
<1>6. CASE Look
  <2>1. /\ Running' \subseteq Running
        /\ HasVolume' <=> HasVolume
        /\ h'.pc \notin {"snapshot", "create", "start"}
    BY <1>6, <1>d, Looks DEF Running, HasVolume, Goes, Fails, Ends, Undone, Lost, Strays,
       Only, State
  <2> QED
    BY <2>1, Fewer
<1>7. CASE ReturnTraffic
  BY <1>7, ReturnsTraffic, <1>d DEF Goes, SameStart, SameMarks, SameEnd, SameControl, Sole,
     Running, HasVolume, SoleConsumer, Cand
<1>8. CASE Returned
  <2>1. /\ Running' \subseteq Running
        /\ HasVolume' <=> HasVolume
        /\ h'.pc \notin {"snapshot", "create", "start"}
    BY <1>8, <1>d, Returns DEF Running, HasVolume, Goes, Fails, Ends, Undone, Lost, Strays,
       Only, State
  <2> QED
    BY <2>1, Fewer
<1>9. CASE PreActivation
  BY <1>9, PreActivates, AtRest, <1>d DEF Goes, Ends, SameStart, SameMarks, SameEnd,
     SameTraffic, Sole, Running, HasVolume, SoleConsumer, Cand
<1>10. CASE Quiesce
  BY <1>10, Quiesces, <1>d DEF Fails, SameStart, SameMarks, SameEnd, SameTraffic, SameControl,
     State, Sole, Running, HasVolume, SoleConsumer, Cand
<1>11. CASE TakeSnapshot
  BY <1>11, TakesSnapshot, <1>d DEF Fails, SameStart, SameMarks, SameEnd, SameTraffic,
     SameControl, Sole, Running, HasVolume, SoleConsumer, Cand
<1>12. CASE Create
  <2>1. HasVolume => Running = {}
    BY <1>12, Creates DEF Sole
  <2>2. /\ HasVolume' <=> HasVolume
        /\ \A v \in Versions : v # Cand => box'[v] = box[v]
        /\ h'.pc \in {"ready", "report"}
    BY <1>12, Creates DEF HasVolume, Goes, Ends, Only
  <2>3. HasVolume => Running' \subseteq {Cand}
    BY <2>1, <2>2 DEF Running
  <2> QED
    BY <2>2, <2>3 DEF Sole
<1>13. CASE Readiness
  <2>1. /\ Running' \subseteq Running
        /\ HasVolume' <=> HasVolume
        /\ h'.pc \notin {"snapshot", "create", "start"}
    BY <1>13, <1>d, Readies DEF Running, HasVolume, Goes, Fails, Ends, Undone, Lost, Strays,
       Only, State
  <2> QED
    BY <2>1, Fewer
<1>14. CASE RouteToCandidate
  <2>1. /\ Running' \subseteq Running
        /\ HasVolume' <=> HasVolume
        /\ h'.pc \notin {"snapshot", "create", "start"}
    BY <1>14, <1>d, Routes DEF Running, HasVolume, Goes, Fails, Ends, Undone, Lost, Strays,
       Only, State
  <2> QED
    BY <2>1, Fewer
<1>15. CASE ConfirmCutover
  <2>1. /\ Running' \subseteq Running
        /\ HasVolume' <=> HasVolume
        /\ h'.pc \notin {"snapshot", "create", "start"}
    BY <1>15, <1>d, Confirms DEF Running, HasVolume, Goes, Fails, Ends, Undone, Lost, Strays,
       Only, State
  <2> QED
    BY <2>1, Fewer
<1>16. CASE Retire
  <2>1. /\ Running' \subseteq Running
        /\ HasVolume' <=> HasVolume
        /\ h'.pc \notin {"snapshot", "create", "start"}
    BY <1>16, <1>d, Retires DEF Running, HasVolume, Goes, Fails, Ends, Undone, Lost, Strays,
       Only, State
  <2> QED
    BY <2>1, Fewer
<1>17. CASE CommitDrop
  <2>1. /\ Running' \subseteq Running
        /\ HasVolume' <=> HasVolume
        /\ h'.pc \notin {"snapshot", "create", "start"}
    BY <1>17, <1>d, CommitDrops DEF Running, HasVolume, Goes, Fails, Ends, Undone, Lost,
       Strays, Only, State
  <2> QED
    BY <2>1, Fewer
<1>18. CASE Verify
  BY <1>18, Verifies, <1>d DEF Goes, SameStart, SameMarks, SameEnd, SameTraffic, Sole,
     Running, HasVolume, SoleConsumer, Cand
<1>19. CASE MoveTraffic
  BY <1>19, MovesTraffic, <1>d DEF Goes, SameStart, SameMarks, SameEnd, SameControl, Sole,
     Running, HasVolume, SoleConsumer, Cand
<1>20. CASE MoveConfirmed
  BY <1>20, MoveConfirms, <1>d DEF Goes, SameStart, SameMarks, SameEnd, SameTraffic,
     SameControl, Sole, Running, HasVolume, SoleConsumer, Cand
<1>21. CASE KeepCandidate
  BY <1>21, Keeps, <1>d DEF Goes, Strays, SameStart, SameMarks, SameEnd, SameControl, Sole,
     Running, HasVolume, SoleConsumer, Cand
<1>22. CASE KeepConfirmed
  BY <1>22, KeepConfirms, <1>d DEF Goes, Strays, SameStart, SameMarks, SameEnd, SameTraffic,
     SameControl, Sole, Running, HasVolume, SoleConsumer, Cand
<1>23. CASE DiscardCandidate
  <2>1. /\ Running' \subseteq Running
        /\ HasVolume' <=> HasVolume
        /\ h'.pc \notin {"snapshot", "create", "start"}
    BY <1>23, <1>d, Discards DEF Running, HasVolume, Goes, Fails, Ends, Undone, Lost, Strays,
       Only, State, WayBack
  <2> QED
    BY <2>1, Fewer
<1>24. CASE RestoreVolume
  <2>1. /\ Running' = Running
        /\ h.pc = "restore"
        /\ h'.pc # "report" => h'.pc \in {"back", "start"} /\ SoleConsumer(NoVersion)
    BY <1>24, RestoresVolume DEF Running, Goes, Ends, Lost
  <2>2. HasVolume
    BY <2>1 DEF Course
  <2>3. h'.pc # "report" => Running = {}
    BY <2>1, <2>2 DEF SoleConsumer, Running
  <2> QED
    BY <2>1, <2>2, <2>3 DEF Sole
<1>25. CASE StartPrevious
  <2>1. h.pc = "start" /\ h'.pc \notin {"snapshot", "create", "start"} /\ volume' = volume
    BY <1>25, StartsPrevious DEF Goes, Lost, Ends
  <2>2. HasVolume /\ (HasVolume' <=> HasVolume)
    BY <2>1 DEF Course, HasVolume
  <2>3. CASE box' = box
    <3>1. Running' = Running
      BY <2>3 DEF Running
    <3> QED
      BY <2>1, <2>2, <3>1, Fewer
  <2>4. CASE MayStartPrevious /\ Only(h.prev)
    <3>1. Running = {}
      BY <2>1, <2>2, <2>4 DEF Sole, MayStartPrevious, SoleConsumer, Running
    <3>2. \A v \in Running' : v = h.prev
      BY <2>4, <3>1 DEF Running, Only
    <3> QED
      BY <2>1, <3>2 DEF Sole
  <2> QED
    BY <1>25, <2>3, <2>4, StartsPrevious
<1>26. CASE RouteBack
  BY <1>26, RoutesBack, <1>d DEF Goes, Ends, Lost, SameStart, SameMarks, SameEnd, SameControl,
     Sole, Running, HasVolume, SoleConsumer, Cand
<1>27. CASE RouteBackConfirmed
  <2>1. /\ Running' \subseteq Running
        /\ HasVolume' <=> HasVolume
        /\ h'.pc \notin {"snapshot", "create", "start"}
    BY <1>27, <1>d, BackConfirms DEF Running, HasVolume, Goes, Fails, Ends, Undone, Lost,
       Strays, Only, State
  <2> QED
    BY <2>1, Fewer
<1>28. CASE Judge
  BY <1>28, Judged, <1>d DEF Ends, SameStart, SameMarks, SameTraffic, SameControl, Sole,
     Running, HasVolume, SoleConsumer, Cand
<1>29. ASSUME NEW v \in Versions, StoppedOutside(v) PROVE Sole'
  BY <1>29, Stops, <1>d DEF SameTraffic, SameControl, Only, State, Sole, Running, HasVolume,
     SoleConsumer, Cand
<1>30. CASE UNCHANGED vars
  BY <1>30 DEF vars, Sole, Running, HasVolume
<1> QED
  BY <1>1, <1>2, <1>3, <1>4, <1>5, <1>6, <1>7, <1>8, <1>9, <1>10, <1>11, <1>12, <1>13,
     <1>14, <1>15, <1>16, <1>17, <1>18, <1>19, <1>20, <1>21, <1>22, <1>23, <1>24,
     <1>25, <1>26, <1>27, <1>28, <1>29, <1>30
     DEF Next, Before, Cutover, Verification, Undo

LEMMA CoveredStep == TypeOK /\ Known /\ Course /\ Covered /\ [Next]_vars => Covered'
<1> SUFFICES ASSUME TypeOK, Known, Course, Covered, [Next]_vars PROVE Covered'
  OBVIOUS
<1>d. h.pc # "idle" => Cand \in Versions /\ h.prev # Cand
  BY Distinct
<1>e. snap' = snap /\ Cand' = Cand => (Earlier' <=> Earlier) /\ (Old' <=> Old)
  BY DEF Earlier, Old
<1>o. Cand \in Versions =>
        /\ snap[Cand] \in {"none", "clean", "dirty"}
        /\ snap[Cand] = "dirty" => Earlier
  BY DEF TypeOK, Covered, Old, Earlier
<1>1. CASE Issue
  BY <1>1, Issues, AtRest, <1>d DEF SameTraffic, Covered, Earlier, Old, HasVolume, Cand, Known
<1>2. CASE Lease
  BY <1>2, Leased, AtRest, <1>d, <1>e, <1>o DEF Covered, HasVolume, Cand, 
     Strays, SameStart, SameMarks, SameControl, MovePcs, UndoPcs, WayBack
<1>3. CASE Report
  BY <1>3, Reports, AtRest, <1>d DEF SameTraffic, Covered, Earlier, Old, HasVolume, Cand, Known
<1>4. CASE Crash
  BY <1>4, Crashes, AtRest, <1>d, <1>e, <1>o DEF Covered, HasVolume, Cand, 
     Strays, SameStart, SameMarks, SameControl, MovePcs, UndoPcs, WayBack
<1>5. CASE TraefikFollows
  BY <1>5, Follows, <1>d, <1>e, <1>o DEF Covered, HasVolume, Cand, 
     Strays, SameStart, SameMarks, SameControl, MovePcs, UndoPcs, WayBack
<1>6. CASE Look
  BY <1>6, Looks, <1>d, <1>e, <1>o DEF Covered, HasVolume, Cand, Ends, 
     Strays, SameStart, SameMarks, SameControl, MovePcs, UndoPcs, WayBack
<1>7. CASE ReturnTraffic
  BY <1>7, ReturnsTraffic, <1>d, <1>e, <1>o DEF Covered, HasVolume, Cand, Goes, 
     Strays, SameStart, SameMarks, SameControl, MovePcs, UndoPcs, WayBack
<1>8. CASE Returned
  BY <1>8, Returns, <1>d, <1>e, <1>o DEF Covered, HasVolume, Cand, Goes, Ends, 
     Strays, SameStart, SameMarks, SameControl, MovePcs, UndoPcs, WayBack
<1>9. CASE PreActivation
  BY <1>9, PreActivates, AtRest, <1>d, <1>e DEF Covered, Course, FreshPcs, HasVolume, Goes,
     Ends, SameStart, SameMarks
<1>10. CASE Quiesce
  BY <1>10, Quiesces, <1>d, <1>e, <1>o DEF Covered, HasVolume, Cand, Fails, 
     Strays, SameStart, SameMarks, SameControl, MovePcs, UndoPcs, WayBack
<1>11. CASE TakeSnapshot
  <2>1. /\ h.pc = "snapshot" /\ HasVolume /\ volume' = volume /\ Cand \in Versions /\ Cand' = Cand
        /\ h'.pc \in {"create", "start"}
        /\ h'.pc = "start" => snap' = snap /\ h'.failed = "quiesce"
        /\ \A v \in Versions : v # Cand => snap'[v] = snap[v]
    BY <1>11, <1>d, TakesSnapshot DEF Course, Fails, SameControl, Cand
  <2>2. Earlier' <=> Earlier
    BY <2>1 DEF Earlier
  <2>3. CASE snap' = snap /\ h'.pc = "start"
    BY <1>e, <2>1, <2>2, <2>3 DEF Covered
  <2>4. CASE snap'[Cand] = IF snap[Cand] # "none" THEN snap[Cand]
                           ELSE IF volume = "clean" THEN "clean" ELSE "dirty"
    <3>1. snap'[Cand] = "dirty" => snap[Cand] = "dirty" \/ (snap[Cand] = "none" /\ volume = "touched")
      BY <2>1, <2>4 DEF TypeOK, HasVolume
    <3>2. snap'[Cand] = "dirty" => Earlier
      BY <2>1, <3>1 DEF Covered, Old, Earlier
    <3>3. Old'
      BY <2>1, <3>2 DEF Covered, Old, Earlier
    <3>4. snap'[Cand] # "none" /\ (snap[Cand] = "clean" => snap'[Cand] = "clean")
      BY <2>4
    <3> QED
      BY <2>1, <2>2, <2>4, <3>3, <3>4 DEF Covered
  <2> QED
    BY <1>11, <1>d, <2>3, <2>4, TakesSnapshot DEF Fails
<1>12. CASE Create
  <2>1. /\ h.pc = "create" /\ ~h.adopted /\ Cand \in Versions /\ Cand' = Cand
        /\ snap' = snap /\ h'.snapshot = h.snapshot /\ h'.pc \in {"ready", "report"}
        /\ volume' = volume \/ HasVolume
    BY <1>12, <1>d, Creates DEF Course, Goes, Ends, SameMarks, SameControl, Cand
  <2>2. HasVolume => snap[Cand] # "none"
    BY <2>1 DEF Course, Covered
  <2>3. volume' = "touched" => Earlier \/ snap[Cand] = "clean"
    <3>1. CASE HasVolume
      BY <1>o, <2>1, <2>2, <3>1
    <3>2. CASE volume' = volume
      BY <3>2 DEF Covered
    <3> QED
      BY <2>1, <3>1, <3>2
  <2>4. h'.pc = "ready" /\ h'.snapshot => snap[Cand] # "none"
    BY <2>1, <2>2 DEF Course
  <2> QED
    BY <1>e, <2>1, <2>3, <2>4 DEF Covered
<1>13. CASE Readiness
  BY <1>13, Readies, <1>d, <1>e, <1>o DEF Covered, HasVolume, Cand, Goes, Fails, Ends, Undone, 
     Strays, SameStart, SameMarks, SameControl, MovePcs, UndoPcs, WayBack
<1>14. CASE RouteToCandidate
  BY <1>14, Routes, <1>d, <1>e, <1>o DEF Covered, HasVolume, Cand, Goes, Fails, Ends, Undone, 
     Strays, SameStart, SameMarks, SameControl, MovePcs, UndoPcs, WayBack
<1>15. CASE ConfirmCutover
  BY <1>15, Confirms, <1>d, <1>e, <1>o DEF Covered, HasVolume, Cand, Goes, Fails, Ends, Undone, 
     Strays, SameStart, SameMarks, SameControl, MovePcs, UndoPcs, WayBack
<1>16. CASE Retire
  BY <1>16, Retires, <1>d, <1>e, <1>o DEF Covered, HasVolume, Cand, Goes, Ends, 
     Strays, SameStart, SameMarks, SameControl, MovePcs, UndoPcs, WayBack
<1>17. CASE CommitDrop
  BY <1>17, CommitDrops, <1>d DEF Ends, SameStart, SameMarks, SameTraffic, SameControl,
     Covered, Earlier, Old, HasVolume, Cand
<1>18. CASE Verify
  BY <1>18, Verifies, <1>d, <1>e, <1>o DEF Covered, HasVolume, Cand, Goes, 
     Strays, SameStart, SameMarks, SameControl, MovePcs, UndoPcs, WayBack
<1>19. CASE MoveTraffic
  BY <1>19, MovesTraffic, <1>d, <1>e, <1>o DEF Covered, HasVolume, Cand, Goes, 
     Strays, SameStart, SameMarks, SameControl, MovePcs, UndoPcs, WayBack
<1>20. CASE MoveConfirmed
  BY <1>20, MoveConfirms, <1>d, <1>e, <1>o DEF Covered, Course, HasVolume, Cand, Goes, 
     Strays, SameStart, SameMarks, SameControl, MovePcs, UndoPcs, WayBack
<1>21. CASE KeepCandidate
  BY <1>21, Keeps, <1>d, <1>e, <1>o DEF Covered, HasVolume, Cand, Goes, 
     Strays, SameStart, SameMarks, SameControl, MovePcs, UndoPcs, WayBack
<1>22. CASE KeepConfirmed
  BY <1>22, KeepConfirms, <1>d, <1>e, <1>o DEF Covered, HasVolume, Cand, Goes, 
     Strays, SameStart, SameMarks, SameControl, MovePcs, UndoPcs, WayBack
<1>23. CASE DiscardCandidate
  BY <1>23, Discards, <1>d, <1>e, <1>o DEF Covered, Course, HasVolume, Cand, Goes, Ends, 
     Strays, SameStart, SameMarks, SameControl, MovePcs, UndoPcs, WayBack
<1>24. CASE RestoreVolume
  BY <1>24, RestoresVolume, <1>d, <1>e, <1>o DEF Covered, HasVolume, Cand, Goes, Ends, Lost, 
     Strays, SameStart, SameMarks, SameControl, MovePcs, UndoPcs, WayBack
<1>25. CASE StartPrevious
  BY <1>25, StartsPrevious, <1>d, <1>e, <1>o DEF Covered, HasVolume, Cand, Goes, Ends, Lost, 
     Strays, SameStart, SameMarks, SameControl, MovePcs, UndoPcs, WayBack
<1>26. CASE RouteBack
  BY <1>26, RoutesBack, <1>d, <1>e, <1>o DEF Covered, HasVolume, Cand, Goes, Ends, Lost, 
     Strays, SameStart, SameMarks, SameControl, MovePcs, UndoPcs, WayBack
<1>27. CASE RouteBackConfirmed
  <2>1. /\ h.pc = "waitback" /\ h'.pc \notin {"create", "ready", "route", "cutover", "discard",
                                             "restore", "start", "back", "waitback", "drop"}
        /\ volume' = volume /\ Cand' = Cand /\ Cand \in Versions
        /\ \A v \in Versions : v # Cand => snap'[v] = snap[v]
    BY <1>27, <1>d, BackConfirms DEF Goes, Lost, Ends, SameControl, Cand
  <2>2. Earlier' <=> Earlier
    BY <2>1 DEF Earlier
  <2>3. \/ snap' = snap
        \/ /\ snap'[Cand] \in {snap[Cand], "none"}
           /\ volume = "clean" \/ Earlier
    BY <1>27, <2>1, BackConfirms DEF Covered
  <2>4. Old'
    BY <2>1, <2>2, <2>3 DEF Old, Earlier, Covered
  <2>5. volume' = "touched" => Earlier' \/ (Cand' \in Versions /\ snap'[Cand'] = "clean")
    BY <2>1, <2>2, <2>3 DEF Covered
  <2> QED
    BY <2>1, <2>4, <2>5 DEF Covered
<1>28. CASE Judge
  BY <1>28, Judged, <1>d, <1>e, <1>o DEF Covered, HasVolume, Cand, Ends, 
     Strays, SameStart, SameMarks, SameControl, MovePcs, UndoPcs, WayBack
<1>29. ASSUME NEW v \in Versions, StoppedOutside(v) PROVE Covered'
  BY <1>29, Stops, <1>d, <1>e, <1>o DEF Covered, HasVolume, Cand, 
     Strays, SameStart, SameMarks, SameControl, MovePcs, UndoPcs, WayBack
<1>30. CASE UNCHANGED vars
  BY <1>30 DEF vars, Covered, Earlier, Old, Cand
<1> QED
  BY <1>1, <1>2, <1>3, <1>4, <1>5, <1>6, <1>7, <1>8, <1>9, <1>10, <1>11, <1>12, <1>13,
     <1>14, <1>15, <1>16, <1>17, <1>18, <1>19, <1>20, <1>21, <1>22, <1>23, <1>24,
     <1>25, <1>26, <1>27, <1>28, <1>29, <1>30
     DEF Next, Before, Cutover, Verification, Undo

----------------------------------------------------------------------------
(* What a step may do to the container that serves, as the property has it.  *)
Serving ==
    \A v \in Running \ {Cand} :
      ~HasVolume /\ live = v /\ ~h.astray => box'[v] = "running" \/ StoppedOutside(v)

LEMMA ServingStep == TypeOK /\ Known /\ Course /\ Routed /\ [Next]_vars => Serving
<1> SUFFICES ASSUME TypeOK, Known, Course, Routed, [Next]_vars PROVE Serving
  OBVIOUS
<1>d. h.pc # "idle" => Cand \in Versions /\ h.prev # Cand
  BY Distinct
<1>1. CASE Issue
  BY <1>1, Issues, AtRest, <1>d DEF SameTraffic, Serving, Running, Routed
<1>2. CASE Lease
  BY <1>2, Leased, AtRest, <1>d DEF Serving, Running, Routed
<1>3. CASE Report
  BY <1>3, Reports, AtRest, <1>d DEF SameTraffic, Serving, Running, Routed
<1>4. CASE Crash
  BY <1>4, Crashes, AtRest, <1>d DEF SameTraffic, SameControl, Serving, Running, Routed
<1>5. CASE TraefikFollows
  BY <1>5, Follows, <1>d DEF SameControl, Serving, Running, Routed
<1>6. CASE Look
  BY <1>6, Looks, <1>d DEF Ends, SameStart, SameMarks, SameEnd, SameTraffic, SameControl,
     Only, State, Serving, Running, Routed
<1>7. CASE ReturnTraffic
  BY <1>7, ReturnsTraffic, <1>d DEF Goes, SameStart, SameMarks, SameEnd, SameControl, Serving,
     Running, Routed
<1>8. CASE Returned
  BY <1>8, Returns, <1>d DEF Goes, Ends, SameStart, SameMarks, SameEnd, SameTraffic,
     SameControl, Only, State, Serving, Running, Routed
<1>9. CASE PreActivation
  BY <1>9, PreActivates, AtRest, <1>d DEF Goes, Ends, SameStart, SameMarks, SameEnd,
     SameTraffic, Serving, Running, Routed
<1>10. CASE Quiesce
  BY <1>10, Quiesces, <1>d DEF Fails, SameStart, SameMarks, SameEnd, SameTraffic, SameControl,
     State, Serving, Running, Course, Routed, DonePcs
<1>11. CASE TakeSnapshot
  BY <1>11, TakesSnapshot, <1>d DEF Fails, SameStart, SameMarks, SameEnd, SameTraffic,
     SameControl, Serving, Running, Routed
<1>12. CASE Create
  BY <1>12, Creates, <1>d DEF Goes, Ends, SameStart, SameMarks, SameEnd, SameTraffic,
     SameControl, Only, State, Serving, Running, Routed
<1>13. CASE Readiness
  BY <1>13, Readies, <1>d DEF Goes, Fails, Ends, Undone, SameStart, SameMarks, SameEnd,
     SameTraffic, SameControl, Serving, Running, Routed
<1>14. CASE RouteToCandidate
  BY <1>14, Routes, <1>d DEF Goes, Fails, Ends, Undone, SameStart, SameMarks, SameEnd,
     SameControl, Serving, Running, Routed
<1>15. CASE ConfirmCutover
  BY <1>15, Confirms, <1>d DEF Goes, Fails, Ends, Undone, SameStart, SameMarks, SameEnd,
     SameTraffic, SameControl, Serving, Running, Routed
<1>16. CASE Retire
  BY <1>16, Retires, <1>d DEF Goes, Ends, SameStart, SameMarks, SameEnd, SameTraffic,
     SameControl, State, Serving, Running, Course, Routed, DonePcs
<1>17. CASE CommitDrop
  BY <1>17, CommitDrops, <1>d DEF Ends, SameStart, SameMarks, SameTraffic, SameControl,
     Serving, Running, Routed
<1>18. CASE Verify
  BY <1>18, Verifies, <1>d DEF Goes, SameStart, SameMarks, SameEnd, SameTraffic, Serving,
     Running, Routed
<1>19. CASE MoveTraffic
  BY <1>19, MovesTraffic, <1>d DEF Goes, SameStart, SameMarks, SameEnd, SameControl, Serving,
     Running, Routed
<1>20. CASE MoveConfirmed
  BY <1>20, MoveConfirms, <1>d DEF Goes, SameStart, SameMarks, SameEnd, SameTraffic,
     SameControl, Serving, Running, Routed
<1>21. CASE KeepCandidate
  BY <1>21, Keeps, <1>d DEF Goes, Strays, SameStart, SameMarks, SameEnd, SameControl, Serving,
     Running, Routed
<1>22. CASE KeepConfirmed
  BY <1>22, KeepConfirms, <1>d DEF Goes, Strays, SameStart, SameMarks, SameEnd, SameTraffic,
     SameControl, Serving, Running, Routed
<1>23. CASE DiscardCandidate
  BY <1>23, Discards, <1>d DEF Goes, Ends, SameStart, SameMarks, SameEnd, SameTraffic,
     SameControl, Only, State, Serving, Running, Routed
<1>24. CASE RestoreVolume
  BY <1>24, RestoresVolume, <1>d DEF Goes, Ends, Lost, SameStart, SameMarks, SameEnd,
     SameTraffic, SameControl, Serving, Running, Routed
<1>25. CASE StartPrevious
  BY <1>25, StartsPrevious, <1>d DEF Goes, Ends, Lost, SameStart, SameMarks, SameEnd,
     SameTraffic, SameControl, Only, State, Serving, Running, Routed
<1>26. CASE RouteBack
  BY <1>26, RoutesBack, <1>d DEF Goes, Ends, Lost, SameStart, SameMarks, SameEnd, SameControl,
     Serving, Running, Routed
<1>27. CASE RouteBackConfirmed
  BY <1>27, BackConfirms, <1>d DEF Goes, Ends, Lost, SameStart, SameMarks, SameEnd,
     SameTraffic, SameControl, Serving, Running, Routed
<1>28. CASE Judge
  BY <1>28, Judged, <1>d DEF Ends, SameStart, SameMarks, SameTraffic, SameControl, Serving,
     Running, Routed
<1>29. ASSUME NEW v \in Versions, StoppedOutside(v) PROVE Serving
  BY <1>29, Stops DEF Serving, Running, Only
<1>30. CASE UNCHANGED vars
  BY <1>30 DEF vars, Serving, Running
<1> QED
  BY <1>1, <1>2, <1>3, <1>4, <1>5, <1>6, <1>7, <1>8, <1>9, <1>10, <1>11, <1>12, <1>13,
     <1>14, <1>15, <1>16, <1>17, <1>18, <1>19, <1>20, <1>21, <1>22, <1>23, <1>24,
     <1>25, <1>26, <1>27, <1>28, <1>29, <1>30
     DEF Next, Before, Cutover, Verification, Undo

LEMMA Begins == Init => TypeOK /\ Known /\ Course /\ Routed /\ Sole /\ Covered
                         /\ CommittedServes /\ PreservedServes
<1> SUFFICES ASSUME Init
    PROVE  TypeOK /\ Known /\ Course /\ Routed /\ Sole /\ Covered
             /\ CommittedServes /\ PreservedServes
  OBVIOUS
<1>1. TypeOK
  BY Starting DEF Init, TypeOK, Target
<1>2. /\ h = Idle /\ work = NoWork /\ Cand = NoVersion
      /\ h.pc = "idle" /\ ~h.snapshot /\ ~h.returned /\ ~h.astray /\ h.failed = "no"
      /\ ~h.preserved /\ h.result = "none" /\ ~h.adopted
  BY AtRest DEF Init, Cand
<1>3. Known
  BY <1>2 DEF Init, Known, Cand
<1>4. Course
  BY <1>2 DEF Course, MovePcs, UndoPcs, DonePcs, FreshPcs
<1>5. Routed
  BY <1>2 DEF Routed, DonePcs
<1>6. Sole
  BY <1>2 DEF Init, Sole, Running
<1>7. Covered
  BY <1>2 DEF Init, Covered, Old
<1>8. CommittedServes /\ PreservedServes
  BY <1>2 DEF CommittedServes, PreservedServes
<1> QED
  BY <1>1, <1>3, <1>4, <1>5, <1>6, <1>7, <1>8

LEMMA Continues == Invariant /\ [Next]_vars => Invariant'
BY TypeStep, KnownStep, CourseStep, RoutedStep, SoleStep, CoveredStep, CommittedStep,
   PreservedStep
   DEF Invariant

(* The invariant of the rollout: what is issued, the handler's course, the   *)
(* route, the only writer, what covers the volume, and what is reported.     *)
THEOREM InvariantHolds == Spec => []Invariant
<1>1. Init => Invariant
  BY Begins DEF Invariant
<1> QED
  BY <1>1, Continues, PTL DEF Spec

(* CommittedServes: a deploy that reports it committed left the route file   *)
(* and Traefik at its container, unless the way back from a rejected         *)
(* verification was lost.                                                    *)
THEOREM Committed == Spec => []CommittedServes
<1>1. Invariant => CommittedServes
  BY DEF Invariant
<1> QED
  BY <1>1, InvariantHolds, PTL

(* PreservedServes: a rollback, or a failed attempt of a volume app that had *)
(* begun to stop the previous container, that reports liveRuntimePreserved   *)
(* left the route file and Traefik at the container that was live before.    *)
THEOREM Preserved == Spec => []PreservedServes
<1>1. Invariant => PreservedServes
  BY DEF Invariant
<1> QED
  BY <1>1, InvariantHolds, PTL

(* SingleWriter: two containers of an app with a volume never run at once,   *)
(* whatever crashed or failed (assertSingleRunningVolumeConsumer).           *)
THEOREM OneWriter == Spec => []SingleWriter
<1>1. ASSUME NEW S, \A v, w \in S : v = w
      PROVE  IsFiniteSet(S) /\ Cardinality(S) <= 1
  <2>1. CASE S = {}
    BY <2>1, FS_EmptySet
  <2>2. CASE S # {}
    <3>1. PICK v \in S : S = {v}
      BY <1>1, <2>2
    <3>2. IsFiniteSet({v}) /\ Cardinality({v}) = 1
      BY FS_Singleton, Zenon
    <3> QED
      BY <3>1, <3>2
  <2> QED
    BY <2>1, <2>2
<1>2. Invariant => SingleWriter
  BY <1>1 DEF Invariant, Sole, SingleWriter
<1> QED
  BY <1>2, InvariantHolds, PTL

(* RestorePointKept: while the volume holds what an uncommitted deployment   *)
(* wrote, a snapshot of what a committed one left, however old, is in some   *)
(* slot (createAppVolumeSnapshot, deleteAppVolumeSnapshotBestEffort).        *)
THEOREM RestorePoint == Spec => []RestorePointKept
<1>1. Invariant => RestorePointKept
  BY DEF Invariant, Covered, Earlier, RestorePointKept
<1> QED
  BY <1>1, InvariantHolds, PTL

(* ServedUntilCutover: no step of a rollout without a volume takes down the  *)
(* container that Traefik sends the traffic to, its own candidate aside,     *)
(* unless the way back from a rejected verification was lost.                *)
THEOREM Served == Spec => ServedUntilCutover
<1>1. Invariant /\ [Next]_vars => Serving
  BY ServingStep DEF Invariant
<1>2. Invariant /\ [Next]_vars => [Serving]_vars
  BY <1>1
<1>3. [][Serving]_vars <=> ServedUntilCutover
  BY PTL DEF ServedUntilCutover, Serving
<1> QED
  BY <1>2, <1>3, InvariantHolds, PTL DEF Spec

=============================================================================
