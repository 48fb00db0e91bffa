---------------------------- MODULE AgentWorkProofs ----------------------------
(***************************************************************************)
(* Proofs about AgentWork, for any items, limits, leases and faults: no     *)
(* more work at once than configured, no execution started over, and what a *)
(* completed deploy started is never rolled back.                           *)
(***************************************************************************)
EXTENDS AgentWork, FiniteSetTheorems, TLAPS

USE WorkAssumption

(* The places a poll asked for are still free when its answer comes.        *)
Room ==
    /\ Cardinality(Active) <= MaxConcurrency
    /\ poll.pc # "idle" => Cardinality(Active) + poll.limit <= MaxConcurrency

(* The control plane heard, or may yet hear, that w was completed under its *)
(* lease l.                                                                 *)
Told(w, l) ==
    \/ [w |-> w, lease |-> l, report |-> "complete"] \in late
    \/ queue[w] = [status |-> "completed", lease |-> l]

(* No lease is newer than the control plane's; an execution has one.        *)
Known(w) ==
    /\ runner[w].lease <= queue[w].lease
    /\ runner[w].pc # "idle" => runner[w].lease # 0
    /\ \A m \in late : m.w = w => m.lease <= queue[w].lease

(* A lease still on its way to the agent is nobody's.                       *)
Fresh(w) ==
    poll.pc = "answered" /\ w \in poll.granted =>
      /\ queue[w].lease # 0
      /\ ~Told(w, queue[w].lease)
      /\ runner[w].pc # "idle" => runner[w].lease # queue[w].lease

(* An execution knows whether a completion of its own may have been taken.  *)
Honest(w) ==
    /\ runner[w].pc = "send" => runner[w].report # "none"
    /\ runner[w].pc # "idle" /\ Told(w, runner[w].lease) =>
         runner[w].pc = "send" /\ runner[w].report = "complete" /\ runner[w].delivery = "unconfirmed"
    /\ w \notin Updates /\ runner[w].pc = "send" /\ runner[w].report = "complete" =>
         runtime[w] = "started"

(* What a completed deploy started is there.                                *)
Kept(w) == w \notin Updates /\ Told(w, queue[w].lease) => runtime[w] = "started"

Sound(w) == Known(w) /\ Fresh(w) /\ Honest(w) /\ Kept(w)

Inv == TypeOK /\ Room /\ \A w \in Items : Sound(w)

Entry == [status: {"queued", "leased", "expired"} \cup Settled, lease: 0 .. MaxLease]
Drain == [pc: {"none", "draining", "starting", "grace"}, overdue: SUBSET Items]
Report == [w: Items, lease: 1 .. MaxLease, report: {"complete", "fail"}]

(* The execution of w becomes x, and no other changes.                      *)
Becomes(w, x) ==
    /\ runner' \in [Items -> Runner] /\ runner'[w] = x
    /\ \A v \in Items : v # w => runner'[v] = runner[v]

----------------------------------------------------------------------------
(* Types and what the steps have in common.                                 *)

(* The records an agent starts with have their types.                       *)
LEMMA Blanks ==
    /\ NoPoll \in Poll /\ NoPoll.pc = "idle"
    /\ NoRunner \in Runner /\ NoRunner.pc = "idle" /\ NoRunner.lease = 0
    /\ NoUpdate \in Drain
  BY DEF NoPoll, Poll, NoRunner, Runner, NoUpdate, Drain

(* A runner that goes to report its failure is one.                        *)
LEMMA ReportsFailure ==
    ASSUME NEW r \in Runner, NEW x, x = [r EXCEPT !.pc = "send", !.report = "fail"]
    PROVE  x \in Runner /\ x.pc = "send" /\ x.report = "fail" /\ x.lease = r.lease
  BY DEF Runner

(* The parts of the state that concern one item have their types.           *)
LEMMA Typed ==
    ASSUME TypeOK, NEW w \in Items
    PROVE  /\ queue[w] \in Entry /\ runner[w] \in Runner /\ poll \in Poll
           /\ runtime[w] \in {"none", "started", "removed"}
           /\ queue[w].lease \in 0 .. MaxLease /\ runner[w].lease \in 0 .. MaxLease
           /\ late \subseteq Report /\ update \in Drain
  BY DEF TypeOK, Entry, Runner, Report, Drain

(* Active work is finite.                                                   *)
LEMMA Counting ==
    /\ IsFiniteSet(Active) /\ Cardinality(Active) \in Nat
    /\ \A S \in SUBSET Items : IsFiniteSet(S) /\ Cardinality(S) \in Nat
<1>1. \A S \in SUBSET Items : IsFiniteSet(S)
  BY FS_Subset
<1>2. Active \in SUBSET Items
  BY DEF Active
<1> QED BY <1>1, <1>2, FS_CardinalityType

(* An execution that is replaced is the only one to change.                 *)
LEMMA Put ==
    ASSUME TypeOK, NEW w \in Items, NEW x \in Runner, runner' = [runner EXCEPT ![w] = x]
    PROVE  Becomes(w, x)
  BY DEF TypeOK, Becomes

(* An execution that ends leaves its place, and may ask for a restart.      *)
LEMMA Leaves ==
    ASSUME TypeOK, NEW w \in Items, NEW d, Leave(w, d)
    PROVE  Becomes(w, NoRunner) /\ update' \in Drain
<1>1. runner' = [runner EXCEPT ![w] = NoRunner]
  BY DEF Leave
<1>2. [pc |-> "draining", overdue |-> {}] \in Drain
  BY DEF Drain
<1>3. update' \in Drain
  BY <1>2, Typed DEF Leave
<1> QED BY <1>1, <1>3, Put, Blanks

(* Places come free while a poll is under way; they are not taken.          *)
LEMMA RoomKept ==
    ASSUME TypeOK, Room, Active' \subseteq Active, poll' = poll \/ poll'.pc = "idle"
    PROVE  Room'
<1>1. poll.limit \in 0 .. MaxConcurrency
  BY DEF TypeOK, Poll
<1>2. /\ Cardinality(Active') \in Nat /\ Cardinality(Active) \in Nat
      /\ Cardinality(Active') <= Cardinality(Active)
  <2>1. Active' \in SUBSET Active /\ Active \in SUBSET Items
    BY DEF Active
  <2>2. IsFiniteSet(Active) /\ IsFiniteSet(Active')
    BY <2>1, Counting, FS_Subset
  <2> QED BY <2>1, <2>2, FS_Subset, FS_CardinalityType
<1> QED BY <1>1, <1>2 DEF Room

(* An item of which nothing new is said stays sound.                        *)
LEMMA Quiet ==
    ASSUME NEW w \in Items, TypeOK, Sound(w),
           runner'[w] = runner[w] \/ runner'[w] = NoRunner,
           queue'[w].lease = queue[w].lease, runtime'[w] = runtime[w],
           \A l \in Nat : Told(w, l)' => Told(w, l),
           \A m \in late' : m.w = w => m \in late,
           poll' = poll \/ poll'.pc # "answered"
    PROVE  Sound(w)'
<1>1. queue[w].lease \in Nat /\ runner[w].lease \in Nat /\ 0 <= queue[w].lease
  BY Typed
<1>2. Known(w)'
  BY <1>1, Blanks DEF Sound, Known
<1>3. Fresh(w)'
  BY <1>1, Blanks DEF Sound, Fresh
<1>4. Honest(w)'
  BY <1>1, Blanks DEF Sound, Honest
<1>5. Kept(w)'
  BY <1>1 DEF Sound, Kept
<1> QED BY <1>2, <1>3, <1>4, <1>5 DEF Sound

(* A step of the execution of one item.                                     *)
LEMMA OneItem ==
    ASSUME Inv, NEW w \in Items, NEW x, Becomes(w, x), TypeOK', Sound(w)',
           runner[w].pc # "idle", poll' = poll,
           \A v \in Items : v # w => queue'[v] = queue[v] /\ runtime'[v] = runtime[v],
           \A m \in late' : m \in late \/ m.w = w
    PROVE  Inv'
<1>1. Room'
  <2>1. Active' \subseteq Active
    BY DEF Active, Becomes
  <2> QED BY <2>1, RoomKept DEF Inv
<1>2. ASSUME NEW v \in Items, v # w PROVE Sound(v)'
  <2>1. \A l \in Nat : Told(v, l)' => Told(v, l)
    BY <1>2 DEF Told
  <2>2. /\ runner'[v] = runner[v] /\ queue'[v] = queue[v] /\ runtime'[v] = runtime[v]
        /\ \A m \in late' : m.w = v => m \in late
    BY <1>2 DEF Becomes
  <2> QED BY <2>1, <2>2, Quiet DEF Inv
<1> QED BY <1>1, <1>2 DEF Inv

(* A step that says nothing new of any item.                                *)
LEMMA AllQuiet ==
    ASSUME Inv, TypeOK',
           \A w \in Items : runner'[w] = runner[w] \/ runner'[w] = NoRunner,
           \A w \in Items : queue'[w].lease = queue[w].lease,
           \A w \in Items, l \in Nat : Told(w, l)' => Told(w, l),
           late' \subseteq late, UNCHANGED runtime,
           poll' = poll \/ poll'.pc = "idle"
    PROVE  Inv'
<1>1. Room'
  <2>1. Active' \subseteq Active
    BY Blanks DEF Active
  <2> QED BY <2>1, RoomKept DEF Inv
<1>2. ASSUME NEW w \in Items PROVE Sound(w)'
  BY Quiet DEF Inv
<1> QED BY <1>1, <1>2 DEF Inv

----------------------------------------------------------------------------
(* The poll.                                                                *)

(* A poll asks for the places that are free.                                *)
LEMMA TriggerInv == ASSUME Inv, Trigger PROVE Inv'
<1> DEFINE n == MaxConcurrency - Cardinality(Active)
<1>1. /\ poll' = [pc |-> "asking", limit |-> n, told |-> Active, granted |-> {}]
      /\ Cardinality(Active) < MaxConcurrency
      /\ UNCHANGED <<queue, runner, late, update, stopping, runtime, updater, updated, restarts, faults>>
  BY DEF Trigger
<1>2. n \in 0 .. MaxConcurrency /\ Active \in SUBSET Items
  BY <1>1, Counting DEF Active
<1>3. poll' \in Poll
  BY <1>1, <1>2 DEF Poll
<1>4. TypeOK'
  BY <1>1, <1>3 DEF Inv, TypeOK
<1>5. Active' = Active
  BY <1>1 DEF Active
<1>6. Room'
  BY <1>1, <1>5, Counting DEF Inv, Room
<1>7. ASSUME NEW w \in Items PROVE Sound(w)'
  <2>1. \A l \in Nat : Told(w, l)' => Told(w, l)
    BY <1>1 DEF Told
  <2> QED BY <1>1, <2>1, Quiet DEF Inv
<1> QED BY <1>4, <1>6, <1>7 DEF Inv

(* A lease that is handed out is newer than any before.                     *)
LEMMA GrantInv == ASSUME Inv, NEW batch \in SUBSET Items, Grant(batch) PROVE Inv'
<1>1. /\ queue' = [w \in Items |-> IF w \in batch
                                   THEN [status |-> "leased", lease |-> queue[w].lease + 1]
                                   ELSE queue[w]]
      /\ poll' = [poll EXCEPT !.pc = "answered", !.granted = batch] /\ poll.pc = "asking"
      /\ UNCHANGED <<runner, late, update, stopping, runtime, updater, updated, restarts, faults>>
      /\ \A w \in batch : queue[w].lease < MaxLease
  BY DEF Grant
<1>2. poll' \in Poll /\ poll'.pc = "answered" /\ poll'.granted = batch /\ poll'.limit = poll.limit
  BY <1>1 DEF Inv, TypeOK, Poll
<1>3. queue' \in [Items -> Entry]
  <2>1. ASSUME NEW w \in Items PROVE queue'[w] \in Entry
    <3>1. CASE w \in batch
      <4>1. queue[w].lease + 1 \in 0 .. MaxLease
        BY <1>1, <3>1, Typed DEF Inv
      <4> QED BY <1>1, <3>1, <4>1 DEF Entry
    <3>2. CASE w \notin batch
      BY <1>1, <3>2, Typed DEF Inv
    <3> QED BY <3>1, <3>2
  <2> QED BY <1>1, <2>1
<1>4. TypeOK'
  BY <1>1, <1>2, <1>3 DEF Inv, TypeOK, Entry
<1>5. Room'
  <2>1. Active' = Active
    BY <1>1 DEF Active
  <2> QED BY <1>1, <1>2, <2>1 DEF Inv, Room
<1>6. ASSUME NEW w \in Items PROVE Sound(w)'
  <2>1. CASE w \notin batch
    <3>1. queue'[w] = queue[w]
      BY <1>1, <2>1
    <3>2. \A l \in Nat : Told(w, l)' => Told(w, l)
      BY <1>1, <3>1 DEF Told
    <3>3. Fresh(w)'
      BY <1>2, <2>1 DEF Fresh
    <3>4. queue[w].lease \in Nat /\ runner[w].lease \in Nat
      BY Typed DEF Inv
    <3> QED BY <1>1, <3>1, <3>2, <3>3, <3>4 DEF Inv, Sound, Known, Honest, Kept
  <2>2. CASE w \in batch
    <3>1. queue'[w] = [status |-> "leased", lease |-> queue[w].lease + 1]
      BY <1>1, <2>2
    <3>2. queue[w].lease \in Nat /\ runner[w].lease \in Nat /\ queue'[w].lease = queue[w].lease + 1
      BY <3>1, Typed DEF Inv
    <3>3. /\ runner[w].lease <= queue[w].lease
          /\ runner[w].pc # "idle" => runner[w].lease # 0
          /\ \A m \in late : m.w = w => m.lease \in Nat /\ m.lease <= queue[w].lease
      BY <1>1, Typed DEF Inv, Sound, Known, Report
    <3>4. Known(w)'
      BY <1>1, <3>2, <3>3 DEF Known
    <3>5. \A l \in Nat : Told(w, l)' => Told(w, l)
      BY <1>1, <3>1 DEF Told
    <3>6. ~Told(w, queue[w].lease)'
      <4>1. [w |-> w, lease |-> queue[w].lease + 1, report |-> "complete"] \notin late
        <5>1. [w |-> w, lease |-> queue[w].lease + 1, report |-> "complete"].lease = queue[w].lease + 1
          OBVIOUS
        <5> QED BY <3>2, <3>3, <5>1
      <4> QED BY <1>1, <3>1, <3>2, <4>1 DEF Told
    <3>7. Fresh(w)'
      BY <1>1, <3>2, <3>3, <3>6 DEF Fresh
    <3>8. Honest(w)'
      BY <1>1, <3>2, <3>5 DEF Inv, Sound, Honest
    <3>9. Kept(w)'
      BY <3>6 DEF Kept
    <3> QED BY <3>4, <3>7, <3>8, <3>9 DEF Sound
  <2> QED BY <2>1, <2>2
<1> QED BY <1>4, <1>5, <1>6 DEF Inv

(* The answer takes no more than the places that were free.                 *)
LEMMA AcceptInv == ASSUME Inv, Accept PROVE Inv'
<1> DEFINE S == IF Cardinality(poll.granted) > poll.limit THEN {} ELSE poll.granted \ Active
<1>1. /\ poll' = NoPoll /\ poll.pc = "answered" /\ Begin(S)
      /\ UNCHANGED <<queue, late, update, stopping, runtime, updater, updated, restarts, faults>>
  BY DEF Accept
<1>2. poll.limit \in Nat /\ poll.granted \in SUBSET Items
  BY DEF Inv, TypeOK, Poll
<1>3. /\ S \in SUBSET Items /\ S \cap Active = {} /\ S \subseteq poll.granted
      /\ Cardinality(S) <= poll.limit
  <2>1. CASE Cardinality(poll.granted) > poll.limit
    BY <1>2, <2>1, FS_EmptySet
  <2>2. CASE ~(Cardinality(poll.granted) > poll.limit)
    <3>1. IsFiniteSet(poll.granted) /\ Cardinality(poll.granted) \in Nat
      BY <1>2, Counting
    <3>2. S = poll.granted \ Active
      BY <2>2
    <3>3. Cardinality(S) <= Cardinality(poll.granted) /\ Cardinality(S) \in Nat
      BY <1>2, <3>1, <3>2, FS_Subset, Counting
    <3> QED BY <1>2, <2>2, <3>1, <3>2, <3>3
  <2> QED BY <2>1, <2>2
<1> HIDE DEF S
<1>4. ASSUME NEW w \in Items
      PROVE  /\ w \in S => runner'[w] = [NoRunner EXCEPT !.pc = "renew", !.lease = queue[w].lease]
             /\ w \notin S => runner'[w] = runner[w]
  BY <1>1 DEF Begin
<1>5. ASSUME NEW w \in Items, w \in S
      PROVE  /\ runner'[w] \in Runner /\ runner'[w].pc = "renew" /\ runner'[w].lease = queue[w].lease
  <2>1. 0 \in 0 .. MaxTries - 1
    OBVIOUS
  <2>2. queue[w].lease \in 0 .. MaxLease
    BY Typed DEF Inv
  <2>3. runner'[w] = [NoRunner EXCEPT !.pc = "renew", !.lease = queue[w].lease]
    BY <1>4, <1>5
  <2> QED BY <2>1, <2>2, <2>3 DEF NoRunner, Runner
<1>6. TypeOK'
  <2>1. runner' \in [Items -> Runner]
    BY <1>1, <1>4, <1>5, Typed DEF Begin, Inv
  <2> QED BY <1>1, <2>1, Blanks DEF Inv, TypeOK
<1>7. Room'
  <2>1. Active' = Active \cup S
    <3>1. \A w \in Items : runner'[w].pc # "idle" <=> w \in S \/ runner[w].pc # "idle"
      BY <1>4, <1>5
    <3> QED BY <1>3, <3>1 DEF Active
  <2>2. Cardinality(Active') = Cardinality(Active) + Cardinality(S)
    <3>1. IsFiniteSet(S) /\ IsFiniteSet(Active) /\ Active \cap S = {}
      BY <1>3, Counting
    <3>2. Cardinality(Active \cup S) = Cardinality(Active) + Cardinality(S) - Cardinality(Active \cap S)
      BY <3>1, FS_Union
    <3>3. Cardinality(Active \cap S) = 0 /\ Cardinality(S) \in Nat /\ Cardinality(Active) \in Nat
      BY <3>1, FS_EmptySet, FS_CardinalityType
    <3>4. Active' = Active \cup S
      BY <2>1
    <3> QED BY <3>2, <3>3, <3>4
  <2>3. Cardinality(Active) + poll.limit <= MaxConcurrency
    BY <1>1 DEF Inv, Room
  <2>4. Cardinality(S) \in Nat /\ Cardinality(Active) \in Nat
    BY <1>3, Counting
  <2> QED BY <1>1, <1>2, <1>3, <2>2, <2>3, <2>4, Blanks DEF Room
<1>8. ASSUME NEW w \in Items PROVE Sound(w)'
  <2>0. \A l \in Nat : Told(w, l)' <=> Told(w, l)
    BY <1>1 DEF Told
  <2>1. CASE w \notin S
    BY <1>1, <1>4, <2>0, <2>1, Quiet, Blanks DEF Inv
  <2>2. CASE w \in S
    <3>1. queue[w].lease \in Nat /\ Sound(w)
      BY Typed DEF Inv
    <3>2. ~Told(w, queue[w].lease) /\ queue[w].lease # 0
      BY <1>1, <1>3, <2>2, <3>1 DEF Sound, Fresh
    <3>3. Known(w)' /\ Fresh(w)'
      BY <1>1, <1>5, <2>2, <3>1, <3>2, Blanks DEF Sound, Known, Fresh
    <3>4. Honest(w)'
      BY <1>1, <1>5, <2>0, <2>2, <3>1, <3>2 DEF Honest
    <3>5. Kept(w)'
      BY <1>1, <2>0, <3>1, <3>2 DEF Kept
    <3> QED BY <3>3, <3>4, <3>5 DEF Sound
  <2> QED BY <2>1, <2>2
<1> QED BY <1>6, <1>7, <1>8 DEF Inv

----------------------------------------------------------------------------
(* The execution of one item.                                               *)

(* The first renewal lets an execution go on, or ends it.                   *)
LEMMA FirstRenewalInv == ASSUME Inv, NEW w \in Items, FirstRenewal(w) PROVE Inv'
<1>0. /\ runner[w].pc = "renew" /\ TypeOK /\ faults' \in 0 .. MaxFaults
      /\ UNCHANGED <<queue, poll, late, stopping, runtime, updater, updated, restarts>>
  BY DEF FirstRenewal, Inv, TypeOK, Fault
<1>1. \A v \in Items, l \in Nat : Told(v, l)' => Told(v, l)
  BY <1>0 DEF Told
<1>2. CASE runner' = [runner EXCEPT ![w].pc = "prepare"] /\ UNCHANGED update
  <2> DEFINE x == [runner[w] EXCEPT !.pc = "prepare"]
  <2>1. x \in Runner /\ x.pc = "prepare" /\ x.lease = runner[w].lease
    BY <1>0, Typed DEF Runner
  <2>2. runner' = [runner EXCEPT ![w] = x]
    BY <1>2
  <2> HIDE DEF x
  <2>3. Becomes(w, x)
    BY <1>0, <2>1, <2>2, Put
  <2>4. TypeOK'
    BY <1>0, <1>2, <2>3 DEF TypeOK, Becomes
  <2>5. Sound(w) /\ runner[w].lease \in Nat /\ queue[w].lease \in Nat
    BY <1>0, Typed DEF Inv
  <2>6. Sound(w)'
    BY <1>0, <1>1, <2>1, <2>3, <2>5 DEF Sound, Known, Fresh, Honest, Kept, Becomes
  <2> QED BY <1>0, <2>3, <2>4, <2>6, OneItem
<1>3. CASE Leave(w, "pending")
  <2>1. Becomes(w, NoRunner) /\ update' \in Drain
    BY <1>0, <1>3, Leaves
  <2>2. TypeOK'
    BY <1>0, <2>1 DEF TypeOK, Becomes, Drain
  <2> QED BY <1>0, <1>1, <2>1, <2>2, AllQuiet DEF Becomes
<1> QED BY <1>2, <1>3 DEF FirstRenewal

(* What an execution ends with starts its container.                        *)
LEMMA SucceedsInv == ASSUME Inv, NEW w \in Items, Succeeds(w) PROVE Inv'
<1>0. /\ runner[w].pc = "prepare" /\ TypeOK
      /\ UNCHANGED <<queue, poll, late, update, stopping, updater, updated, restarts, faults>>
      /\ runtime' = IF w \in Updates THEN runtime ELSE [runtime EXCEPT ![w] = "started"]
  BY DEF Succeeds, Inv
<1>1. PICK x \in Runner : /\ runner' = [runner EXCEPT ![w] = x]
                          /\ x.pc = "send" /\ x.report = "complete" /\ x.lease = runner[w].lease
  <2>1. PICK valid \in BOOLEAN, reused \in BOOLEAN :
          runner' = [runner EXCEPT ![w] =
                      [@ EXCEPT !.pc = "send", !.report = "complete", !.valid = valid,
                                !.reused = reused,
                                !.restart = w \in Updates /\ NeedsRestart]]
    BY DEF Succeeds
  <2> DEFINE restart == w \in Updates /\ NeedsRestart
             x == [runner[w] EXCEPT !.pc = "send", !.report = "complete", !.valid = valid,
                                    !.reused = reused, !.restart = restart]
  <2>2. restart \in BOOLEAN
    OBVIOUS
  <2>3. runner' = [runner EXCEPT ![w] = x]
    BY <1>0, <2>1 DEF TypeOK
  <2> HIDE DEF restart
  <2>4. PICK r \in Runner : r = runner[w]
    BY <1>0, Typed
  <2>5. x = [r EXCEPT !.pc = "send", !.report = "complete", !.valid = valid,
                      !.reused = reused, !.restart = restart]
    BY <2>4
  <2> HIDE DEF x
  <2>6. x \in Runner /\ x.pc = "send" /\ x.report = "complete" /\ x.lease = r.lease
    BY <2>1, <2>2, <2>5 DEF Runner
  <2> QED BY <2>3, <2>4, <2>6
<1>2. Becomes(w, x)
  BY <1>0, <1>1, Put
<1>3. /\ runtime' \in [Items -> {"none", "started", "removed"}]
      /\ w \notin Updates => runtime'[w] = "started"
      /\ \A v \in Items : v # w => runtime'[v] = runtime[v]
  BY <1>0 DEF TypeOK
<1>4. TypeOK'
  BY <1>0, <1>2, <1>3 DEF TypeOK, Becomes
<1>5. /\ \A l \in Nat : Told(w, l)' <=> Told(w, l)
      /\ Sound(w) /\ runner[w].lease \in Nat /\ queue[w].lease \in Nat
  BY <1>0, Typed DEF Told, Inv
<1>6. ~Told(w, runner[w].lease)
  BY <1>0, <1>5 DEF Sound, Honest
<1>7. Sound(w)'
  BY <1>0, <1>1, <1>2, <1>3, <1>5, <1>6 DEF Sound, Known, Fresh, Honest, Kept, Becomes
<1> QED BY <1>0, <1>2, <1>3, <1>4, <1>7, OneItem

(* A failure removes nothing that an earlier execution completed.           *)
LEMMA FailsInv == ASSUME Inv, NEW w \in Items, Fails(w) PROVE Inv'
<1> DEFINE x == [runner[w] EXCEPT !.pc = "send", !.report = "fail"]
<1>0. /\ runner[w].pc = "prepare" /\ TypeOK /\ runner' = [runner EXCEPT ![w] = x]
      /\ UNCHANGED <<queue, poll, late, update, stopping, updater, updated, restarts, faults>>
  BY DEF Fails, Inv, TypeOK
<1>1. x \in Runner /\ x.pc = "send" /\ x.report = "fail" /\ x.lease = runner[w].lease
  BY <1>0, Typed, ReportsFailure
<1> HIDE DEF x
<1>2. Becomes(w, x)
  BY <1>0, <1>1, Put
<1>3. /\ runtime' \in [Items -> {"none", "started", "removed"}]
      /\ runtime[w] = "started" => runtime'[w] = "started"
      /\ \A v \in Items : v # w => runtime'[v] = runtime[v]
  BY <1>0 DEF Fails, TypeOK
<1>4. TypeOK'
  BY <1>0, <1>2, <1>3 DEF TypeOK, Becomes
<1>5. /\ \A l \in Nat : Told(w, l)' <=> Told(w, l)
      /\ Sound(w) /\ runner[w].lease \in Nat /\ queue[w].lease \in Nat
  BY <1>0, Typed DEF Told, Inv
<1>6. ~Told(w, runner[w].lease)
  BY <1>0, <1>5 DEF Sound, Honest
<1>7. Sound(w)'
  BY <1>0, <1>1, <1>2, <1>3, <1>5, <1>6 DEF Sound, Known, Fresh, Honest, Kept, Becomes
<1> QED BY <1>0, <1>2, <1>3, <1>4, <1>7, OneItem

(* Only the status of an item changes, and not to completed.                *)
LEMMA Requeued ==
    ASSUME TypeOK, NEW w \in Items, NEW s \in {"queued", "expired", "failed"},
           queue' = [queue EXCEPT ![w].status = s]
    PROVE  /\ queue' \in [Items -> Entry]
           /\ \A v \in Items : v # w => queue'[v] = queue[v]
           /\ queue'[w].lease = queue[w].lease /\ queue'[w].status = s
<1> DEFINE e == [queue[w] EXCEPT !.status = s]
<1>1. e \in Entry /\ e.lease = queue[w].lease /\ e.status = s
  BY Typed DEF Entry, Settled
<1>2. queue' = [queue EXCEPT ![w] = e]
  OBVIOUS
<1>3. queue \in [Items -> Entry]
  BY DEF TypeOK, Entry
<1> HIDE DEF e
<1> QED BY <1>1, <1>2, <1>3

(* Work that is given back is queued again.                                 *)
LEMMA ReleasesInv == ASSUME Inv, NEW w \in Items, Releases(w) PROVE Inv'
<1>0. /\ TypeOK /\ Leave(w, "pending")
      /\ UNCHANGED <<poll, late, stopping, runtime, updater, updated, restarts, faults>>
      /\ queue' = queue \/ queue' = [queue EXCEPT ![w].status = "queued"]
  BY DEF Releases, Inv
<1>1. Becomes(w, NoRunner) /\ update' \in Drain
  BY <1>0, Leaves
<1>2. /\ queue' \in [Items -> Entry] /\ \A v \in Items : v # w => queue'[v] = queue[v]
      /\ queue'[w].lease = queue[w].lease
      /\ queue'[w] = queue[w] \/ queue'[w].status = "queued"
  <2>1. CASE queue' = queue
    BY <1>0, <2>1 DEF TypeOK, Entry
  <2>2. CASE queue' = [queue EXCEPT ![w].status = "queued"]
    BY <1>0, <2>2, Requeued
  <2> QED BY <1>0, <2>1, <2>2
<1>3. TypeOK'
  BY <1>0, <1>1, <1>2 DEF TypeOK, Becomes, Drain, Entry
<1>4. \A v \in Items, l \in Nat : Told(v, l)' => Told(v, l)
  BY <1>0, <1>2 DEF Told
<1> QED BY <1>0, <1>1, <1>2, <1>3, <1>4, AllQuiet DEF Becomes

----------------------------------------------------------------------------
(* Reports.                                                                 *)

(* An item that is closed keeps its lease.                                  *)
LEMMA Closed ==
    ASSUME TypeOK, NEW w \in Items, NEW report, Close(w, report)
    PROVE  /\ queue' \in [Items -> Entry]
           /\ \A v \in Items : v # w => queue'[v] = queue[v]
           /\ queue'[w].lease = queue[w].lease
           /\ queue'[w].status = IF report = "complete" THEN "completed" ELSE "failed"
<1> DEFINE s == IF report = "complete" THEN "completed" ELSE "failed"
           e == [queue[w] EXCEPT !.status = s]
<1>1. s \in {"completed", "failed"}
  OBVIOUS
<1>2. queue' = [queue EXCEPT ![w].status = s]
  BY DEF Close
<1> HIDE DEF s
<1>3. e \in Entry /\ e.lease = queue[w].lease /\ e.status = s
  BY <1>1, Typed DEF Entry, Settled
<1>4. queue' = [queue EXCEPT ![w] = e]
  BY <1>2
<1>5. queue \in [Items -> Entry]
  BY DEF TypeOK, Entry
<1> HIDE DEF e
<1> QED BY <1>3, <1>4, <1>5 DEF s

(* An item whose execution ended after it was closed by its report.         *)
LEMMA ClosedSound ==
    ASSUME Inv, NEW w \in Items, Accepts(w, runner[w].lease), Close(w, runner[w].report),
           runner[w].pc = "send", NEW x, runner'[w] = x,
           \/ x = NoRunner
           \/ /\ x.pc = "send" /\ x.lease = runner[w].lease /\ x.report = runner[w].report
              /\ x.report = "complete" => x.delivery = "unconfirmed",
           UNCHANGED <<poll, late, runtime>>
    PROVE  Sound(w)'
<1>a. PICK l \in Nat : l = runner[w].lease
  BY Typed DEF Inv
<1>0. /\ TypeOK /\ Sound(w) /\ l \in Nat /\ l = runner[w].lease /\ queue[w].lease = l
      /\ queue'[w].lease = l
      /\ queue'[w].status = IF runner[w].report = "complete" THEN "completed" ELSE "failed"
  BY <1>a, Closed, Typed DEF Inv, Accepts
<1>1. poll.pc = "answered" => w \notin poll.granted
  BY <1>0 DEF Sound, Fresh
<1>2. Known(w)' /\ Fresh(w)'
  BY <1>0, <1>1, Blanks DEF Sound, Known, Fresh
<1>3. Told(w, l)' => Told(w, l) \/ runner[w].report = "complete"
  <2>1. ASSUME queue'[w] = [status |-> "completed", lease |-> l] PROVE runner[w].report = "complete"
    <3>1. queue'[w].status = "completed"
      BY <2>1
    <3> QED BY <1>0, <3>1
  <2> QED BY <2>1 DEF Told
<1>4. Honest(w)'
  <2>1. CASE x = NoRunner
    BY <2>1, Blanks DEF Honest
  <2>2. CASE x # NoRunner
    <3>1. /\ runner'[w].pc = "send" /\ runner'[w].lease = l /\ runner'[w].report = runner[w].report
          /\ runner'[w].report = "complete" => runner'[w].delivery = "unconfirmed"
      BY <1>0, <2>2
    <3>2. runner[w].report = "complete" \/ ~Told(w, l)
      BY <1>0 DEF Sound, Honest
    <3> QED BY <1>0, <1>3, <3>1, <3>2 DEF Sound, Honest
  <2> QED BY <2>1, <2>2
<1>5. Kept(w)'
  <2>1. w \notin Updates /\ Told(w, l) => runtime[w] = "started"
    BY <1>0 DEF Sound, Kept
  <2>2. w \notin Updates /\ runner[w].report = "complete" => runtime[w] = "started"
    BY <1>0 DEF Sound, Honest
  <2>3. w \notin Updates /\ Told(w, l)' => runtime[w] = "started"
    BY <1>3, <2>1, <2>2
  <2>4. Told(w, queue[w].lease)' => Told(w, l)'
    BY <1>0 DEF Told
  <2> QED BY <2>3, <2>4 DEF Kept
<1> QED BY <1>2, <1>4, <1>5 DEF Sound

(* A report that is taken closes the item and ends the execution.           *)
LEMMA ReportAcceptedInv == ASSUME Inv, NEW w \in Items, ReportAccepted(w) PROVE Inv'
<1>0. /\ runner[w].pc = "send" /\ TypeOK /\ Accepts(w, runner[w].lease)
      /\ Close(w, runner[w].report) /\ Leave(w, Heard(w, "accepted"))
      /\ UNCHANGED <<poll, late, stopping, runtime, updater, updated, restarts, faults>>
  BY DEF ReportAccepted, Inv
<1>1. Becomes(w, NoRunner) /\ update' \in Drain
  BY <1>0, Leaves
<1>2. queue' \in [Items -> Entry] /\ \A v \in Items : v # w => queue'[v] = queue[v]
  BY <1>0, Closed
<1>3. TypeOK'
  BY <1>0, <1>1, <1>2 DEF TypeOK, Becomes, Drain, Entry
<1>4. Sound(w)'
  BY <1>0, <1>1, ClosedSound DEF Becomes
<1> QED BY <1>0, <1>1, <1>2, <1>3, <1>4, OneItem

(* An execution that heard nothing ends, or tries again, and then knows     *)
(* that its completion may have been taken.                                 *)
LEMMA TriesAgain ==
    ASSUME TypeOK, NEW w \in Items, runner[w].pc = "send",
           IF runner[w].tries + 1 = MaxTries
           THEN Leave(w, Heard(w, "transient"))
           ELSE /\ runner' = [runner EXCEPT ![w].tries = @ + 1,
                                            ![w].delivery = Heard(w, "transient")]
                /\ UNCHANGED update
    PROVE  /\ update' \in Drain
           /\ \E x : /\ Becomes(w, x)
                     /\ \/ x = NoRunner
                        \/ /\ x.pc = "send" /\ x.lease = runner[w].lease
                           /\ x.report = runner[w].report
                           /\ x.report = "complete" => x.delivery = "unconfirmed"
<1>1. CASE runner[w].tries + 1 = MaxTries
  BY <1>1, Leaves
<1>2. CASE runner[w].tries + 1 # MaxTries
  <2> DEFINE d == Heard(w, "transient")
             x == [runner[w] EXCEPT !.tries = @ + 1, !.delivery = d]
  <2>1. /\ d \in {"pending", "delivered", "unconfirmed", "rejected"}
        /\ runner[w].report # "fail" => d = "unconfirmed"
    BY Typed DEF Heard, Runner
  <2>2. runner' = [runner EXCEPT ![w] = x]
    BY <1>2 DEF TypeOK
  <2> HIDE DEF d
  <2>3. runner[w].tries + 1 \in 0 .. MaxTries - 1
    BY <1>2, Typed DEF Runner
  <2>a. PICK r \in Runner : r = runner[w]
    BY Typed
  <2>b. x = [r EXCEPT !.tries = r.tries + 1, !.delivery = d]
    BY <2>a
  <2> HIDE DEF x
  <2>c. /\ x \in Runner /\ x.pc = r.pc /\ x.lease = r.lease
        /\ x.report = r.report /\ x.delivery = d
    BY <2>1, <2>3, <2>a, <2>b DEF Runner
  <2>4. /\ x \in Runner /\ x.pc = "send" /\ x.lease = runner[w].lease
        /\ x.report = runner[w].report /\ x.delivery = d
    BY <2>a, <2>c
  <2>5. Becomes(w, x)
    BY <2>2, <2>4, Put
  <2>6. update' \in Drain
    BY <1>2, Typed
  <2> QED BY <2>1, <2>4, <2>5, <2>6
<1> QED BY <1>1, <1>2

(* A report on its way is one that its execution still answers for.         *)
LEMMA LateSound ==
    ASSUME Inv, NEW w \in Items, runner[w].pc = "send", NEW x, runner'[w] = x,
           \/ x = NoRunner
           \/ /\ x.pc = "send" /\ x.lease = runner[w].lease /\ x.report = runner[w].report
              /\ x.report = "complete" => x.delivery = "unconfirmed",
           \/ late' = late
           \/ late' = late \cup {[w |-> w, lease |-> runner[w].lease, report |-> runner[w].report]},
           UNCHANGED <<poll, queue, runtime>>
    PROVE  Sound(w)'
<1>a. PICK l \in Nat : l = runner[w].lease
  BY Typed DEF Inv
<1>0. /\ TypeOK /\ Sound(w) /\ l \in Nat /\ l = runner[w].lease
      /\ queue[w].lease \in Nat /\ l <= queue[w].lease /\ l # 0
  BY <1>a, Typed DEF Inv, Sound, Known
<1>1. /\ \A n \in Nat : n # l /\ Told(w, n)' => Told(w, n)
      /\ Told(w, l)' => Told(w, l) \/ runner[w].report = "complete"
  <2>1. ASSUME NEW n \in Nat, [w |-> w, lease |-> n, report |-> "complete"] \in late'
        PROVE  \/ [w |-> w, lease |-> n, report |-> "complete"] \in late
               \/ n = l /\ runner[w].report = "complete"
    <3>1. ASSUME [w |-> w, lease |-> n, report |-> "complete"]
                   = [w |-> w, lease |-> l, report |-> runner[w].report]
          PROVE  n = l /\ runner[w].report = "complete"
      BY <3>1
    <3> QED BY <1>0, <2>1, <3>1
  <2> QED BY <1>0, <2>1 DEF Told
<1>2. Known(w)'
  BY <1>0, Blanks DEF Sound, Known
<1>3. Fresh(w)'
  BY <1>0, <1>1, Blanks DEF Sound, Fresh
<1>4. Honest(w)'
  <2>1. CASE x = NoRunner
    BY <2>1, Blanks DEF Honest
  <2>2. CASE x # NoRunner
    <3>1. /\ runner'[w].pc = "send" /\ runner'[w].lease = l /\ runner'[w].report = runner[w].report
          /\ runner'[w].report = "complete" => runner'[w].delivery = "unconfirmed"
      BY <1>0, <2>2
    <3>2. runner[w].report = "complete" \/ ~Told(w, l)
      BY <1>0 DEF Sound, Honest
    <3> QED BY <1>0, <1>1, <3>1, <3>2 DEF Sound, Honest
  <2> QED BY <2>1, <2>2
<1>5. Kept(w)'
  <2>0. PICK n \in Nat : n = queue[w].lease
    BY <1>0
  <2>1. Told(w, queue[w].lease)' =>
          Told(w, queue[w].lease) \/ runner[w].report = "complete"
    <3>1. Told(w, queue[w].lease)' => Told(w, n)'
      BY <2>0 DEF Told
    <3>2. Told(w, n)' => Told(w, n) \/ runner[w].report = "complete"
      BY <1>1
    <3> QED BY <2>0, <3>1, <3>2
  <2>2. w \notin Updates /\ runner[w].report = "complete" => runtime[w] = "started"
    BY <1>0 DEF Sound, Honest
  <2> QED BY <1>0, <2>1, <2>2 DEF Sound, Kept
<1> QED BY <1>2, <1>3, <1>4, <1>5 DEF Sound

(* A report is sent and nothing is heard.                                   *)
LEMMA ReportUnansweredInv == ASSUME Inv, NEW w \in Items, ReportUnanswered(w) PROVE Inv'
<1>0. /\ runner[w].pc = "send" /\ TypeOK /\ faults' \in 0 .. MaxFaults
      /\ UNCHANGED <<poll, stopping, runtime, updater, updated, restarts>>
  BY DEF ReportUnanswered, Inv, TypeOK, Fault
<1>1. PICK x : /\ Becomes(w, x)
               /\ \/ x = NoRunner
                  \/ /\ x.pc = "send" /\ x.lease = runner[w].lease
                     /\ x.report = runner[w].report
                     /\ x.report = "complete" => x.delivery = "unconfirmed"
  BY <1>0, TriesAgain DEF ReportUnanswered
<1>2. update' \in Drain /\ runner'[w] = x
  BY <1>0, <1>1, TriesAgain DEF ReportUnanswered, Becomes
<1>3. CASE Accepts(w, runner[w].lease) /\ Close(w, runner[w].report) /\ UNCHANGED late
  <2>1. queue' \in [Items -> Entry] /\ \A v \in Items : v # w => queue'[v] = queue[v]
    BY <1>0, <1>3, Closed
  <2>2. TypeOK'
    BY <1>0, <1>1, <1>2, <1>3, <2>1 DEF TypeOK, Becomes, Drain, Entry
  <2>3. Sound(w)'
    BY <1>0, <1>1, <1>2, <1>3, ClosedSound
  <2> QED BY <1>0, <1>1, <1>3, <2>1, <2>2, <2>3, OneItem
<1>4. CASE /\ \/ late' = late
              \/ late' = late \cup {[w |-> w, lease |-> runner[w].lease,
                                     report |-> runner[w].report]}
           /\ UNCHANGED queue
  <2>1. late' \subseteq Report
    <3>1. runner[w].lease \in 1 .. MaxLease
      <4>1. runner[w].lease \in 0 .. MaxLease /\ runner[w].lease # 0
        BY <1>0, Typed DEF Inv, Sound, Known
      <4> QED BY <4>1
    <3>2. runner[w].report \in {"complete", "fail"}
      BY <1>0, Typed DEF Inv, Sound, Honest, Runner
    <3> QED BY <1>0, <1>4, <3>1, <3>2, Typed DEF Report
  <2>2. TypeOK'
    BY <1>0, <1>1, <1>2, <1>4, <2>1 DEF TypeOK, Becomes, Drain, Report
  <2>3. Sound(w)'
    BY <1>0, <1>1, <1>2, <1>4, LateSound
  <2>4. \A m \in late' : m \in late \/ m.w = w
    BY <1>4
  <2> QED BY <1>0, <1>1, <1>4, <2>2, <2>3, <2>4, OneItem
<1> QED BY <1>3, <1>4 DEF ReportUnanswered

(* A report that comes too late ends the execution.                         *)
LEMMA ReportSupersededInv == ASSUME Inv, NEW w \in Items, ReportSuperseded(w) PROVE Inv'
<1>0. /\ TypeOK /\ Leave(w, Heard(w, "refused"))
      /\ UNCHANGED <<queue, poll, late, stopping, runtime, updater, updated, restarts, faults>>
  BY DEF ReportSuperseded, Inv
<1>1. Becomes(w, NoRunner) /\ update' \in Drain
  BY <1>0, Leaves
<1>2. TypeOK'
  BY <1>0, <1>1 DEF TypeOK, Becomes, Drain
<1>3. \A v \in Items, l \in Nat : Told(v, l)' => Told(v, l)
  BY <1>0 DEF Told
<1> QED BY <1>0, <1>1, <1>2, <1>3, AllQuiet DEF Becomes

(* What was started is rolled back only by the holder of the last lease,    *)
(* none of whose completions can have been taken.                           *)
LEMMA ReportRejectedInv == ASSUME Inv, NEW w \in Items, ReportRejected(w) PROVE Inv'
<1>0. /\ runner[w].pc = "send" /\ runner[w].report = "complete" /\ TypeOK /\ Sound(w)
      /\ runner[w].lease \in Nat /\ queue[w].lease \in Nat
      /\ UNCHANGED <<queue, poll, late, stopping, updater, updated, restarts, faults>>
      /\ \A v \in Items, l \in Nat : Told(v, l)' <=> Told(v, l)
  BY Typed DEF ReportRejected, Rejected, Inv, Told
<1>1. runner[w].lease = queue[w].lease
  BY DEF ReportRejected, Rejected, Accepts
<1>2. CASE runner[w].delivery = "unconfirmed"
  <2>1. Leave(w, Heard(w, "refused")) /\ UNCHANGED runtime
    BY <1>2 DEF ReportRejected
  <2>2. Becomes(w, NoRunner) /\ update' \in Drain
    BY <1>0, <2>1, Leaves
  <2>3. TypeOK'
    BY <1>0, <2>1, <2>2 DEF TypeOK, Becomes, Drain
  <2> QED BY <1>0, <2>1, <2>2, <2>3, AllQuiet DEF Becomes
<1>3. CASE runner[w].delivery # "unconfirmed"
  <2> DEFINE d == Heard(w, "refused")
             x == [runner[w] EXCEPT !.report = "fail", !.tries = 0, !.delivery = d]
  <2>1. d \in {"pending", "delivered", "unconfirmed", "rejected"} /\ 0 \in 0 .. MaxTries - 1
    BY <1>0, Typed DEF Heard, Runner
  <2>2. /\ runner' = [runner EXCEPT ![w] = x] /\ UNCHANGED update
        /\ runtime' = RolledBack(w, runner[w].reused)
    BY <1>0, <1>3 DEF ReportRejected, TypeOK
  <2> HIDE DEF d
  <2>a. PICK r \in Runner : r = runner[w]
    BY <1>0, Typed
  <2>b. x = [r EXCEPT !.report = "fail", !.tries = 0, !.delivery = d]
    BY <2>a
  <2> HIDE DEF x
  <2>c. x \in Runner /\ x.pc = r.pc /\ x.report = "fail" /\ x.lease = r.lease
    BY <2>1, <2>b DEF Runner
  <2>3. x \in Runner /\ x.pc = "send" /\ x.report = "fail" /\ x.lease = runner[w].lease
    BY <1>0, <2>a, <2>c
  <2>4. Becomes(w, x)
    BY <1>0, <2>2, <2>3, Put
  <2>5. /\ runtime' \in [Items -> {"none", "started", "removed"}]
        /\ \A v \in Items : v # w => runtime'[v] = runtime[v]
    BY <1>0, <2>2 DEF TypeOK, RolledBack
  <2>6. TypeOK'
    BY <1>0, <2>2, <2>4, <2>5 DEF TypeOK, Becomes
  <2>7. ~Told(w, runner[w].lease)
    BY <1>0, <1>3 DEF Sound, Honest
  <2>8. Sound(w)'
    BY <1>0, <1>1, <2>3, <2>4, <2>7 DEF Sound, Known, Fresh, Honest, Kept, Becomes
  <2> QED BY <1>0, <2>4, <2>5, <2>6, <2>8, OneItem
<1> QED BY <1>2, <1>3

(* Every step of an execution keeps the invariant.                          *)
LEMMA ExecutesInv == ASSUME Inv, NEW w \in Items, Executes(w) PROVE Inv'
  BY FirstRenewalInv, SucceedsInv, FailsInv, ReleasesInv, ReportAcceptedInv, ReportUnansweredInv,
     ReportSupersededInv, ReportRejectedInv DEF Executes, Sends

----------------------------------------------------------------------------
(* The control plane, the updater and the end of the process.               *)

(* A report that arrives late says what was to be said already.             *)
LEMMA LateReportInv == ASSUME Inv, NEW m \in late, LateReport(m) PROVE Inv'
<1>0. /\ TypeOK /\ late' \subseteq late
      /\ UNCHANGED <<poll, runner, update, stopping, runtime, updater, updated, restarts, faults>>
  BY DEF LateReport, Inv
<1>1. m.w \in Items /\ m = [w |-> m.w, lease |-> m.lease, report |-> m.report]
  BY Typed DEF Inv, TypeOK
<1>2. CASE UNCHANGED queue
  <2>1. TypeOK'
    BY <1>0, <1>2 DEF TypeOK
  <2>2. \A v \in Items, l \in Nat : Told(v, l)' => Told(v, l)
    BY <1>0, <1>2 DEF Told
  <2> QED BY <1>0, <1>2, <2>1, <2>2, AllQuiet
<1>3. CASE Accepts(m.w, m.lease) /\ Close(m.w, m.report)
  <2>1. /\ queue' \in [Items -> Entry] /\ \A v \in Items : v # m.w => queue'[v] = queue[v]
        /\ queue'[m.w].lease = queue[m.w].lease /\ queue[m.w].lease = m.lease
        /\ queue'[m.w].status = IF m.report = "complete" THEN "completed" ELSE "failed"
    BY <1>0, <1>1, <1>3, Closed DEF Accepts
  <2>2. TypeOK'
    BY <1>0, <2>1 DEF TypeOK, Entry
  <2>3. ASSUME NEW v \in Items, NEW l \in Nat, Told(v, l)' PROVE Told(v, l)
    <3>1. CASE [w |-> v, lease |-> l, report |-> "complete"] \in late'
      BY <1>0, <3>1 DEF Told
    <3>2. CASE queue'[v] = [status |-> "completed", lease |-> l]
      <4>1. CASE v # m.w
        BY <2>1, <3>2, <4>1 DEF Told
      <4>2. CASE v = m.w
        <5>1. queue'[v].status = "completed" /\ queue'[v].lease = l
          BY <3>2
        <5>2. m.report = "complete" /\ m.lease = l
          BY <2>1, <4>2, <5>1
        <5> QED BY <1>1, <4>2, <5>2 DEF Told
      <4> QED BY <4>1, <4>2
    <3> QED BY <2>3, <3>1, <3>2 DEF Told
  <2>4. \A v \in Items : queue'[v].lease = queue[v].lease
    BY <2>1
  <2> QED BY <1>0, <2>2, <2>3, <2>4, AllQuiet
<1> QED BY <1>2, <1>3 DEF LateReport

(* A lease that runs out says nothing of the work.                          *)
LEMMA LeaseExpiresInv == ASSUME Inv, NEW w \in Items, LeaseExpires(w) PROVE Inv'
<1>0. /\ TypeOK /\ queue' = [queue EXCEPT ![w].status = "expired"] /\ faults' \in 0 .. MaxFaults
      /\ UNCHANGED <<poll, runner, late, update, stopping, runtime, updater, updated, restarts>>
  BY DEF LeaseExpires, Inv, TypeOK, Fault
<1>1. /\ queue' \in [Items -> Entry] /\ \A v \in Items : v # w => queue'[v] = queue[v]
      /\ queue'[w].lease = queue[w].lease /\ queue'[w].status = "expired"
  BY <1>0, Requeued
<1>2. TypeOK'
  BY <1>0, <1>1 DEF TypeOK, Entry
<1>3. \A v \in Items, l \in Nat : Told(v, l)' => Told(v, l)
  BY <1>0, <1>1 DEF Told
<1>4. \A v \in Items : queue'[v].lease = queue[v].lease
  BY <1>1
<1> QED BY <1>0, <1>2, <1>3, <1>4, AllQuiet

(* A step that touches neither the queue nor what was started.              *)
LEMMA Elsewhere ==
    ASSUME Inv, TypeOK', UNCHANGED <<queue, late, runtime>>,
           \A w \in Items : runner'[w] = runner[w] \/ runner'[w] = NoRunner,
           poll' = poll \/ poll'.pc = "idle"
    PROVE  Inv'
<1>1. \A v \in Items, l \in Nat : Told(v, l)' => Told(v, l)
  BY DEF Told
<1> QED BY <1>1, AllQuiet

(* A poll that is lost leaves nothing behind in the agent.                  *)
LEMMA PollFailsInv == ASSUME Inv, PollFails PROVE Inv'
<1>1. TypeOK'
  BY Blanks DEF PollFails, Inv, TypeOK, Fault
<1> QED BY <1>1, Elsewhere, Blanks DEF PollFails

(* The drain and the updater leave work alone.                              *)
LEMMA UpdatingInv == ASSUME Inv, Updating \/ UpdaterDies \/ Stop PROVE Inv'
<1>0. TypeOK /\ update \in Drain /\ NoUpdate \in Drain /\ Active \in SUBSET Items
  BY Blanks DEF Inv, TypeOK, Drain, Active
<1> USE DEF Updating, Drained, DrainTimesOut, UpdaterStarts, UpdaterFails, GraceElapses,
            UpdaterDies, Stop
<1>1. UNCHANGED <<queue, poll, runner, late, runtime, updated, restarts>>
  OBVIOUS
<1>2. faults' \in 0 .. MaxFaults
  BY <1>0 DEF TypeOK, Fault
<1>3. stopping' \in BOOLEAN /\ updater' \in BOOLEAN
  <2>1. stopping' = stopping \/ stopping' = TRUE
    OBVIOUS
  <2>2. updater' = updater \/ updater' = TRUE \/ updater' \in BOOLEAN
    OBVIOUS
  <2> QED BY <1>0, <2>1, <2>2, Zenon DEF TypeOK
<1>4. update' \in Drain
  BY <1>0 DEF Drain
<1>5. TypeOK'
  BY <1>0, <1>1, <1>2, <1>3, <1>4 DEF TypeOK, Drain
<1> QED BY <1>1, <1>5, Elsewhere

(* The work of a process dies with it.                                      *)
LEMMA RebornInv == ASSUME Inv, Exit \/ Crash PROVE Inv'
<1>1. UNCHANGED <<queue, late, runtime>> /\ Reborn
  BY DEF Exit, Crash
<1>2. faults' \in 0 .. MaxFaults /\ restarts' \in Nat
  BY DEF Exit, Crash, Fault, Inv, TypeOK
<1>3. updater' \in BOOLEAN /\ updated' \in BOOLEAN
  BY Zenon DEF Exit, Crash, Inv, TypeOK
<1>4. TypeOK'
  BY <1>1, <1>2, <1>3, Blanks DEF Reborn, Inv, TypeOK, Drain
<1> QED BY <1>1, <1>4, Elsewhere, Blanks DEF Reborn

(* Every step keeps the invariant.                                          *)
LEMMA NextInv == ASSUME Inv, [Next]_vars PROVE Inv'
<1>1. CASE Trigger \/ PollFails \/ Accept
  BY <1>1, TriggerInv, PollFailsInv, AcceptInv
<1>2. CASE \E batch \in SUBSET Items : Grant(batch)
  BY <1>2, GrantInv
<1>3. CASE \E w \in Items : Executes(w) \/ LeaseExpires(w)
  BY <1>3, ExecutesInv, LeaseExpiresInv
<1>4. CASE \E m \in late : LateReport(m)
  BY <1>4, LateReportInv
<1>5. CASE Updating \/ UpdaterDies \/ Stop \/ Exit \/ Crash
  BY <1>5, UpdatingInv, RebornInv
<1>6. CASE UNCHANGED vars
  <2>1. TypeOK'
    BY <1>6 DEF vars, Inv, TypeOK
  <2> QED BY <1>6, <2>1, Elsewhere DEF vars
<1> QED BY <1>1, <1>2, <1>3, <1>4, <1>5, <1>6 DEF Next

(* A new agent has no work and the control plane was told nothing.          *)
LEMMA InitInv == Init => Inv
<1> SUFFICES ASSUME Init PROVE Inv
  OBVIOUS
<1>1. TypeOK
  <2>1. [status |-> "queued", lease |-> 0] \in Entry
    BY DEF Entry
  <2>2. /\ queue \in [Items -> Entry] /\ runner \in [Items -> Runner] /\ update \in Drain
        /\ poll \in Poll /\ late = {} /\ restarts \in Nat /\ faults \in 0 .. MaxFaults
        /\ runtime \in [Items -> {"none", "started", "removed"}]
    BY <2>1, Blanks DEF Init
  <2>3. stopping \in BOOLEAN /\ updater \in BOOLEAN /\ updated \in BOOLEAN
    BY DEF Init
  <2> QED BY <2>2, <2>3 DEF TypeOK, Entry, Drain
<1>2. Active = {}
  BY Blanks DEF Init, Active
<1>3. Room
  BY <1>2, FS_EmptySet, Blanks DEF Init, Room
<1>4. ASSUME NEW w \in Items PROVE Sound(w)
  <2>1. /\ runner[w] = NoRunner /\ queue[w].lease = 0 /\ queue[w].status = "queued"
        /\ late = {} /\ poll.pc = "idle"
    BY Blanks DEF Init
  <2>2. \A l : ~Told(w, l)
    BY <2>1 DEF Told
  <2> QED BY <2>1, <2>2, Blanks DEF Sound, Known, Fresh, Honest, Kept
<1> QED BY <1>1, <1>3, <1>4 DEF Inv

----------------------------------------------------------------------------
(* Theorems.                                                                *)

(* The invariant of the work loop: types, room for what a poll may bring,   *)
(* and what an execution knows of the reports it sent.                      *)
THEOREM Inductive == Spec => []Inv
  BY InitInv, NextInv, PTL DEF Spec

(* createBoundedWorkScheduler never runs more than MAX_PARALLEL_AGENT_WORK_ITEMS, *)
(* whatever number of leases the control plane answers with.                *)
THEOREM Bounded == Spec => []BoundedConcurrency
<1>1. Inv => BoundedConcurrency
  BY DEF Inv, Room, BoundedConcurrency
<1> QED BY <1>1, Inductive, PTL

(* completionMayBeCommitted never lets rollbackUnreportableWorkResult take away *)
(* the container of a deploy the control plane recorded as completed.       *)
THEOREM CompletedStays == Spec => []CompletedRuns
<1>1. ASSUME Inv, NEW w \in Items \ Updates, queue[w].status = "completed"
      PROVE  runtime[w] = "started"
  <2>1. queue[w] = [status |-> "completed", lease |-> queue[w].lease]
    BY <1>1, Typed DEF Inv, Entry
  <2>2. Told(w, queue[w].lease)
    BY <2>1 DEF Told
  <2> QED BY <1>1, <2>2 DEF Inv, Sound, Kept
<1>2. Inv => CompletedRuns
  BY <1>1 DEF CompletedRuns
<1> QED BY <1>2, Inductive, PTL

(* What may become of an execution whose work began.                        *)
Onward(w) ==
    runner[w].pc \in {"prepare", "send"} /\ runner'[w].pc # "idle"
      => runner'[w].lease = runner[w].lease /\ runner'[w].pc # "renew"

(* An execution that steps keeps its lease or ends.                         *)
LEMMA ExecutesOnward == ASSUME TypeOK, NEW w \in Items, Executes(w) PROVE Onward(w)
<1>1. runner \in [Items -> Runner] /\ runner[w] \in Runner
  BY DEF TypeOK
<1>2. ASSUME NEW d, Leave(w, d) PROVE Onward(w)
  BY <1>1, <1>2, Blanks DEF Leave, Onward
<1>3. ASSUME FirstRenewal(w) PROVE Onward(w)
  BY <1>1, <1>3 DEF FirstRenewal, Onward
<1>4. ASSUME Succeeds(w) PROVE Onward(w)
  BY <1>1, <1>4 DEF Succeeds, Onward, Runner
<1>5. ASSUME Fails(w) PROVE Onward(w)
  BY <1>1, <1>5 DEF Fails, Onward, Runner
<1>6. ASSUME ReportUnanswered(w) PROVE Onward(w)
  <2>1. CASE runner[w].tries + 1 = MaxTries
    BY <1>2, <1>6, <2>1 DEF ReportUnanswered
  <2>2. CASE runner[w].tries + 1 # MaxTries
    <3>1. \E t, d : runner' = [runner EXCEPT ![w] = [@ EXCEPT !.tries = t, !.delivery = d]]
      BY <1>1, <1>6, <2>2 DEF ReportUnanswered
    <3>2. runner'[w].lease = runner[w].lease /\ runner'[w].pc = runner[w].pc
      BY <1>1, <3>1 DEF Runner
    <3> QED BY <1>6, <3>2 DEF ReportUnanswered, Onward
  <2> QED BY <2>1, <2>2
<1>7. ASSUME ReportRejected(w) PROVE Onward(w)
  <2>1. CASE runner[w].delivery = "unconfirmed"
    BY <1>2, <1>7, <2>1 DEF ReportRejected
  <2>2. CASE runner[w].delivery # "unconfirmed"
    <3>1. \E d : runner' = [runner EXCEPT ![w] = [@ EXCEPT !.report = "fail", !.tries = 0,
                                                           !.delivery = d]]
      BY <1>7, <2>2 DEF ReportRejected
    <3>2. runner'[w].lease = runner[w].lease /\ runner'[w].pc = runner[w].pc
      BY <1>1, <3>1 DEF Runner
    <3> QED BY <1>7, <3>2 DEF ReportRejected, Rejected, Onward
  <2> QED BY <2>1, <2>2
<1>8. ASSUME Releases(w) \/ ReportAccepted(w) \/ ReportSuperseded(w) PROVE Onward(w)
  BY <1>2, <1>8 DEF Releases, ReportAccepted, ReportSuperseded
<1> QED BY <1>3, <1>4, <1>5, <1>6, <1>7, <1>8 DEF Executes, Sends

(* The step of an execution leaves the others alone.                        *)
LEMMA ExecutesAlone ==
    ASSUME TypeOK, NEW w \in Items, NEW v \in Items, v # w, Executes(w)
    PROVE  runner'[v] = runner[v]
  BY DEF TypeOK, Executes, Sends, FirstRenewal, Succeeds, Fails, Releases, ReportAccepted,
         ReportUnanswered, ReportSuperseded, ReportRejected, Leave

(* An answer starts nothing that is active.                                 *)
LEMMA AcceptOnward == ASSUME TypeOK, Accept, NEW w \in Items PROVE Onward(w)
<1> DEFINE S == IF Cardinality(poll.granted) > poll.limit THEN {} ELSE poll.granted \ Active
<1>1. Begin(S) /\ S \cap Active = {}
  BY DEF Accept
<1> HIDE DEF S
<1>2. CASE w \in S
  BY <1>1, <1>2 DEF Active, Onward
<1>3. CASE w \notin S
  <2>1. runner'[w] = runner[w]
    BY <1>1, <1>3 DEF Begin
  <2> QED BY <2>1 DEF Onward
<1> QED BY <1>2, <1>3

(* No step starts an execution over.                                        *)
LEMMA NextOnward == ASSUME TypeOK, [Next]_vars, NEW w \in Items PROVE Onward(w)
<1>1. CASE UNCHANGED runner
  BY <1>1 DEF Onward
<1>2. CASE Accept
  BY <1>2, AcceptOnward
<1>3. ASSUME NEW v \in Items, Executes(v) PROVE Onward(w)
  <2>1. CASE v = w
    BY <1>3, <2>1, ExecutesOnward
  <2>2. CASE v # w
    <3>1. runner'[w] = runner[w]
      BY <1>3, <2>2, ExecutesAlone
    <3> QED BY <3>1 DEF Onward
  <2> QED BY <2>1, <2>2
<1>4. CASE Exit \/ Crash
  BY <1>4, Blanks DEF Exit, Crash, Reborn, Onward
<1>5. CASE \/ Trigger \/ PollFails \/ \E batch \in SUBSET Items : Grant(batch)
           \/ \E v \in Items : LeaseExpires(v)
           \/ \E m \in late : LateReport(m)
           \/ Updating \/ UpdaterDies \/ Stop \/ UNCHANGED vars
  BY <1>1, <1>5 DEF Trigger, PollFails, Grant, LeaseExpires, LateReport, Updating, Drained,
       DrainTimesOut, UpdaterStarts, UpdaterFails, GraceElapses, UpdaterDies, Stop, vars
<1> QED BY <1>2, <1>3, <1>4, <1>5 DEF Next

(* No second lease starts an execution over, even from a control plane that *)
(* ignores activeWorkItemIds.                                               *)
THEOREM StartedOnce == Spec => NeverStartedOver
<1>1. Inv /\ [Next]_vars =>
        [\A w \in Items :
           runner[w].pc \in {"prepare", "send"} /\ runner'[w].pc # "idle"
             => runner'[w].lease = runner[w].lease /\ runner'[w].pc # "renew"]_vars
  BY NextOnward DEF Inv, Onward
<1> QED BY <1>1, Inductive, PTL DEF Spec, NeverStartedOver

(* Once the update is applied nothing asks for it again; the process that   *)
(* applied it counts as one restart.                                        *)
Applied ==
    /\ restarts <= (IF updated THEN 1 ELSE 0)
    /\ updated => /\ ~updater /\ update.pc = "none"
                  /\ \A w \in Items : ~runner[w].restart

(* From the end of the drain on only overdue work is under way, and nothing *)
(* is still to be answered.                                                 *)
DrainHolds ==
    update.pc \in {"starting", "grace"} => Active \subseteq update.overdue /\ poll.pc = "idle"

(* What an execution of w may do to the update.                             *)
Requests(w) ==
    /\ runner'[w].restart => runner[w].restart \/ NeedsRestart
    /\ runner'[w].pc # "idle" => runner[w].pc # "idle"
    /\ \/ update' = update
       \/ runner[w].restart /\ update.pc = "none" /\ update'.pc = "draining"
    /\ UNCHANGED <<poll, updater, updated, restarts>>

(* An execution that ends asks for a restart only if it was to.             *)
LEMMA LeaveRequests ==
    ASSUME TypeOK, NEW w \in Items, NEW d, Leave(w, d), UNCHANGED <<poll, updater, updated, restarts>>
    PROVE  Requests(w)
<1>1. runner'[w] = NoRunner /\ ~NoRunner.restart
  BY Leaves DEF Becomes, NoRunner
<1>2. \/ update' = update
      \/ runner[w].restart /\ update.pc = "none" /\ update' = [pc |-> "draining", overdue |-> {}]
  BY DEF Leave
<1> QED BY <1>1, <1>2, Blanks DEF Requests

(* Only a handler that succeeds decides on a restart.                       *)
LEMMA ExecutesRequests == ASSUME TypeOK, NEW w \in Items, Executes(w) PROVE Requests(w)
<1>1. runner \in [Items -> Runner] /\ runner[w] \in Runner
  BY DEF TypeOK
<1>2. ASSUME FirstRenewal(w) PROVE Requests(w)
  <2>1. CASE runner' = [runner EXCEPT ![w].pc = "prepare"] /\ UNCHANGED update
    BY <1>1, <1>2, <2>1 DEF FirstRenewal, Requests, Runner
  <2> QED BY <1>2, <2>1, LeaveRequests DEF FirstRenewal
<1>3. ASSUME Succeeds(w) PROVE Requests(w)
  BY <1>1, <1>3 DEF Succeeds, Requests, Runner
<1>4. ASSUME Fails(w) PROVE Requests(w)
  BY <1>1, <1>4 DEF Fails, Requests, Runner
<1>5. ASSUME ReportUnanswered(w) PROVE Requests(w)
  <2>1. CASE runner[w].tries + 1 = MaxTries
    BY <1>5, <2>1, LeaveRequests DEF ReportUnanswered
  <2>2. CASE runner[w].tries + 1 # MaxTries
    BY <1>1, <1>5, <2>2 DEF ReportUnanswered, Requests, Runner
  <2> QED BY <2>1, <2>2
<1>6. ASSUME ReportRejected(w) PROVE Requests(w)
  <2>1. CASE runner[w].delivery = "unconfirmed"
    BY <1>6, <2>1, LeaveRequests DEF ReportRejected
  <2>2. CASE runner[w].delivery # "unconfirmed"
    <3>1. PICK h : runner' = [runner EXCEPT ![w] = [@ EXCEPT !.report = "fail", !.tries = 0,
                                                            !.delivery = h]]
      BY <1>6, <2>2 DEF ReportRejected
    <3>2. UNCHANGED <<poll, update, updater, updated, restarts>> /\ runner[w].pc = "send"
      BY <1>6, <2>2 DEF ReportRejected, Rejected
    <3>3. runner'[w].restart = runner[w].restart
      BY <1>1, <3>1 DEF Runner
    <3> QED BY <3>2, <3>3 DEF Requests
  <2> QED BY <2>1, <2>2
<1>7. ASSUME Releases(w) \/ ReportAccepted(w) \/ ReportSuperseded(w) PROVE Requests(w)
  BY <1>7, LeaveRequests DEF Releases, ReportAccepted, ReportSuperseded
<1> QED BY <1>2, <1>3, <1>4, <1>5, <1>6, <1>7 DEF Executes, Sends

(* A step of an execution leaves an applied update and a drain as they are. *)
LEMMA ExecutesApplied ==
    ASSUME Versioned, TypeOK, Applied, DrainHolds, NEW w \in Items, Executes(w)
    PROVE  Applied' /\ DrainHolds'
<1>1. Requests(w) /\ \A v \in Items : v # w => runner'[v] = runner[v]
  BY ExecutesRequests, ExecutesAlone
<1>2. Applied'
  BY <1>1 DEF Applied, Requests, NeedsRestart
<1>3. DrainHolds'
  BY <1>1 DEF DrainHolds, Requests, Active
<1> QED BY <1>2, <1>3

LEMMA NextApplied ==
    ASSUME Versioned, TypeOK, Applied, DrainHolds, [Next]_vars
    PROVE  Applied' /\ DrainHolds'
<1>0. restarts \in Nat /\ updated \in BOOLEAN /\ updater \in BOOLEAN /\ runner \in [Items -> Runner]
      /\ update \in Drain
  BY DEF TypeOK, Drain
<1>1. ASSUME NEW w \in Items, Executes(w) PROVE Applied' /\ DrainHolds'
  BY <1>1, ExecutesApplied
<1>2. CASE Accept
  <2>1. /\ poll.pc = "answered" /\ UNCHANGED <<update, updater, updated, restarts>>
        /\ \A w \in Items : runner'[w] = runner[w] \/ ~runner'[w].restart
    <3>1. \A l : ~[NoRunner EXCEPT !.pc = "renew", !.lease = l].restart
      BY DEF NoRunner
    <3> QED BY <1>2, <3>1 DEF Accept, Begin
  <2> QED BY <2>1 DEF Applied, DrainHolds
<1>3. CASE Exit \/ Crash
  <2>1. /\ update'.pc = "none" /\ \A w \in Items : ~runner'[w].restart
    <3>1. NoUpdate.pc = "none" /\ ~NoRunner.restart
      BY DEF NoUpdate, NoRunner
    <3> QED BY <1>3, <3>1 DEF Exit, Crash, Reborn
  <2>2. CASE Exit
    BY <1>0, <2>1, <2>2 DEF Exit, Applied, DrainHolds
  <2>3. CASE Crash
    BY <1>0, <2>1, <2>3 DEF Crash, Applied, DrainHolds
  <2> QED BY <1>3, <2>2, <2>3
<1>4. CASE Trigger \/ PollFails \/ \E batch \in SUBSET Items : Grant(batch)
  <2>1. /\ UNCHANGED <<runner, update, updater, updated, restarts>>
        /\ update.pc = "none" \/ poll'.pc = "idle" \/ poll.pc = "asking"
    BY <1>4, Blanks DEF Trigger, PollFails, Grant
  <2> QED BY <2>1 DEF Applied, DrainHolds, Active
<1>5. CASE \/ \E v \in Items : LeaseExpires(v)
           \/ \E m \in late : LateReport(m)
           \/ UpdaterDies \/ Stop \/ UNCHANGED vars
  <2>1. /\ UNCHANGED <<runner, poll, update, updated, restarts>>
        /\ updater' => updater
    BY <1>5 DEF LeaseExpires, LateReport, UpdaterDies, Stop, vars
  <2> QED BY <2>1 DEF Applied, DrainHolds, Active
<1>6. CASE Updating
  <2>1. UNCHANGED <<runner, poll, updated, restarts>> /\ update.pc # "none"
    BY <1>6 DEF Updating, Drained, DrainTimesOut, UpdaterStarts, UpdaterFails, GraceElapses
  <2>2. update'.pc \in {"starting", "grace"} =>
          /\ poll.pc = "idle"
          /\ Active \subseteq update'.overdue
    <3>1. CASE Drained
      BY <1>0, <3>1 DEF Drained, Drain
    <3>2. CASE DrainTimesOut
      BY <3>2 DEF DrainTimesOut
    <3>3. CASE UpdaterStarts
      BY <1>0, <3>3 DEF UpdaterStarts, DrainHolds, Drain
    <3>4. CASE UpdaterFails \/ GraceElapses
      BY <3>4 DEF UpdaterFails, GraceElapses, NoUpdate
    <3> QED BY <1>6, <3>1, <3>2, <3>3, <3>4 DEF Updating
  <2> QED BY <1>0, <2>1, <2>2 DEF Applied, DrainHolds, Active
<1> QED BY <1>1, <1>2, <1>3, <1>4, <1>5, <1>6 DEF Next

(* Only the exit of an agent that an updater replaces counts as a restart.  *)
LEMMA RestartStep ==
    ASSUME TypeOK', Applied', DrainHolds
    PROVE  /\ restarts' <= 1
           /\ update.pc = "grace" /\ updater /\ ~updater' /\ restarts' # restarts
                => Active \subseteq update.overdue /\ poll.pc = "idle"
  BY DEF TypeOK, Applied, DrainHolds

(* An update restarts the agent once, however often its report is lost and  *)
(* the item leased again, and startAgentUpdaterAfterDrain lets the restart  *)
(* interrupt only work that outlasted the whole drain.  That the payload    *)
(* carries a version is what isAgentUpdateAlreadyApplied compares.          *)
THEOREM RestartsForUpdate == ASSUME Versioned PROVE Spec => RestartInterruptsNothingNew
<1>1. Init => Applied /\ DrainHolds
  BY DEF Init, Applied, DrainHolds, NoUpdate, NoRunner
<1>2. TypeOK /\ Applied /\ DrainHolds /\ [Next]_vars => Applied' /\ DrainHolds'
  BY NextApplied
<1>3. TypeOK' /\ Applied' /\ DrainHolds =>
        [/\ restarts' <= 1
         /\ update.pc = "grace" /\ updater /\ ~updater' /\ restarts' # restarts
              => Active \subseteq update.overdue /\ poll.pc = "idle"]_vars
  BY RestartStep
<1>4. Inv => TypeOK
  BY DEF Inv
<1> QED BY <1>1, <1>2, <1>3, <1>4, Inductive, PTL DEF Spec, RestartInterruptsNothingNew

===============================================================================
