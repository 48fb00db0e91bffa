--------------------------- MODULE ReadinessProofs ---------------------------
(***************************************************************************)
(* Proofs about Readiness, for any kinds, windows, thresholds, times and    *)
(* faults: what a wait concludes about a container is founded on what the   *)
(* container did, and no loop is taken for ready.                           *)
(***************************************************************************)
EXTENDS Readiness, FiniteSetTheorems, SequenceTheorems, TLAPS

Before == wait.stage = "before"
Watch == wait.stage = "watch"
Known == wait.baseline # Unread
Windowed == wait.kind \in Kept \cup StoppedFirst

(* The crashes among the first k of a log that count against a container of  *)
(* a kind whose window reaches back from an instant.                         *)
Tally(log, kind, from, k) ==
    Cardinality({i \in 1 .. k : kind \in Kept \cup StoppedFirst => log[i] + RecentWindow >= from})

Bound(n, k) == n <= Tally(downs, wait.kind, truth.from, k)

(* Docker's restart count is of the crashes since the last start by hand.   *)
Counting ==
    /\ box.restarts + truth.started = Len(downs)
    /\ box.since <= clock
    /\ truth.from = Never \/ truth.from <= clock
    /\ truth.last <= Len(downs)
    /\ truth.first # Unread => truth.first <= truth.last /\ truth.started <= truth.first

(* What each kind of wait has established by where it stands.               *)
Standing ==
    /\ Before => wait.kind \in StoppedFirst /\ truth.started = 0 /\ truth.first = Unread
    /\ wait.kind \in Kept /\ (Before \/ wait.pc \in {"idle", "begin"}) => ~Known
    /\ wait.kind \notin StoppedFirst => truth.started = 0 /\ truth.before = 0
    /\ wait.pc \in {"stop", "start"} => Before
    /\ wait.pc \in {"judge", "probe", "sleep"} => Watch /\ Known
    /\ wait.pc = "probe" => wait.kind \notin Worker
    /\ wait.kind \notin Kept => Known /\ wait.recent = 0
    /\ wait.kind \notin Kept \cup {"restarted"} => wait.baseline = 0
    /\ wait.kind \notin {"undone", "restored"} => wait.before = 0
    /\ Windowed /\ wait.pc \notin {"idle", "begin"} => truth.from # Never
    /\ wait.pc \in {"idle", "begin"} /\ (Before \/ wait.kind \in {"live", "replica"})
         => truth.from = Never
    /\ wait.kind \in StoppedFirst /\ Watch => truth.from # Never
    /\ ~wait.evidence.oom
    /\ Before \/ ~Known => wait.evidence.restarts = 0
    /\ wait.pc = "count" => wait.kind # "restarted"
    /\ wait.kind \in Kept /\ ~Known /\ wait.pc # "count" => truth.first = Unread
    /\ wait.kind \in Kept /\ Known =>
         /\ truth.first # Unread /\ wait.baseline + truth.started = truth.first
         /\ wait.recent <= wait.baseline
    /\ wait.pc \in {"judge", "count"} => wait.snap.status # "absent"
    /\ wait.pc = "judge" => wait.snap.restarts + truth.started = truth.last
    /\ wait.pc = "count" => wait.snap.restarts <= Len(downs)
    /\ wait.pc = "count" /\ Watch =>
         /\ ~Known /\ truth.first # Unread /\ truth.first = truth.last
         /\ wait.snap.restarts + truth.started = truth.first

(* What a worker has been up for, by what the last look saw.                *)
Growing ==
    /\ Before => wait.lastCount = Unread /\ wait.upSince = Never
    /\ wait.lastCount # Unread => wait.lastCount <= box.restarts
    /\ wait.upSince # Never =>
         /\ wait.lastCount # Unread /\ box.health = "none" /\ wait.upSince <= clock
         /\ box.restarts = wait.lastCount =>
              box.status # "restarting" /\ box.since <= wait.upSince
    /\ wait.pc = "judge" \/ (wait.pc = "count" /\ Watch) =>
         /\ wait.snap.restarts <= box.restarts /\ wait.snap.since <= clock
         /\ wait.snap.health = "none" <=> box.health = "none"
         /\ wait.lastCount # Unread => wait.lastCount <= wait.snap.restarts
         /\ wait.upSince # Never /\ wait.snap.restarts = wait.lastCount =>
              wait.snap.since <= wait.upSince
         /\ wait.snap.status = "running" /\ wait.snap.restarts = box.restarts =>
              box.status # "restarting" /\ box.since = wait.snap.since

(* The evidence is not less than a perfect log would give: of a container   *)
(* stopped first, of one that was kept, of one whose probe is awaited.      *)
EnoughBefore ==
    /\ wait.pc = "inspect" /\ Before =>
         truth.before <= wait.exits /\ truth.before <= box.restarts
    /\ wait.pc = "count" /\ Before =>
         /\ truth.before <= wait.exits /\ truth.before <= wait.snap.restarts
         /\ Outlasted(wait.snap, wait.at) => truth.before = 0
    /\ ~truth.short /\ ~truth.blind /\ wait.kind \in {"undone", "restored"}
         /\ (Watch \/ wait.pc \in {"stop", "start"}) => truth.before <= wait.before

EnoughRecent ==
    /\ wait.pc = "inspect" /\ Watch /\ ~Known =>
         truth.recent <= wait.exits /\ truth.recent <= box.restarts
    /\ wait.pc = "count" /\ Watch =>
         /\ truth.recent <= wait.exits /\ truth.recent <= wait.snap.restarts
         /\ truth.steady = Outlasted(wait.snap, wait.at)
    /\ wait.kind \in Kept /\ Known =>
         /\ ~truth.short => truth.recent <= wait.recent
                              \/ (truth.steady /\ wait.kind # "replica")
         /\ wait.kind # "replica" /\ truth.steady => wait.recent = 0
         /\ wait.kind = "replica" => wait.outlasted = truth.steady

EnoughProbed ==
    wait.pc = "probe" =>
      /\ wait.evidence.restarts < AppLoop
      /\ ~truth.short /\ wait.kind # "restarted" => LoopTruly <= wait.evidence.restarts

Enough == EnoughBefore /\ EnoughRecent /\ EnoughProbed

(* Nor is it more than what happened, where only crashes took it down.       *)
Hands ==
    byHand # <<>> /\ (wait.kind \in StoppedFirst => Before /\ wait.pc # "start")
      => box.status \in {"exited", "absent"}

FoundedLook ==
    /\ wait.pc = "inspect" /\ (Before \/ (wait.kind \in {"live", "replica"} /\ ~Known)) =>
         Bound(wait.exits, Len(downs)) \/ byHand # <<>>
    /\ wait.pc = "count" /\ Before => Bound(wait.exits, Len(downs)) \/ truth.down
    /\ wait.pc = "count" /\ Watch /\ wait.kind \in {"live", "replica"} =>
         Bound(wait.exits, truth.first) \/ wait.snap.status = "exited"

FoundedCount ==
    /\ wait.pc \in {"stop", "start"} => Bound(wait.before, Len(downs)) \/ truth.down
    /\ wait.kind \in StoppedFirst /\ Watch => Bound(wait.before, truth.started) \/ truth.down
    /\ wait.kind \in {"live", "replica"} /\ Known =>
         Bound(wait.recent, truth.first) \/ (wait.pc = "judge" /\ wait.snap.status = "exited")
    /\ Bound(wait.evidence.restarts, Len(downs)) \/ truth.down

Since ==
    /\ wait.kind \in StoppedFirst /\ Watch =>
         \A i \in truth.started + 1 .. Len(downs) : downs[i] >= truth.from
    /\ wait.kind \in Kept /\ truth.first # Unread =>
         \A i \in truth.first + 1 .. Len(downs) : downs[i] >= truth.from

Founded == Hands /\ FoundedLook /\ FoundedCount /\ Since

(* A kept container that had outlasted its loop is judged by what came after.*)
Calm ==
    wait.kind = "live" /\ truth.steady /\ truth.first # Unread =>
      wait.evidence.restarts <= truth.last - truth.first

Live == Counting /\ Standing /\ Growing /\ Enough /\ Founded /\ Calm

Inv ==
    /\ TypeOK
    /\ wait.pc = "done" <=> ~Undecided
    /\ wait.pc # "done" => Live
    /\ FailuresAreReal /\ LoopsAreNotReady /\ StayedUp

----------------------------------------------------------------------------
LEMMA Constants ==
    /\ RecentWindow \in Nat /\ Grace \in Nat /\ Timeout \in Nat /\ ProbeInterval \in Nat
    /\ MaxTime \in Nat /\ MaxDowns \in Nat /\ MaxFaults \in Nat
    /\ AppLoop \in Nat /\ AppLoop > 0 /\ WorkerLoop \in Nat /\ WorkerLoop > 0
  BY ReadinessAssumption

(* The smaller of two numbers, and the largest of a range.                  *)
LEMMA Extremes ==
    ASSUME NEW a \in Nat, NEW b \in Nat
    PROVE  /\ Min({a, b}) = (IF a <= b THEN a ELSE b)
           /\ Max({a, b}) = (IF a <= b THEN b ELSE a)
           /\ Max(0 .. a) = a
<1> DEFINE m == IF a <= b THEN a ELSE b
<1>1. m \in {a, b} /\ \A y \in {a, b} : m <= y
  OBVIOUS
<1>2. \A x \in {a, b} : (\A y \in {a, b} : x <= y) => x = m
  OBVIOUS
<1> HIDE DEF m
<1>3. Min({a, b}) \in {a, b} /\ \A y \in {a, b} : Min({a, b}) <= y
  BY <1>1 DEF Min
<1>4. Min({a, b}) = m
  BY <1>2, <1>3
<1>5. a \in 0 .. a /\ \A y \in 0 .. a : a >= y
  OBVIOUS
<1>6. Max(0 .. a) \in 0 .. a /\ \A y \in 0 .. a : Max(0 .. a) >= y
  BY <1>5 DEF Max
<1>7. Max(0 .. a) = a
  BY <1>5, <1>6
<1> DEFINE n == IF a <= b THEN b ELSE a
<1>8. n \in {a, b} /\ \A y \in {a, b} : n >= y
  OBVIOUS
<1>9. \A x \in {a, b} : (\A y \in {a, b} : x >= y) => x = n
  OBVIOUS
<1> HIDE DEF n
<1>10. Max({a, b}) \in {a, b} /\ \A y \in {a, b} : Max({a, b}) >= y
  BY <1>8 DEF Max
<1>11. Max({a, b}) = n
  BY <1>9, <1>10
<1> QED BY <1>4, <1>7, <1>11 DEF m, n

(* The parts of the state are of their types.                               *)
LEMMA Typed ==
    ASSUME TypeOK
    PROVE  /\ clock \in 0 .. MaxTime /\ faults \in 0 .. MaxFaults
           /\ downs \in Seq(0 .. MaxTime) /\ Len(downs) \in 0 .. MaxDowns
           /\ DOMAIN downs = 1 .. Len(downs)
           /\ byHand \in Seq(0 .. MaxTime)
           /\ box \in Container /\ box.restarts \in 0 .. MaxDowns /\ box.since \in 0 .. MaxTime
           /\ wait \in Wait /\ truth \in Truth
  BY DEF TypeOK, Container

(* A crash that counts still does when the window reaches further back.     *)
LEMMA Tallied ==
    ASSUME NEW log \in Seq(Nat), NEW kind, NEW from \in Nat, NEW k \in 0 .. Len(log)
    PROVE  /\ Tally(log, kind, from, k) \in 0 .. k
           /\ kind \notin Kept \cup StoppedFirst => Tally(log, kind, from, k) = k
<1> DEFINE S == {i \in 1 .. k :
                   kind \in Kept \cup StoppedFirst => log[i] + RecentWindow >= from}
<1>1. k \in Nat
  OBVIOUS
<1>2. IsFiniteSet(1 .. k) /\ Cardinality(1 .. k) = k
  BY <1>1, FS_Interval
<1>3. S \in SUBSET (1 .. k) /\ (kind \notin Kept \cup StoppedFirst => S = 1 .. k)
  OBVIOUS
<1> HIDE DEF S
<1>4. IsFiniteSet(S) /\ Cardinality(S) <= k
  <2> DEFINE R == 1 .. k
  <2>1. IsFiniteSet(R) /\ Cardinality(R) = k /\ S \in SUBSET R
    BY <1>2, <1>3
  <2> HIDE DEF R
  <2>2. IsFiniteSet(S) /\ Cardinality(S) <= Cardinality(R)
    BY <2>1, FS_Subset
  <2> QED BY <2>1, <2>2
<1>5. Cardinality(S) \in Nat
  BY <1>4, FS_CardinalityType
<1>6. Tally(log, kind, from, k) = Cardinality(S)
  BY DEF S, Tally
<1> QED BY <1>1, <1>2, <1>3, <1>4, <1>5, <1>6

LEMMA Grows ==
    ASSUME NEW log \in Seq(Nat), NEW more \in Seq(Nat), NEW kind,
           NEW from \in Nat, NEW back \in Nat, back <= from,
           NEW k \in 0 .. Len(log), NEW l \in 0 .. Len(more), k <= l,
           \A i \in 1 .. k : more[i] = log[i]
    PROVE  Tally(log, kind, from, k) <= Tally(more, kind, back, l)
<1> DEFINE S == {i \in 1 .. k :
                   kind \in Kept \cup StoppedFirst => log[i] + RecentWindow >= from}
           T == {i \in 1 .. l :
                   kind \in Kept \cup StoppedFirst => more[i] + RecentWindow >= back}
<1>1. k \in Nat /\ l \in Nat
  OBVIOUS
<1>2. \A i \in 1 .. k : i \in 1 .. l /\ log[i] \in Nat /\ more[i] = log[i]
  <2> TAKE i \in 1 .. k
  <2>1. i \in 1 .. Len(log) /\ i \in 1 .. l
    BY <1>1
  <2>2. log[i] \in Nat
    BY <2>1, ElementOfSeq
  <2> QED BY <2>1, <2>2
<1>3. S \in SUBSET T
  <2> SUFFICES ASSUME NEW i \in 1 .. k,
                      kind \in Kept \cup StoppedFirst => log[i] + RecentWindow >= from
               PROVE  /\ i \in 1 .. l
                      /\ kind \in Kept \cup StoppedFirst => more[i] + RecentWindow >= back
    OBVIOUS
  <2>1. i \in 1 .. l /\ log[i] \in Nat /\ more[i] = log[i]
    BY <1>2
  <2>2. RecentWindow \in Nat
    BY Constants
  <2>3. \A x \in Nat : x + RecentWindow >= from => x + RecentWindow >= back
    BY <2>2
  <2> QED BY <2>1, <2>3
<1>4. T \in SUBSET (1 .. l)
  OBVIOUS
<1>5. Tally(log, kind, from, k) = Cardinality(S) /\ Tally(more, kind, back, l) = Cardinality(T)
  BY DEF Tally
<1> HIDE DEF S, T
<1>6. IsFiniteSet(1 .. l)
  BY <1>1, FS_Interval
<1>7. IsFiniteSet(T)
  BY <1>4, <1>6, FS_Subset
<1> QED BY <1>3, <1>5, <1>7, FS_Subset

(* What came after the instant the window is counted from counts.           *)
LEMMA After ==
    ASSUME NEW log \in Seq(Nat), NEW kind, NEW from \in Nat,
           NEW k \in 0 .. Len(log), NEW l \in 0 .. Len(log), k <= l,
           kind \in Kept \cup StoppedFirst => \A i \in k + 1 .. l : log[i] >= from
    PROVE  Tally(log, kind, from, k) + (l - k) <= Tally(log, kind, from, l)
<1> DEFINE S == {i \in 1 .. k :
                   kind \in Kept \cup StoppedFirst => log[i] + RecentWindow >= from}
           T == {i \in 1 .. l :
                   kind \in Kept \cup StoppedFirst => log[i] + RecentWindow >= from}
           New == k + 1 .. l
<1>1. k \in Nat /\ l \in Nat
  OBVIOUS
<1>2. \A i \in New : i \in 1 .. l /\ log[i] \in Nat
  <2> TAKE i \in New
  <2>1. i \in 1 .. l /\ i \in 1 .. Len(log)
    BY <1>1
  <2>2. log[i] \in Nat
    BY <2>1, ElementOfSeq
  <2> QED BY <2>1, <2>2
<1>3. New \subseteq T
  <2> SUFFICES ASSUME NEW i \in New
               PROVE  /\ i \in 1 .. l
                      /\ kind \in Kept \cup StoppedFirst => log[i] + RecentWindow >= from
    OBVIOUS
  <2>1. \A x \in Nat : x >= from => x + RecentWindow >= from
    BY Constants
  <2> QED BY <1>2, <2>1
<1>4. S \subseteq T /\ S \cap New = {} /\ S \in SUBSET (1 .. k) /\ T \in SUBSET (1 .. l)
  BY <1>1
<1>5. Tally(log, kind, from, k) = Cardinality(S) /\ Tally(log, kind, from, l) = Cardinality(T)
  BY DEF Tally
<1>6. IsFiniteSet(New) /\ Cardinality(New) = l - k
  <2>1. k + 1 \in Int /\ l \in Int
    BY <1>1
  <2>2. IsFiniteSet(New) /\ Cardinality(New) = (IF k + 1 > l THEN 0 ELSE l - (k + 1) + 1)
    BY <2>1, FS_Interval
  <2> QED BY <2>2, <1>1
<1> HIDE DEF S, T, New
<1>7. IsFiniteSet(S) /\ Cardinality(S) \in Nat /\ IsFiniteSet(T)
  <2>1. IsFiniteSet(1 .. k) /\ IsFiniteSet(1 .. l)
    BY <1>1, FS_Interval
  <2>2. IsFiniteSet(S) /\ IsFiniteSet(T)
    BY <2>1, <1>4, FS_Subset
  <2> QED BY <2>2, FS_CardinalityType
<1>8. Cardinality(S \cup New) = Cardinality(S) + (l - k)
  <2>1. Cardinality(S \cup New) = Cardinality(S) + Cardinality(New) - Cardinality(S \cap New)
    BY <1>6, <1>7, FS_Union
  <2>2. Cardinality(S \cap New) = 0
    BY <1>4, FS_EmptySet
  <2> QED BY <2>1, <2>2, <1>1, <1>6, <1>7
<1>9. S \cup New \in SUBSET T
  BY <1>3, <1>4
<1>10. Cardinality(S \cup New) <= Cardinality(T)
  BY <1>7, <1>9, FS_Subset
<1> QED BY <1>5, <1>8, <1>10

(* The log is only appended to.                                             *)
LEMMA Appended ==
    ASSUME TypeOK, NEW t \in Nat, downs' = Append(downs, t)
    PROVE  /\ Len(downs') = Len(downs) + 1 /\ downs'[Len(downs) + 1] = t
           /\ \A i \in 1 .. Len(downs) : downs'[i] = downs[i]
  BY Typed, AppendProperties

----------------------------------------------------------------------------
(* The log is one of numbers, and the tally of it is at most its length.    *)
LEMMA Logged ==
    ASSUME TypeOK
    PROVE  /\ downs \in Seq(Nat) /\ byHand \in Seq(Nat) /\ truth.from \in Nat
           /\ \A k \in 0 .. Len(downs) : Tally(downs, wait.kind, truth.from, k) \in 0 .. k
<1>1. downs \in Seq(Nat) /\ byHand \in Seq(Nat)
  <2>1. ASSUME NEW log \in Seq(0 .. MaxTime)
        PROVE  log \in Seq(Nat)
    <3>1. Len(log) \in Nat /\ \A i \in 1 .. Len(log) : log[i] \in 0 .. MaxTime
      BY ElementOfSeq, LenProperties
    <3>2. \A i \in 1 .. Len(log) : log[i] \in Nat
      BY <3>1
    <3>3. log = [i \in 1 .. Len(log) |-> log[i]]
      BY LenProperties
    <3> QED BY <3>1, <3>2, <3>3, IsASeq
  <2> QED BY <2>1, Typed
<1>2. truth.from \in Nat
  BY Typed DEF Truth, Never
<1> QED BY <1>1, <1>2, Tallied

Logs == downs \in Seq(Nat) /\ byHand \in Seq(Nat)

LEMMA LoggedNext ==
    (TypeOK => Logs) /\ (TypeOK' => Logs')
<1>1. TypeOK => Logs
  BY Logged DEF Logs
<1> QED BY <1>1, PTL

LEMMA Total ==
    ASSUME TypeOK
    PROVE  Cardinality({i \in DOMAIN downs :
                          wait.kind \in Kept \cup StoppedFirst => downs[i] + RecentWindow >= truth.from})
             = Tally(downs, wait.kind, truth.from, Len(downs))
  BY Typed DEF Tally

(* The numbers of the state.                                                *)
Numbers ==
    /\ clock \in Nat /\ box.restarts \in Nat /\ box.since \in Nat /\ Len(downs) \in Nat
    /\ wait.snap.restarts \in Nat /\ wait.snap.since \in Nat
    /\ wait.at \in Nat /\ wait.exits \in Nat /\ wait.deadline \in Nat /\ wait.nextProbe \in Nat
    /\ wait.baseline \in Nat /\ wait.before \in Nat /\ wait.recent \in Nat
    /\ wait.lastCount \in Nat /\ wait.upSince \in Nat /\ wait.evidence.restarts \in Nat
    /\ truth.from \in Nat /\ truth.before \in Nat /\ truth.recent \in Nat
    /\ truth.started \in Nat /\ truth.first \in Nat /\ truth.last \in Nat

LEMMA Numbered ==
    TypeOK => Numbers
<1> SUFFICES ASSUME TypeOK PROVE Numbers
  OBVIOUS
<1>1. clock \in Nat /\ box.restarts \in Nat /\ box.since \in Nat /\ Len(downs) \in Nat
  BY Typed
<1>2. wait.snap \in Container /\ wait.evidence \in Evidence
  BY Typed DEF Wait
<1>3. wait.snap.restarts \in Nat /\ wait.snap.since \in Nat /\ wait.evidence.restarts \in Nat
  BY <1>2 DEF Container, Evidence
<1>4. /\ wait.at \in Nat /\ wait.exits \in Nat /\ wait.deadline \in Nat /\ wait.nextProbe \in Nat
      /\ wait.baseline \in Nat /\ wait.before \in Nat /\ wait.recent \in Nat
      /\ wait.lastCount \in Nat /\ wait.upSince \in Nat
  BY Typed DEF Wait, Unread, Never
<1>5. /\ truth.from \in Nat /\ truth.before \in Nat /\ truth.recent \in Nat
      /\ truth.started \in Nat /\ truth.first \in Nat /\ truth.last \in Nat
  BY Typed DEF Truth, Unread, Never
<1> QED BY <1>1, <1>3, <1>4, <1>5 DEF Numbers

LEMMA NumberedNext ==
    TypeOK' => Numbers'
<1> QED BY Numbered, PTL

(* Every step but those that end a wait leaves it to be judged by Live.     *)
LEMMA Alive ==
    ASSUME Inv, Next
    PROVE  TypeOK /\ wait.pc # "done" /\ Undecided /\ Live
<1>1. Next => Undecided \/ wait.pc # "done"
  BY DEF Next, Tick, Docker, GoesDown, ComesUp, OutlivesKill, HealthChanges, TakenAway, Ask,
         Look, Begin, Inspect, Count, JudgeApp, JudgeDatabase, JudgeWorker, Probe, StopByHand,
         StartByHand, CallFails
<1> QED BY <1>1 DEF Inv

LEMMA Continues ==
    ASSUME TypeOK', Undecided', wait'.pc # "done", Live'
    PROVE  Inv'
<1>1. FailuresAreReal'
  BY DEF FailuresAreReal, Undecided
<1>2. LoopsAreNotReady' /\ StayedUp'
  BY DEF LoopsAreNotReady, StayedUp, Undecided
<1> QED BY <1>1, <1>2 DEF Inv

LEMMA Ends ==
    ASSUME TypeOK', wait'.pc = "done",
           wait'.verdict \notin {"none", "ready", "restart_loop", "out_of_memory"}
    PROVE  Inv'
<1>1. FailuresAreReal'
  BY DEF FailuresAreReal
<1>2. LoopsAreNotReady' /\ StayedUp'
  BY DEF LoopsAreNotReady, StayedUp
<1> QED BY <1>1, <1>2 DEF Inv, Undecided

----------------------------------------------------------------------------
(* What Docker and time do while the agent is between two awaits.           *)
Outside ==
    /\ UNCHANGED <<wait, truth>>
    /\ clock' >= clock
    /\ \/ downs' = downs /\ box'.restarts = box.restarts
       \/ downs' = Append(downs, clock) /\ box'.restarts = box.restarts + 1
    /\ box'.since <= clock'
    /\ box'.health = "none" <=> box.health = "none"
    /\ box'.restarts = box.restarts /\ box.status # "restarting" =>
         box'.status # "restarting" /\ box'.since = box.since
    /\ box.status \in {"exited", "absent"} => box'.status \in {"exited", "absent"}
    /\ byHand' = byHand \/ (byHand' # <<>> /\ box'.status \in {"exited", "absent"})

LEMMA Elsewhere ==
    ASSUME TypeOK, TypeOK', wait.pc # "done", Undecided, Live, Outside
    PROVE  Inv'
<1> USE DEF Before, Watch, Known, Windowed, Never, Unread
<1>t. Numbers /\ Numbers'
  BY Numbered, NumberedNext
<1>l. Counting /\ Standing /\ Growing /\ Enough /\ Founded /\ Calm
  BY DEF Live
<1>g. Len(downs) <= Len(downs') /\ box.restarts <= box'.restarts
      /\ Len(downs') - Len(downs) = box'.restarts - box.restarts
  <2>1. /\ Len(downs) \in Nat /\ Len(downs') \in Nat /\ clock \in Nat
        /\ box.restarts \in Nat /\ box'.restarts \in Nat
    BY <1>t DEF Numbers
  <2>2. CASE downs' = downs /\ box'.restarts = box.restarts
    BY <2>1, <2>2
  <2>3. CASE downs' = Append(downs, clock) /\ box'.restarts = box.restarts + 1
    <3>1. Len(downs') = Len(downs) + 1
      BY <2>1, <2>3, Appended
    <3> QED BY <2>1, <2>3, <3>1
  <2> QED BY <2>2, <2>3 DEF Outside
<1>s. wait' = wait /\ truth' = truth
  BY DEF Outside
<1>o. /\ clock' >= clock /\ box'.since <= clock'
      /\ box'.health = "none" <=> box.health = "none"
      /\ box'.restarts = box.restarts /\ box.status # "restarting" =>
           box'.status # "restarting" /\ box'.since = box.since
      /\ box.status \in {"exited", "absent"} => box'.status \in {"exited", "absent"}
      /\ byHand' = byHand \/ box'.status \in {"exited", "absent"}
  BY DEF Outside
<1>1. Counting'
  <2>1. (box.restarts + truth.started = Len(downs))'
    <3>1. box.restarts + truth.started = Len(downs)
      BY <1>l DEF Counting
    <3>2. box.restarts \in Nat /\ box'.restarts \in Nat /\ truth.started \in Nat
      BY <1>t DEF Numbers
    <3>3. Len(downs) \in Nat /\ Len(downs') \in Nat
      BY <1>t DEF Numbers
    <3>4. Len(downs') - Len(downs) = box'.restarts - box.restarts
      BY <1>g
    <3>5. box'.restarts + truth.started = Len(downs')
      BY <3>1, <3>2, <3>3, <3>4
    <3> QED BY <3>5, <1>s
  <2>2. (box.since <= clock)'
    BY <1>o
  <2>3. (truth.from = Never \/ truth.from <= clock)'
    BY <1>t, <1>s, <1>l, <1>o DEF Numbers, Counting
  <2>4. (truth.last <= Len(downs))'
    BY <1>t, <1>s, <1>l, <1>g DEF Numbers, Counting
  <2>5. (truth.first # Unread => truth.first <= truth.last /\ truth.started <= truth.first)'
    BY <1>s, <1>l DEF Counting
  <2> QED BY <2>1, <2>2, <2>3, <2>4, <2>5 DEF Counting
<1>2. Standing'
  <2>1. wait.pc = "count" => wait.snap.restarts <= Len(downs')
    <3>1. wait.pc = "count" => wait.snap.restarts <= Len(downs)
      BY <1>l DEF Standing
    <3>2. wait.snap.restarts \in Nat /\ Len(downs) \in Nat /\ Len(downs') \in Nat
      BY <1>t DEF Numbers
    <3> QED BY <1>g, <3>1, <3>2
  <2> QED BY <1>s, <1>l, <2>1 DEF Standing
<1>3. Growing'
  <2>n. /\ box.restarts \in Nat /\ box'.restarts \in Nat /\ wait.lastCount \in Nat
        /\ clock \in Nat /\ clock' \in Nat /\ wait.upSince \in Nat /\ box'.since \in Nat
        /\ wait.snap.restarts \in Nat /\ wait.snap.since \in Nat
        /\ box.restarts <= box'.restarts
    BY <1>t, <1>g DEF Numbers
  <2>1. (Before => wait.lastCount = Unread /\ wait.upSince = Never)'
    BY <1>s, <1>l DEF Growing
  <2>2. (wait.lastCount # Unread => wait.lastCount <= box.restarts)'
    BY <1>s, <1>l, <2>n DEF Growing
  <2>3. (wait.upSince # Never =>
           /\ wait.lastCount # Unread /\ box.health = "none" /\ wait.upSince <= clock
           /\ box.restarts = wait.lastCount =>
                box.status # "restarting" /\ box.since <= wait.upSince)'
    <3> SUFFICES ASSUME wait.upSince # Never
                 PROVE  /\ wait.lastCount # Unread /\ box'.health = "none" /\ wait.upSince <= clock'
                        /\ box'.restarts = wait.lastCount =>
                             box'.status # "restarting" /\ box'.since <= wait.upSince
      BY <1>s
    <3>1. wait.lastCount # Unread /\ box'.health = "none" /\ wait.upSince <= clock'
      BY <1>l, <1>o, <2>n DEF Growing
    <3>2. box'.restarts = wait.lastCount => box.restarts = wait.lastCount
      BY <1>l, <3>1, <2>n DEF Growing
    <3> QED BY <1>l, <1>o, <3>1, <3>2 DEF Growing
  <2>4. (wait.pc = "judge" \/ (wait.pc = "count" /\ Watch) =>
           /\ wait.snap.restarts <= box.restarts /\ wait.snap.since <= clock
           /\ wait.snap.health = "none" <=> box.health = "none"
           /\ wait.lastCount # Unread => wait.lastCount <= wait.snap.restarts
           /\ wait.upSince # Never /\ wait.snap.restarts = wait.lastCount =>
                wait.snap.since <= wait.upSince
           /\ wait.snap.status = "running" /\ wait.snap.restarts = box.restarts =>
                box.status # "restarting" /\ box.since = wait.snap.since)'
    <3> SUFFICES ASSUME wait.pc = "judge" \/ (wait.pc = "count" /\ Watch)
                 PROVE  /\ wait.snap.restarts <= box'.restarts /\ wait.snap.since <= clock'
                        /\ wait.snap.health = "none" <=> box'.health = "none"
                        /\ wait.lastCount # Unread => wait.lastCount <= wait.snap.restarts
                        /\ wait.upSince # Never /\ wait.snap.restarts = wait.lastCount =>
                             wait.snap.since <= wait.upSince
                        /\ wait.snap.status = "running" /\ wait.snap.restarts = box'.restarts =>
                             box'.status # "restarting" /\ box'.since = wait.snap.since
      BY <1>s
    <3>1. /\ wait.snap.restarts <= box.restarts /\ wait.snap.since <= clock
          /\ wait.snap.health = "none" <=> box.health = "none"
          /\ wait.lastCount # Unread => wait.lastCount <= wait.snap.restarts
          /\ wait.upSince # Never /\ wait.snap.restarts = wait.lastCount =>
               wait.snap.since <= wait.upSince
          /\ wait.snap.status = "running" /\ wait.snap.restarts = box.restarts =>
               box.status # "restarting" /\ box.since = wait.snap.since
      BY <1>l DEF Growing
    <3>2. wait.snap.restarts = box'.restarts => wait.snap.restarts = box.restarts
      BY <2>n, <3>1
    <3>3. wait.snap.restarts <= box'.restarts /\ wait.snap.since <= clock'
      BY <2>n, <3>1, <1>o
    <3> QED BY <3>1, <3>2, <3>3, <1>o
  <2> QED BY <2>1, <2>2, <2>3, <2>4 DEF Growing
<1>4. Enough'
  <2>n. truth.before \in Nat /\ truth.recent \in Nat /\ box.restarts \in Nat
        /\ box'.restarts \in Nat /\ box.restarts <= box'.restarts
    BY <1>t, <1>g DEF Numbers
  <2>o. LoopTruly' = LoopTruly
        /\ Outlasted(wait.snap, wait.at)' = Outlasted(wait.snap, wait.at)
    BY <1>s DEF LoopTruly, Outlasted, Threshold
  <2>1. EnoughBefore'
    BY <2>n, <2>o, <1>s, <1>l DEF Enough, EnoughBefore
  <2>2. EnoughRecent'
    BY <2>n, <2>o, <1>s, <1>l DEF Enough, EnoughRecent
  <2>3. EnoughProbed'
    BY <2>o, <1>s, <1>l DEF Enough, EnoughProbed
  <2> QED BY <2>1, <2>2, <2>3 DEF Enough
<1>5. Founded'
  <2>1. \A i \in 1 .. Len(downs) : downs'[i] = downs[i]
    BY <1>t, Appended DEF Outside
  <2>2. \A k \in 0 .. Len(downs), l \in 0 .. Len(downs') :
          k <= l => Tally(downs, wait.kind, truth.from, k) <= Tally(downs', wait.kind, truth.from, l)
    <3>n. downs \in Seq(Nat) /\ downs' \in Seq(Nat) /\ truth.from \in Nat
      BY Logged, LoggedNext DEF Logs
    <3> SUFFICES ASSUME NEW k \in 0 .. Len(downs), NEW l \in 0 .. Len(downs'), k <= l
                 PROVE  Tally(downs, wait.kind, truth.from, k)
                          <= Tally(downs', wait.kind, truth.from, l)
      OBVIOUS
    <3>1. \A i \in 1 .. k : downs'[i] = downs[i]
      BY <1>t, <2>1
    <3> QED BY <3>1, <1>s, <3>n, Grows DEF Numbers
  <2>n. /\ Len(downs) \in Nat /\ Len(downs') \in Nat /\ Len(downs) <= Len(downs')
        /\ truth.started \in Nat /\ truth.first \in Nat /\ truth.from \in Nat
        /\ wait.exits \in Nat /\ wait.before \in Nat /\ wait.recent \in Nat
        /\ wait.evidence.restarts \in Nat /\ clock \in Nat
        /\ truth.last \in Nat /\ box.restarts \in Nat
    BY <1>t, <1>g DEF Numbers
  <2>k. /\ truth.started <= Len(downs)
        /\ truth.first # Unread => truth.first <= Len(downs)
    BY <2>n, <1>l DEF Counting
  <2>b. \A k \in 0 .. Len(downs), l \in 0 .. Len(downs'), n \in Nat :
          k <= l /\ n <= Tally(downs, wait.kind, truth.from, k)
            => n <= Tally(downs', wait'.kind, truth'.from, l)
    <3> SUFFICES ASSUME NEW k \in 0 .. Len(downs), NEW l \in 0 .. Len(downs'), NEW n \in Nat,
                        k <= l, n <= Tally(downs, wait.kind, truth.from, k)
                 PROVE  n <= Tally(downs', wait.kind, truth.from, l)
      BY <1>s
    <3>1. downs \in Seq(Nat) /\ downs' \in Seq(Nat) /\ truth.from \in Nat
      BY Logged, LoggedNext DEF Logs
    <3>2. /\ Tally(downs, wait.kind, truth.from, k) \in 0 .. k
          /\ Tally(downs', wait.kind, truth.from, l) \in 0 .. l
      BY <3>1, Tallied
    <3>3. Tally(downs, wait.kind, truth.from, k) <= Tally(downs', wait.kind, truth.from, l)
      BY <2>2
    <3> QED BY <3>2, <3>3, <2>n
  <2>m. \A n \in Nat : n <= Tally(downs, wait.kind, truth.from, Len(downs))
            => n <= Tally(downs', wait'.kind, truth'.from, Len(downs'))
    <3>1. Len(downs) \in 0 .. Len(downs) /\ Len(downs') \in 0 .. Len(downs')
      BY <2>n
    <3> QED BY <3>1, <2>n, <2>b
  <2>3. Hands'
    BY <1>s, <1>l, <1>o DEF Founded, Hands
  <2>4. FoundedLook'
    <3>1. Bound(wait.exits, Len(downs)) => Bound(wait.exits, Len(downs))'
      BY <1>s, <2>n, <2>m DEF Bound
    <3>2. wait.pc = "count" /\ Watch /\ Bound(wait.exits, truth.first)
            => Bound(wait.exits, truth.first)'
      BY <1>s, <1>l, <2>n, <2>k, <2>b DEF Bound, Standing
    <3>3. byHand # <<>> => byHand' # <<>>
      BY DEF Outside
    <3> QED BY <1>s, <1>l, <3>1, <3>2, <3>3 DEF Founded, FoundedLook
  <2>5. FoundedCount'
    <3>1. /\ Bound(wait.before, Len(downs)) => Bound(wait.before, Len(downs))'
          /\ Bound(wait.evidence.restarts, Len(downs)) => Bound(wait.evidence.restarts, Len(downs))'
      BY <1>s, <2>n, <2>m DEF Bound
    <3>4. Bound(wait.before, truth.started) => Bound(wait.before, truth.started)'
      BY <1>s, <2>n, <2>k, <2>b DEF Bound
    <3>2. wait.kind \in Kept /\ Known /\ Bound(wait.recent, truth.first)
            => Bound(wait.recent, truth.first)'
      <4> SUFFICES ASSUME wait.kind \in Kept, Known, Bound(wait.recent, truth.first)
                   PROVE  Bound(wait.recent, truth.first)'
        OBVIOUS
      <4>1. truth.first # Unread
        BY <1>l DEF Standing
      <4>2. truth.first \in 0 .. Len(downs) /\ truth.first \in 0 .. Len(downs')
        BY <4>1, <2>n, <2>k
      <4>3. wait.recent <= Tally(downs', wait'.kind, truth'.from, truth.first)
        BY <4>2, <2>n, <2>b DEF Bound
      <4> QED BY <4>3, <1>s DEF Bound
    <3>3. {"live", "replica"} \subseteq Kept
      BY DEF Kept
    <3> QED BY <1>s, <1>l, <3>1, <3>2, <3>3, <3>4 DEF Founded, FoundedCount
  <2>6. Since'
    <3>1. truth.from <= clock => \A i \in Len(downs) + 1 .. Len(downs') : downs'[i] >= truth.from
      <4> SUFFICES ASSUME truth.from <= clock, NEW i \in Len(downs) + 1 .. Len(downs')
                   PROVE  downs'[i] >= truth.from
        OBVIOUS
      <4>1. downs' = Append(downs, clock)
        BY <2>n DEF Outside
      <4>2. Len(downs') = Len(downs) + 1 /\ downs'[Len(downs) + 1] = clock
        BY <4>1, <2>n, Appended
      <4> QED BY <4>2, <2>n
    <3>2. truth.from # Never => truth.from <= clock
      BY <1>l DEF Counting
    <3>3. wait.kind \in Kept /\ truth.first # Unread => truth.from # Never
      BY <1>l DEF Standing
    <3>4. wait.kind \in StoppedFirst /\ Watch => truth.from # Never
      BY <1>l DEF Standing
    <3>5. ASSUME NEW m \in 0 .. Len(downs), truth.from <= clock,
                 \A i \in m + 1 .. Len(downs) : downs[i] >= truth.from
          PROVE  \A i \in m + 1 .. Len(downs') : downs'[i] >= truth.from
      <4> TAKE i \in m + 1 .. Len(downs')
      <4>1. CASE i \in Len(downs) + 1 .. Len(downs')
        BY <4>1, <3>1, <3>5
      <4>2. CASE i \in m + 1 .. Len(downs)
        <5>1. i \in 1 .. Len(downs)
          BY <4>2, <2>n
        <5> QED BY <5>1, <4>2, <2>1, <3>5
      <4> QED BY <4>1, <4>2, <2>n
    <3>6. wait.kind \in StoppedFirst /\ Watch =>
            \A i \in truth.started + 1 .. Len(downs') : downs'[i] >= truth.from
      <4> SUFFICES ASSUME wait.kind \in StoppedFirst, Watch
                   PROVE  \A i \in truth.started + 1 .. Len(downs') : downs'[i] >= truth.from
        OBVIOUS
      <4>1. \A i \in truth.started + 1 .. Len(downs) : downs[i] >= truth.from
        BY <1>l DEF Founded, Since
      <4> DEFINE m == truth.started
      <4>2. m \in 0 .. Len(downs) /\ truth.from <= clock
        BY <3>2, <3>4, <2>n, <2>k
      <4>3. \A i \in m + 1 .. Len(downs) : downs[i] >= truth.from
        BY <4>1
      <4> HIDE DEF m
      <4>4. \A i \in m + 1 .. Len(downs') : downs'[i] >= truth.from
        BY <4>2, <4>3, <3>5
      <4> QED BY <4>4 DEF m
    <3>7. wait.kind \in Kept /\ truth.first # Unread =>
            \A i \in truth.first + 1 .. Len(downs') : downs'[i] >= truth.from
      <4> SUFFICES ASSUME wait.kind \in Kept, truth.first # Unread
                   PROVE  \A i \in truth.first + 1 .. Len(downs') : downs'[i] >= truth.from
        OBVIOUS
      <4>1. \A i \in truth.first + 1 .. Len(downs) : downs[i] >= truth.from
        BY <1>l DEF Founded, Since
      <4> DEFINE m == truth.first
      <4>2. m \in 0 .. Len(downs) /\ truth.from <= clock
        BY <3>2, <3>3, <2>n, <2>k
      <4>3. \A i \in m + 1 .. Len(downs) : downs[i] >= truth.from
        BY <4>1
      <4> HIDE DEF m
      <4>4. \A i \in m + 1 .. Len(downs') : downs'[i] >= truth.from
        BY <4>2, <4>3, <3>5
      <4> QED BY <4>4 DEF m
    <3> QED BY <3>6, <3>7, <1>s DEF Since
  <2> QED BY <2>3, <2>4, <2>5, <2>6 DEF Founded
<1>6. Calm'
  BY <1>s DEF Live, Calm
<1> QED BY <1>1, <1>2, <1>3, <1>4, <1>5, <1>6, <1>s, Continues DEF Live, Undecided

(* A container that changes in one field is still one.                      *)
LEMMA Boxed ==
    ASSUME TypeOK
    PROVE  /\ \A status \in {"running", "restarting", "exited", "absent"},
                restarts \in 0 .. MaxDowns, since \in 0 .. MaxTime, oom \in BOOLEAN,
                health \in {"none", "starting", "healthy", "unhealthy"} :
                [status |-> status, restarts |-> restarts, since |-> since, oom |-> oom,
                 health |-> health] \in Container
           /\ box = [status |-> box.status, restarts |-> box.restarts, since |-> box.since,
                     oom |-> box.oom, health |-> box.health]
           /\ box.status \in {"running", "restarting", "exited", "absent"} /\ box.oom \in BOOLEAN
           /\ box.health \in {"none", "starting", "healthy", "unhealthy"}
           /\ box.restarts \in 0 .. MaxDowns /\ box.since \in 0 .. MaxTime
<1>1. box \in Container
  BY Typed
<1> QED BY <1>1 DEF Container

LEMMA Ticks ==
    ASSUME TypeOK, wait.pc # "done", Undecided, Live, Tick
    PROVE  Inv'
<1>1. clock \in Nat /\ clock' = clock + 1 /\ clock' \in 0 .. MaxTime /\ box.since <= clock
      /\ box.since \in Nat
  BY Typed, Constants DEF Tick, Live, Counting
<1>2. UNCHANGED <<box, downs, byHand, wait, truth, faults>>
  BY DEF Tick
<1>3. TypeOK'
  BY <1>1, <1>2 DEF TypeOK
<1>4. Outside
  BY <1>1, <1>2 DEF Outside
<1> QED BY <1>3, <1>4, Elsewhere

LEMMA Crashes ==
    ASSUME TypeOK, wait.pc # "done", Undecided, Live, GoesDown
    PROVE  Inv'
<1>1. /\ downs' = Append(downs, clock) /\ UNCHANGED <<clock, byHand, wait, truth, faults>>
      /\ Len(downs) < MaxDowns /\ box.status = "running"
  BY DEF GoesDown
<1>2. PICK killed \in BOOLEAN :
        box' = [box EXCEPT !.status = "restarting", !.restarts = @ + 1, !.oom = @ \/ killed]
  BY DEF GoesDown
<1>3. /\ clock \in 0 .. MaxTime /\ clock \in Nat /\ Len(downs) \in Nat /\ box.restarts \in Nat
      /\ truth.started \in Nat /\ MaxDowns \in Nat /\ box.since \in Nat
      /\ box.since <= clock /\ box.restarts + truth.started = Len(downs)
  BY Typed, Numbered, Constants DEF Numbers, Live, Counting
<1>4. box.restarts + 1 \in 0 .. MaxDowns
  BY <1>1, <1>3
<1>5. /\ box'.status = "restarting" /\ box'.restarts = box.restarts + 1 /\ box'.since = box.since
      /\ box'.health = box.health /\ box' \in Container
  BY <1>2, <1>4, Typed DEF Container
<1>6. downs' \in Seq(0 .. MaxTime) /\ Len(downs') = Len(downs) + 1
  BY <1>1, <1>3, Typed, AppendProperties
<1>7. TypeOK'
  BY <1>1, <1>3, <1>5, <1>6 DEF TypeOK
<1>8. Outside
  BY <1>1, <1>3, <1>5 DEF Outside
<1> QED BY <1>7, <1>8, Elsewhere

LEMMA Returns ==
    ASSUME TypeOK, wait.pc # "done", Undecided, Live, ComesUp
    PROVE  Inv'
<1>1. UNCHANGED <<clock, downs, byHand, wait, truth, faults>> /\ box.status = "restarting"
  BY DEF ComesUp
<1>2. PICK oom \in {box.oom, FALSE} :
        box' = [box EXCEPT !.status = "running", !.since = clock, !.oom = oom,
                           !.health = IF @ = "none" THEN "none" ELSE "starting"]
  BY DEF ComesUp
<1>3. clock \in 0 .. MaxTime /\ clock \in Nat
  BY Typed
<1>4. oom \in BOOLEAN
  BY Boxed
<1>5. /\ box'.status = "running" /\ box'.restarts = box.restarts /\ box'.since = clock
      /\ box'.health = (IF box.health = "none" THEN "none" ELSE "starting") /\ box' \in Container
  BY <1>2, <1>3, <1>4, Typed DEF Container
<1>6. TypeOK'
  BY <1>1, <1>5 DEF TypeOK
<1>7. Outside
  BY <1>1, <1>3, <1>5 DEF Outside
<1> QED BY <1>6, <1>7, Elsewhere

LEMMA Lives ==
    ASSUME TypeOK, wait.pc # "done", Undecided, Live, OutlivesKill \/ HealthChanges
    PROVE  Inv'
<1>1. UNCHANGED <<clock, downs, byHand, wait, truth, faults>>
  BY DEF OutlivesKill, HealthChanges
<1>2. /\ box'.status = box.status /\ box'.restarts = box.restarts /\ box'.since = box.since
      /\ box'.health = "none" <=> box.health = "none"
      /\ box' \in Container
  <2>1. CASE OutlivesKill
    BY <2>1, Typed DEF Container, OutlivesKill
  <2>2. CASE HealthChanges
    BY <2>2, Typed DEF Container, HealthChanges
  <2> QED BY <2>1, <2>2
<1>3. clock \in Nat /\ box.since <= clock
  BY Typed DEF Live, Counting
<1>4. TypeOK'
  BY <1>1, <1>2 DEF TypeOK
<1>5. Outside
  BY <1>1, <1>2, <1>3 DEF Outside
<1> QED BY <1>4, <1>5, Elsewhere

LEMMA Taken ==
    ASSUME TypeOK, wait.pc # "done", Undecided, Live, TakenAway
    PROVE  Inv'
<1>1. /\ UNCHANGED <<clock, downs, wait, truth>> /\ faults' \in 0 .. MaxFaults
  <2>1. faults < MaxFaults /\ faults' = faults + 1 /\ UNCHANGED <<clock, downs, wait, truth>>
    BY DEF TakenAway, Fault
  <2>2. faults \in Nat /\ MaxFaults \in Nat
    BY Typed, Constants
  <2> QED BY <2>1, <2>2
<1>2. /\ box'.restarts = box.restarts /\ box'.since = box.since
      /\ box'.health = box.health /\ box' \in Container
      /\ box'.status \in {"exited", "absent"}
      /\ \/ byHand' = Append(byHand, clock)
         \/ byHand' = byHand
  <2>1. CASE box' = [box EXCEPT !.status = "exited"] /\ byHand' = Append(byHand, clock)
    BY <2>1, Typed DEF Container
  <2>2. CASE box' = [box EXCEPT !.status = "absent"] /\ UNCHANGED byHand
    BY <2>2, Typed DEF Container
  <2> QED BY <2>1, <2>2 DEF TakenAway
<1>3. clock \in Nat /\ clock \in 0 .. MaxTime /\ box.since <= clock
  BY Typed DEF Live, Counting
<1>a. byHand \in Seq(0 .. MaxTime) /\ clock \in 0 .. MaxTime
  BY <1>3, Typed
<1>b. Append(byHand, clock) \in Seq(0 .. MaxTime) /\ Append(byHand, clock) # <<>>
  BY <1>a, AppendProperties
<1>4. byHand' \in Seq(0 .. MaxTime)
  BY <1>a, <1>b, <1>2
<1>5. byHand' # byHand => byHand' # <<>>
  BY <1>b, <1>2
<1>6. TypeOK'
  BY <1>1, <1>2, <1>4 DEF TypeOK
<1>7. Outside
  BY <1>1, <1>2, <1>3, <1>5 DEF Outside
<1> QED BY <1>6, <1>7, Elsewhere

----------------------------------------------------------------------------
(* The agent's steps: a decision that is no judgement, and the call.        *)
LEMMA Decides ==
    ASSUME TypeOK, NEW verdict \in Verdict, Decide(verdict),
           verdict \notin {"none", "ready", "restart_loop", "out_of_memory"},
           clock' = clock, downs' = downs, box' = box \/ box' \in Container,
           byHand' = byHand \/ byHand' \in Seq(0 .. MaxTime), truth' = truth, 
           faults' \in 0 .. MaxFaults
    PROVE  Inv'
<1>1. wait' = [wait EXCEPT !.pc = "done", !.verdict = verdict]
  BY DEF Decide
<1>2. wait' \in Wait /\ wait'.pc = "done" /\ wait'.verdict = verdict
  BY <1>1, Typed DEF Wait
<1>3. TypeOK'
  BY <1>2 DEF TypeOK
<1> QED BY <1>2, <1>3, Ends

LEMMA Asks ==
    ASSUME TypeOK, wait.pc # "done", Undecided, Live, Ask
    PROVE  Inv'
<1> USE DEF Before, Watch, Known, Windowed
<1>1. /\ wait.pc = "idle" /\ wait' = [wait EXCEPT !.pc = "begin", !.deadline = clock + Timeout]
      /\ UNCHANGED <<clock, box, downs, byHand, truth, faults>>
  BY DEF Ask
<1>2. clock + Timeout \in 0 .. MaxTime + Timeout
  BY Typed, Constants
<1>3. /\ wait' \in Wait /\ wait'.pc = "begin"
      /\ wait'.kind = wait.kind /\ wait'.stage = wait.stage /\ wait'.at = wait.at
      /\ wait'.exits = wait.exits /\ wait'.snap = wait.snap /\ wait'.baseline = wait.baseline
      /\ wait'.before = wait.before /\ wait'.recent = wait.recent
      /\ wait'.outlasted = wait.outlasted /\ wait'.evidence = wait.evidence
      /\ wait'.lastCount = wait.lastCount /\ wait'.upSince = wait.upSince
      /\ wait'.verdict = wait.verdict
  BY <1>1, <1>2, Typed DEF Wait
<1>4. TypeOK'
  BY <1>1, <1>3 DEF TypeOK
<1>l. Counting /\ Standing /\ Growing /\ Enough /\ Founded /\ Calm
  BY DEF Live
<1>5. Counting'
  BY <1>1, <1>l DEF Counting
<1>6. Standing'
  BY <1>1, <1>3, <1>l DEF Standing
<1>7. Growing'
  BY <1>1, <1>3, <1>l DEF Growing
<1>8. Enough'
  <2>1. EnoughBefore' /\ EnoughRecent'
    BY <1>1, <1>3, <1>l DEF Enough, EnoughBefore, EnoughRecent
  <2>2. EnoughProbed'
    BY <1>1, <1>3, <1>l DEF Enough, EnoughProbed
  <2> QED BY <2>1, <2>2 DEF Enough
<1>9. Founded'
  BY <1>1, <1>3, <1>l DEF Founded, Hands, FoundedLook, FoundedCount, Since, Bound
<1>10. Calm'
  BY <1>1, <1>3, <1>l DEF Calm
<1> QED BY <1>3, <1>4, <1>5, <1>6, <1>7, <1>8, <1>9, <1>10, Continues DEF Live, Undecided

----------------------------------------------------------------------------
(* The crashes a perfect log shows: no more than the log, and no more than   *)
(* Docker counts.                                                           *)
Perfect == Cardinality({i \in DOMAIN downs :
                          i > truth.started /\ downs[i] + RecentWindow >= clock})

LEMMA Noting ==
    ASSUME TypeOK, Counting
    PROVE  /\ Perfect \in 0 .. MaxDowns /\ Perfect <= box.restarts
           /\ Recent(downs, clock) \in Nat /\ Perfect <= Recent(downs, clock)
           /\ Recent(byHand, clock) \in Nat /\ (byHand = <<>> => Recent(byHand, clock) = 0)
           /\ Windowed => Recent(downs, clock) = Tally(downs, wait.kind, clock, Len(downs))
<1> DEFINE P == {i \in DOMAIN downs : i > truth.started /\ downs[i] + RecentWindow >= clock}
           R == {i \in DOMAIN downs : downs[i] + RecentWindow >= clock}
           H == {i \in DOMAIN byHand : byHand[i] + RecentWindow >= clock}
           L == truth.started + 1 .. Len(downs)
<1>1. /\ DOMAIN downs = 1 .. Len(downs) /\ Len(downs) \in Nat /\ truth.started \in Nat
      /\ box.restarts \in Nat /\ box.restarts + truth.started = Len(downs)
      /\ Len(downs) <= MaxDowns /\ MaxDowns \in Nat
  BY Typed, Numbered, Constants DEF Numbers, Counting
<1>2. DOMAIN byHand = 1 .. Len(byHand) /\ Len(byHand) \in Nat
  BY Typed, LenProperties
<1>3. P \in SUBSET R /\ P \in SUBSET L /\ R \in SUBSET (1 .. Len(downs))
      /\ H \in SUBSET (1 .. Len(byHand))
  BY <1>1, <1>2
<1>4. Perfect = Cardinality(P) /\ Recent(downs, clock) = Cardinality(R)
      /\ Recent(byHand, clock) = Cardinality(H)
  BY DEF Perfect, Recent
<1>5. IsFiniteSet(L) /\ Cardinality(L) = box.restarts
  <2>1. truth.started + 1 \in Int /\ Len(downs) \in Int
    BY <1>1
  <2>2. IsFiniteSet(L) /\ Cardinality(L) = (IF truth.started + 1 > Len(downs) THEN 0
                                            ELSE Len(downs) - (truth.started + 1) + 1)
    BY <2>1, FS_Interval
  <2> QED BY <2>2, <1>1
<1>6. Windowed => Recent(downs, clock) = Tally(downs, wait.kind, clock, Len(downs))
  BY <1>1 DEF Windowed, Recent, Tally
<1>7. byHand = <<>> => H = {}
  BY <1>2
<1>8. IsFiniteSet(1 .. Len(downs)) /\ IsFiniteSet(1 .. Len(byHand))
  BY <1>1, <1>2, FS_Interval
<1> HIDE DEF P, R, H, L
<1>9. IsFiniteSet(R) /\ IsFiniteSet(H)
  BY <1>3, <1>8, FS_Subset
<1>10. IsFiniteSet(P) /\ Cardinality(P) <= Cardinality(R)
  BY <1>3, <1>9, FS_Subset
<1>11. Cardinality(P) <= Cardinality(L)
  BY <1>3, <1>5, FS_Subset
<1>12. Cardinality(P) \in Nat /\ Cardinality(R) \in Nat /\ Cardinality(H) \in Nat
  BY <1>9, <1>10, FS_CardinalityType
<1>13. byHand = <<>> => Cardinality(H) = 0
  BY <1>7, FS_EmptySet
<1> QED BY <1>1, <1>4, <1>5, <1>6, <1>10, <1>11, <1>12, <1>13

(* A look begins: the instant is noted, and the window reaches back from it. *)
LEMMA Begins ==
    ASSUME TypeOK, wait.pc # "done", Undecided, Live, Begin
    PROVE  Inv'
<1> USE DEF Before, Watch, Known, Windowed
<1>l. Counting /\ Standing /\ Growing /\ Enough /\ Founded /\ Calm
  BY DEF Live
<1>u. UNCHANGED <<clock, box, downs, byHand, faults>> /\ wait.pc \in {"begin", "sleep"}
  BY DEF Begin
<1>d. CASE Decide("deadline") /\ UNCHANGED truth
  <2>1. "deadline" \in Verdict
    BY DEF Verdict
  <2> QED BY <1>d, <1>u, <2>1, Typed, Decides
<1>c. CASE /\ wait' = [wait EXCEPT !.pc = "inspect", !.at = clock,
                !.exits = IF wait.stage = "before" \/ wait.baseline = Unread
                          THEN Recent(downs, clock) + Recent(byHand, clock) ELSE 0]
           /\ truth' = Noted
  <2> DEFINE read == Recent(downs, clock) + Recent(byHand, clock)
             from == IF truth.from = Never /\ Windowed THEN clock ELSE truth.from
  <2>p. /\ Perfect \in 0 .. MaxDowns /\ Perfect <= box.restarts /\ read \in Nat /\ Perfect <= read
        /\ byHand = <<>> => read = Recent(downs, clock)
        /\ Windowed => Recent(downs, clock) = Tally(downs, wait.kind, clock, Len(downs))
    <3>1. /\ Recent(downs, clock) \in Nat /\ Recent(byHand, clock) \in Nat
          /\ Perfect \in 0 .. MaxDowns /\ Perfect <= box.restarts
          /\ Perfect <= Recent(downs, clock)
          /\ byHand = <<>> => Recent(byHand, clock) = 0
          /\ Windowed => Recent(downs, clock) = Tally(downs, wait.kind, clock, Len(downs))
      BY <1>l, Noting
    <3>2. Perfect \in Nat
      BY <3>1, Constants
    <3> QED BY <3>1, <3>2
  <2>c. clock \in Nat /\ clock \in 0 .. MaxTime /\ clock # Never /\ truth.from \in 0 .. Never
        /\ truth.from \in Nat /\ clock \in 0 .. Never
    <3>1. clock \in 0 .. MaxTime /\ truth.from \in 0 .. Never
      BY Typed DEF Truth
    <3>2. MaxTime \in Nat /\ Never = MaxTime + 1
      BY Constants DEF Never
    <3> QED BY <3>1, <3>2
  <2> HIDE DEF read
  <2>w. /\ wait' \in Wait /\ wait'.pc = "inspect"
        /\ wait'.kind = wait.kind /\ wait'.stage = wait.stage
        /\ wait'.exits = (IF Before \/ ~Known THEN read ELSE 0)
        /\ wait'.snap = wait.snap /\ wait'.baseline = wait.baseline
        /\ wait'.before = wait.before /\ wait'.recent = wait.recent
        /\ wait'.outlasted = wait.outlasted /\ wait'.evidence = wait.evidence
        /\ wait'.lastCount = wait.lastCount /\ wait'.upSince = wait.upSince
        /\ wait'.verdict = wait.verdict /\ wait.stage \in {"before", "watch"}
    <3>1. wait' = [wait EXCEPT !.pc = "inspect", !.at = clock,
                               !.exits = IF Before \/ ~Known THEN read ELSE 0]
      BY <1>c DEF read
    <3> QED BY <3>1, <2>p, <2>c, Typed DEF Wait
  <2>t. /\ truth' \in Truth /\ truth'.from = from
        /\ truth'.before = (IF Before THEN Perfect ELSE truth.before)
        /\ truth'.recent = (IF Watch /\ ~Known THEN Perfect ELSE truth.recent)
        /\ truth'.steady = truth.steady /\ truth'.started = truth.started
        /\ truth'.first = truth.first /\ truth'.last = truth.last
        /\ truth'.short = truth.short /\ truth'.blind = truth.blind
        /\ truth'.down = truth.down
    <3>1. truth' = [truth EXCEPT !.from = from,
                                 !.before = IF Before THEN Perfect ELSE truth.before,
                                 !.recent = IF Watch /\ ~Known THEN Perfect ELSE truth.recent]
      BY <1>c DEF Noted, Perfect
    <3>2. from \in 0 .. Never
      BY <2>c
    <3> HIDE DEF from
    <3> QED BY <3>1, <3>2, <2>p, Typed DEF Truth
  <2>1. TypeOK'
    BY <1>u, <2>w, <2>t DEF TypeOK
  <2>2. Counting'
    BY <1>u, <2>t, <2>c, <1>l DEF Counting
  <2>3. Standing'
    BY <1>u, <2>w, <2>t, <2>c, <1>l DEF Standing
  <2>4. Growing'
    BY <1>u, <2>w, <1>l DEF Growing
  <2>5. Enough'
    <3>1. EnoughBefore'
      BY <1>u, <2>w, <2>t, <2>p, <1>l DEF Enough, EnoughBefore
    <3>2. EnoughRecent'
      BY <1>u, <2>w, <2>t, <2>p, <1>l DEF Enough, EnoughRecent
    <3>3. EnoughProbed'
      BY <2>w DEF EnoughProbed
    <3> QED BY <3>1, <3>2, <3>3 DEF Enough
  <2>6. Founded'
    <3>f. from \in Nat /\ from <= truth.from
      BY <2>c, <1>l, Constants DEF Never
    <3>n. /\ Len(downs) \in Nat /\ truth.started \in Nat /\ truth.first \in Nat
          /\ truth.last \in Nat /\ box.restarts \in Nat
          /\ wait.before \in Nat /\ wait.recent \in Nat /\ wait.evidence.restarts \in Nat
      BY Numbered DEF Numbers
    <3>k. /\ truth.started <= Len(downs)
          /\ truth.first # Unread => truth.first <= Len(downs)
      BY <3>n, <1>l DEF Counting
    <3>b. \A k \in 0 .. Len(downs), n \in Nat :
            n <= Tally(downs, wait.kind, truth.from, k) => n <= Tally(downs, wait.kind, from, k)
      <4> SUFFICES ASSUME NEW k \in 0 .. Len(downs), NEW n \in Nat,
                          n <= Tally(downs, wait.kind, truth.from, k)
                   PROVE  n <= Tally(downs, wait.kind, from, k)
        OBVIOUS
      <4>1. downs \in Seq(Nat)
        BY Logged
      <4>2. /\ Tally(downs, wait.kind, truth.from, k) \in 0 .. k
            /\ Tally(downs, wait.kind, from, k) \in 0 .. k
        BY <4>1, <3>f, <2>c, Tallied
      <4>3. Tally(downs, wait.kind, truth.from, k) <= Tally(downs, wait.kind, from, k)
        BY <4>1, <3>f, <2>c, Grows
      <4> QED BY <4>2, <4>3, <3>n
    <3>1. Hands'
      BY <1>u, <2>w, <1>l DEF Founded, Hands
    <3>2. FoundedLook'
      <4> SUFFICES ASSUME Before \/ (wait.kind \in {"live", "replica"} /\ ~Known), byHand = <<>>
                   PROVE  wait'.exits <= Tally(downs, wait.kind, truth'.from, Len(downs))
        BY <1>u, <2>w DEF FoundedLook, Bound
      <4>1. Windowed
        BY <1>l DEF Standing, Kept
      <4>2. truth'.from = clock
        BY <4>1, <1>u, <2>t, <1>l DEF Standing, Kept
      <4>3. wait'.exits = Tally(downs, wait.kind, clock, Len(downs))
        BY <2>w, <2>p, <4>1
      <4>4. Tally(downs, wait.kind, clock, Len(downs)) \in Nat
        BY <2>p, <4>3, <2>w
      <4> QED BY <4>2, <4>3, <4>4
    <3>3. FoundedCount'
      <4>1. /\ Bound(wait.evidence.restarts, Len(downs))
                 => wait.evidence.restarts <= Tally(downs, wait.kind, from, Len(downs))
            /\ Bound(wait.before, truth.started)
                 => wait.before <= Tally(downs, wait.kind, from, truth.started)
        BY <3>b, <3>n, <3>k DEF Bound
      <4>2. wait.kind \in {"live", "replica"} /\ Known /\ Bound(wait.recent, truth.first)
              => wait.recent <= Tally(downs, wait.kind, from, truth.first)
        BY <3>b, <3>n, <3>k, <1>l DEF Bound, Standing, Kept
      <4> QED BY <4>1, <4>2, <1>u, <2>w, <2>t, <1>l DEF Founded, FoundedCount, Bound
    <3>4. Since'
      <4>1. wait.kind \in StoppedFirst /\ Watch => from = truth.from
        BY <1>l DEF Standing
      <4>2. wait.kind \in Kept /\ truth.first # Unread => from = truth.from
        BY <1>l, <1>u DEF Standing
      <4> QED BY <4>1, <4>2, <1>u, <2>w, <2>t, <1>l DEF Founded, Since
    <3> QED BY <3>1, <3>2, <3>3, <3>4 DEF Founded
  <2>7. Calm'
    BY <2>w, <2>t, <1>l DEF Calm
  <2> QED BY <2>1, <2>2, <2>3, <2>4, <2>5, <2>6, <2>7, <2>w, Continues DEF Live, Undecided
<1> QED BY <1>c, <1>d DEF Begin

(* A look sees the container, and what had happened to it by then.          *)
Looks ==
    /\ box.status # "absent" /\ truth' = Seen
    /\ wait' = [wait EXCEPT
         !.snap = box,
         !.baseline = IF wait.kind = "restarted" /\ wait.stage = "before"
                      THEN box.restarts ELSE @,
         !.pc = IF wait.kind = "restarted" /\ wait.stage = "before" THEN "stop"
                ELSE IF wait.stage = "before" \/ wait.baseline = Unread THEN "count"
                ELSE "judge"]

LEMMA Looking ==
    ASSUME TypeOK, Live
    PROVE  /\ box.restarts \in Nat /\ Len(downs) \in Nat /\ clock \in Nat /\ box.since \in Nat
           /\ wait.lastCount \in Nat /\ wait.upSince \in Nat /\ wait.exits \in Nat
           /\ truth.started \in Nat /\ truth.first \in Nat /\ truth.last \in Nat
           /\ wait.before \in Nat /\ wait.recent \in Nat /\ wait.evidence.restarts \in Nat
           /\ truth.before \in Nat /\ truth.recent \in Nat /\ wait.baseline \in Nat
           /\ box.restarts \in 0 .. MaxDowns /\ Len(downs) \in 0 .. MaxDowns
           /\ box.restarts \in 0 .. Unread /\ Len(downs) \in 0 .. Unread
           /\ box.restarts # Unread /\ Len(downs) # Unread
           /\ box \in Container
           /\ Outlasted(box, wait.at) \in BOOLEAN
           /\ Outlasted(box, wait.at) => box.status = "running"
<1>1. MaxDowns \in Nat /\ Unread = MaxDowns + 1
  BY Constants DEF Unread
<1>2. box.restarts \in 0 .. MaxDowns /\ Len(downs) \in 0 .. MaxDowns /\ box \in Container
  BY Typed
<1>3. /\ box.restarts \in 0 .. Unread /\ Len(downs) \in 0 .. Unread
      /\ box.restarts # Unread /\ Len(downs) # Unread
  BY <1>1, <1>2
<1> QED BY <1>2, <1>3, Numbered DEF Numbers, Outlasted

LEMMA LooksBefore ==
    ASSUME TypeOK, wait.pc = "inspect", Undecided, Live, Looks, Before,
           UNCHANGED <<clock, box, downs, byHand, faults>>
    PROVE  Inv'
<1> USE DEF Before, Watch, Known, Windowed
<1>l. Counting /\ Standing /\ Growing /\ Enough /\ Founded /\ Calm
  BY DEF Live
<1> DEFINE steady == Outlasted(box, wait.at)
           down == box.status = "exited"
           pc == IF wait.kind = "restarted" THEN "stop" ELSE "count"
           baseline == IF wait.kind = "restarted" THEN box.restarts ELSE wait.baseline
           before == IF steady THEN 0 ELSE truth.before
<1>n. /\ box.restarts \in Nat /\ box.restarts \in 0 .. Unread /\ box.restarts # Unread
      /\ truth.before \in Nat /\ box \in Container /\ Len(downs) \in Nat
      /\ truth.started \in Nat /\ truth.first \in Nat /\ truth.last \in Nat
      /\ clock \in Nat /\ box.since \in Nat /\ wait.exits \in Nat
  BY Looking
<1>s. steady \in BOOLEAN /\ down \in BOOLEAN /\ pc \in {"stop", "count"}
      /\ (steady => box.status = "running")
  BY Looking
<1>w. /\ wait' = [wait EXCEPT !.snap = box, !.baseline = baseline, !.pc = pc]
      /\ box.status # "absent"
      /\ truth' = [truth EXCEPT !.before = before, !.down = down]
  BY DEF Looks, Seen
<1>b. baseline \in 0 .. Unread /\ before \in 0 .. MaxDowns
  <2>1. truth.before \in 0 .. MaxDowns /\ 0 \in 0 .. MaxDowns /\ wait.baseline \in 0 .. Unread
    BY Typed, Constants DEF Truth, Wait
  <2> QED BY <2>1, <1>n
<1> HIDE DEF steady, down, pc, baseline, before
<1>1. /\ wait' \in Wait /\ wait'.pc = pc /\ wait'.snap = box
      /\ wait'.kind = wait.kind /\ wait'.stage = wait.stage /\ wait'.at = wait.at
      /\ wait'.exits = wait.exits /\ wait'.baseline = baseline
      /\ wait'.before = wait.before /\ wait'.recent = wait.recent
      /\ wait'.outlasted = wait.outlasted /\ wait'.evidence = wait.evidence
      /\ wait'.lastCount = wait.lastCount /\ wait'.upSince = wait.upSince
      /\ wait'.verdict = wait.verdict
  BY <1>w, <1>n, <1>s, <1>b, Typed DEF Wait
<1>2. /\ truth' \in Truth /\ truth'.from = truth.from /\ truth'.recent = truth.recent
      /\ truth'.started = truth.started /\ truth'.short = truth.short
      /\ truth'.blind = truth.blind
      /\ truth'.before = before /\ truth'.down = down /\ truth'.steady = truth.steady
      /\ truth'.first = truth.first /\ truth'.last = truth.last
  BY <1>w, <1>s, <1>b, Typed DEF Truth
<1>3. TypeOK'
  BY <1>1, <1>2 DEF TypeOK
<1>4. Counting'
  BY <1>2, <1>l DEF Counting
<1>5. Standing'
  <2>1. wait.kind \in StoppedFirst /\ truth.started = 0 /\ truth.first = Unread
    BY <1>l DEF Standing
  <2>2. box.restarts <= Len(downs)
    BY <1>n, <1>l DEF Counting
  <2> QED BY <1>1, <1>2, <1>n, <1>s, <1>w, <1>l, <2>1, <2>2 DEF Standing, pc, baseline, Kept
<1>6. Growing'
  BY <1>1, <1>s, <1>l DEF Growing
<1>7. Enough'
  <2>1. Outlasted(wait.snap, wait.at)' = steady
    BY <1>1 DEF Outlasted, steady, Threshold
  <2>2. EnoughBefore'
    BY <1>1, <1>2, <1>n, <1>s, <2>1, <1>l DEF Enough, EnoughBefore, before, pc
  <2>3. EnoughRecent'
    BY <1>1, <1>2, <1>s, <1>l DEF Enough, EnoughRecent, Standing, pc, baseline, Kept
  <2>4. EnoughProbed'
    BY <1>1, <1>s DEF EnoughProbed
  <2> QED BY <2>2, <2>3, <2>4 DEF Enough
<1>8. Founded'
  <2>k. wait.kind \in StoppedFirst /\ truth.first = Unread /\ wait.evidence.restarts = 0
        /\ wait.kind \notin {"live", "replica"}
    BY <1>l DEF Standing, StoppedFirst
  <2>1. Hands'
    BY <1>1, <1>s, <1>l DEF Founded, Hands
  <2>2. FoundedLook'
    <3>1. Bound(wait.exits, Len(downs)) \/ byHand # <<>>
      BY <1>l DEF Founded, FoundedLook
    <3>2. byHand # <<>> => down
      BY <1>l, <1>w DEF Founded, Hands, down
    <3> QED BY <1>1, <1>2, <1>s, <3>1, <3>2 DEF FoundedLook, Bound
  <2>3. FoundedCount'
    <3>1. 0 <= Tally(downs, wait.kind, truth.from, Len(downs))
      BY <1>n, Logged
    <3>2. pc = "stop" => wait.before = 0
      BY <1>l DEF Standing, pc
    <3> QED BY <1>1, <1>2, <1>s, <2>k, <3>1, <3>2 DEF FoundedCount, Bound
  <2>4. Since'
    BY <1>1, <1>2, <2>k DEF Since
  <2> QED BY <2>1, <2>2, <2>3, <2>4 DEF Founded
<1>9. Calm'
  BY <1>1, <1>2, <1>l DEF Calm
<1> QED BY <1>1, <1>3, <1>4, <1>5, <1>6, <1>7, <1>8, <1>9, <1>s, Continues DEF Live, Undecided

LEMMA LooksWatch ==
    ASSUME TypeOK, wait.pc = "inspect", Undecided, Live, Looks, Watch,
           UNCHANGED <<clock, box, downs, byHand, faults>>
    PROVE  Inv'
<1> USE DEF Before, Watch, Known, Windowed
<1>l. Counting /\ Standing /\ Growing /\ Enough /\ Founded /\ Calm
  BY DEF Live
<1> DEFINE steady == IF Known THEN truth.steady ELSE Outlasted(box, wait.at)
           first == IF Known THEN truth.first ELSE Len(downs)
           pc == IF Known THEN "judge" ELSE "count"
<1>n. /\ box.restarts \in Nat /\ box.restarts # Unread
      /\ truth.recent \in Nat /\ box \in Container /\ Len(downs) \in Nat
      /\ Len(downs) \in 0 .. MaxDowns /\ Len(downs) \in 0 .. Unread /\ Len(downs) # Unread
      /\ truth.started \in Nat /\ truth.first \in Nat /\ truth.last \in Nat
      /\ clock \in Nat /\ box.since \in Nat /\ wait.exits \in Nat
      /\ wait.lastCount \in Nat /\ wait.upSince \in Nat /\ wait.baseline \in Nat
      /\ wait.evidence.restarts \in Nat
  BY Looking
<1>s. steady \in BOOLEAN /\ pc \in {"judge", "count"} /\ first \in 0 .. Unread
  BY Looking, Typed DEF Truth
<1>w. /\ wait' = [wait EXCEPT !.snap = box, !.pc = pc] /\ box.status # "absent"
      /\ truth' = [truth EXCEPT !.first = first, !.steady = steady, !.last = Len(downs)]
  <2>1. /\ wait' = [wait EXCEPT !.snap = box, !.baseline = wait.baseline, !.pc = pc]
        /\ box.status # "absent"
    BY DEF Looks
  <2>2. wait' = [wait EXCEPT !.snap = box, !.pc = pc]
    <3> HIDE DEF pc
    <3> QED BY <2>1, Typed DEF Wait
  <2> QED BY <2>1, <2>2 DEF Looks, Seen
<1> HIDE DEF steady, pc, first
<1>1. /\ wait' \in Wait /\ wait'.pc = pc /\ wait'.snap = box
      /\ wait'.kind = wait.kind /\ wait'.stage = wait.stage /\ wait'.at = wait.at
      /\ wait'.exits = wait.exits /\ wait'.baseline = wait.baseline
      /\ wait'.before = wait.before /\ wait'.recent = wait.recent
      /\ wait'.outlasted = wait.outlasted /\ wait'.evidence = wait.evidence
      /\ wait'.lastCount = wait.lastCount /\ wait'.upSince = wait.upSince
      /\ wait'.verdict = wait.verdict
  BY <1>w, <1>n, <1>s, Typed DEF Wait
<1>2. /\ truth' \in Truth /\ truth'.from = truth.from /\ truth'.recent = truth.recent
      /\ truth'.started = truth.started /\ truth'.short = truth.short
      /\ truth'.blind = truth.blind
      /\ truth'.before = truth.before /\ truth'.down = truth.down /\ truth'.steady = steady
      /\ truth'.first = first /\ truth'.last = Len(downs)
  BY <1>w, <1>s, <1>n, Typed DEF Truth
<1>3. TypeOK'
  BY <1>1, <1>2 DEF TypeOK
<1>k. /\ wait.kind \in Kept /\ ~Known => truth.first = Unread
      /\ ~Known => wait.kind \in Kept
      /\ box.restarts + truth.started = Len(downs) /\ box.since <= clock
      /\ truth.last <= Len(downs) /\ truth.started <= Len(downs)
      /\ truth.first # Unread => truth.first <= truth.last /\ truth.started <= truth.first
  <2>1. /\ box.restarts + truth.started = Len(downs) /\ box.since <= clock
        /\ truth.last <= Len(downs)
        /\ truth.first # Unread => truth.first <= truth.last /\ truth.started <= truth.first
    BY <1>l DEF Counting
  <2>2. wait.kind \in Kept /\ ~Known => truth.first = Unread
    BY <1>l DEF Standing
  <2>3. ~Known => wait.kind \in Kept
    BY <1>l DEF Standing
  <2>4. truth.started <= Len(downs)
    BY <2>1, <1>n
  <2> QED BY <2>1, <2>2, <2>3, <2>4
<1>4. Counting'
  BY <1>2, <1>n, <1>k, <1>l DEF Counting, first
<1>5. Standing'
  <2>1. box.restarts <= Len(downs)
    BY <1>n, <1>k
  <2>2. CASE Known
    BY <1>1, <1>2, <1>n, <1>w, <1>k, <1>l, <2>1, <2>2 DEF Standing, pc, first
  <2>3. CASE ~Known
    BY <1>1, <1>2, <1>n, <1>w, <1>k, <1>l, <2>1, <2>3 DEF Standing, pc, first, Kept
  <2> QED BY <2>2, <2>3
<1>6. Growing'
  BY <1>1, <1>n, <1>k, <1>l DEF Growing
<1>7. Enough'
  <2>1. ~Known => Outlasted(wait.snap, wait.at)' = steady
    BY <1>1 DEF Outlasted, steady, Threshold
  <2>2. EnoughBefore'
    BY <1>1, <1>2, <1>s, <1>l DEF Enough, EnoughBefore
  <2>3. EnoughRecent'
    <3>1. CASE Known
      BY <1>1, <1>2, <1>l, <3>1 DEF Enough, EnoughRecent, pc, steady
    <3>2. CASE ~Known
      BY <1>1, <1>2, <1>l, <2>1, <3>2 DEF Enough, EnoughRecent, pc
    <3> QED BY <3>1, <3>2
  <2>4. EnoughProbed'
    BY <1>1, <1>s DEF EnoughProbed
  <2> QED BY <2>2, <2>3, <2>4 DEF Enough
<1>8. Founded'
  <2>1. Hands'
    BY <1>1, <1>s, <1>l DEF Founded, Hands
  <2>2. FoundedLook'
    <3> SUFFICES ASSUME ~Known, wait.kind \in {"live", "replica"}
                 PROVE  wait.exits <= Tally(downs, wait.kind, truth.from, first)
                          \/ box.status = "exited"
      BY <1>1, <1>2 DEF FoundedLook, Bound, pc
    <3>1. Bound(wait.exits, Len(downs)) \/ byHand # <<>>
      BY <1>l DEF Founded, FoundedLook
    <3>2. byHand # <<>> => box.status = "exited"
      BY <1>l, <1>w DEF Founded, Hands, StoppedFirst
    <3> QED BY <3>1, <3>2 DEF Bound, first
  <2>3. FoundedCount'
    BY <1>1, <1>2, <1>s, <1>l DEF Founded, FoundedCount, Bound, first
  <2>4. Since'
    <3>1. CASE Known
      BY <1>1, <1>2, <1>l, <3>1 DEF Founded, Since, first
    <3>2. CASE ~Known
      BY <1>1, <1>2, <1>l, <1>n, <3>2 DEF Founded, Since, first
    <3> QED BY <3>1, <3>2
  <2> QED BY <2>1, <2>2, <2>3, <2>4 DEF Founded
<1>9. Calm'
  <2>1. CASE Known
    <3> SUFFICES ASSUME wait'.kind = "live", truth'.steady, truth'.first # Unread
                 PROVE  wait'.evidence.restarts <= truth'.last - truth'.first
      BY DEF Calm
    <3>1. wait.kind = "live" /\ truth.steady /\ truth.first # Unread
          /\ truth'.first = truth.first
      BY <1>1, <1>2, <2>1 DEF first, steady
    <3>2. wait.evidence.restarts <= truth.last - truth.first
      BY <1>l, <3>1 DEF Calm
    <3>n. /\ wait.evidence.restarts \in Nat /\ Len(downs) \in Nat
          /\ truth.first \in Nat /\ truth.last \in Nat
      BY <1>n
    <3>l. truth.last <= Len(downs)
      BY <1>k
    <3>3. wait.evidence.restarts <= Len(downs) - truth.first
      BY <3>2, <3>n, <3>l
    <3> QED BY <3>1, <3>3, <1>1, <1>2
  <2>2. CASE ~Known
    <3>1. wait.evidence.restarts = 0
      BY <2>2, <1>l DEF Standing
    <3> QED BY <1>1, <1>2, <1>n, <2>2, <3>1 DEF Calm, first
  <2> QED BY <2>1, <2>2
<1> QED BY <1>1, <1>3, <1>4, <1>5, <1>6, <1>7, <1>8, <1>9, <1>s, Continues DEF Live, Undecided

(* Without an inspection the container is stopped, and nothing counts.       *)
LEMMA GoesOnUnseen ==
    ASSUME TypeOK, wait.pc = "inspect", Undecided, Live, Before, Unseen,
           UNCHANGED <<clock, box, downs, byHand>>, faults' \in 0 .. MaxFaults
    PROVE  Inv'
<1> USE DEF Before, Watch, Known, Windowed
<1>l. Counting /\ Standing /\ Growing /\ Enough /\ Founded /\ Calm
  BY DEF Live
<1>n. /\ Len(downs) \in Nat /\ 0 \in 0 .. MaxDowns
  BY Numbered, Constants DEF Numbers
<1>1. /\ wait' \in Wait /\ wait'.pc = "stop" /\ wait'.before = 0
      /\ wait'.kind = wait.kind /\ wait'.stage = wait.stage /\ wait'.baseline = wait.baseline
      /\ wait'.recent = wait.recent
      /\ wait'.outlasted = wait.outlasted /\ wait'.evidence = wait.evidence
      /\ wait'.lastCount = wait.lastCount /\ wait'.upSince = wait.upSince
      /\ wait'.verdict = wait.verdict
  BY <1>n, Typed DEF Unseen, Wait
<1>2. /\ truth' \in Truth /\ truth'.from = truth.from /\ truth'.recent = truth.recent
      /\ truth'.started = truth.started /\ truth'.short = truth.short /\ truth'.blind
      /\ truth'.before = truth.before /\ truth'.down = truth.down
      /\ truth'.steady = truth.steady /\ truth'.first = truth.first /\ truth'.last = truth.last
  BY Typed DEF Unseen, Truth
<1>3. TypeOK'
  BY <1>1, <1>2 DEF TypeOK
<1>4. Counting'
  BY <1>2, <1>l DEF Counting
<1>5. Standing'
  BY <1>1, <1>2, <1>l DEF Standing
<1>6. Growing'
  BY <1>1, <1>l DEF Growing
<1>7. Enough'
  <2>1. EnoughBefore' /\ EnoughRecent'
    BY <1>1, <1>2, <1>l DEF Enough, EnoughBefore, EnoughRecent
  <2>2. EnoughProbed'
    BY <1>1 DEF EnoughProbed
  <2> QED BY <2>1, <2>2 DEF Enough
<1>8. Founded'
  <2>1. Hands' /\ FoundedLook'
    BY <1>1, <1>l DEF Founded, Hands, FoundedLook
  <2>2. FoundedCount'
    <3>1. 0 <= Tally(downs, wait.kind, truth.from, Len(downs))
      BY <1>n, Logged
    <3>2. wait.kind \in StoppedFirst /\ wait.kind \notin {"live", "replica"}
      BY <1>l DEF Standing, StoppedFirst
    <3> QED BY <1>1, <1>2, <1>l, <3>1, <3>2 DEF Founded, FoundedCount, Bound
  <2>3. Since'
    BY <1>1, <1>2, <1>l DEF Founded, Since
  <2> QED BY <2>1, <2>2, <2>3 DEF Founded
<1>9. Calm'
  BY <1>1, <1>2, <1>l DEF Calm
<1> QED BY <1>1, <1>3, <1>4, <1>5, <1>6, <1>7, <1>8, <1>9, Continues DEF Live, Undecided

LEMMA Inspects ==
    ASSUME TypeOK, wait.pc # "done", Undecided, Live, Inspect
    PROVE  Inv'
<1>u. UNCHANGED <<clock, box, downs, byHand, faults>> /\ wait.pc = "inspect"
  BY DEF Inspect
<1>1. CASE Decide("missing") /\ UNCHANGED truth
  <2>1. "missing" \in Verdict
    BY DEF Verdict
  <2> QED BY <1>1, <1>u, <2>1, Typed, Decides
<1>2. CASE Looks
  <2>1. Before \/ Watch
    BY Typed DEF Wait, Before, Watch
  <2> QED BY <1>2, <1>u, <2>1, LooksBefore, LooksWatch
<1>3. CASE Before /\ Unseen
  BY <1>3, <1>u, Typed, GoesOnUnseen
<1> QED BY <1>1, <1>2, <1>3 DEF Inspect, Looks, Before

----------------------------------------------------------------------------
(* The log is read: it shows at most what it holds of the restarts counted.  *)
LEMMA Reading ==
    ASSUME TypeOK, wait.pc = "count", Count
    PROVE  \E n \in Nat :
             /\ n <= wait.snap.restarts /\ n <= wait.exits
             /\ \/ truth' = truth /\ (n = wait.snap.restarts \/ n = wait.exits)
                \/ truth' = [truth EXCEPT !.short = TRUE]
             /\ faults' \in 0 .. MaxFaults
             /\ LET outlasted == Outlasted(wait.snap, wait.at)
                    counted == IF outlasted /\ (wait.stage = "before" \/ wait.kind \in Kept \ Worker)
                               THEN 0 ELSE n
                IN  wait' =
                      IF wait.stage = "before"
                      THEN [wait EXCEPT !.pc = "stop", !.before = counted, !.exits = 0,
                                        !.snap = NotSeen]
                      ELSE [wait EXCEPT !.pc = "judge", !.baseline = wait.snap.restarts,
                                        !.exits = 0, !.recent = counted, !.outlasted = outlasted,
                                        !.oomAtStart = wait.snap.status = "running" /\ wait.snap.oom]
<1> DEFINE most == IF wait.snap.restarts <= wait.exits THEN wait.snap.restarts ELSE wait.exits
           Left(n) ==
             LET outlasted == Outlasted(wait.snap, wait.at)
                 counted == IF outlasted /\ (wait.stage = "before" \/ wait.kind \in Kept \ Worker)
                            THEN 0 ELSE n
             IN  wait' =
                   IF wait.stage = "before"
                   THEN [wait EXCEPT !.pc = "stop", !.before = counted, !.exits = 0,
                                     !.snap = NotSeen]
                   ELSE [wait EXCEPT !.pc = "judge", !.baseline = wait.snap.restarts,
                                     !.exits = 0, !.recent = counted, !.outlasted = outlasted,
                                     !.oomAtStart = wait.snap.status = "running" /\ wait.snap.oom]
<1>1. wait.snap.restarts \in Nat /\ wait.exits \in Nat /\ faults \in 0 .. MaxFaults /\ MaxFaults \in Nat
  BY Numbered, Typed, Constants DEF Numbers
<1>2. most \in Nat /\ most <= wait.snap.restarts /\ most <= wait.exits
      /\ (most = wait.snap.restarts \/ most = wait.exits)
  BY <1>1
<1>3. Min({wait.snap.restarts, wait.exits}) = most
  BY <1>1, Extremes
<1>4. RecentRestarts = 0 .. most
  BY <1>3 DEF RecentRestarts
<1>5. Max(0 .. most) = most
  BY <1>2, Extremes
<1>6. PICK n \in RecentRestarts :
        /\ IF n < Max(RecentRestarts)
           THEN Fault /\ truth' = [truth EXCEPT !.short = TRUE]
           ELSE UNCHANGED <<faults, truth>>
        /\ Left(n)
  BY DEF Count
<1> HIDE DEF most, Left
<1>7. n \in Nat /\ n <= most
  BY <1>2, <1>4, <1>6
<1>8. \/ truth' = truth /\ n = most /\ faults' = faults
      \/ truth' = [truth EXCEPT !.short = TRUE] /\ Fault
  BY <1>2, <1>4, <1>5, <1>6, <1>7
<1>9. faults' \in 0 .. MaxFaults
  BY <1>1, <1>8 DEF Fault
<1>10. n <= wait.snap.restarts /\ n <= wait.exits
  BY <1>1, <1>2, <1>7
<1>11. \/ truth' = truth /\ (n = wait.snap.restarts \/ n = wait.exits)
       \/ truth' = [truth EXCEPT !.short = TRUE]
  BY <1>2, <1>8
<1> QED BY <1>6, <1>7, <1>9, <1>10, <1>11 DEF Left

LEMMA CountsBefore ==
    ASSUME TypeOK, Undecided, Live, wait.pc = "count", Before, Count
    PROVE  Inv'
<1> USE DEF Before, Watch, Known, Windowed
<1>l. Counting /\ Standing /\ Growing /\ Enough /\ Founded /\ Calm
  BY DEF Live
<1> DEFINE outlasted == Outlasted(wait.snap, wait.at)
<1>r. PICK n \in Nat :
        /\ n <= wait.snap.restarts /\ n <= wait.exits
        /\ \/ truth' = truth /\ (n = wait.snap.restarts \/ n = wait.exits)
           \/ truth' = [truth EXCEPT !.short = TRUE]
        /\ faults' \in 0 .. MaxFaults
        /\ wait' = [wait EXCEPT !.pc = "stop", !.before = IF outlasted THEN 0 ELSE n,
                                !.exits = 0, !.snap = NotSeen]
  BY Reading
<1> DEFINE before == IF outlasted THEN 0 ELSE n
<1>u. UNCHANGED <<clock, box, downs, byHand>>
  BY DEF Count
<1>n. /\ wait.snap.restarts \in 0 .. MaxDowns /\ MaxDowns \in Nat /\ wait.exits \in Nat
      /\ wait.snap.restarts \in Nat /\ truth.before \in Nat /\ Len(downs) \in Nat
  <2>1. wait.snap \in Container
    BY Typed DEF Wait
  <2> QED BY <2>1, Constants, Numbered DEF Container, Numbers
<1>b. before \in 0 .. MaxDowns /\ before \in Nat /\ before <= wait.exits
  BY <1>n, <1>r
<1>c. NotSeen \in Container
  BY Constants DEF NotSeen, Container
<1>w. wait' = [wait EXCEPT !.pc = "stop", !.before = before, !.exits = 0, !.snap = NotSeen]
  BY <1>r
<1>e. ~truth'.short => truth.before <= before
  <2>1. outlasted => truth.before = 0
    BY <1>l DEF Enough, EnoughBefore
  <2>2. truth.before <= wait.exits /\ truth.before <= wait.snap.restarts
    BY <1>l DEF Enough, EnoughBefore
  <2>3. truth' = [truth EXCEPT !.short = TRUE] => truth'.short
    BY Typed DEF Truth
  <2>4. truth' = truth /\ (n = wait.snap.restarts \/ n = wait.exits) => truth.before <= n
    BY <2>2
  <2> QED BY <1>r, <1>n, <2>1, <2>3, <2>4
<1> HIDE DEF before, outlasted
<1>1. /\ wait' \in Wait /\ wait'.pc = "stop" /\ wait'.before = before
      /\ wait'.kind = wait.kind /\ wait'.stage = wait.stage /\ wait'.baseline = wait.baseline
      /\ wait'.recent = wait.recent
      /\ wait'.outlasted = wait.outlasted /\ wait'.evidence = wait.evidence
      /\ wait'.lastCount = wait.lastCount /\ wait'.upSince = wait.upSince
      /\ wait'.verdict = wait.verdict
  BY <1>w, <1>b, <1>c, Typed DEF Wait
<1>2. /\ truth' \in Truth /\ truth'.from = truth.from /\ truth'.recent = truth.recent
      /\ truth'.started = truth.started /\ (truth.short => truth'.short)
      /\ truth'.blind = truth.blind
      /\ truth'.before = truth.before /\ truth'.down = truth.down
      /\ truth'.steady = truth.steady /\ truth'.first = truth.first /\ truth'.last = truth.last
  <2>1. CASE truth' = truth
    BY <2>1, Typed
  <2>2. CASE truth' = [truth EXCEPT !.short = TRUE]
    BY <2>2, Typed DEF Truth
  <2> QED BY <1>r, <2>1, <2>2
<1>3. TypeOK'
  BY <1>1, <1>2, <1>r, <1>u DEF TypeOK
<1>4. Counting'
  BY <1>2, <1>u, <1>l DEF Counting
<1>5. Standing'
  <2>1. wait.kind \in StoppedFirst /\ wait.kind # "restarted"
    BY <1>l DEF Standing
  <2>2. wait.kind \in {"undone", "restored"}
    BY <2>1 DEF StoppedFirst
  <2> QED BY <1>1, <1>2, <1>u, <1>l, <2>1, <2>2 DEF Standing
<1>6. Growing'
  BY <1>1, <1>u, <1>l DEF Growing
<1>7. Enough'
  <2>1. EnoughBefore'
    BY <1>1, <1>2, <1>e DEF EnoughBefore
  <2>2. EnoughRecent'
    BY <1>1, <1>2, <1>l DEF Enough, EnoughRecent
  <2>3. EnoughProbed'
    BY <1>1 DEF EnoughProbed
  <2> QED BY <2>1, <2>2, <2>3 DEF Enough
<1>8. Founded'
  <2>1. Hands'
    BY <1>1, <1>u, <1>l DEF Founded, Hands
  <2>2. FoundedLook'
    BY <1>1 DEF FoundedLook
  <2>3. FoundedCount'
    <3>1. Bound(wait.exits, Len(downs)) \/ truth.down
      BY <1>l DEF Founded, FoundedLook
    <3>2. Tally(downs, wait.kind, truth.from, Len(downs)) \in Nat
      BY Logged, <1>n
    <3>3. before <= Tally(downs, wait.kind, truth.from, Len(downs)) \/ truth.down
      BY <3>1, <3>2, <1>b, <1>n DEF Bound
    <3> QED BY <1>1, <1>2, <1>u, <1>l, <3>3 DEF Founded, FoundedCount, Bound
  <2>4. Since'
    BY <1>1, <1>2, <1>u, <1>l DEF Founded, Since
  <2> QED BY <2>1, <2>2, <2>3, <2>4 DEF Founded
<1>9. Calm'
  BY <1>1, <1>2, <1>l DEF Calm
<1> QED BY <1>1, <1>3, <1>4, <1>5, <1>6, <1>7, <1>8, <1>9, Continues DEF Live, Undecided


LEMMA CountsWatch ==
    ASSUME TypeOK, Undecided, Live, wait.pc = "count", Watch, Count
    PROVE  Inv'
<1> USE DEF Before, Watch, Known, Windowed
<1>l. Counting /\ Standing /\ Growing /\ Enough /\ Founded /\ Calm
  BY DEF Live
<1> DEFINE outlasted == Outlasted(wait.snap, wait.at)
           oom == wait.snap.status = "running" /\ wait.snap.oom
<1>r. PICK n \in Nat :
        /\ n <= wait.snap.restarts /\ n <= wait.exits
        /\ \/ truth' = truth /\ (n = wait.snap.restarts \/ n = wait.exits)
           \/ truth' = [truth EXCEPT !.short = TRUE]
        /\ faults' \in 0 .. MaxFaults
        /\ wait' = [wait EXCEPT !.pc = "judge", !.baseline = wait.snap.restarts, !.exits = 0,
                                !.recent = IF outlasted /\ wait.kind \in Kept \ Worker
                                           THEN 0 ELSE n,
                                !.outlasted = outlasted, !.oomAtStart = oom]
  BY Reading
<1> DEFINE recent == IF outlasted /\ wait.kind \in Kept \ Worker THEN 0 ELSE n
<1>u. UNCHANGED <<clock, box, downs, byHand>>
  BY DEF Count
<1>n. /\ wait.snap.restarts \in 0 .. MaxDowns /\ MaxDowns \in Nat /\ wait.exits \in Nat
      /\ wait.snap.restarts \in Nat /\ truth.recent \in Nat /\ Len(downs) \in Nat
      /\ truth.first \in Nat /\ truth.last \in Nat /\ truth.started \in Nat
      /\ wait.snap.restarts \in 0 .. Unread /\ wait.snap.restarts # Unread
  <2>1. wait.snap \in Container
    BY Typed DEF Wait
  <2>2. /\ wait.snap.restarts \in 0 .. MaxDowns /\ MaxDowns \in Nat
    BY <2>1, Constants DEF Container
  <2>3. wait.snap.restarts \in 0 .. Unread /\ wait.snap.restarts # Unread
    BY <2>2 DEF Unread
  <2> QED BY <2>2, <2>3, Numbered DEF Numbers
<1>b. recent \in 0 .. MaxDowns /\ recent \in Nat /\ recent <= wait.exits
      /\ recent <= wait.snap.restarts
  BY <1>n, <1>r
<1>c. outlasted \in BOOLEAN /\ oom \in BOOLEAN /\ (outlasted => wait.snap.status = "running")
  <2>1. wait.snap.oom \in BOOLEAN
    BY Typed DEF Wait, Container
  <2> QED BY <2>1 DEF Outlasted
<1>o. wait.kind \in Kept \ Worker <=> wait.kind \in Kept /\ wait.kind # "replica"
  BY DEF Kept, Worker
<1>w. wait' = [wait EXCEPT !.pc = "judge", !.baseline = wait.snap.restarts, !.exits = 0,
                           !.recent = recent, !.outlasted = outlasted, !.oomAtStart = oom]
  BY <1>r
<1>s. truth.steady = outlasted
  BY <1>l DEF Enough, EnoughRecent
<1>e. ~truth'.short => truth.recent <= recent \/ (truth.steady /\ wait.kind # "replica")
  <2>1. truth.recent <= wait.exits /\ truth.recent <= wait.snap.restarts
    BY <1>l DEF Enough, EnoughRecent
  <2>2. truth' = [truth EXCEPT !.short = TRUE] => truth'.short
    BY Typed DEF Truth
  <2>3. truth' = truth /\ (n = wait.snap.restarts \/ n = wait.exits) => truth.recent <= n
    BY <2>1
  <2> QED BY <1>r, <1>o, <1>s, <2>2, <2>3
<1>z. outlasted /\ wait.kind \in Kept /\ wait.kind # "replica" => recent = 0
  BY <1>o
<1> HIDE DEF recent, outlasted, oom
<1>1. /\ wait' \in Wait /\ wait'.pc = "judge" /\ wait'.before = wait.before
      /\ wait'.kind = wait.kind /\ wait'.stage = wait.stage
      /\ wait'.baseline = wait.snap.restarts /\ wait'.snap = wait.snap
      /\ wait'.recent = recent /\ wait'.outlasted = outlasted /\ wait'.evidence = wait.evidence
      /\ wait'.lastCount = wait.lastCount /\ wait'.upSince = wait.upSince
      /\ wait'.verdict = wait.verdict
  BY <1>w, <1>b, <1>c, <1>n, Typed DEF Wait
<1>2. /\ truth' \in Truth /\ truth'.from = truth.from /\ truth'.recent = truth.recent
      /\ truth'.started = truth.started /\ (truth.short => truth'.short)
      /\ truth'.blind = truth.blind
      /\ truth'.before = truth.before /\ truth'.down = truth.down
      /\ truth'.steady = truth.steady /\ truth'.first = truth.first /\ truth'.last = truth.last
  <2>1. CASE truth' = truth
    BY <2>1, Typed
  <2>2. CASE truth' = [truth EXCEPT !.short = TRUE]
    BY <2>2, Typed DEF Truth
  <2> QED BY <1>r, <2>1, <2>2
<1>3. TypeOK'
  BY <1>1, <1>2, <1>r, <1>u DEF TypeOK
<1>k. /\ ~Known /\ wait.kind \in Kept /\ truth.first # Unread /\ truth.first = truth.last
      /\ wait.snap.restarts + truth.started = truth.first /\ wait.snap.status # "absent"
      /\ wait.evidence.restarts = 0 /\ ~wait.evidence.oom
  <2>1. ~Known /\ truth.first # Unread /\ truth.first = truth.last
        /\ wait.snap.restarts + truth.started = truth.first /\ wait.snap.status # "absent"
    BY <1>l DEF Standing
  <2> QED BY <2>1, <1>l DEF Standing
<1>4. Counting'
  BY <1>2, <1>u, <1>l DEF Counting
<1>5. Standing'
  BY <1>1, <1>2, <1>u, <1>l, <1>k, <1>b, <1>n DEF Standing
<1>6. Growing'
  BY <1>1, <1>u, <1>l DEF Growing
<1>7. Enough'
  <2>1. EnoughBefore'
    BY <1>1, <1>2, <1>l DEF Enough, EnoughBefore
  <2>2. EnoughRecent'
    BY <1>1, <1>2, <1>e, <1>s, <1>z DEF EnoughRecent
  <2>3. EnoughProbed'
    BY <1>1 DEF EnoughProbed
  <2> QED BY <2>1, <2>2, <2>3 DEF Enough
<1>8. Founded'
  <2>1. Hands'
    BY <1>1, <1>u, <1>l DEF Founded, Hands
  <2>2. FoundedLook'
    BY <1>1 DEF FoundedLook
  <2>3. FoundedCount'
    <3>1. wait.kind \in {"live", "replica"} =>
            Bound(wait.exits, truth.first) \/ wait.snap.status = "exited"
      BY <1>l DEF Founded, FoundedLook
    <3>2. Tally(downs, wait.kind, truth.from, truth.first) \in Nat
      <4>1. truth.first \in 0 .. Len(downs)
        BY <1>n, <1>k, <1>l DEF Counting
      <4> QED BY <4>1, Logged
    <3>3. wait.kind \in {"live", "replica"} =>
            recent <= Tally(downs, wait.kind, truth.from, truth.first)
              \/ wait.snap.status = "exited"
      BY <3>1, <3>2, <1>b, <1>n DEF Bound
    <3> QED BY <1>1, <1>2, <1>u, <1>l, <3>3 DEF Founded, FoundedCount, Bound
  <2>4. Since'
    BY <1>1, <1>2, <1>u, <1>l DEF Founded, Since
  <2> QED BY <2>1, <2>2, <2>3, <2>4 DEF Founded
<1>9. Calm'
  BY <1>1, <1>2, <1>l DEF Calm
<1> QED BY <1>1, <1>3, <1>4, <1>5, <1>6, <1>7, <1>8, <1>9, Continues DEF Live, Undecided

----------------------------------------------------------------------------
(* The stop and the start by hand.                                          *)
LEMMA Stops ==
    ASSUME TypeOK, wait.pc # "done", Undecided, Live, StopByHand
    PROVE  Inv'
<1> USE DEF Before, Watch, Known, Windowed
<1>l. Counting /\ Standing /\ Growing /\ Enough /\ Founded /\ Calm
  BY DEF Live
<1>u. UNCHANGED <<clock, downs, truth, faults>> /\ wait.pc = "stop"
  BY DEF StopByHand
<1>d. CASE Decide("error") /\ UNCHANGED <<box, byHand>>
  <2>1. "error" \in Verdict
    BY DEF Verdict
  <2> QED BY <1>d, <1>u, <2>1, Typed, Decides
<1>c. CASE /\ \/ box' = [box EXCEPT !.status = "exited"]
              \/ box' = box /\ box.status = "absent"
           /\ byHand' = byHand \/ byHand' = Append(byHand, clock)
           /\ wait' = [wait EXCEPT !.pc = "start"]
  <2>1. /\ wait' \in Wait /\ wait'.pc = "start" /\ wait'.before = wait.before
        /\ wait'.kind = wait.kind /\ wait'.stage = wait.stage /\ wait'.baseline = wait.baseline
        /\ wait'.recent = wait.recent
        /\ wait'.outlasted = wait.outlasted /\ wait'.evidence = wait.evidence
        /\ wait'.lastCount = wait.lastCount /\ wait'.upSince = wait.upSince
        /\ wait'.verdict = wait.verdict
    BY <1>c, Typed DEF Wait
  <2>2. /\ box' \in Container /\ box'.restarts = box.restarts /\ box'.since = box.since
        /\ box'.status \in {"exited", "absent"} /\ box'.health = box.health
    BY <1>c, Typed DEF Container
  <2>3. byHand' \in Seq(0 .. MaxTime)
    <3>1. byHand \in Seq(0 .. MaxTime) /\ clock \in 0 .. MaxTime
      BY Typed
    <3>2. Append(byHand, clock) \in Seq(0 .. MaxTime)
      BY <3>1, AppendProperties
    <3> QED BY <3>1, <3>2, <1>c
  <2>4. TypeOK'
    BY <1>u, <2>1, <2>2, <2>3 DEF TypeOK
  <2>k. wait.stage = "before" /\ wait.kind \in StoppedFirst
    BY <1>l, <1>u DEF Standing
  <2>5. Counting'
    BY <1>u, <2>2, <1>l DEF Counting
  <2>6. Standing'
    BY <1>u, <2>1, <1>l, <2>k DEF Standing
  <2>7. Growing'
    BY <1>u, <2>1, <2>k, <1>l DEF Growing
  <2>8. Enough'
    <3>1. EnoughBefore' /\ EnoughRecent'
      BY <1>u, <2>1, <1>l DEF Enough, EnoughBefore, EnoughRecent
    <3>2. EnoughProbed'
      BY <2>1 DEF EnoughProbed
    <3> QED BY <3>1, <3>2 DEF Enough
  <2>9. Founded'
    <3>1. Hands' /\ FoundedLook'
      BY <2>1, <2>2, <2>k DEF Hands, FoundedLook
    <3>2. FoundedCount' /\ Since'
      BY <1>u, <2>1, <1>l DEF Founded, FoundedCount, Since, Bound
    <3> QED BY <3>1, <3>2 DEF Founded
  <2>10. Calm'
    BY <1>u, <2>1, <1>l DEF Calm
  <2> QED BY <2>1, <2>4, <2>5, <2>6, <2>7, <2>8, <2>9, <2>10, Continues DEF Live, Undecided
<1> QED BY <1>c, <1>d DEF StopByHand

LEMMA Starts ==
    ASSUME TypeOK, wait.pc # "done", Undecided, Live, StartByHand
    PROVE  Inv'
<1> USE DEF Before, Watch, Known, Windowed
<1>l. Counting /\ Standing /\ Growing /\ Enough /\ Founded /\ Calm
  BY DEF Live
<1>u. UNCHANGED <<clock, downs, byHand, faults>> /\ wait.pc = "start"
  BY DEF StartByHand
<1>d. CASE Decide("error") /\ UNCHANGED <<box, truth>>
  <2>1. "error" \in Verdict
    BY DEF Verdict
  <2> QED BY <1>d, <1>u, <2>1, Typed, Decides
<1>c. CASE /\ box' = [box EXCEPT !.status = "running", !.since = clock, !.restarts = 0,
                                 !.oom = FALSE,
                                 !.health = IF @ = "none" THEN "none" ELSE "starting"]
           /\ truth' = [truth EXCEPT !.started = Len(downs)]
           /\ wait' = [wait EXCEPT !.pc = "begin", !.stage = "watch",
                                   !.deadline = clock + Timeout]
  <2>n. /\ clock + Timeout \in 0 .. MaxTime + Timeout /\ clock \in 0 .. MaxTime /\ clock \in Nat
        /\ 0 \in 0 .. MaxDowns /\ Len(downs) \in 0 .. MaxDowns /\ Len(downs) \in Nat
    BY Typed, Constants
  <2>1. /\ wait' \in Wait /\ wait'.pc = "begin" /\ wait'.stage = "watch"
        /\ wait'.before = wait.before /\ wait'.kind = wait.kind
        /\ wait'.baseline = wait.baseline /\ wait'.recent = wait.recent
        /\ wait'.outlasted = wait.outlasted /\ wait'.evidence = wait.evidence
        /\ wait'.lastCount = wait.lastCount /\ wait'.upSince = wait.upSince
        /\ wait'.verdict = wait.verdict
    BY <1>c, <2>n, Typed DEF Wait
  <2>2. box' \in Container /\ box'.restarts = 0 /\ box'.since = clock
    BY <1>c, <2>n, Typed DEF Container
  <2>3. /\ truth' \in Truth /\ truth'.from = truth.from /\ truth'.recent = truth.recent
        /\ truth'.started = Len(downs) /\ truth'.short = truth.short
        /\ truth'.blind = truth.blind
        /\ truth'.before = truth.before /\ truth'.down = truth.down
        /\ truth'.steady = truth.steady /\ truth'.first = truth.first /\ truth'.last = truth.last
    BY <1>c, <2>n, Typed DEF Truth
  <2>4. TypeOK'
    BY <1>u, <2>1, <2>2, <2>3 DEF TypeOK
  <2>k. /\ wait.stage = "before" /\ wait.kind \in StoppedFirst /\ truth.first = Unread
        /\ truth.from # Never /\ wait.lastCount = Unread /\ wait.upSince = Never
        /\ wait.evidence.restarts = 0
        /\ wait.kind \in Kept => ~Known
    <3>1. wait.stage = "before"
      BY <1>l, <1>u DEF Standing
    <3> QED BY <3>1, <1>l, <1>u DEF Standing, Growing
  <2>5. Counting'
    BY <1>u, <2>2, <2>3, <2>k, <2>n, <1>l DEF Counting
  <2>6. Standing'
    BY <1>u, <2>1, <2>3, <1>l, <2>k DEF Standing, StoppedFirst
  <2>7. Growing'
    BY <1>u, <2>1, <2>k DEF Growing
  <2>8. Enough'
    <3>1. EnoughBefore' /\ EnoughRecent'
      BY <1>u, <2>1, <2>3, <2>k, <1>l DEF Enough, EnoughBefore, EnoughRecent
    <3>2. EnoughProbed'
      BY <2>1 DEF EnoughProbed
    <3> QED BY <3>1, <3>2 DEF Enough
  <2>9. Founded'
    <3>1. Hands' /\ FoundedLook'
      BY <2>1, <2>k DEF Hands, FoundedLook
    <3>2. FoundedCount'
      BY <1>u, <2>1, <2>3, <2>k, <1>l DEF Founded, FoundedCount, Bound
    <3>3. Since'
      BY <1>u, <2>1, <2>3, <2>k, <2>n DEF Since
    <3> QED BY <3>1, <3>2, <3>3 DEF Founded
  <2>10. Calm'
    BY <2>1, <2>3, <2>k DEF Calm
  <2> QED BY <2>1, <2>4, <2>5, <2>6, <2>7, <2>8, <2>9, <2>10, Continues DEF Live, Undecided
<1> QED BY <1>c, <1>d DEF StartByHand


LEMMA Counts ==
    ASSUME TypeOK, wait.pc # "done", Undecided, Live, Count
    PROVE  Inv'
<1>1. wait.pc = "count" /\ (Before \/ Watch)
  BY Typed DEF Count, Wait, Before, Watch
<1> QED BY <1>1, CountsBefore, CountsWatch

----------------------------------------------------------------------------
(* The restarts a look adds to those before, and what they amount to.       *)
Prior == wait.recent + (IF wait.kind = "undone" THEN wait.before ELSE 0)

LEMMA Observes ==
    ASSUME TypeOK, Live, wait.pc = "judge"
    PROVE  /\ Observed \in Nat /\ Prior \in Nat
           /\ Prior + Observed <= wait.before + wait.snap.restarts
           /\ wait.recent + Observed <= wait.snap.restarts
           /\ Observed <= wait.snap.restarts
           /\ wait.snap.restarts = truth.last - truth.started
           /\ wait.kind \in Kept => Observed = truth.last - truth.first
           /\ wait.kind \notin Kept \cup {"restarted"} => Observed = wait.snap.restarts
<1>n. /\ wait.snap.restarts \in Nat /\ wait.baseline \in Nat /\ wait.recent \in Nat
      /\ wait.before \in Nat
      /\ truth.first \in Nat /\ truth.last \in Nat /\ truth.started \in Nat
  BY Numbered DEF Numbers
<1>l. Counting /\ Standing
  BY DEF Live
<1>1. wait.snap.restarts + truth.started = truth.last
  BY <1>l DEF Standing
<1>2. Watch /\ Known
  BY <1>l DEF Standing
<1>3. wait.kind \in Kept => /\ wait.baseline + truth.started = truth.first
                            /\ truth.first <= truth.last /\ wait.recent <= wait.baseline
  BY <1>l, <1>2 DEF Standing, Counting
<1>4. /\ wait.kind \notin Kept => wait.recent = 0
      /\ wait.kind \notin Kept \cup {"restarted"} => wait.baseline = 0
  BY <1>l DEF Standing
<1>5. Observed \in Nat /\ Observed <= wait.snap.restarts /\ Prior \in Nat
  BY <1>n DEF Observed, Prior
<1>6. wait.kind \in Kept => Observed = truth.last - truth.first
  BY <1>n, <1>1, <1>3 DEF Observed
<1>7. wait.kind \notin Kept \cup {"restarted"} => Observed = wait.snap.restarts
  BY <1>n, <1>4 DEF Observed
<1>8. wait.recent + Observed <= wait.snap.restarts
  <2>1. CASE wait.kind \in Kept
    BY <2>1, <1>n, <1>1, <1>3, <1>6
  <2>2. CASE wait.kind \notin Kept
    BY <2>2, <1>n, <1>4, <1>5
  <2> QED BY <2>1, <2>2
<1>9. Prior + Observed <= wait.before + wait.snap.restarts
  BY <1>8, <1>5, <1>n DEF Prior
<1> QED BY <1>n, <1>1, <1>5, <1>6, <1>7, <1>8, <1>9

LEMMA Gathers ==
    ASSUME TypeOK, Live, wait.pc = "judge"
    PROVE  /\ Gathered \in Evidence /\ Gathered.restarts \in Nat
           /\ Gathered.restarts >= Prior + Observed
           /\ Gathered.restarts >= wait.evidence.restarts
           /\ Gathered.restarts \in {Prior + Observed, wait.evidence.restarts}
           /\ Gathered.oom => MemoryKill(Gathered.restarts > Prior)
<1>1. /\ Observed \in Nat /\ Prior \in Nat
      /\ Prior + Observed <= wait.before + wait.snap.restarts
  BY Observes
<1>2. wait.evidence \in Evidence /\ wait.snap \in Container /\ wait.before \in 0 .. MaxDowns
  BY Typed DEF Wait
<1>3. /\ wait.evidence.restarts \in 0 .. 2 * MaxDowns /\ wait.evidence.restarts \in Nat
      /\ wait.before \in 0 .. MaxDowns /\ wait.snap.restarts \in 0 .. MaxDowns
      /\ MaxDowns \in Nat
  BY <1>2, Constants DEF Evidence, Container
<1> DEFINE total == IF wait.evidence.restarts <= Prior + Observed THEN Prior + Observed
                    ELSE wait.evidence.restarts
           oom == wait.evidence.oom \/ MemoryKill(total > Prior)
<1>4. Max({wait.evidence.restarts, Prior + Observed}) = total
  <2>1. Prior + Observed \in Nat
    BY <1>1
  <2> QED BY <2>1, <1>3, Extremes
<1>5. Gathered = [oom |-> oom, restarts |-> total]
  BY <1>4 DEF Gathered, Prior
<1>6. total \in 0 .. 2 * MaxDowns /\ total \in Nat
  BY <1>1, <1>3
<1>7. oom \in BOOLEAN
  BY <1>2 DEF Evidence
<1>8. ~wait.evidence.oom
  BY DEF Live, Standing
<1>9. total >= Prior + Observed /\ total >= wait.evidence.restarts
      /\ total \in {Prior + Observed, wait.evidence.restarts}
  BY <1>1, <1>3
<1>10. oom => MemoryKill(total > Prior)
  BY <1>8
<1> HIDE DEF total, oom
<1> QED BY <1>5, <1>6, <1>7, <1>9, <1>10 DEF Evidence

LEMMA Follows ==
    ASSUME TypeOK, NEW k \in 0 .. Len(downs),
           \A i \in k + 1 .. Len(downs) : downs[i] >= truth.from
    PROVE  Tally(downs, wait.kind, truth.from, k) + (Len(downs) - k)
             <= Tally(downs, wait.kind, truth.from, Len(downs))
<1>1. downs \in Seq(Nat) /\ truth.from \in Nat
  BY Logged
<1>2. Len(downs) \in 0 .. Len(downs) /\ k <= Len(downs)
  BY Typed
<1> QED BY <1>1, <1>2, After

(* What is counted happened, unless the container already stood stopped.    *)
LEMMA Real ==
    ASSUME TypeOK, Live, wait.pc = "judge", wait.snap.status # "exited"
    PROVE  /\ Bound(Prior + Observed, Len(downs)) \/ truth.down
           /\ wait.kind \in Worker => Bound(WorkerRestarts, Len(downs)) \/ truth.down
<1> DEFINE T(k) == Tally(downs, wait.kind, truth.from, k)
<1>l. Counting /\ Standing /\ Founded
  BY DEF Live
<1>n. /\ Len(downs) \in Nat /\ wait.before \in Nat /\ wait.recent \in Nat
      /\ truth.first \in Nat /\ truth.last \in Nat /\ truth.started \in Nat
      /\ wait.snap.restarts \in Nat /\ box.restarts \in Nat
  BY Numbered DEF Numbers
<1>o. /\ Observed \in Nat /\ Prior \in Nat
      /\ wait.recent + Observed <= wait.snap.restarts
      /\ Observed <= wait.snap.restarts
      /\ wait.snap.restarts = truth.last - truth.started
      /\ wait.kind \in Kept => Observed = truth.last - truth.first
      /\ wait.kind \notin Kept \cup {"restarted"} => Observed = wait.snap.restarts
  BY Observes
<1>w. Watch /\ Known
  BY <1>l DEF Standing
<1>k. truth.last <= Len(downs)
      /\ truth.started \in 0 .. Len(downs)
      /\ (wait.kind \in Kept => truth.first \in 0 .. Len(downs))
  <2>1. truth.last <= Len(downs) /\ box.restarts + truth.started = Len(downs)
    BY <1>l DEF Counting
  <2>2. wait.kind \in Kept => truth.first <= truth.last
    BY <1>l, <1>w DEF Standing, Counting
  <2> QED BY <1>n, <2>1, <2>2
<1>t. downs \in Seq(Nat) /\ truth.from \in Nat /\ \A k \in 0 .. Len(downs) : T(k) \in Nat
  BY Logged
<1>1. CASE wait.kind \in StoppedFirst
  <2>1. T(truth.started) + (Len(downs) - truth.started) <= T(Len(downs))
    <3>1. \A i \in truth.started + 1 .. Len(downs) : downs[i] >= truth.from
      BY <1>1, <1>l, <1>w DEF Founded, Since
    <3> DEFINE m == truth.started
    <3>2. m \in 0 .. Len(downs) /\ \A i \in m + 1 .. Len(downs) : downs[i] >= truth.from
      BY <3>1, <1>k
    <3> HIDE DEF m
    <3>3. T(m) + (Len(downs) - m) <= T(Len(downs))
      BY <3>2, Follows
    <3> QED BY <3>3 DEF m
  <2>2. wait.before <= T(truth.started) \/ truth.down
    BY <1>1, <1>l, <1>w DEF Founded, FoundedCount, Bound
  <2>3. wait.recent + Observed <= Len(downs) - truth.started
    BY <1>k, <1>n, <1>o
  <2>4. T(truth.started) \in Nat /\ T(Len(downs)) \in Nat
    BY <1>t, <1>k, <1>n
  <2>n. /\ wait.before \in Nat /\ wait.recent \in Nat /\ Observed \in Nat
        /\ Len(downs) - truth.started \in Nat
    BY <1>n, <1>o, <1>k
  <2>5. Prior <= wait.before + wait.recent
    BY <2>n DEF Prior
  <2>6. wait.kind \in Worker => WorkerRestarts = wait.before + Observed
    BY <1>1, <2>n DEF WorkerRestarts, StoppedFirst
  <2> DEFINE a == T(truth.started)
             z == T(Len(downs))
             d == Len(downs) - truth.started
  <2>7. a \in Nat /\ z \in Nat /\ d \in Nat /\ Prior \in Nat /\ a + d <= z
        /\ (wait.before <= a \/ truth.down) /\ wait.recent + Observed <= d
    BY <2>1, <2>2, <2>3, <2>4, <2>n, <1>o
  <2> HIDE DEF a, z, d
  <2>8. Prior + Observed <= z \/ truth.down
    BY <2>5, <2>7, <2>n
  <2>9. wait.kind \in Worker => WorkerRestarts <= z \/ truth.down
    BY <2>6, <2>7, <2>n
  <2> QED BY <2>8, <2>9 DEF Bound, z
<1>2. CASE wait.kind \in {"live", "replica"}
  <2>0. wait.kind \in Kept /\ wait.before = 0 /\ wait.kind # "undone"
    BY <1>2, <1>l DEF Kept, Standing
  <2>1. T(truth.first) + (Len(downs) - truth.first) <= T(Len(downs))
    <3>1. \A i \in truth.first + 1 .. Len(downs) : downs[i] >= truth.from
      BY <2>0, <1>l, <1>w DEF Founded, Since, Standing
    <3> DEFINE m == truth.first
    <3>2. m \in 0 .. Len(downs) /\ \A i \in m + 1 .. Len(downs) : downs[i] >= truth.from
      BY <3>1, <2>0, <1>k
    <3> HIDE DEF m
    <3>3. T(m) + (Len(downs) - m) <= T(Len(downs))
      BY <3>2, Follows
    <3> QED BY <3>3 DEF m
  <2>2. wait.recent <= T(truth.first)
    BY <1>2, <1>l, <1>w DEF Founded, FoundedCount, Bound
  <2>3. Observed <= Len(downs) - truth.first
    BY <2>0, <1>k, <1>n, <1>o
  <2>4. T(truth.first) \in Nat /\ T(Len(downs)) \in Nat
    BY <2>0, <1>t, <1>k, <1>n
  <2>5. Prior + Observed = wait.recent + Observed
    BY <2>0, <1>n, <1>o DEF Prior
  <2>6. WorkerRestarts \in Nat /\ WorkerRestarts <= wait.recent + Observed
    BY <2>0, <1>n, <1>o DEF WorkerRestarts
  <2> DEFINE a == T(truth.first)
             z == T(Len(downs))
             d == Len(downs) - truth.first
  <2>7. a \in Nat /\ z \in Nat /\ d \in Nat /\ Prior \in Nat /\ a + d <= z
        /\ wait.recent <= a /\ Observed <= d /\ Observed \in Nat /\ wait.recent \in Nat
    <3>1. d \in Nat
      BY <2>0, <1>n, <1>k
    <3>2. Prior \in Nat /\ Observed \in Nat /\ wait.recent \in Nat
      BY <1>n, <1>o
    <3> QED BY <3>1, <3>2, <2>1, <2>2, <2>3, <2>4
  <2> HIDE DEF a, z, d
  <2>8. wait.recent + Observed <= z
    <3>1. wait.recent + Observed <= a + d
      BY <2>7
    <3> QED BY <2>7, <3>1
  <2>9. Prior + Observed <= z /\ WorkerRestarts <= z
    BY <2>5, <2>6, <2>7, <2>8
  <2> QED BY <2>9 DEF Bound, z
<1>3. CASE wait.kind \notin Kept \cup StoppedFirst
  <2>0. wait.kind \notin {"undone", "replica", "restored"} /\ wait.recent = 0 /\ wait.before = 0
    BY <1>3, <1>l DEF Kept, StoppedFirst, Standing
  <2>1. T(Len(downs)) = Len(downs)
    <3>1. Len(downs) \in 0 .. Len(downs)
      BY <1>n
    <3> QED BY <1>3, <1>t, <3>1, Tallied
  <2>2. Observed <= Len(downs)
    BY <1>k, <1>n, <1>o
  <2>3. Prior + Observed = Observed /\ WorkerRestarts = Observed
    BY <2>0, <1>n, <1>o DEF Prior, WorkerRestarts
  <2> QED BY <2>1, <2>2, <2>3 DEF Bound
<1>4. wait.kind \in Kept => wait.kind \in StoppedFirst \/ wait.kind \in {"live", "replica"}
  BY DEF Kept, StoppedFirst
<1> QED BY <1>1, <1>2, <1>3, <1>4

(* And all of what a perfect log would count is counted.                    *)
LEMMA Whole ==
    ASSUME TypeOK, Live, wait.pc = "judge", ~truth.short, wait.kind # "restarted"
    PROVE  /\ LoopTruly \in Nat
           /\ wait.kind \notin Worker => LoopTruly <= Prior + Observed
           /\ wait.kind \in Worker => LoopTruly <= WorkerRestarts
<1>l. Counting /\ Standing /\ Enough
  BY DEF Live
<1>n. /\ wait.before \in Nat /\ wait.recent \in Nat
      /\ truth.first \in Nat /\ truth.last \in Nat /\ truth.started \in Nat
      /\ truth.before \in Nat /\ truth.recent \in Nat /\ wait.snap.restarts \in Nat
  BY Numbered DEF Numbers
<1>o. /\ Observed \in Nat
      /\ wait.snap.restarts = truth.last - truth.started
      /\ wait.kind \in Kept => Observed = truth.last - truth.first
      /\ wait.kind \notin Kept \cup {"restarted"} => Observed = wait.snap.restarts
  BY Observes
<1>w. Watch /\ Known
  BY <1>l DEF Standing
<1> DEFINE before == IF truth.blind THEN 0 ELSE truth.before
<1>b. /\ before \in Nat
      /\ wait.kind \in {"undone", "restored"} => before <= wait.before
      /\ wait.kind \notin StoppedFirst => before = 0
  BY <1>l, <1>w, <1>n DEF Enough, EnoughBefore, Standing
<1>t. LoopTruly =
        LET since == truth.last - truth.first
        IN  CASE wait.kind \in {"live", "undone"} ->
                   before + since + (IF truth.steady THEN 0 ELSE truth.recent)
              [] wait.kind = "replica" ->
                   since + (IF truth.steady /\ since = 0 THEN 0 ELSE truth.recent)
              [] wait.kind = "restored" -> before + truth.last - truth.started
              [] OTHER -> truth.last - truth.started
  BY DEF LoopTruly
<1> HIDE DEF before
<1>r. wait.kind \in Kept =>
        /\ truth.recent <= wait.recent \/ (truth.steady /\ wait.kind # "replica")
        /\ wait.kind = "replica" => wait.outlasted = truth.steady
  BY <1>l, <1>w DEF Enough, EnoughRecent
<1>1. CASE wait.kind = "live"
  BY <1>1, <1>n, <1>o, <1>t, <1>b, <1>r DEF Prior, Kept, StoppedFirst, Worker
<1>2. CASE wait.kind = "undone"
  BY <1>2, <1>n, <1>o, <1>t, <1>b, <1>r DEF Prior, Kept, StoppedFirst, Worker
<1>3. CASE wait.kind = "replica"
  BY <1>3, <1>n, <1>o, <1>t, <1>r DEF WorkerRestarts, Kept, Worker
<1>4. CASE wait.kind = "restored"
  BY <1>4, <1>n, <1>o, <1>t, <1>b DEF WorkerRestarts, Kept, Worker
<1>5. CASE wait.kind \notin {"live", "undone", "replica", "restored"}
  BY <1>5, <1>n, <1>o, <1>t DEF WorkerRestarts, Prior, Kept, Worker
<1> QED BY <1>1, <1>2, <1>3, <1>4, <1>5


----------------------------------------------------------------------------
(* A wait that goes on: what its evidence and its timers must satisfy.      *)
LEMMA GoesOn ==
    ASSUME TypeOK, Undecided, Live, wait.pc \in {"judge", "probe"},
           wait.pc = "judge" => wait.snap.status # "exited",
           UNCHANGED <<clock, box, downs, byHand, truth, faults>>,
           wait' \in Wait, wait'.pc \in {"sleep", "probe"},
           wait'.kind = wait.kind, wait'.stage = wait.stage, wait'.baseline = wait.baseline,
           wait'.before = wait.before, wait'.recent = wait.recent,
           wait'.outlasted = wait.outlasted, wait'.verdict = wait.verdict,
           wait'.pc = "probe" => wait.kind \notin Worker,
           ~wait'.evidence.oom,
           wait'.evidence.restarts <= Tally(downs, wait.kind, truth.from, Len(downs)) \/ truth.down,
           wait.kind = "live" /\ truth.steady =>
             wait'.evidence.restarts <= truth.last - truth.first,
           EnoughProbed',
           wait'.lastCount # Unread => wait'.lastCount <= box.restarts,
           wait'.upSince # Never =>
             /\ wait'.lastCount # Unread /\ box.health = "none" /\ wait'.upSince <= clock
             /\ box.restarts = wait'.lastCount =>
                  box.status # "restarting" /\ box.since <= wait'.upSince
    PROVE  Inv'
<1> USE DEF Before, Watch, Known, Windowed
<1>l. Counting /\ Standing /\ Growing /\ Enough /\ Founded /\ Calm
  BY DEF Live
<1>w. Watch /\ Known
  BY <1>l DEF Standing
<1>1. TypeOK'
  BY DEF TypeOK
<1>2. Counting'
  BY <1>l DEF Counting
<1>3. Standing'
  <2> HIDE DEF EnoughProbed
  <2> QED BY <1>l, <1>w DEF Standing
<1>4. Growing'
  BY <1>w DEF Growing
<1>5. Enough'
  BY <1>w, <1>l DEF Enough, EnoughBefore, EnoughRecent
<1>6. Founded'
  <2>1. Hands' /\ Since'
    BY <1>w, <1>l DEF Founded, Hands, Since
  <2>2. FoundedLook'
    BY DEF FoundedLook
  <2>3. FoundedCount'
    BY <1>w, <1>l DEF Founded, FoundedCount, Bound
  <2> QED BY <2>1, <2>2, <2>3 DEF Founded
<1>7. Calm'
  BY DEF Calm
<1> QED BY <1>1, <1>2, <1>3, <1>4, <1>5, <1>6, <1>7, Continues DEF Live, Undecided


(* An app's or a database's assessment, by what it rests on.                *)
LEMMA Assesses ==
    ASSUME TypeOK, Live, wait.pc = "judge", NEW step, step = Assessed(Gathered)
    PROVE  /\ step \in {"out_of_memory", "exited", "restart_loop", "ready", "unhealthy", "probe",
                        "wait"}
           /\ step = "out_of_memory" => Gathered.oom
           /\ step # "out_of_memory" => ~Gathered.oom
           /\ step \notin {"out_of_memory", "exited"} => wait.snap.status # "exited"
           /\ step = "restart_loop" => Gathered.restarts >= AppLoop
           /\ step \notin {"out_of_memory", "exited", "restart_loop"} =>
                Gathered.restarts < AppLoop
<1>1. Gathered.restarts \in Nat /\ AppLoop \in Nat
  BY Gathers, Constants
<1> QED BY <1>1 DEF Assessed

(* What a live container that outlasted its loop is judged by.              *)
LEMMA Recovered ==
    ASSUME TypeOK, Live, wait.pc = "judge", wait.kind = "live", truth.steady
    PROVE  /\ Gathered.restarts <= truth.last - truth.first
           /\ Prior = 0
<1>l. Counting /\ Standing /\ Enough /\ Calm
  BY DEF Live
<1>w. Watch /\ Known /\ wait.kind \in Kept /\ wait.before = 0 /\ truth.first # Unread
  <2>1. Watch /\ Known /\ wait.kind \in Kept
    BY <1>l DEF Standing, Kept
  <2> QED BY <2>1, <1>l DEF Standing
<1>1. wait.recent = 0
  BY <1>l, <1>w DEF Enough, EnoughRecent
<1>2. Prior = 0
  BY <1>1, <1>w DEF Prior
<1>3. Observed = truth.last - truth.first /\ Observed \in Nat
  BY <1>w, Observes
<1>4. wait.evidence.restarts <= truth.last - truth.first
  BY <1>l, <1>w DEF Calm
<1>5. Gathered.restarts \in {Prior + Observed, wait.evidence.restarts}
  BY Gathers
<1> QED BY <1>2, <1>3, <1>4, <1>5

LEMMA Concludes ==
    ASSUME TypeOK, Live, wait.pc = "judge", wait.kind \notin Worker,
           UNCHANGED <<clock, box, downs, byHand, truth, faults>>,
           wait' \in Wait, wait'.pc = "done", wait'.kind = wait.kind, wait'.snap = wait.snap,
           wait'.verdict = Assessed(Gathered),
           wait'.verdict \in {"out_of_memory", "exited", "restart_loop", "ready", "unhealthy"}
    PROVE  Inv'
<1> DEFINE step == Assessed(Gathered)
<1>a. /\ step = "out_of_memory" => Gathered.oom
      /\ step \notin {"out_of_memory", "exited"} => wait.snap.status # "exited"
      /\ step = "restart_loop" => Gathered.restarts >= AppLoop
      /\ step = "ready" => Gathered.restarts < AppLoop
  BY Assesses
<1>v. wait'.verdict = step /\ step # "none"
  OBVIOUS
<1> HIDE DEF step
<1>t. TypeOK'
  BY DEF TypeOK
<1>h. Threshold' = AppLoop /\ Threshold = AppLoop
  BY DEF Threshold
<1>n. Gathered.restarts \in Nat /\ AppLoop \in Nat /\ AppLoop > 0
      /\ Gathered.restarts >= Prior + Observed
      /\ Prior \in Nat /\ Observed \in Nat
  BY Gathers, Observes, Constants
<1>1. step = "restart_loop" /\ ~truth.down =>
        Cardinality({i \in DOMAIN downs :
                       wait.kind \in Kept \cup StoppedFirst => downs[i] + RecentWindow >= truth.from})
          >= AppLoop
  <2> SUFFICES ASSUME step = "restart_loop", ~truth.down
               PROVE  Tally(downs, wait.kind, truth.from, Len(downs)) >= AppLoop
    BY Total
  <2>1. Bound(Prior + Observed, Len(downs))
    BY <1>a, Real
  <2>2. Bound(wait.evidence.restarts, Len(downs))
    BY DEF Live, Founded, FoundedCount
  <2>3. Gathered.restarts \in {Prior + Observed, wait.evidence.restarts}
    BY Gathers
  <2>4. Gathered.restarts <= Tally(downs, wait.kind, truth.from, Len(downs))
    BY <2>1, <2>2, <2>3 DEF Bound
  <2>5. Tally(downs, wait.kind, truth.from, Len(downs)) \in Nat
    <3>1. Len(downs) \in 0 .. Len(downs)
      BY Typed
    <3> QED BY <3>1, Logged
  <2> QED BY <1>a, <1>n, <2>4, <2>5
<1>2. wait.kind \in {"live", "replica"} /\ truth.steady /\ truth.last = truth.first
        /\ wait.snap.status = "running" => step \notin {"restart_loop", "out_of_memory"}
  <2> SUFFICES ASSUME wait.kind \in {"live", "replica"}, truth.steady, truth.last = truth.first,
                      wait.snap.status = "running"
               PROVE  step \notin {"restart_loop", "out_of_memory"}
    OBVIOUS
  <2>1. wait.kind = "live"
    BY DEF Worker
  <2>2. Gathered.restarts = 0 /\ Prior = 0
    <3>1. truth.last - truth.first = 0
      BY Numbered DEF Numbers
    <3> QED BY <2>1, <3>1, <1>n, Recovered
  <2>3. Gathered.oom => MemoryKill(Gathered.restarts > Prior)
    BY Gathers
  <2>4. wait.kind \in Kept
    BY <2>1 DEF Kept
  <2>5. ~(Gathered.restarts > Prior)
    BY <2>2
  <2>6. ~Gathered.oom
    BY <2>3, <2>4, <2>5 DEF MemoryKill
  <2> QED BY <1>a, <1>n, <2>2, <2>6
<1>3. FailuresAreReal'
  BY <1>t, <1>v, <1>h, <1>1, <1>2 DEF FailuresAreReal
<1>4. LoopsAreNotReady'
  <2> SUFFICES ASSUME step = "ready", ~truth.short, wait.kind # "restarted"
               PROVE  LoopTruly < AppLoop
    <3>1. LoopTruly' = LoopTruly
      BY DEF LoopTruly
    <3> QED BY <3>1, <1>v, <1>h DEF LoopsAreNotReady
  <2>1. LoopTruly \in Nat /\ LoopTruly <= Prior + Observed
    BY Whole
  <2> QED BY <1>a, <1>n, <2>1
<1>5. StayedUp'
  BY DEF StayedUp
<1> QED BY <1>t, <1>v, <1>3, <1>4, <1>5 DEF Inv, Undecided

(* A wait for an app or a database that goes on with what it gathered.      *)
LEMMA Gathering ==
    ASSUME TypeOK, Undecided, Live, wait.pc = "judge", wait.kind \notin Worker,
           UNCHANGED <<clock, box, downs, byHand, truth, faults>>,
           Assessed(Gathered) \in {"wait", "probe", "ready"},
           wait' \in Wait, wait'.pc \in {"sleep", "probe"},
           wait'.kind = wait.kind, wait'.stage = wait.stage, wait'.baseline = wait.baseline,
           wait'.before = wait.before, wait'.recent = wait.recent,
           wait'.outlasted = wait.outlasted, wait'.verdict = wait.verdict,
           wait'.lastCount = wait.lastCount, wait'.upSince = wait.upSince,
           wait'.evidence = Gathered
    PROVE  Inv'
<1>a. /\ ~Gathered.oom /\ wait.snap.status # "exited" /\ Gathered.restarts < AppLoop
  BY Assesses
<1>n. Gathered.restarts \in Nat /\ AppLoop \in Nat
      /\ Gathered.restarts >= Prior + Observed
      /\ Gathered.restarts \in {Prior + Observed, wait.evidence.restarts}
      /\ Prior \in Nat /\ Observed \in Nat
  BY Gathers, Observes, Constants
<1>1. Gathered.restarts <= Tally(downs, wait.kind, truth.from, Len(downs)) \/ truth.down
  <2>1. Bound(Prior + Observed, Len(downs)) \/ truth.down
    BY <1>a, Real
  <2>2. Bound(wait.evidence.restarts, Len(downs)) \/ truth.down
    BY DEF Live, Founded, FoundedCount
  <2> QED BY <2>1, <2>2, <1>n DEF Bound
<1>2. wait.kind = "live" /\ truth.steady => Gathered.restarts <= truth.last - truth.first
  BY Recovered
<1>3. EnoughProbed'
  <2>1. LoopTruly' = LoopTruly
    BY DEF LoopTruly
  <2>2. ~truth.short /\ wait.kind # "restarted" => LoopTruly <= Gathered.restarts
    <3> SUFFICES ASSUME ~truth.short, wait.kind # "restarted" PROVE LoopTruly <= Gathered.restarts
      OBVIOUS
    <3>1. LoopTruly \in Nat /\ LoopTruly <= Prior + Observed
      BY Whole
    <3> QED BY <3>1, <1>n
  <2> QED BY <1>a, <2>1, <2>2 DEF EnoughProbed
<1>4. /\ wait.lastCount # Unread => wait.lastCount <= box.restarts
      /\ wait.upSince # Never =>
           /\ wait.lastCount # Unread /\ box.health = "none" /\ wait.upSince <= clock
           /\ box.restarts = wait.lastCount =>
                box.status # "restarting" /\ box.since <= wait.upSince
  BY DEF Live, Growing
<1> QED BY <1>a, <1>1, <1>2, <1>3, <1>4, GoesOn


LEMMA JudgesApp ==
    ASSUME TypeOK, wait.pc # "done", Undecided, Live, JudgeApp
    PROVE  Inv'
<1> DEFINE step == Assessed(Gathered)
<1>j. /\ wait.pc = "judge" /\ wait.kind \notin Worker
      /\ UNCHANGED <<clock, box, downs, byHand, truth, faults>>
  BY DEF JudgeApp
<1>g. Gathered \in Evidence
  BY <1>j, Gathers
<1>s. step \in {"out_of_memory", "exited", "restart_loop", "ready", "unhealthy", "probe", "wait"}
  BY <1>j, Assesses
<1>c. clock \in 0 .. MaxTime /\ NotSeen \in Container
  BY Typed, Constants DEF NotSeen, Container
<1>d. /\ step = "wait" => Pause(Gathered)
      /\ step = "probe" => wait' = [wait EXCEPT !.pc = "probe", !.evidence = Gathered,
                                                !.snap = NotSeen]
      /\ step \notin {"wait", "probe"} => wait' = [wait EXCEPT !.pc = "done", !.verdict = step,
                                                               !.evidence = Gathered]
  BY DEF JudgeApp
<1> DEFINE gathered == Gathered
<1> HIDE DEF step, gathered
<1>1. CASE step = "wait"
  <2>1. wait' = [wait EXCEPT !.pc = "sleep", !.evidence = gathered, !.at = clock, !.snap = NotSeen]
    BY <1>1, <1>d DEF Pause, gathered
  <2>2. gathered \in Evidence
    BY <1>g DEF gathered
  <2>3. /\ wait' \in Wait /\ wait'.pc = "sleep"
        /\ wait'.kind = wait.kind /\ wait'.stage = wait.stage /\ wait'.baseline = wait.baseline
        /\ wait'.before = wait.before /\ wait'.recent = wait.recent
        /\ wait'.outlasted = wait.outlasted /\ wait'.verdict = wait.verdict
        /\ wait'.lastCount = wait.lastCount /\ wait'.upSince = wait.upSince
        /\ wait'.evidence = gathered
    BY <2>1, <2>2, <1>c, Typed DEF Wait
  <2> QED BY <1>1, <1>j, <2>3, Gathering DEF step, gathered
<1>2. CASE step = "probe"
  <2>1. wait' = [wait EXCEPT !.pc = "probe", !.evidence = gathered, !.snap = NotSeen]
    BY <1>2, <1>d DEF gathered
  <2>2. gathered \in Evidence
    BY <1>g DEF gathered
  <2>3. /\ wait' \in Wait /\ wait'.pc = "probe"
        /\ wait'.kind = wait.kind /\ wait'.stage = wait.stage /\ wait'.baseline = wait.baseline
        /\ wait'.before = wait.before /\ wait'.recent = wait.recent
        /\ wait'.outlasted = wait.outlasted /\ wait'.verdict = wait.verdict
        /\ wait'.lastCount = wait.lastCount /\ wait'.upSince = wait.upSince
        /\ wait'.evidence = gathered
    BY <2>1, <2>2, <1>c, Typed DEF Wait
  <2> QED BY <1>2, <1>j, <2>3, Gathering DEF step, gathered
<1>3. CASE step \notin {"wait", "probe"}
  <2>1. wait' = [wait EXCEPT !.pc = "done", !.verdict = step, !.evidence = gathered]
    BY <1>3, <1>d DEF gathered
  <2>2. gathered \in Evidence /\ step \in Verdict
    BY <1>3, <1>g, <1>s DEF gathered, Verdict
  <2>3. /\ wait' \in Wait /\ wait'.pc = "done" /\ wait'.verdict = step
        /\ wait'.kind = wait.kind /\ wait'.snap = wait.snap
    BY <2>1, <2>2, Typed DEF Wait
  <2> QED BY <1>3, <1>j, <1>s, <2>3, Concludes DEF step
<1> QED BY <1>1, <1>2, <1>3

LEMMA JudgesDatabase ==
    ASSUME TypeOK, wait.pc # "done", Undecided, Live, JudgeDatabase
    PROVE  Inv'
<1> DEFINE step == Assessed(Gathered)
<1>j. /\ wait.pc = "judge" /\ wait.kind \notin Worker
      /\ UNCHANGED <<clock, box, downs, byHand, truth, faults>>
  BY DEF JudgeDatabase, Database, Worker
<1>g. Gathered \in Evidence
  BY <1>j, Gathers
<1>s. step \in {"out_of_memory", "exited", "restart_loop", "ready", "unhealthy", "probe", "wait"}
  BY <1>j, Assesses
<1>c. /\ clock \in 0 .. MaxTime /\ NotSeen \in Container
      /\ clock + ProbeInterval \in 0 .. MaxTime + ProbeInterval
  BY Typed, Constants DEF NotSeen, Container
<1>d. \/ /\ step \notin {"wait", "probe", "ready"}
         /\ wait' = [wait EXCEPT !.pc = "done", !.verdict = step, !.evidence = Gathered]
      \/ /\ step \in {"wait", "probe", "ready"}
         /\ wait' = [wait EXCEPT !.pc = "probe", !.evidence = Gathered,
                                 !.snap = NotSeen, !.nextProbe = clock + ProbeInterval]
      \/ /\ step \in {"wait", "probe", "ready"}
         /\ Pause(Gathered)
  BY DEF JudgeDatabase
<1> DEFINE gathered == Gathered
<1> HIDE DEF step, gathered
<1>e. gathered \in Evidence
  BY <1>g DEF gathered
<1>1. CASE step \in {"wait", "probe", "ready"} /\ Pause(Gathered)
  <2>1. wait' = [wait EXCEPT !.pc = "sleep", !.evidence = gathered, !.at = clock, !.snap = NotSeen]
    BY <1>1 DEF Pause, gathered
  <2>3. /\ wait' \in Wait /\ wait'.pc = "sleep"
        /\ wait'.kind = wait.kind /\ wait'.stage = wait.stage /\ wait'.baseline = wait.baseline
        /\ wait'.before = wait.before /\ wait'.recent = wait.recent
        /\ wait'.outlasted = wait.outlasted /\ wait'.verdict = wait.verdict
        /\ wait'.lastCount = wait.lastCount /\ wait'.upSince = wait.upSince
        /\ wait'.evidence = gathered
    BY <2>1, <1>e, <1>c, Typed DEF Wait
  <2> QED BY <1>1, <1>j, <2>3, Gathering DEF step, gathered
<1>2. CASE /\ step \in {"wait", "probe", "ready"}
           /\ wait' = [wait EXCEPT !.pc = "probe", !.evidence = Gathered,
                                   !.snap = NotSeen, !.nextProbe = clock + ProbeInterval]
  <2>1. wait' = [wait EXCEPT !.pc = "probe", !.evidence = gathered,
                             !.snap = NotSeen, !.nextProbe = clock + ProbeInterval]
    BY <1>2 DEF gathered
  <2>3. /\ wait' \in Wait /\ wait'.pc = "probe"
        /\ wait'.kind = wait.kind /\ wait'.stage = wait.stage /\ wait'.baseline = wait.baseline
        /\ wait'.before = wait.before /\ wait'.recent = wait.recent
        /\ wait'.outlasted = wait.outlasted /\ wait'.verdict = wait.verdict
        /\ wait'.lastCount = wait.lastCount /\ wait'.upSince = wait.upSince
        /\ wait'.evidence = gathered
    BY <2>1, <1>e, <1>c, Typed DEF Wait
  <2> QED BY <1>2, <1>j, <2>3, Gathering DEF step, gathered
<1>3. CASE /\ step \notin {"wait", "probe", "ready"}
           /\ wait' = [wait EXCEPT !.pc = "done", !.verdict = step, !.evidence = Gathered]
  <2>1. wait' = [wait EXCEPT !.pc = "done", !.verdict = step, !.evidence = gathered]
    BY <1>3 DEF gathered
  <2>2. step \in Verdict
    BY <1>3, <1>s DEF Verdict
  <2>3. /\ wait' \in Wait /\ wait'.pc = "done" /\ wait'.verdict = step
        /\ wait'.kind = wait.kind /\ wait'.snap = wait.snap
    BY <2>1, <2>2, <1>e, Typed DEF Wait
  <2> QED BY <1>3, <1>j, <1>s, <2>3, Concludes DEF step
<1> QED BY <1>d, <1>1, <1>2, <1>3

(* The instant a worker has been up since, of the process last seen.        *)
LEMMA Upheld ==
    ASSUME TypeOK, Live, wait.pc = "judge"
    PROVE  /\ UpSince \in 0 .. Never /\ UpSince \in Nat
           /\ UpSince # Never => /\ wait.snap.status = "running" /\ UpSince <= clock
                                 /\ wait.snap.since <= UpSince
<1>g. Growing
  BY DEF Live
<1>n. /\ clock \in Nat /\ wait.upSince \in Nat /\ wait.lastCount \in Nat
      /\ wait.snap.restarts \in Nat /\ wait.snap.since \in Nat
      /\ wait.upSince \in 0 .. Never /\ clock \in 0 .. Never /\ Never \in 0 .. Never
  <2>1. wait.upSince \in 0 .. Never /\ clock \in 0 .. MaxTime /\ MaxTime \in Nat
    BY Typed, Constants DEF Wait
  <2> QED BY <2>1, Numbered DEF Numbers, Never
<1>1. wait.upSince # Never => wait.lastCount # Unread /\ wait.upSince <= clock
  BY <1>g DEF Growing
<1>2. /\ wait.snap.since <= clock
      /\ wait.lastCount # Unread => wait.lastCount <= wait.snap.restarts
      /\ wait.upSince # Never /\ wait.snap.restarts = wait.lastCount =>
           wait.snap.since <= wait.upSince
  BY <1>g DEF Growing
<1>3. wait.upSince # Never /\ wait.snap.restarts <= wait.lastCount =>
        wait.snap.since <= wait.upSince
  BY <1>n, <1>1, <1>2
<1> QED BY <1>n, <1>1, <1>2, <1>3 DEF UpSince

LEMMA JudgesWorker ==
    ASSUME TypeOK, wait.pc # "done", Undecided, Live, JudgeWorker
    PROVE  Inv'
<1> USE DEF Before, Watch, Known, Windowed
<1>l. Counting /\ Standing /\ Growing /\ Enough /\ Founded /\ Calm
  BY DEF Live
<1> DEFINE checked == wait.snap.health # "none"
           verdict == IF wait.snap.status = "exited" THEN "exited"
                      ELSE IF WorkerRestarts >= WorkerLoop THEN "restart_loop"
                      ELSE IF wait.snap.health = "unhealthy" THEN "unhealthy"
                      ELSE IF /\ wait.snap.status = "running"
                              /\ IF checked THEN wait.snap.health = "healthy"
                                 ELSE clock - UpSince >= Grace
                      THEN "ready"
                      ELSE "none"
           up == IF checked THEN wait.upSince ELSE UpSince
           snap == IF verdict = "none" THEN NotSeen ELSE wait.snap
           pc == IF verdict = "none" THEN "sleep" ELSE "done"
<1>j. /\ wait.pc = "judge" /\ wait.kind \in Worker
      /\ UNCHANGED <<clock, box, downs, byHand, truth, faults>>
  BY DEF JudgeWorker
<1>d. wait' = [wait EXCEPT !.pc = pc, !.verdict = verdict, !.at = clock, !.snap = snap,
                           !.lastCount = wait.snap.restarts, !.upSince = up]
  BY DEF JudgeWorker
<1>u. /\ UpSince \in 0 .. Never /\ UpSince \in Nat
      /\ UpSince # Never => /\ wait.snap.status = "running" /\ UpSince <= clock
                            /\ wait.snap.since <= UpSince
  BY <1>j, Upheld
<1>n. /\ clock \in 0 .. MaxTime /\ clock \in Nat /\ Grace \in Nat /\ Never = MaxTime + 1
      /\ MaxTime \in Nat /\ wait.snap.since \in Nat
      /\ WorkerLoop \in Nat /\ WorkerLoop > 0
  BY Typed, Numbered, Constants DEF Numbers, Never
<1>v. /\ verdict \in {"none", "exited", "restart_loop", "unhealthy", "ready"}
      /\ verdict = "restart_loop" =>
           WorkerRestarts >= WorkerLoop /\ wait.snap.status # "exited"
      /\ verdict \in {"none", "ready"} =>
           ~(WorkerRestarts >= WorkerLoop) /\ wait.snap.status # "exited"
      /\ verdict = "ready" => /\ wait.snap.status = "running"
                              /\ ~checked => clock - UpSince >= Grace
  OBVIOUS
<1>p. pc \in {"sleep", "done"} /\ (pc = "done" <=> verdict # "none")
  OBVIOUS
<1>t. /\ up \in 0 .. Never /\ snap \in Container /\ wait.snap.restarts \in 0 .. Unread
  <2>1. wait.snap \in Container /\ wait.upSince \in 0 .. Never
    BY Typed DEF Wait
  <2>2. NotSeen \in Container
    BY Constants DEF NotSeen, Container
  <2>3. wait.snap.restarts \in 0 .. MaxDowns
    BY <2>1 DEF Container
  <2>4. wait.snap.restarts \in 0 .. Unread
    BY <2>3, Constants DEF Unread
  <2> QED BY <2>1, <2>2, <2>4, <1>u
<1>q. verdict # "none" => snap = wait.snap
  OBVIOUS
<1>up. up = IF checked THEN wait.upSince ELSE UpSince
  OBVIOUS
<1>vv. verdict \in Verdict
  BY <1>v DEF Verdict
<1> HIDE DEF verdict, up, snap, pc
<1>w. /\ wait' \in Wait /\ wait'.pc = pc /\ wait'.verdict = verdict /\ wait'.snap = snap
      /\ wait'.kind = wait.kind /\ wait'.stage = wait.stage /\ wait'.baseline = wait.baseline
      /\ wait'.before = wait.before /\ wait'.recent = wait.recent
      /\ wait'.outlasted = wait.outlasted
      /\ wait'.lastCount = wait.snap.restarts /\ wait'.upSince = up
      /\ wait'.evidence = wait.evidence
  BY <1>d, <1>n, <1>p, <1>t, <1>vv, Typed DEF Wait
<1>r. WorkerRestarts \in Nat
  <2>1. Observed \in Nat /\ wait.recent \in Nat /\ wait.before \in Nat
    BY <1>j, Observes, Numbered DEF Numbers
  <2> QED BY <2>1 DEF WorkerRestarts
<1>1. CASE verdict = "none"
  <2>1. wait'.pc = "sleep" /\ wait.snap.status # "exited" /\ wait'.verdict = wait.verdict
    BY <1>1, <1>p, <1>v, <1>w DEF Undecided
  <2>2. ~wait.evidence.oom
    BY <1>l DEF Standing
  <2>3. wait.evidence.restarts <= Tally(downs, wait.kind, truth.from, Len(downs)) \/ truth.down
    BY <1>l DEF Founded, FoundedCount, Bound
  <2>4. wait.kind # "live"
    BY <1>j DEF Worker
  <2>5. EnoughProbed'
    BY <2>1 DEF EnoughProbed
  <2>6. wait.snap.restarts <= box.restarts
    BY <1>l, <1>j DEF Growing
  <2>7. wait.snap.restarts # Unread
    <3>1. wait.snap \in Container
      BY Typed DEF Wait
    <3>2. wait.snap.restarts \in 0 .. MaxDowns
      BY <3>1 DEF Container
    <3> QED BY <3>2, Constants DEF Unread
  <2>8. up # Never =>
          /\ box.health = "none" /\ up <= clock
          /\ box.restarts = wait.snap.restarts =>
               box.status # "restarting" /\ box.since <= up
    <3>1. CASE checked
      <4>1. box.health # "none"
        BY <3>1, <1>l, <1>j DEF Growing
      <4>2. wait.upSince = Never
        BY <4>1, <1>l DEF Growing
      <4> QED BY <4>2, <3>1, <1>up
    <3>2. CASE ~checked
      <4>1. box.health = "none"
        BY <3>2, <1>l, <1>j DEF Growing
      <4>2. wait.snap.status = "running" /\ box.restarts = wait.snap.restarts =>
              box.status # "restarting" /\ box.since = wait.snap.since
        BY <1>l, <1>j DEF Growing
      <4> QED BY <3>2, <4>1, <4>2, <1>u, <1>up
    <3> QED BY <3>1, <3>2
  <2> HIDE DEF checked
  <2> QED BY <1>j, <1>w, <2>1, <2>2, <2>3, <2>4, <2>5, <2>6, <2>7, <2>8, GoesOn
<1>2. CASE verdict # "none"
  <2>1. wait'.pc = "done" /\ wait'.verdict # "none" /\ wait'.snap = wait.snap
    BY <1>2, <1>p, <1>q, <1>w
  <2>2. TypeOK'
    BY <1>j, <1>w DEF TypeOK
  <2>3. Threshold' = WorkerLoop
    BY <1>j, <1>w DEF Threshold
  <2>4. verdict = "restart_loop" /\ ~truth.down =>
          Cardinality({i \in DOMAIN downs :
                         wait.kind \in Kept \cup StoppedFirst => downs[i] + RecentWindow >= truth.from})
            >= WorkerLoop
    <3> SUFFICES ASSUME verdict = "restart_loop", ~truth.down
                 PROVE  Tally(downs, wait.kind, truth.from, Len(downs)) >= WorkerLoop
      BY Total
    <3>1. Bound(WorkerRestarts, Len(downs))
      BY <1>v, <1>j, Real
    <3>2. Tally(downs, wait.kind, truth.from, Len(downs)) \in Nat
      <4>1. Len(downs) \in 0 .. Len(downs)
        BY Typed
      <4> QED BY <4>1, Logged
    <3> QED BY <3>1, <3>2, <1>v, <1>r, <1>n DEF Bound
  <2>5. wait.kind \in {"live", "replica"} /\ truth.steady /\ truth.last = truth.first
          => verdict \notin {"restart_loop", "out_of_memory"}
    <3> SUFFICES ASSUME wait.kind \in {"live", "replica"}, truth.steady, truth.last = truth.first
                 PROVE  verdict \notin {"restart_loop", "out_of_memory"}
      OBVIOUS
    <3>1. wait.kind = "replica" /\ wait.kind \in Kept
      BY <1>j DEF Worker, Kept
    <3>2. Observed = 0
      <4>1. Observed = truth.last - truth.first
        BY <1>j, <3>1, Observes
      <4> QED BY <4>1, Numbered DEF Numbers
    <3>3. wait.outlasted
      <4>1. Known
        BY <1>l, <1>j DEF Standing
      <4> QED BY <4>1, <3>1, <1>l DEF Enough, EnoughRecent
    <3>4. WorkerRestarts = 0
      BY <3>1, <3>2, <3>3 DEF WorkerRestarts
    <3> QED BY <1>v, <1>n, <3>4
  <2>6. FailuresAreReal'
    BY <1>j, <1>w, <2>2, <2>3, <2>4, <2>5 DEF FailuresAreReal
  <2>7. LoopsAreNotReady'
    <3> SUFFICES ASSUME verdict = "ready", ~truth.short, wait.kind # "restarted"
                 PROVE  LoopTruly < WorkerLoop
      <4>1. LoopTruly' = LoopTruly
        BY <1>j, <1>w DEF LoopTruly
      <4> QED BY <4>1, <1>j, <1>w, <2>3 DEF LoopsAreNotReady
    <3>1. LoopTruly \in Nat /\ LoopTruly <= WorkerRestarts
      BY <1>j, Whole
    <3> QED BY <3>1, <1>v, <1>r, <1>n
  <2>8. StayedUp'
    <3> SUFFICES ASSUME verdict = "ready"
                 PROVE  /\ wait.snap.status = "running"
                        /\ wait.snap.health = "none" => wait.snap.since + Grace <= clock
      BY <1>j, <1>w, <2>1 DEF StayedUp
    <3>1. wait.snap.status = "running" /\ (~checked => clock - UpSince >= Grace)
      BY <1>v
    <3>2. ~checked => UpSince # Never
      BY <3>1, <1>n
    <3> QED BY <3>1, <3>2, <1>u, <1>n
  <2> QED BY <2>1, <2>2, <2>6, <2>7, <2>8 DEF Inv, Undecided
<1> QED BY <1>1, <1>2


LEMMA Probes ==
    ASSUME TypeOK, wait.pc # "done", Undecided, Live, Probe
    PROVE  Inv'
<1>l. Standing /\ Growing /\ Enough /\ Founded /\ Calm
  BY DEF Live
<1>j. wait.pc = "probe" /\ UNCHANGED <<clock, box, downs, byHand, truth, faults>>
  BY DEF Probe
<1>k. wait.kind \notin Worker
  BY <1>j, <1>l DEF Standing
<1>1. CASE Decide("ready")
  <2>1. wait' = [wait EXCEPT !.pc = "done", !.verdict = "ready"]
    BY <1>1 DEF Decide
  <2>2. /\ wait' \in Wait /\ wait'.pc = "done" /\ wait'.verdict = "ready"
        /\ wait'.kind = wait.kind
    BY <2>1, Typed DEF Wait, Verdict
  <2>3. TypeOK'
    BY <1>j, <2>2 DEF TypeOK
  <2>4. FailuresAreReal'
    BY <2>2, <2>3 DEF FailuresAreReal
  <2>5. LoopsAreNotReady'
    <3>1. Threshold' = AppLoop /\ LoopTruly' = LoopTruly
      BY <1>j, <1>k, <2>2 DEF Threshold, LoopTruly
    <3>2. wait.evidence.restarts < AppLoop
          /\ (~truth.short /\ wait.kind # "restarted" => LoopTruly <= wait.evidence.restarts)
      BY <1>j, <1>l DEF Enough, EnoughProbed
    <3>3. /\ wait.evidence.restarts \in Nat /\ AppLoop \in Nat
          /\ truth.before \in Nat /\ truth.recent \in Nat /\ truth.last \in Nat
          /\ truth.first \in Nat /\ truth.started \in Nat
      BY Numbered, Constants DEF Numbers
    <3>4. LoopTruly \in Int
      BY <3>3 DEF LoopTruly
    <3>5. ~truth.short /\ wait.kind # "restarted" => LoopTruly < AppLoop
      BY <3>2, <3>3, <3>4
    <3> QED BY <1>j, <2>2, <3>1, <3>5 DEF LoopsAreNotReady
  <2>6. StayedUp'
    BY <1>k, <2>2 DEF StayedUp
  <2> QED BY <2>2, <2>3, <2>4, <2>5, <2>6 DEF Inv, Undecided
<1>2. CASE Pause(wait.evidence)
  <2>c. clock \in 0 .. MaxTime /\ NotSeen \in Container
    BY Typed, Constants DEF NotSeen, Container
  <2>1. wait' = [wait EXCEPT !.pc = "sleep", !.evidence = wait.evidence, !.at = clock,
                             !.snap = NotSeen]
    BY <1>2 DEF Pause
  <2>2. /\ wait' \in Wait /\ wait'.pc = "sleep"
        /\ wait'.kind = wait.kind /\ wait'.stage = wait.stage /\ wait'.baseline = wait.baseline
        /\ wait'.before = wait.before /\ wait'.recent = wait.recent
        /\ wait'.outlasted = wait.outlasted /\ wait'.verdict = wait.verdict
        /\ wait'.lastCount = wait.lastCount /\ wait'.upSince = wait.upSince
        /\ wait'.evidence = wait.evidence
    BY <2>1, <2>c, Typed DEF Wait
  <2>3. ~wait.evidence.oom
    BY <1>l DEF Standing
  <2>4. wait.evidence.restarts <= Tally(downs, wait.kind, truth.from, Len(downs)) \/ truth.down
    BY <1>l DEF Founded, FoundedCount, Bound
  <2>5. wait.kind = "live" /\ truth.steady => wait.evidence.restarts <= truth.last - truth.first
    BY <1>j, <1>l DEF Calm, Standing, Kept
  <2>6. EnoughProbed'
    BY <2>2 DEF EnoughProbed
  <2>7. /\ wait.lastCount # Unread => wait.lastCount <= box.restarts
        /\ wait.upSince # Never =>
             /\ wait.lastCount # Unread /\ box.health = "none" /\ wait.upSince <= clock
             /\ box.restarts = wait.lastCount =>
                  box.status # "restarting" /\ box.since <= wait.upSince
    BY <1>l DEF Growing
  <2> QED BY <1>j, <2>2, <2>3, <2>4, <2>5, <2>6, <2>7, GoesOn
<1> QED BY <1>1, <1>2 DEF Probe

LEMMA Fails ==
    ASSUME TypeOK, wait.pc # "done", Undecided, Live, CallFails
    PROVE  Inv'
<1>1. faults' \in 0 .. MaxFaults
  BY Typed, Constants DEF CallFails, Fault
<1>2. CASE Decide("error") /\ UNCHANGED truth
  <2>1. "error" \in Verdict
    BY DEF Verdict
  <2> QED BY <1>1, <1>2, <2>1, Decides DEF CallFails
<1>3. CASE wait.pc = "inspect" /\ Before /\ Unseen
  BY <1>1, <1>3, GoesOnUnseen DEF CallFails
<1> QED BY <1>2, <1>3 DEF CallFails, Before

----------------------------------------------------------------------------
(* The invariant.                                                           *)
LEMMA Initial ==
    Init => Inv
<1> SUFFICES ASSUME Init PROVE Inv
  OBVIOUS
<1> USE DEF Before, Watch, Known, Windowed
<1>c. /\ MaxTime \in Nat /\ MaxDowns \in Nat /\ MaxFaults \in Nat /\ Timeout \in Nat
      /\ ProbeInterval \in Nat /\ Unread = MaxDowns + 1 /\ Never = MaxTime + 1
      /\ Kinds \subseteq {"candidate", "live", "undone", "worker", "replica", "restored",
                          "database", "restarted"}
  BY Constants, ReadinessAssumption DEF Unread, Never
<1>0. /\ clock = 0 /\ downs = <<>> /\ byHand = <<>> /\ faults = 0
      /\ truth = [from |-> Never, before |-> 0, recent |-> 0, steady |-> FALSE, started |-> 0,
                  first |-> Unread, last |-> 0, short |-> FALSE, blind |-> FALSE,
                  down |-> FALSE]
  BY DEF Init
<1>1. PICK kind \in Kinds :
        /\ \E health \in (IF kind \in StoppedFirst THEN {"none"} ELSE {"none", "starting"}) :
             box = [status |-> "running", restarts |-> 0, since |-> 0, oom |-> FALSE,
                    health |-> health]
        /\ wait = [kind |-> kind, pc |-> "idle",
                   stage |-> IF kind \in StoppedFirst THEN "before" ELSE "watch",
                   at |-> 0, exits |-> 0, snap |-> NotSeen, deadline |-> 0, nextProbe |-> 0,
                   baseline |-> IF kind \in Kept THEN Unread ELSE 0, before |-> 0, recent |-> 0,
                   outlasted |-> FALSE, oomAtStart |-> FALSE, evidence |-> NoEvidence,
                   lastCount |-> Unread, upSince |-> Never, verdict |-> "none"]
  BY DEF Init
<1>2. PICK health \in {"none", "starting"} :
        box = [status |-> "running", restarts |-> 0, since |-> 0, oom |-> FALSE,
               health |-> health]
  BY <1>1
<1>b. box \in Container /\ box.restarts = 0 /\ box.since = 0 /\ box.status = "running"
  BY <1>2, <1>c DEF Container
<1>t. /\ truth \in Truth /\ truth.from = Never /\ truth.before = 0 /\ truth.recent = 0
      /\ truth.steady = FALSE /\ truth.started = 0 /\ truth.first = Unread /\ truth.last = 0
      /\ truth.short = FALSE /\ truth.blind = FALSE /\ truth.down = FALSE
  BY <1>0, <1>c DEF Truth
<1>w. /\ wait \in Wait /\ wait.kind = kind /\ wait.pc = "idle"
      /\ wait.stage = (IF kind \in StoppedFirst THEN "before" ELSE "watch")
      /\ wait.baseline = (IF kind \in Kept THEN Unread ELSE 0)
      /\ wait.before = 0 /\ wait.recent = 0 /\ wait.evidence = NoEvidence
      /\ wait.lastCount = Unread /\ wait.upSince = Never /\ wait.verdict = "none"
  <2>1. NotSeen \in Container /\ NoEvidence \in Evidence
    BY <1>c DEF NotSeen, NoEvidence, Container, Evidence
  <2>2. /\ 0 \in 0 .. MaxTime /\ 0 \in 0 .. MaxTime + Timeout /\ 0 \in 0 .. MaxTime + ProbeInterval
        /\ 0 \in 0 .. MaxDowns /\ 0 \in 0 .. Unread /\ Unread \in 0 .. Unread
        /\ Never \in 0 .. Never
    BY <1>c
  <2>3. "none" \in Verdict
    BY DEF Verdict
  <2> QED BY <1>1, <2>1, <2>2, <2>3 DEF Wait
<1>e. wait.evidence.restarts = 0 /\ wait.evidence.oom = FALSE
  BY <1>w DEF NoEvidence
<1>l. Len(downs) = 0 /\ downs \in Seq(0 .. MaxTime) /\ byHand \in Seq(0 .. MaxTime)
  BY <1>0
<1>3. TypeOK
  BY <1>0, <1>b, <1>c, <1>l, <1>t, <1>w DEF TypeOK
<1>4. Counting
  BY <1>0, <1>b, <1>c, <1>l, <1>t DEF Counting
<1>5. Standing
  BY <1>c, <1>t, <1>w, <1>e DEF Standing, Kept, StoppedFirst
<1>6. Growing
  BY <1>w DEF Growing
<1>7. Enough
  <2>1. EnoughBefore /\ EnoughRecent
    BY <1>c, <1>t, <1>w DEF EnoughBefore, EnoughRecent
  <2>2. EnoughProbed
    BY <1>w DEF EnoughProbed
  <2> QED BY <2>1, <2>2 DEF Enough
<1>8. Founded
  <2>1. Hands /\ FoundedLook
    BY <1>0, <1>w DEF Hands, FoundedLook
  <2>2. FoundedCount
    <3>1. Len(downs) \in 0 .. Len(downs)
      BY <1>l
    <3>2. 0 <= Tally(downs, wait.kind, truth.from, Len(downs))
      BY <1>3, <3>1, Logged
    <3> QED BY <1>c, <1>w, <1>e, <3>2 DEF FoundedCount, Bound, Kept, StoppedFirst
  <2>3. Since
    BY <1>t, <1>w DEF Since
  <2> QED BY <2>1, <2>2, <2>3 DEF Founded
<1>9. Calm
  BY <1>t DEF Calm
<1>10. FailuresAreReal /\ LoopsAreNotReady /\ StayedUp
  BY <1>3, <1>w DEF FailuresAreReal, LoopsAreNotReady, StayedUp
<1> QED BY <1>3, <1>4, <1>5, <1>6, <1>7, <1>8, <1>9, <1>10, <1>w DEF Inv, Live, Undecided

LEMMA Preserved ==
    ASSUME Inv, Next
    PROVE  Inv'
<1>1. TypeOK /\ wait.pc # "done" /\ Undecided /\ Live
  BY Alive
<1>2. CASE Tick
  BY <1>1, <1>2, Ticks
<1>3. CASE GoesDown
  BY <1>1, <1>3, Crashes
<1>4. CASE ComesUp
  BY <1>1, <1>4, Returns
<1>5. CASE OutlivesKill \/ HealthChanges
  BY <1>1, <1>5, Lives
<1>6. CASE TakenAway
  BY <1>1, <1>6, Taken
<1>7. CASE Ask
  BY <1>1, <1>7, Asks
<1>8. CASE Begin
  BY <1>1, <1>8, Begins
<1>9. CASE Inspect
  BY <1>1, <1>9, Inspects
<1>10. CASE Count
  BY <1>1, <1>10, Counts
<1>11. CASE JudgeApp
  BY <1>1, <1>11, JudgesApp
<1>12. CASE JudgeDatabase
  BY <1>1, <1>12, JudgesDatabase
<1>13. CASE JudgeWorker
  BY <1>1, <1>13, JudgesWorker
<1>14. CASE Probe
  BY <1>1, <1>14, Probes
<1>15. CASE StopByHand
  BY <1>1, <1>15, Stops
<1>16. CASE StartByHand
  BY <1>1, <1>16, Starts
<1>17. CASE CallFails
  BY <1>1, <1>17, Fails
<1> QED BY <1>2, <1>3, <1>4, <1>5, <1>6, <1>7, <1>8, <1>9, <1>10, <1>11, <1>12, <1>13, <1>14,
           <1>15, <1>16, <1>17 DEF Next, Docker, Look

LEMMA Stutters ==
    ASSUME Inv, UNCHANGED vars
    PROVE  Inv'
<1>1. /\ clock' = clock /\ box' = box /\ downs' = downs /\ byHand' = byHand
      /\ wait' = wait /\ truth' = truth /\ faults' = faults
  BY DEF vars
<1>2. TypeOK' /\ (wait.pc = "done" <=> ~Undecided)'
  BY <1>1 DEF Inv, TypeOK, Undecided
<1>3. (wait.pc # "done" => Live)'
  <2> SUFFICES ASSUME wait.pc # "done" PROVE Live'
    BY <1>1
  <2>1. Live
    BY DEF Inv
  <2>2. LoopTruly' = LoopTruly
        /\ Outlasted(wait.snap, wait.at)' = Outlasted(wait.snap, wait.at)
    BY <1>1 DEF LoopTruly, Outlasted, Threshold
  <2>3. Counting' /\ Standing'
    BY <1>1, <2>1 DEF Live, Counting, Standing, Before, Watch, Known, Windowed
  <2>4. Growing' /\ Calm'
    BY <1>1, <2>1 DEF Live, Growing, Calm, Before, Watch
  <2>5. Enough'
    BY <1>1, <2>1, <2>2
       DEF Live, Enough, EnoughBefore, EnoughRecent, EnoughProbed, Before, Watch, Known
  <2>6. Founded'
    BY <1>1, <2>1
       DEF Live, Founded, Hands, FoundedLook, FoundedCount, Since, Bound, Before, Watch, Known
  <2> QED BY <2>3, <2>4, <2>5, <2>6 DEF Live
<1>4. FailuresAreReal' /\ LoopsAreNotReady' /\ StayedUp'
  <2>1. LoopTruly' = LoopTruly /\ Threshold' = Threshold
    BY <1>1 DEF LoopTruly, Threshold
  <2>2. FailuresAreReal'
    BY <1>1, <1>2, <2>1 DEF Inv, FailuresAreReal
  <2>3. LoopsAreNotReady' /\ StayedUp'
    BY <1>1, <2>1 DEF Inv, LoopsAreNotReady, StayedUp
  <2> QED BY <2>2, <2>3
<1> QED BY <1>2, <1>3, <1>4 DEF Inv

(* Whatever Docker and the other hands do between two awaits, the evidence a *)
(* wait carries is neither less nor more than what happened: waitForApp...,  *)
(* waitForWorker... and waitForDatabaseReadiness.                           *)
THEOREM EvidenceHolds ==
    Spec => []Inv
<1>1. Init => Inv
  BY Initial
<1>2. Inv /\ [Next]_vars => Inv'
  BY Preserved, Stutters
<1> QED BY <1>1, <1>2, PTL DEF Spec

(* A container called looping went down that often in its window, and one    *)
(* that recovered before the wait is not failed for what it recovered from:  *)
(* countRecentRestarts, countRestartLoop, recordEvidence.                    *)
THEOREM FailuresReal ==
    Spec => []FailuresAreReal
<1>1. Inv => FailuresAreReal
  BY DEF Inv
<1> QED BY <1>1, EvidenceHolds, PTL

(* A container in a restart loop is not made ready by being found up, as     *)
(* far as inspections that answered could show: what was swallowed before a  *)
(* quiesce, and a database restarted on request, are excepted.               *)
THEOREM LoopsNotReady ==
    Spec => []LoopsAreNotReady
<1>1. Inv => LoopsAreNotReady
  BY DEF Inv
<1> QED BY <1>1, EvidenceHolds, PTL

(* A worker without a health check is ready only when the process last seen *)
(* has run for the grace period: runningSince in waitForWorkerReadiness.    *)
THEOREM WorkersStayedUp ==
    Spec => []StayedUp
<1>1. Inv => StayedUp
  BY DEF Inv
<1> QED BY <1>1, EvidenceHolds, PTL
=============================================================================
