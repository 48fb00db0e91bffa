---------------------------- MODULE HeartbeatProofs ----------------------------
(***************************************************************************)
(* Proofs about Heartbeat, for any failure limit, any configurations and    *)
(* any number of faults: how long the loop can be silent, that it never     *)
(* overlaps attempts, and that it gives up on a host only when it should.   *)
(* And, further down, about the log collector and the ingress it keeps     *)
(* configured, and the inventory of the databases that it carries.         *)
(***************************************************************************)
EXTENDS Heartbeat, SequenceTheorems, TLAPS

USE HeartbeatAssumption

(* An attempt is only ever under way in boot, in a race, or awaited.        *)
Waited ==
    /\ atOnce = 1
    /\ loop.pc = "waiting" /\ ~loop.inFlight => work.pc = "idle"

(* Silence against the counters: a failure counts for one tick at least and *)
(* for Limit at most, its own and those skipped over its attempt.           *)
Counted ==
    /\ loop.failures < Limit /\ loop.skips < Limit
    /\ loop.pc = "boot" => silence = 0
    /\ loop.pc = "racing" => /\ loop.skips = 0
                             /\ loop.failures + 1 <= silence
                             /\ silence <= loop.failures * Limit + 1
    /\ loop.pc = "waiting" /\ ~loop.inFlight => /\ loop.failures <= silence
                                                /\ silence <= loop.failures * Limit
                                                /\ loop.skips = 0
    /\ loop.pc = "waiting" /\ loop.inFlight =>
         /\ loop.failures + loop.skips <= silence
         /\ silence + Limit <= loop.failures * Limit + 1 + loop.skips

Inv == TypeOK /\ Waited /\ Counted

(* One more failure or skip counts for one more period, by arithmetic alone. *)
LEMMA OneMore ==
    ASSUME NEW n \in Nat
    PROVE  /\ n * Limit \in Nat
           /\ (n + 1) * Limit = n * Limit + Limit
           /\ n < Limit => n * Limit <= Limit * (Limit - 1)
<1>1. n * Limit \in Nat /\ (n + 1) * Limit = n * Limit + Limit
  OBVIOUS
<1>2. ASSUME n < Limit PROVE n * Limit <= Limit * (Limit - 1)
  <2> DEFINE k == Limit - 1 - n
  <2>1. k \in Nat /\ Limit - 1 = n + k
    BY <1>2
  <2> HIDE DEF k
  <2>2. k * Limit \in Nat /\ (n + k) * Limit = n * Limit + k * Limit
    BY <2>1
  <2>3. Limit * (Limit - 1) = (n + k) * Limit
    BY <2>1
  <2> QED BY <1>1, <2>2, <2>3
<1> QED BY <1>1, <1>2

(* The counters bound the silence.                                          *)
LEMMA Bounded == ASSUME Inv PROVE SilenceIsShort
<1>1. loop.failures \in Nat /\ loop.skips \in Nat /\ silence \in Nat
      /\ loop.pc \in {"boot", "waiting", "racing"} /\ loop.inFlight \in BOOLEAN
  BY DEF Inv, TypeOK, Loop
<1>2. loop.failures * Limit \in Nat /\ loop.failures * Limit <= Limit * (Limit - 1)
  BY <1>1, OneMore DEF Inv, Counted
<1>3. Limit * (Limit - 1) \in Nat
  OBVIOUS
<1>4. silence <= Limit * (Limit - 1) + 1
  BY <1>1, <1>2, <1>3 DEF Inv, Counted
<1> QED BY <1>4 DEF Inv, Waited, SilenceIsShort

----------------------------------------------------------------------------
(* How a tick ends.                                                         *)

(* What the assumption on the constants gives the type checks.               *)
LEMMA Bounds == MaxConfigs \in Nat /\ MaxFaults \in Nat /\ 0 \in Config
  BY DEF Config

(* Where an attempt starts, and where it has ended.                         *)
LEMMA Starts ==
    /\ NoWork \in Work /\ NoWork.pc = "idle"
    /\ At("snapshot") \in Work /\ At("snapshot").pc = "snapshot"
    /\ At("resnapshot") \in Work /\ At("resnapshot").pc = "resnapshot"
<1>1. NoWork \in Work /\ NoWork.pc = "idle"
  BY Bounds DEF NoWork, Work, Token
<1> QED BY <1>1 DEF At, Work

(* What the counters hold, with the products the provers need named.        *)
LEMMA Counters ==
    ASSUME Inv
    PROVE  /\ loop.failures \in Nat /\ loop.skips \in Nat /\ silence \in Nat
           /\ loop.pc \in {"boot", "waiting", "racing"} /\ loop.inFlight \in BOOLEAN
           /\ loop.failures < Limit /\ loop.skips < Limit
           /\ loop.failures * Limit \in Nat
           /\ (loop.failures + 1) * Limit = loop.failures * Limit + Limit
<1>1. /\ loop.failures \in Nat /\ loop.skips \in Nat /\ silence \in Nat
      /\ loop.pc \in {"boot", "waiting", "racing"} /\ loop.inFlight \in BOOLEAN
      /\ loop.failures < Limit /\ loop.skips < Limit
  BY DEF Inv, TypeOK, Loop, Counted
<1> QED BY <1>1, OneMore

(* What is neither loop nor history may change freely.                      *)
LEMMA Quiet ==
    ASSUME Inv, TypeOK', UNCHANGED <<loop, silence, atOnce>>,
           work.pc = "idle" => work'.pc = "idle"
    PROVE  Inv'
<1>1. Waited'
  BY DEF Inv, Waited
<1>2. Counted'
  BY DEF Inv, Counted
<1> QED BY <1>1, <1>2 DEF Inv

(* A process that starts anew has counted nothing.                          *)
LEMMA RestartInv ==
    ASSUME Inv, NEW why \in {"crash", "boot", "limit"}, Restart(why),
           UNCHANGED current, faults' \in 0 .. MaxFaults
    PROVE  Inv'
<1>1. loop' = Booting /\ work' = FirstWork /\ silence' = 0 /\ atOnce' = 1
  BY DEF Restart
<1>2. Booting \in Loop /\ FirstWork \in Work
  BY Starts DEF Booting, Loop, FirstWork
<1>3. TypeOK'
  <2>1. /\ current' \in Config \ {0} /\ config' \in Config /\ {stored', token'} \subseteq Token
        /\ used' \in BOOLEAN /\ ticket' \in {"none", "good", "spent"}
        /\ ended' \in {"nothing", "crash", "boot", "limit"}
    BY Bounds DEF Restart, Inv, TypeOK, Config
  <2>2. loop' \in Loop /\ work' \in Work /\ silence' \in Nat /\ atOnce' \in 1 .. 2
    BY <1>1, <1>2
  <2>3. Config' = Config /\ Token' = Token /\ Loop' = Loop /\ Work' = Work
    BY DEF Config, Token, Loop, Work
  <2> QED BY <2>1, <2>2, <2>3 DEF TypeOK
<1>4. Waited' /\ Counted'
  BY <1>1 DEF Booting, Waited, Counted
<1> QED BY <1>3, <1>4 DEF Inv

(* A failure counts for its tick; what it leaves in flight is waited for.   *)
LEMMA RecordFailureInv ==
    ASSUME Inv, loop.pc = "racing", NEW inFlight \in BOOLEAN, RecordFailure(0, inFlight),
           UNCHANGED current, faults' \in 0 .. MaxFaults
    PROVE  Inv'
<1>1. CASE loop.failures + 1 >= Limit
  BY <1>1, RestartInv DEF RecordFailure
<1>2. CASE ~(loop.failures + 1 >= Limit)
  <2>1. /\ loop' = [pc |-> "waiting", failures |-> loop.failures + 1, skips |-> 0,
                    inFlight |-> inFlight]
        /\ work' = IF inFlight THEN [work EXCEPT !.aborted = TRUE] ELSE NoWork
        /\ UNCHANGED <<stored, token, used, ticket, config, atOnce, ended, silence>>
    BY <1>2 DEF RecordFailure, KeepsRest, identity
  <2>2. loop' \in Loop
    BY <1>2, <2>1, Counters DEF Loop
  <2>3. work' \in Work
    <3>1. work \in Work /\ [work EXCEPT !.aborted = TRUE] \in Work
      BY DEF Inv, TypeOK, Work
    <3> QED BY <2>1, <3>1, Starts
  <2>4. TypeOK'
    BY <2>1, <2>2, <2>3 DEF Inv, TypeOK, Config
  <2>5. Waited'
    BY <2>1 DEF Inv, Waited, NoWork
  <2>6. /\ loop.failures + 1 <= silence
        /\ silence <= loop.failures * Limit + 1
    BY DEF Inv, Counted
  <2>7. Counted'
    BY <1>2, <2>1, <2>6, Counters DEF Counted
  <2> QED BY <2>4, <2>5, <2>7 DEF Inv
<1> QED BY <1>1, <1>2

(* A skip counts for its tick, up to the end of the process.                *)
LEMMA RecordSkipInv ==
    ASSUME Inv, loop.pc = "waiting", loop.inFlight, RecordSkip, UNCHANGED <<current, faults>>
    PROVE  Inv'
<1>0. faults' \in 0 .. MaxFaults
  BY DEF Inv, TypeOK
<1>1. CASE loop.skips + 1 >= Limit
  BY <1>0, <1>1, RestartInv DEF RecordSkip
<1>2. CASE ~(loop.skips + 1 >= Limit)
  <2>1. /\ loop' = [loop EXCEPT !.skips = @ + 1]
        /\ silence' = silence + 1
        /\ UNCHANGED <<stored, token, used, ticket, config, atOnce, ended, work>>
    BY <1>2 DEF RecordSkip, KeepsRest, identity
  <2>2. loop \in Loop
    BY DEF Inv, TypeOK
  <2>3. /\ loop'.pc = "waiting" /\ loop'.inFlight /\ loop'.failures = loop.failures
        /\ loop'.skips = loop.skips + 1 /\ loop' \in Loop
    BY <1>2, <2>1, <2>2, Counters DEF Loop
  <2>4. TypeOK'
    BY <1>0, <2>1, <2>3, Counters DEF Inv, TypeOK, Config
  <2>5. Waited'
    BY <2>1, <2>3 DEF Inv, Waited
  <2>6. /\ loop.failures + loop.skips <= silence
        /\ silence + Limit <= loop.failures * Limit + 1 + loop.skips
    BY DEF Inv, Counted
  <2>7. Counted'
    BY <1>2, <2>1, <2>3, <2>6, Counters DEF Counted
  <2> QED BY <2>4, <2>5, <2>7 DEF Inv
<1> QED BY <1>1, <1>2

(* The timer starts an attempt when none is under way.                      *)
LEMMA FireInv == ASSUME Inv, Fire PROVE Inv'
<1>1. CASE loop.inFlight
  BY <1>1, RecordSkipInv DEF Fire
<1>2. CASE ~loop.inFlight
  <2>1. /\ loop' = [loop EXCEPT !.pc = "racing", !.inFlight = TRUE]
        /\ work' = At("snapshot") /\ atOnce' = IF work.pc = "idle" THEN 1 ELSE 2
        /\ silence' = silence + 1 /\ loop.pc = "waiting"
        /\ UNCHANGED <<stored, token, used, ticket, config, ended, current, faults>>
    BY <1>2 DEF Fire, identity
  <2>2. loop \in Loop
    BY DEF Inv, TypeOK
  <2>3. /\ loop'.pc = "racing" /\ loop'.failures = loop.failures
        /\ loop'.skips = loop.skips /\ loop' \in Loop
    BY <2>1, <2>2 DEF Loop
  <2>4. atOnce' = 1
    BY <1>2, <2>1 DEF Inv, Waited
  <2>5. work' \in Work
    BY <2>1, Starts
  <2>6. TypeOK'
    BY <2>1, <2>3, <2>4, <2>5, Counters DEF Inv, TypeOK, Config
  <2>7. Waited'
    BY <2>3, <2>4 DEF Waited
  <2>8. loop.failures <= silence /\ silence <= loop.failures * Limit /\ loop.skips = 0
    BY <1>2, <2>1 DEF Inv, Counted
  <2>9. Counted'
    BY <2>1, <2>3, <2>8, Counters DEF Counted
  <2> QED BY <2>6, <2>7, <2>9 DEF Inv
<1> QED BY <1>1, <1>2 DEF Inv, TypeOK, Loop

(* The deadline leaves an attempt in flight, waited for by the loop.         *)
LEMMA DeadlineInv == ASSUME Inv, Deadline PROVE Inv'
<1>1. loop.skips = 0 /\ loop.pc = "racing" /\ faults' \in 0 .. MaxFaults /\ UNCHANGED current
  BY DEF Inv, Counted, TypeOK, Deadline
<1>2. RecordFailure(0, TRUE)
  BY <1>1 DEF Deadline
<1> QED BY <1>1, <1>2, RecordFailureInv

(* An attempt that settles was under way: in time, or waited for.           *)
LEMMA FailedInv ==
    ASSUME Inv, Failed, work.pc # "idle", UNCHANGED current, faults' \in 0 .. MaxFaults
    PROVE  Inv'
<1>1. CASE loop.pc = "boot"
  BY <1>1, RestartInv DEF Failed
<1>2. CASE loop.pc = "racing"
  BY <1>2, RecordFailureInv DEF Failed
<1>3. CASE loop.pc = "waiting"
  <2>1. /\ loop' = [loop EXCEPT !.skips = 0, !.inFlight = FALSE] /\ work' = NoWork
        /\ UNCHANGED <<stored, token, used, ticket, config, atOnce, ended, silence>>
    BY <1>3 DEF Failed, KeepsRest, identity
  <2>2. loop \in Loop /\ loop.inFlight
    BY <1>3 DEF Inv, TypeOK, Waited, Loop
  <2>3. /\ loop'.pc = "waiting" /\ loop'.failures = loop.failures /\ loop'.inFlight = FALSE
        /\ loop'.skips = 0
    BY <1>3, <2>1, <2>2 DEF Loop
  <2>9. loop' \in Loop
    <3>1. 0 \in 0 .. Limit
      OBVIOUS
    <3> QED BY <2>1, <2>2, <3>1 DEF Loop
  <2>4. work' \in Work
    BY <2>1, Starts
  <2>5. TypeOK'
    BY <2>1, <2>4, <2>9 DEF Inv, TypeOK, Config
  <2>6. Waited'
    BY <2>1, <2>3 DEF Inv, Waited, NoWork
  <2>7. /\ loop.failures + loop.skips <= silence
        /\ silence + Limit <= loop.failures * Limit + 1 + loop.skips
    BY <1>3, <2>2 DEF Inv, Counted
  <2>8. Counted'
    BY <2>1, <2>3, <2>7, Counters DEF Counted
  <2> QED BY <2>5, <2>6, <2>8 DEF Inv
<1> QED BY <1>1, <1>2, <1>3, Counters

(* A success ends the silence and clears both counters.                      *)
LEMMA SucceededInv ==
    ASSUME Inv, NEW answer \in Config, Succeeded(answer), UNCHANGED <<current, faults>>
    PROVE  Inv'
<1>1. /\ loop' = [pc |-> "waiting", failures |-> 0, skips |-> 0, inFlight |-> FALSE]
      /\ work' = NoWork /\ config' = answer /\ silence' = 0
      /\ UNCHANGED <<stored, token, used, ticket, atOnce, ended>>
  BY DEF Succeeded, identity
<1>2. loop' \in Loop /\ work' \in Work
  BY <1>1, Starts DEF Loop
<1>3. TypeOK'
  BY <1>1, <1>2 DEF Inv, TypeOK, Config
<1>4. Waited' /\ Counted'
  BY <1>1 DEF Inv, Waited, Counted, NoWork
<1> QED BY <1>3, <1>4 DEF Inv

----------------------------------------------------------------------------
(* The steps of an attempt, and everything around it.                       *)

(* The calls of an attempt: each is taken while the attempt is in flight.    *)
LEMMA AttemptInv == ASSUME Inv, Attempt PROVE Inv'
<1>0. TypeOK /\ work \in Work /\ faults \in 0 .. MaxFaults
  BY DEF Inv, TypeOK
<1>1. CASE Snapshot
  <2>1. TypeOK'
    BY <1>0, <1>1 DEF TypeOK, Snapshot, Step, Then, Work, identity, Config
  <2> QED BY <1>1, <2>1, Quiet DEF Snapshot, Step
<1>2. CASE Request
  <2>1. CASE token # "valid" /\ (used \/ ticket = "none")
    BY <1>0, <1>2, <2>1, FailedInv DEF Request, Step
  <2>2. CASE ~(token # "valid" /\ (used \/ ticket = "none"))
    <3>1. /\ work' \in Work /\ work.pc = "request"
          /\ UNCHANGED <<identity, config, loop, silence, atOnce, ended, current, faults>>
      BY <1>0, <1>2, <2>2 DEF Request, TypeOK, Step, Then, Work, identity, Config
    <3>2. TypeOK'
      BY <1>0, <3>1 DEF TypeOK, identity, Config
    <3> QED BY <3>1, <3>2, Quiet
  <2> QED BY <2>1, <2>2
<1>3. CASE Apply
  <2>1. work.answer \in Config
    BY <1>0 DEF Work
  <2> QED BY <1>3, <2>1, SucceededInv DEF Apply
<1>4. CASE Resnapshot
  <2>1. TypeOK'
    BY <1>0, <1>4 DEF TypeOK, Resnapshot, Step, Then, Work, identity, Config
  <2> QED BY <1>4, <2>1, Quiet DEF Resnapshot, Step
<1>5. CASE Register
  <2>1. CASE Registers /\ work' = [work EXCEPT !.pc = "store", !.answer = current, !.fresh = "valid"]
    <3>1. work' \in Work
      BY <1>0, <2>1 DEF TypeOK, Work, Config, Token
    <3>2. TypeOK'
      BY <1>0, <1>5, <2>1, <3>1 DEF TypeOK, Register, Registers, Outdated, Token, Config
    <3> QED BY <2>1, <3>2, Quiet DEF Registers, Step
  <2>2. CASE Step("register") /\ Failed /\ UNCHANGED current
    BY <1>0, <1>5, <2>2, FailedInv DEF Register, Step
  <2> QED BY <1>5, <2>1, <2>2 DEF Register
<1>6. CASE Store
  <2>1. work.answer \in Config /\ work.fresh \in Token /\ [work EXCEPT !.pc = "apply"] \in Work
    BY <1>0 DEF Work
  <2>2. work' \in Work /\ config' \in Config
    BY <1>0, <1>6, <2>1, Starts DEF Store, TypeOK, Then
  <2>3. TypeOK'
    BY <1>0, <1>6, <2>1, <2>2 DEF TypeOK, Store, Config
  <2> QED BY <1>6, <2>3, Quiet DEF Store, Step
<1>7. CASE Aborted
  BY <1>0, <1>7, FailedInv DEF Aborted
<1> QED BY <1>1, <1>2, <1>3, <1>4, <1>5, <1>6, <1>7 DEF Attempt

(* Every step of the agent, the control plane and Docker keeps the invariant. *)
LEMMA NextInv == ASSUME Inv, Next PROVE Inv'
<1>0. TypeOK /\ work \in Work /\ faults \in 0 .. MaxFaults /\ MaxFaults \in Nat /\ MaxConfigs \in Nat
  BY DEF Inv, TypeOK
<1>1. CASE Attempt
  BY <1>1, AttemptInv
<1>2. CASE Fire
  BY <1>2, FireInv
<1>3. CASE Deadline
  BY <1>3, DeadlineInv
<1>4. CASE Reconfigures
  <2>1. TypeOK'
    BY <1>0, <1>4 DEF TypeOK, Reconfigures, identity, Config
  <2> QED BY <1>4, <2>1, Quiet DEF Reconfigures
<1>5. CASE Revokes
  <2>1. work' \in Work /\ work'.pc = work.pc /\ faults' \in 0 .. MaxFaults
    BY <1>0, <1>5 DEF Revokes, Fault, Outdated, Work, Token
  <2>2. TypeOK'
    BY <1>0, <1>5, <2>1 DEF TypeOK, Revokes, Outdated, Token, Config
  <2> QED BY <1>5, <2>1, <2>2, Quiet DEF Revokes
<1>6. CASE LeaseWork
  <2>1. TypeOK'
    BY <1>0, <1>6 DEF TypeOK, LeaseWork, identity, Config
  <2> QED BY <1>6, <2>1, Quiet DEF LeaseWork
<1>7. CASE CallFails
  <2>1. work.pc # "idle" /\ Failed /\ UNCHANGED current /\ faults' \in 0 .. MaxFaults
    BY <1>0, <1>7 DEF CallFails, Fault
  <2> QED BY <2>1, FailedInv
<1>8. CASE AnswerLost
  <2>1. work.pc # "idle" /\ faults' \in 0 .. MaxFaults
    BY <1>0, <1>8 DEF AnswerLost, Registers, Fault, Step
  <2>3. work' \in Work
    BY <1>0, <1>8 DEF AnswerLost, Work
  <2>2. TypeOK'
    BY <1>0, <1>8, <2>1, <2>3 DEF TypeOK, AnswerLost, Registers, Outdated, Token, Config
  <2> QED BY <1>8, <2>1, <2>2, Quiet DEF AnswerLost, Registers
<1>9. CASE Hangs
  <2>1. work' \in Work /\ work'.pc = work.pc /\ faults' \in 0 .. MaxFaults
    BY <1>0, <1>9 DEF Hangs, Fault, Work
  <2>2. TypeOK'
    BY <1>0, <1>9, <2>1 DEF TypeOK, Hangs, identity, Config
  <2> QED BY <1>9, <2>1, <2>2, Quiet DEF Hangs
<1>10. CASE ComesBack
  <2>1. work' \in Work /\ work'.pc = work.pc
    BY <1>0, <1>10 DEF ComesBack, Work
  <2>2. TypeOK'
    BY <1>0, <1>10, <2>1 DEF TypeOK, ComesBack, identity, Config
  <2> QED BY <1>10, <2>1, <2>2, Quiet DEF ComesBack
<1>11. CASE Crash
  <2>1. Restart("crash") /\ UNCHANGED current /\ faults' \in 0 .. MaxFaults
    BY <1>0, <1>11 DEF Crash, Fault
  <2> QED BY <2>1, RestartInv
<1> QED BY <1>1, <1>2, <1>3, <1>4, <1>5, <1>6, <1>7, <1>8, <1>9, <1>10, <1>11 DEF Next

(* A process that has just been installed has counted nothing.               *)
LEMMA InitInv == ASSUME Init PROVE Inv
<1>1. loop = Booting /\ work = FirstWork
  BY DEF Init
<1>2. loop \in Loop /\ work \in Work
  BY <1>1, Starts DEF Booting, Loop, FirstWork
<1>3. TypeOK
  <2>1. current \in Config \ {0} /\ config \in Config /\ faults \in 0 .. MaxFaults
    BY Bounds DEF Init, Config
  <2>2. /\ {stored, token} \subseteq Token /\ used \in BOOLEAN
        /\ ticket \in {"none", "good", "spent"}
    BY DEF Init, Token
  <2> QED BY <1>2, <2>1, <2>2 DEF Init, TypeOK
<1>4. Waited /\ Counted
  BY <1>1 DEF Init, Booting, Waited, Counted
<1> QED BY <1>3, <1>4 DEF Inv

(* The loop's counters account for its silence, and one attempt at a time is *)
(* under way, at every moment (createAgentHeartbeatLoop).                    *)
THEOREM Inductive == Spec => []Inv
<1>1. Init => Inv
  BY InitInv
<1>2. Inv /\ [Next]_vars => Inv'
  <2>1. ASSUME Inv, Next PROVE Inv'
    BY <2>1, NextInv
  <2>2. ASSUME Inv, UNCHANGED vars PROVE Inv'
    <3>1. TypeOK'
      BY <2>2 DEF Inv, TypeOK, vars, identity, Config, Token, Loop, Work
    <3> QED BY <2>2, <3>1, Quiet DEF vars
  <2> QED BY <2>1, <2>2
<1> QED BY <1>1, <1>2, PTL DEF Spec

(* The loop is never silent for longer than its two counters allow, and     *)
(* never has two attempts under way (createAgentHeartbeatLoop).             *)
THEOREM SilenceBounded == Spec => []SilenceIsShort
<1>1. Inv => SilenceIsShort
  BY Bounded
<1> QED BY <1>1, Inductive, PTL

(* A step that ends the process counts its last failure, or its last skip.  *)
LEMMA ExitStep ==
    ASSUME Inv, [Next]_vars, loop.pc # "boot", loop'.pc = "boot", ended' = "limit"
    PROVE  silence + (IF loop.pc = "waiting" THEN 1 ELSE 0) >= Limit
<1>1. /\ loop.pc = "racing" => loop.failures + 1 <= silence
      /\ loop.pc = "waiting" /\ loop.inFlight => loop.failures + loop.skips <= silence
  BY DEF Inv, Counted
<1>2. ASSUME loop.pc = "racing", loop.failures + 1 >= Limit
      PROVE  silence + (IF loop.pc = "waiting" THEN 1 ELSE 0) >= Limit
  BY <1>1, <1>2, Counters
<1>3. CASE Fire
  <2>1. loop.inFlight /\ RecordSkip /\ loop.pc = "waiting"
    BY <1>3 DEF Fire, Inv, TypeOK, Loop
  <2>2. loop.skips + 1 >= Limit
    BY <2>1 DEF RecordSkip, Inv, TypeOK, Loop
  <2> QED BY <1>1, <2>1, <2>2, Counters
<1>4. CASE Deadline
  BY <1>2, <1>4 DEF Deadline, RecordFailure
<1>5. ASSUME Failed PROVE loop.pc = "racing" /\ loop.failures + 1 >= Limit
  <2>1. CASE loop.pc = "racing"
    BY <1>5, <2>1 DEF Failed, RecordFailure
  <2>2. CASE loop.pc = "waiting"
    BY <1>5, <2>2 DEF Failed, Inv, TypeOK, Loop
  <2> QED BY <2>1, <2>2, Counters
<1>6. CASE Attempt
  <2>1. ~(Snapshot \/ Resnapshot \/ Store)
    BY DEF Snapshot, Resnapshot, Store
  <2>2. ~Apply
    BY DEF Apply, Succeeded
  <2>3. Failed
    BY <1>6, <2>1, <2>2 DEF Attempt, Request, Register, Registers, Aborted
  <2> QED BY <1>2, <1>5, <2>3
<1>7. CASE CallFails
  BY <1>2, <1>5, <1>7 DEF CallFails
<1>8. ~(Reconfigures \/ Revokes \/ LeaseWork \/ AnswerLost \/ Hangs \/ ComesBack)
  BY DEF Reconfigures, Revokes, LeaseWork, AnswerLost, Registers, Hangs, ComesBack
<1>9. ~Crash
  BY DEF Crash, Restart
<1>10. ~UNCHANGED vars
  BY DEF vars
<1> QED BY <1>3, <1>4, <1>6, <1>7, <1>8, <1>9, <1>10 DEF Next

(* The process is ended by its own loop only after Limit ticks without a    *)
(* success: slow answers are not counted against the host.                  *)
THEOREM ExitDeserved == Spec => ExitIsDeserved
<1>1. Inv /\ [Next]_vars
      => [loop.pc # "boot" /\ loop'.pc = "boot" /\ ended' = "limit"
            => silence + (IF loop.pc = "waiting" THEN 1 ELSE 0) >= Limit]_vars
  BY ExitStep
<1> QED BY <1>1, Inductive, PTL DEF Spec, ExitIsDeserved

----------------------------------------------------------------------------
(***************************************************************************)
(* The log collector, whose configuration a heartbeat's answer carries and  *)
(* which its snapshots reconcile: AlloyRuntime, for any configurations and  *)
(* any faults.  What the agent takes for done is so.                        *)
(***************************************************************************)

CONSTANTS MaxStatic, MaxDynamic, Crashes, CallsFail
VARIABLES wanted, pending, run, outcome, asked, files, box, stale

Alloy == INSTANCE AlloyRuntime

USE DEF Alloy!AlloyAssumption

(* There is an Alloy, which runs or is about to be restarted.               *)
Live == box.up \in {"running", "down"}

(* What the drain has still to do leads to what was asked for last.         *)
Asking ==
    /\ 1 <= wanted.static /\ asked.static <= wanted.static
    /\ asked.dynamic <= wanted.dynamic
    /\ run.pc = "idle" => pending = Alloy!Nothing
    /\ pending # Alloy!Nothing => pending = asked
    /\ run.pc # "idle" /\ pending = Alloy!Nothing => run.input = asked
    /\ run.pc # "idle" => run.input.static <= asked.static /\ run.input.dynamic <= asked.dynamic

(* Static configurations reach the disk, the label and Alloy in their order.*)
InOrder ==
    /\ box.label <= files.static
    /\ Live => box.label <= box.loaded.static /\ box.loaded.static <= files.static
    /\ files.static <= asked.static
    /\ run.pc # "idle" => files.static <= run.input.static

(* What a reconcile that got so far has in place.                           *)
InPlace ==
    /\ run.pc = "read" /\ run.current => box.label = run.input.static
    /\ run.pc = "validate" /\ run.current =>
         box.label = run.input.static /\ files.static = run.input.static
    /\ run.pc \in {"rename", "reload", "health"} =>
         box.label = run.input.static /\ files.static = run.input.static
    /\ run.pc = "dynamic" => files.static = run.input.static
    /\ run.pc \in {"remove", "create", "start", "wait", "reload", "health"} => files = run.input
    /\ run.pc \in {"start", "wait"} => box.label = run.input.static

(* The inductive invariant: a reconcile, its files and Alloy keep their order.*)
Orderly == Alloy!AlloyAssumption /\ Alloy!TypeOK /\ Asking /\ InOrder /\ InPlace

(* Where a reconcile can stand.                                             *)
Pc == {"idle", "inspect", "read", "validate", "rename", "reload", "health", "restore",
       "again", "static", "dynamic", "remove", "create", "start", "wait"}

(* The records of the initial state and of the tests have their types.      *)
LEMMA Blanks ==
    ASSUME Alloy!AlloyAssumption
    PROVE
    /\ Alloy!Nothing \in Alloy!Config /\ Alloy!Nothing.static = 0 /\ Alloy!Nothing.dynamic = 0
    /\ Alloy!NoRun \in Alloy!Run /\ Alloy!NoRun.pc = "idle"
    /\ Alloy!NoBox \in Alloy!Box /\ Alloy!NoBox.up = "absent" /\ Alloy!NoBox.label = 0
<1>1. Alloy!Nothing \in Alloy!Config /\ Alloy!Nothing.static = 0 /\ Alloy!Nothing.dynamic = 0
  BY DEF Alloy!Nothing, Alloy!Config
<1>2. Alloy!NoRun \in Alloy!Run /\ Alloy!NoRun.pc = "idle"
  BY <1>1 DEF Alloy!NoRun, Alloy!Run
<1>3. Alloy!NoBox \in Alloy!Box /\ Alloy!NoBox.up = "absent" /\ Alloy!NoBox.label = 0
  BY <1>1 DEF Alloy!NoBox, Alloy!Box
<1> QED BY <1>1, <1>2, <1>3

(* A reconcile begins with the configuration it is for.                     *)
LEMMA Reconciled ==
    ASSUME Alloy!AlloyAssumption, NEW c \in Alloy!Config, Alloy!Reconcile(c)
    PROVE  run' \in Alloy!Run /\ run'.pc = "inspect" /\ run'.input = c
  BY Blanks DEF Alloy!Reconcile, Alloy!Run

(* The parts of the state have their types.                                 *)
LEMMA Typed ==
    ASSUME Alloy!TypeOK
    PROVE  /\ wanted \in Alloy!Config /\ pending \in Alloy!Config /\ asked \in Alloy!Config /\ files \in Alloy!Config
           /\ run \in Alloy!Run /\ run.input \in Alloy!Config /\ box \in Alloy!Box /\ box.loaded \in Alloy!Config
           /\ box.label \in Nat /\ box.loaded.static \in Nat /\ files.static \in Nat
           /\ run.input.static \in Nat /\ asked.static \in Nat /\ wanted.static \in Nat
           /\ box.loaded.dynamic \in Nat /\ files.dynamic \in Nat /\ run.previous \in Nat
           /\ run.input.dynamic \in Nat /\ asked.dynamic \in Nat /\ wanted.dynamic \in Nat
           /\ run.pc \in Pc
  BY DEF Alloy!TypeOK, Alloy!Config, Alloy!Run, Alloy!Box, Pc

(* Configurations with the same parts are the same.                         *)
LEMMA SameConfig ==
    ASSUME NEW c \in Alloy!Config, NEW d \in Alloy!Config, c.static = d.static, c.dynamic = d.dynamic
    PROVE  c = d
  BY DEF Alloy!Config

(* A reconcile that ends is followed by one of what was asked for last.     *)
LEMMA Settles ==
    ASSUME Alloy!AlloyAssumption, Alloy!TypeOK, Asking, NEW ok \in BOOLEAN, Alloy!Settle(ok)
    PROVE  /\ run' \in Alloy!Run /\ pending' = Alloy!Nothing /\ outcome' \in {"none", "ok", "failed"}
           /\ UNCHANGED <<wanted, asked>>
           /\ run'.pc = "idle" \/ (run'.pc = "inspect" /\ run'.input = asked)
           /\ run'.pc = "idle" => pending = Alloy!Nothing /\ outcome' = (IF ok THEN "ok" ELSE "failed")
<1>1. CASE pending = Alloy!Nothing
  BY <1>1, Blanks DEF Alloy!Settle
<1>2. CASE pending # Alloy!Nothing
  <2>1. run' \in Alloy!Run /\ run'.pc = "inspect" /\ run'.input = pending
    BY <1>2, Typed, Reconciled DEF Alloy!Settle
  <2> QED BY <1>2, <2>1 DEF Alloy!Settle, Asking, Alloy!TypeOK
<1> QED BY <1>1, <1>2

(* A reconcile that goes on keeps what it found.                            *)
LEMMA GoesOn ==
    ASSUME Alloy!TypeOK, NEW pc \in Pc, Alloy!Goes(pc)
    PROVE  /\ run' \in Alloy!Run /\ run'.pc = pc
           /\ run'.input = run.input /\ run'.present = run.present
           /\ run'.current = run.current /\ run'.previous = run.previous
           /\ UNCHANGED <<wanted, pending, outcome, asked>>
  BY DEF Alloy!Goes, Alloy!TypeOK, Alloy!Run, Pc

(* A step that ends a reconcile keeps the invariant, if it leaves the files *)
(* and the container in order.                                              *)
LEMMA SettleKeeps ==
    ASSUME Orderly, NEW ok \in BOOLEAN, Alloy!Settle(ok), run.pc # "idle",
           files' \in Alloy!Config, box' \in Alloy!Box, stale' \in BOOLEAN, faults' \in 0 .. MaxFaults,
           files'.static <= run.input.static, box'.label <= files'.static,
           Live' => box'.label <= box'.loaded.static /\ box'.loaded.static <= files'.static
    PROVE  Orderly'
<1>1. /\ run' \in Alloy!Run /\ pending' = Alloy!Nothing /\ outcome' \in {"none", "ok", "failed"}
      /\ UNCHANGED <<wanted, asked>>
      /\ run'.pc = "idle" \/ (run'.pc = "inspect" /\ run'.input = asked)
  BY Settles DEF Orderly
<1>2. Alloy!TypeOK'
  BY <1>1, Blanks DEF Orderly, Alloy!TypeOK
<1>3. Asking'
  BY <1>1, Typed DEF Orderly, Asking
<1>4. files'.static <= asked.static
  <2>1. files'.static \in Nat
    BY DEF Alloy!Config
  <2> QED BY <2>1, Typed DEF Orderly, Asking
<1>5. InOrder'
  BY <1>1, <1>4 DEF InOrder
<1>6. InPlace'
  BY <1>1 DEF InPlace
<1> QED BY <1>2, <1>3, <1>5, <1>6 DEF Orderly

(* So does one that goes on to the next step with what that needs.          *)
LEMMA GoesKeeps ==
    ASSUME Orderly, NEW pc \in Pc, Alloy!Goes(pc), run.pc # "idle", pc # "idle",
           files' \in Alloy!Config, box' \in Alloy!Box, stale' \in BOOLEAN, faults' \in 0 .. MaxFaults,
           files'.static <= run.input.static, box'.label <= files'.static,
           Live' => box'.label <= box'.loaded.static /\ box'.loaded.static <= files'.static,
           InPlace'
    PROVE  Orderly'
<1>1. /\ run' \in Alloy!Run /\ run'.pc = pc /\ run'.input = run.input
      /\ UNCHANGED <<wanted, pending, outcome, asked>>
  BY GoesOn DEF Orderly
<1>2. Alloy!TypeOK'
  BY <1>1 DEF Orderly, Alloy!TypeOK
<1>3. Asking'
  BY <1>1 DEF Orderly, Asking
<1>4. files'.static <= asked.static
  <2>1. files'.static \in Nat
    BY DEF Alloy!Config
  <2> QED BY <2>1, Typed DEF Orderly, Asking
<1>5. InOrder'
  BY <1>1, <1>4 DEF InOrder
<1> QED BY <1>2, <1>3, <1>5 DEF Orderly

----------------------------------------------------------------------------
(* The steps.                                                               *)

(* The control plane, Docker and Alloy leave the agent alone.               *)
LEMMA OutsideOrderly == ASSUME Orderly, stale' \in BOOLEAN, Alloy!Changes \/ Alloy!Dies \/ Alloy!Restarts \/ Alloy!ReloadsLate PROVE Orderly'
<1>1. UNCHANGED <<pending, run, outcome, asked, files>> /\ faults' \in 0 .. MaxFaults
  BY DEF Alloy!Changes, Alloy!Dies, Alloy!Restarts, Alloy!ReloadsLate, Alloy!Fault, Orderly, Alloy!TypeOK
<1>2. wanted' \in Alloy!Config /\ wanted.static <= wanted'.static /\ wanted.dynamic <= wanted'.dynamic
  BY Typed DEF Alloy!Changes, Alloy!Dies, Alloy!Restarts, Alloy!ReloadsLate, Orderly, Alloy!TypeOK, Alloy!Config
<1>3. box' \in Alloy!Box /\ box'.label = box.label
  BY Typed DEF Alloy!Changes, Alloy!Dies, Alloy!Restarts, Alloy!ReloadsLate, Orderly, Alloy!TypeOK, Alloy!Box
<1>4. (box'.loaded = box.loaded /\ (Live' => Live)) \/ box'.loaded = files
  BY Typed DEF Alloy!Changes, Alloy!Dies, Alloy!Restarts, Alloy!ReloadsLate, Orderly, Alloy!TypeOK, Alloy!Box, Live
<1>5. Alloy!TypeOK'
  BY <1>1, <1>2, <1>3 DEF Orderly, Alloy!TypeOK
<1>6. Asking'
  <2>1. wanted'.static \in Nat /\ wanted'.dynamic \in Nat
    BY <1>2 DEF Alloy!Config
  <2> QED BY <1>1, <1>2, <2>1, Typed DEF Orderly, Asking
<1>7. InOrder'
  BY <1>1, <1>3, <1>4, Typed DEF Orderly, InOrder
<1>8. InPlace'
  BY <1>1, <1>3 DEF Orderly, InPlace
<1> QED BY <1>5, <1>6, <1>7, <1>8 DEF Orderly

(* A call starts the drain, or leaves what it wants to it.                  *)
LEMMA EnsureOrderly == ASSUME Orderly, stale' \in BOOLEAN, Alloy!Ensure PROVE Orderly'
<1>1. asked' = wanted /\ UNCHANGED <<wanted, outcome, files, box, faults>>
  BY DEF Alloy!Ensure
<1>2. CASE run.pc = "idle"
  <2>1. /\ run' \in Alloy!Run /\ run'.pc = "inspect" /\ run'.input = wanted /\ pending' = pending
    BY <1>2, Typed, Reconciled DEF Alloy!Ensure, Orderly
  <2>2. Alloy!TypeOK'
    BY <1>1, <2>1 DEF Orderly, Alloy!TypeOK
  <2>3. pending = Alloy!Nothing
    BY <1>2 DEF Orderly, Asking
  <2>4. Asking'
    BY <1>1, <2>1, <2>3, Typed DEF Orderly, Asking
  <2>5. InOrder' /\ InPlace'
    BY <1>1, <2>1, Typed DEF Orderly, Asking, InOrder, InPlace, Live
  <2> QED BY <2>2, <2>4, <2>5 DEF Orderly
<1>3. CASE run.pc # "idle"
  <2>1. pending' = wanted /\ run' = run
    BY <1>3 DEF Alloy!Ensure
  <2>2. Alloy!TypeOK'
    BY <1>1, <2>1 DEF Orderly, Alloy!TypeOK
  <2>3. wanted # Alloy!Nothing
    BY Blanks DEF Orderly, Asking
  <2>4. Asking'
    BY <1>1, <1>3, <2>1, <2>3, Typed DEF Orderly, Asking
  <2>5. InOrder' /\ InPlace'
    BY <1>1, <2>1, Typed DEF Orderly, Asking, InOrder, InPlace, Live
  <2> QED BY <2>2, <2>4, <2>5 DEF Orderly
<1> QED BY <1>2, <1>3

(* The agent looks before it changes anything.                              *)
LEMMA LooksOrderly == ASSUME Orderly, stale' \in BOOLEAN, Alloy!Inspects \/ Alloy!Reads \/ Alloy!Validates PROVE Orderly'
<1>0. Alloy!TypeOK /\ UNCHANGED <<files, box, faults>>
  BY DEF Alloy!Inspects, Alloy!Reads, Alloy!Validates, Orderly
<1>1. CASE Alloy!Inspects
  <2>1. /\ run' \in Alloy!Run /\ run.pc = "inspect" /\ run'.pc = "read" /\ run'.input = run.input
        /\ run'.current => box.label = run.input.static
    BY <1>1, Typed DEF Alloy!Inspects, Orderly, Alloy!Run, Alloy!Current
  <2>2. Alloy!TypeOK'
    BY <1>0, <1>1, <2>1 DEF Alloy!Inspects, Alloy!TypeOK
  <2> QED BY <1>0, <1>1, <2>1, <2>2 DEF Alloy!Inspects, Orderly, Asking, InOrder, InPlace, Live
<1>2. CASE Alloy!Reads /\ Alloy!Settle(TRUE)
  BY <1>0, <1>2, Typed, SettleKeeps DEF Alloy!Reads, Orderly, InOrder, Live, Alloy!TypeOK
<1>3. CASE Alloy!Reads /\ ~(run.current /\ files = run.input)
  <2>1. /\ run' \in Alloy!Run /\ run.pc = "read" /\ run'.pc = "validate" /\ run'.input = run.input
        /\ run'.current <=> run.current /\ files.static = run.input.static
        /\ UNCHANGED <<wanted, pending, outcome, asked>>
    BY <1>3, Typed DEF Alloy!Reads, Orderly, Alloy!Run
  <2>2. Alloy!TypeOK'
    BY <1>0, <2>1 DEF Alloy!TypeOK
  <2> QED BY <1>0, <2>1, <2>2 DEF Orderly, Asking, InOrder, InPlace, Live
<1>4. CASE Alloy!Validates /\ run.current
  <2>1. Alloy!Goes("rename") /\ run.pc = "validate"
    BY <1>4 DEF Alloy!Validates
  <2>2. run'.pc = "rename" /\ run'.input = run.input
    BY <1>0, <2>1, GoesOn DEF Pc
  <2>3. InPlace'
    BY <1>0, <1>4, <2>1, <2>2 DEF Orderly, InPlace
  <2> QED BY <1>0, <2>1, <2>3, GoesKeeps, Typed DEF Orderly, InOrder, Live, Pc, Alloy!TypeOK
<1>5. CASE Alloy!Validates /\ ~run.current
  <2>1. Alloy!Goes("static") /\ run.pc = "validate"
    BY <1>5 DEF Alloy!Validates
  <2>2. run'.pc = "static"
    BY <1>0, <2>1, GoesOn DEF Pc
  <2>3. InPlace'
    BY <2>2 DEF InPlace
  <2> QED BY <1>0, <2>1, <2>3, GoesKeeps, Typed DEF Orderly, InOrder, Live, Pc, Alloy!TypeOK
<1> QED BY <1>1, <1>2, <1>3, <1>4, <1>5 DEF Alloy!Reads

(* The files are written in the order of what is asked for.                 *)
LEMMA WritesOrderly == ASSUME Orderly, stale' \in BOOLEAN, Alloy!WritesStatic \/ Alloy!WritesDynamic PROVE Orderly'
<1>0. Alloy!TypeOK /\ UNCHANGED <<box, faults>> /\ Live' = Live
  BY DEF Alloy!WritesStatic, Alloy!WritesDynamic, Orderly, Live
<1>1. CASE Alloy!WritesStatic
  <2>1. /\ files' \in Alloy!Config /\ files'.static = run.input.static /\ Alloy!Goes("dynamic")
        /\ run.pc = "static"
    BY <1>0, <1>1, Typed DEF Alloy!WritesStatic, Alloy!Config
  <2>2. run'.pc = "dynamic" /\ run'.input = run.input
    BY <1>0, <2>1, GoesOn DEF Pc
  <2>3. InPlace'
    BY <2>1, <2>2 DEF InPlace
  <2>4. /\ files'.static <= run.input.static /\ box'.label <= files'.static
        /\ Live' => box'.label <= box'.loaded.static /\ box'.loaded.static <= files'.static
    BY <1>0, <2>1, Typed DEF Orderly, InOrder, Live
  <2>5. box' \in Alloy!Box /\ faults' \in 0 .. MaxFaults
    BY <1>0 DEF Alloy!TypeOK
  <2> QED BY <2>1, <2>3, <2>4, <2>5, GoesKeeps DEF Pc
<1>2. CASE Alloy!WritesDynamic
  <2> DEFINE pc == IF run.present THEN "remove" ELSE "create"
  <2>1. /\ files' \in Alloy!Config /\ files'.static = files.static
        /\ files'.dynamic = run.input.dynamic /\ Alloy!Goes(pc) /\ run.pc = "dynamic"
    BY <1>0, <1>2, Typed DEF Alloy!WritesDynamic, Alloy!Config
  <2>2. pc \in {"remove", "create"}
    OBVIOUS
  <2> HIDE DEF pc
  <2>3. run'.pc \in {"remove", "create"} /\ run'.input = run.input
    BY <1>0, <2>1, <2>2, GoesOn DEF Pc
  <2>4. files' = run.input
    BY <1>0, <2>1, Typed, SameConfig DEF Orderly, InPlace
  <2>5. InPlace'
    BY <2>3, <2>4 DEF InPlace
  <2> QED BY <1>0, <2>1, <2>2, <2>5, GoesKeeps, Typed DEF Orderly, InOrder, Pc, Alloy!TypeOK
<1> QED BY <1>1, <1>2

(* The container is replaced by one that is labelled with what is on disk.  *)
LEMMA ReplacedKeeps ==
    ASSUME Orderly, run.pc \in {"remove", "create", "start"}
    PROVE  /\ Alloy!Replaced \in Alloy!Box /\ files = run.input
           /\ Alloy!Replaced.label <= files.static
           /\ Alloy!Replaced.up \in {"running", "down"} =>
                Alloy!Replaced.label <= Alloy!Replaced.loaded.static /\ Alloy!Replaced.loaded.static <= files.static
           /\ run.pc \in {"create", "start"} => Alloy!Replaced.label = run.input.static
<1>0. Alloy!AlloyAssumption /\ Alloy!TypeOK /\ files = run.input
  BY DEF Orderly, InPlace
<1>1. CASE run.pc = "remove"
  <2>1. Alloy!Replaced = Alloy!NoBox
    BY <1>1 DEF Alloy!Replaced
  <2> QED BY <1>0, <1>1, <2>1, Blanks, Typed
<1>2. CASE run.pc = "create"
  <2>1. Alloy!Replaced = [Alloy!NoBox EXCEPT !.up = "created", !.label = run.input.static]
    BY <1>2 DEF Alloy!Replaced
  <2>2. run.input.static \in 0 .. MaxStatic
    BY <1>0, Typed DEF Alloy!Config
  <2>3. Alloy!Replaced \in Alloy!Box /\ Alloy!Replaced.up = "created" /\ Alloy!Replaced.label = run.input.static
    BY <1>0, <2>1, <2>2, Blanks DEF Alloy!Box
  <2> QED BY <1>0, <1>2, <2>3, Typed
<1>3. CASE run.pc = "start"
  <2>1. Alloy!Replaced = [box EXCEPT !.up = "running", !.loaded = files]
    BY <1>3 DEF Alloy!Replaced
  <2>2. Alloy!Replaced \in Alloy!Box /\ Alloy!Replaced.label = box.label /\ Alloy!Replaced.loaded = files
    BY <1>0, <2>1, Typed DEF Alloy!Box
  <2>3. box.label = run.input.static
    BY <1>3 DEF Orderly, InPlace
  <2> QED BY <1>0, <1>3, <2>2, <2>3, Typed
<1> QED BY <1>1, <1>2, <1>3

(* So does a call that succeeds, and one that fails.                        *)
LEMMA ReplacesOrderly == ASSUME Orderly, stale' \in BOOLEAN, Alloy!Replaces PROVE Orderly'
<1> DEFINE pc == CASE run.pc = "remove" -> "create" [] run.pc = "create" -> "start" [] OTHER -> "wait"
<1>1. /\ Alloy!TypeOK /\ run.pc \in {"remove", "create", "start"} /\ box' = Alloy!Replaced /\ Alloy!Goes(pc)
      /\ UNCHANGED <<files, faults>>
  BY DEF Alloy!Replaces, Orderly
<1>2. /\ pc \in {"create", "start", "wait"}
      /\ pc \in {"start", "wait"} => run.pc \in {"create", "start"}
  BY <1>1
<1> HIDE DEF pc
<1>3. run'.pc = pc /\ run'.input = run.input
  BY <1>1, <1>2, GoesOn DEF Pc
<1>4. InPlace'
  BY <1>1, <1>2, <1>3, ReplacedKeeps DEF InPlace
<1>5. files'.static <= run.input.static
  BY <1>1, Typed DEF Orderly, InOrder
<1> QED BY <1>1, <1>2, <1>4, <1>5, ReplacedKeeps, GoesKeeps, Typed DEF Pc, Live, Alloy!TypeOK

(* A call that fails ends the reconcile.                                    *)
LEMMA CallFailsOrderly == ASSUME Orderly, stale' \in BOOLEAN, Alloy!CallFails PROVE Orderly'
<1>1. /\ Alloy!AlloyAssumption /\ Alloy!TypeOK /\ run.pc \in {"inspect", "validate", "remove", "create", "start"}
      /\ box' \in {box, Alloy!Replaced} /\ Alloy!Settle(FALSE) /\ files' = files /\ Alloy!Fault
  BY DEF Alloy!CallFails, Alloy!Abandons, Orderly
<1>4. faults' \in 0 .. MaxFaults
  BY <1>1 DEF Alloy!Fault, Alloy!TypeOK
<1>2. CASE box' = box
  BY <1>1, <1>2, <1>4, SettleKeeps, Typed DEF Orderly, InOrder, Live
<1>3. CASE box' # box
  <2>1. box' = Alloy!Replaced /\ run.pc \in {"remove", "create", "start"}
    BY <1>1, <1>3 DEF Alloy!Replaced
  <2>2. files'.static <= run.input.static
    BY <1>1 DEF Orderly, InOrder
  <2> QED BY <1>1, <1>4, <2>1, <2>2, ReplacedKeeps, SettleKeeps, Typed DEF Live
<1> QED BY <1>2, <1>3

(* A new fragment, its reload and the way back keep the static file.        *)
LEMMA FragmentOrderly == ASSUME Orderly, stale' \in BOOLEAN, Alloy!Renames \/ Alloy!Restores PROVE Orderly'
<1>0. /\ Alloy!TypeOK /\ UNCHANGED <<box, faults>> /\ Live' = Live
      /\ run.pc \in {"rename", "restore"}
  BY DEF Alloy!Renames, Alloy!Restores, Orderly, Live
<1>1. CASE Alloy!Renames
  <2>1. /\ files' \in Alloy!Config /\ files'.static = files.static /\ files'.dynamic = run.input.dynamic
        /\ run' \in Alloy!Run /\ run'.pc = "reload" /\ run'.input = run.input
        /\ UNCHANGED <<wanted, pending, outcome, asked>> /\ run.pc = "rename"
    BY <1>0, <1>1, Typed DEF Alloy!Renames, Alloy!Config, Alloy!Run
  <2>2. files' = run.input /\ files'.static = run.input.static /\ box.label = run.input.static
    BY <1>0, <2>1, Typed, SameConfig DEF Orderly, InPlace
  <2>3. Alloy!TypeOK'
    BY <1>0, <2>1 DEF Alloy!TypeOK
  <2> QED BY <1>0, <2>1, <2>2, <2>3 DEF Orderly, Asking, InOrder, InPlace
<1>2. CASE Alloy!Restores
  <2>1. files' \in Alloy!Config /\ files'.static = files.static /\ Alloy!Goes("again") /\ run.pc = "restore"
    BY <1>0, <1>2, Typed DEF Alloy!Restores, Alloy!Config, Alloy!Run
  <2>2. run'.pc = "again"
    BY <1>0, <2>1, GoesOn DEF Pc
  <2>3. InPlace'
    BY <2>2 DEF InPlace
  <2> QED BY <1>0, <2>1, <2>3, GoesKeeps, Typed DEF Orderly, InOrder, Pc, Alloy!TypeOK
<1> QED BY <1>0, <1>1, <1>2

(* Alloy reads what is on disk.                                             *)
LEMMA ReloadsOrderly == ASSUME Orderly, stale' \in BOOLEAN, Alloy!Reloads \/ Alloy!ReloadFails PROVE Orderly'
<1>0. Alloy!AlloyAssumption /\ Alloy!TypeOK /\ run.pc \in {"reload", "again"} /\ files' = files /\ (faults' = faults \/ Alloy!Fault)
  BY DEF Alloy!Reloads, Alloy!ReloadFails, Orderly
<1>1. /\ Alloy!TypeOK /\ run.pc \in {"reload", "again"} /\ files' = files /\ faults' \in 0 .. MaxFaults
      /\ \/ Alloy!Settle(FALSE)
         \/ run.pc = "reload" /\ \E pc \in {"health", "restore"} : Alloy!Goes(pc)
  <2>1. faults' \in 0 .. MaxFaults
    BY <1>0 DEF Alloy!Fault, Alloy!TypeOK
  <2> QED BY <1>0, <2>1 DEF Alloy!Reloads, Alloy!ReloadFails
<1>2. /\ box' \in Alloy!Box /\ box'.label = box.label /\ box'.up = box.up
      /\ box'.loaded \in {box.loaded, files}
  BY <1>1, Typed DEF Alloy!Reloads, Alloy!ReloadFails, Alloy!Box
<1>3. /\ files'.static <= run.input.static /\ box'.label <= files'.static
      /\ Live' => box'.label <= box'.loaded.static /\ box'.loaded.static <= files'.static
  BY <1>1, <1>2, Typed DEF Orderly, InOrder, Live
<1>4. CASE Alloy!Settle(FALSE)
  BY <1>1, <1>2, <1>3, <1>4, SettleKeeps, Typed
<1>5. ASSUME NEW pc \in {"health", "restore"}, run.pc = "reload", Alloy!Goes(pc) PROVE Orderly'
  <2>1. run'.pc = pc /\ run'.input = run.input /\ pc \in Pc
    BY <1>1, <1>5, GoesOn DEF Pc
  <2>2. InPlace'
    BY <1>1, <1>2, <1>5, <2>1 DEF Orderly, InPlace
  <2> QED BY <1>1, <1>2, <1>3, <1>5, <2>1, <2>2, GoesKeeps, Typed
<1> QED BY <1>1, <1>4, <1>5

(* The look at Alloy's health changes nothing.                              *)
LEMMA HealthOrderly == ASSUME Orderly, stale' \in BOOLEAN, Alloy!Healthy \/ Alloy!Unhealthy \/ Alloy!WriteFails PROVE Orderly'
<1>0. Alloy!AlloyAssumption /\ Alloy!TypeOK /\ run.pc # "idle" /\ UNCHANGED <<files, box>> /\ (faults' = faults \/ Alloy!Fault)
  BY DEF Alloy!Healthy, Alloy!Unhealthy, Alloy!WriteFails, Alloy!Abandons, Orderly
<1>1. /\ Alloy!TypeOK /\ run.pc # "idle" /\ UNCHANGED <<files, box>> /\ faults' \in 0 .. MaxFaults
      /\ Alloy!Settle(TRUE) \/ Alloy!Settle(FALSE) \/ Alloy!Goes("restore")
  <2>1. faults' \in 0 .. MaxFaults
    BY <1>0 DEF Alloy!Fault, Alloy!TypeOK
  <2> QED BY <1>0, <2>1 DEF Alloy!Healthy, Alloy!Unhealthy, Alloy!WriteFails
<1>2. /\ files'.static <= run.input.static /\ box'.label <= files'.static
      /\ Live' => box'.label <= box'.loaded.static /\ box'.loaded.static <= files'.static
      /\ files' \in Alloy!Config /\ box' \in Alloy!Box
  BY <1>1, Typed DEF Orderly, InOrder, Live
<1>3. CASE Alloy!Settle(TRUE) \/ Alloy!Settle(FALSE)
  BY <1>1, <1>2, <1>3, SettleKeeps
<1>4. CASE Alloy!Goes("restore")
  <2>1. run'.pc = "restore"
    BY <1>1, <1>4, GoesOn DEF Pc
  <2>2. InPlace'
    BY <2>1 DEF InPlace
  <2> QED BY <1>1, <1>2, <1>4, <2>2, GoesKeeps DEF Pc
<1> QED BY <1>1, <1>3, <1>4

(* That a reconcile was cut short is noted, or not.                         *)
LEMMA Noted == ASSUME Alloy!TypeOK, Alloy!Next PROVE stale' \in BOOLEAN
<1>1. stale \in BOOLEAN
  BY DEF Alloy!TypeOK
<1>2. stale' = stale \/ stale' = FALSE \/ Alloy!Abandons
  BY DEF Alloy!Next, Alloy!Changes, Alloy!Dies, Alloy!Restarts, Alloy!ReloadsLate, Alloy!Ensure,
         Alloy!Reconciles, Alloy!Inspects, Alloy!Reads, Alloy!Validates, Alloy!WritesStatic,
         Alloy!WritesDynamic, Alloy!Replaces, Alloy!CallFails, Alloy!Renames, Alloy!Reloads,
         Alloy!ReloadFails, Alloy!Healthy, Alloy!Unhealthy, Alloy!Restores, Alloy!WriteFails,
         Alloy!Crash
<1> QED BY <1>1, <1>2 DEF Alloy!Abandons

(* Every step keeps the invariant.                                          *)
LEMMA NextOrderly == ASSUME Orderly, [Alloy!Next]_Alloy!vars PROVE Orderly'
<1>1. CASE Alloy!Crash
  <2>1. /\ run' = Alloy!NoRun /\ pending' = Alloy!Nothing /\ outcome' = "none" /\ faults' \in 0 .. MaxFaults
        /\ UNCHANGED <<wanted, asked, files, box>> /\ stale' \in BOOLEAN
    BY <1>1 DEF Alloy!Crash, Alloy!Abandons, Alloy!Fault, Orderly, Alloy!TypeOK
  <2>2. Alloy!TypeOK'
    BY <2>1, Blanks DEF Orderly, Alloy!TypeOK
  <2> QED BY <2>1, <2>2, Blanks DEF Orderly, Asking, InOrder, InPlace, Live
<1>2. CASE UNCHANGED Alloy!vars
  BY <1>2 DEF Alloy!vars, Orderly, Alloy!TypeOK, Asking, InOrder, InPlace, Live
<1>3. Alloy!Next => stale' \in BOOLEAN
  BY Noted DEF Orderly
<1> QED BY <1>1, <1>2, <1>3, OutsideOrderly, EnsureOrderly, LooksOrderly, WritesOrderly, ReplacesOrderly, CallFailsOrderly,
           FragmentOrderly, ReloadsOrderly, HealthOrderly DEF Alloy!Next, Alloy!Reconciles

(* A server without a collector, of which nothing was asked.                *)
LEMMA InitOrderly == ASSUME Alloy!AlloyAssumption PROVE Alloy!Init => Orderly
<1> SUFFICES ASSUME Alloy!Init PROVE Orderly
  OBVIOUS
<1>1. stale \in BOOLEAN
  BY DEF Alloy!Init
<1>2. Alloy!TypeOK
  BY <1>1, Blanks DEF Alloy!Init, Alloy!TypeOK, Alloy!Config
<1> QED BY <1>2, Blanks DEF Alloy!Init, Orderly, Asking, InOrder, InPlace, Live

----------------------------------------------------------------------------
(* What Alloy has loaded.                                                   *)

Trying == {"reload", "health", "restore"}

(* Neither the disk nor Alloy is ahead of what was asked for, and Alloy is  *)
(* behind the fragment on disk only on its way to a reload, to the fragment *)
(* before, or to another container, or where a reconcile left it behind.    *)
Drawn ==
    /\ files.dynamic <= asked.dynamic
    /\ run.pc # "idle" => files.dynamic <= run.input.dynamic
    /\ run.pc \in Trying => run.previous <= files.dynamic
    /\ run.pc \in {"create", "start"} => ~Live
    /\ run.pc \in {"read", "validate", "static", "dynamic"} /\ ~run.present => ~Live
    /\ Live =>
         /\ box.loaded.dynamic <= asked.dynamic
         /\ ~stale /\ run.pc \notin Alloy!Behind => files.dynamic <= box.loaded.dynamic
         /\ ~stale /\ run.pc \in Trying => run.previous <= box.loaded.dynamic

(* A reconcile may end when Alloy is not behind, or counts as left behind.  *)
LEMMA SettleDraws ==
    ASSUME Orderly, Drawn, NEW ok \in BOOLEAN, Alloy!Settle(ok), run.pc # "idle",
           UNCHANGED files,
           Live' => (Live /\ box'.loaded = box.loaded) \/ box'.loaded = files,
           Live' /\ ~stale' => (~stale /\ run.pc \notin Alloy!Behind) \/ box'.loaded = files
    PROVE  Drawn'
<1>1. /\ asked' = asked
      /\ run'.pc = "idle" \/ (run'.pc = "inspect" /\ run'.input = asked)
  BY Settles DEF Orderly
<1>2. Live' => /\ box'.loaded.dynamic <= asked.dynamic
               /\ ~stale' => files.dynamic <= box'.loaded.dynamic
  BY Typed DEF Orderly, Drawn
<1> QED BY <1>1, <1>2 DEF Drawn, Alloy!Behind, Trying

(* The control plane, Docker and Alloy.                                     *)
LEMMA OutsideDraws ==
    ASSUME Orderly, Drawn, Alloy!Changes \/ Alloy!Dies \/ Alloy!Restarts \/ Alloy!ReloadsLate
    PROVE  Drawn'
<1>1. UNCHANGED <<run, asked, files>>
  BY DEF Alloy!Changes, Alloy!Dies, Alloy!Restarts, Alloy!ReloadsLate
<1>2. Live' => Live \/ box'.loaded = files
  BY Typed DEF Alloy!Changes, Alloy!Dies, Alloy!Restarts, Alloy!ReloadsLate, Orderly, Alloy!TypeOK, Alloy!Box, Live
<1>3. (box'.loaded = box.loaded /\ stale' = stale) \/ box'.loaded = files
  BY Typed DEF Alloy!Changes, Alloy!Dies, Alloy!Restarts, Alloy!ReloadsLate, Orderly, Alloy!TypeOK, Alloy!Box
<1>4. box'.up # box.up => Live
  BY Typed DEF Alloy!Changes, Alloy!Dies, Alloy!Restarts, Alloy!ReloadsLate, Orderly, Alloy!TypeOK, Alloy!Box, Live
<1>5. Live' => Live
  BY <1>4 DEF Live
<1> QED BY <1>1, <1>3, <1>5, Typed DEF Orderly, Drawn

(* What is asked for never falls behind what Alloy has.                     *)
LEMMA EnsureDraws == ASSUME Orderly, Drawn, Alloy!Ensure PROVE Drawn'
<1>1. asked' = wanted /\ UNCHANGED <<files, box, stale>> /\ Live' = Live
  BY DEF Alloy!Ensure, Live
<1>2. files.dynamic <= wanted.dynamic /\ (Live => box.loaded.dynamic <= wanted.dynamic)
  BY Typed DEF Orderly, Asking, Drawn
<1>3. \/ run' = run
      \/ run.pc = "idle" /\ run'.pc = "inspect" /\ run'.input = wanted
  BY Typed, Reconciled DEF Alloy!Ensure, Orderly
<1> QED BY <1>1, <1>2, <1>3 DEF Drawn, Alloy!Behind, Trying

(* What was absent when the agent looked is absent still.                   *)
LEMMA LooksDraw == ASSUME Orderly, Drawn, Alloy!Inspects \/ Alloy!Reads \/ Alloy!Validates PROVE Drawn'
<1>1. Alloy!TypeOK /\ UNCHANGED <<files, box, stale>> /\ Live' = Live
  BY DEF Alloy!Inspects, Alloy!Reads, Alloy!Validates, Orderly, Live
<1>2. CASE Alloy!Inspects
  <2>1. /\ run.pc = "inspect" /\ run'.pc = "read" /\ run'.input = run.input /\ asked' = asked
        /\ ~run'.present => box.up = "absent"
    BY <1>1, <1>2, Typed DEF Alloy!Inspects, Alloy!Run
  <2> QED BY <1>1, <2>1 DEF Drawn, Alloy!Behind, Trying, Live
<1>3. CASE Alloy!Reads /\ Alloy!Settle(TRUE)
  <2>1. run.pc = "read" /\ files' = files /\ box' = box
    BY <1>1, <1>3 DEF Alloy!Reads
  <2>2. ~stale' => ~stale /\ run.pc \notin Alloy!Behind
    BY <1>1, <2>1 DEF Alloy!Behind
  <2> QED BY <1>1, <1>3, <2>1, <2>2, SettleDraws
<1>4. CASE Alloy!Reads /\ ~(run.current /\ files = run.input)
  <2>1. /\ run.pc = "read" /\ run'.pc = "validate" /\ run'.input = run.input
        /\ run'.present = run.present /\ asked' = asked
    BY <1>1, <1>4, Typed DEF Alloy!Reads, Alloy!Run
  <2> QED BY <1>1, <2>1 DEF Drawn, Alloy!Behind, Trying
<1>5. ASSUME Alloy!Validates, NEW pc \in {"rename", "static"}, Alloy!Goes(pc) PROVE Drawn'
  <2>1. /\ run.pc = "validate" /\ run'.pc = pc /\ run'.input = run.input
        /\ run'.present = run.present /\ asked' = asked
    BY <1>1, <1>5, GoesOn DEF Alloy!Validates, Pc
  <2> QED BY <1>1, <2>1 DEF Drawn, Alloy!Behind, Trying
<1> QED BY <1>2, <1>3, <1>4, <1>5 DEF Alloy!Reads, Alloy!Validates

(* A new fragment is written for a container about to go, or for a reload.  *)
LEMMA WritesDraw ==
    ASSUME Orderly, Drawn, Alloy!WritesStatic \/ Alloy!WritesDynamic \/ Alloy!Renames \/ Alloy!Restores
    PROVE  Drawn'
<1>1. Alloy!TypeOK /\ UNCHANGED <<asked, box, stale>> /\ Live' = Live
  BY DEF Alloy!WritesStatic, Alloy!WritesDynamic, Alloy!Renames, Alloy!Restores, Alloy!Goes, Orderly, Live
<1>2. CASE Alloy!WritesStatic
  <2>1. /\ run.pc = "static" /\ run'.pc = "dynamic" /\ run'.input = run.input
        /\ run'.present = run.present /\ files'.dynamic = files.dynamic
    BY <1>1, <1>2, GoesOn, Typed DEF Alloy!WritesStatic, Pc, Alloy!Config
  <2> QED BY <1>1, <2>1 DEF Drawn, Alloy!Behind, Trying
<1>3. CASE Alloy!WritesDynamic
  <2>1. /\ run.pc = "dynamic" /\ files'.dynamic = run.input.dynamic
        /\ Alloy!Goes(IF run.present THEN "remove" ELSE "create")
    BY <1>1, <1>3, Typed DEF Alloy!WritesDynamic, Alloy!Config
  <2>2. run'.pc = (IF run.present THEN "remove" ELSE "create") /\ run'.input = run.input
    <3>1. CASE run.present
      BY <1>1, <2>1, <3>1, GoesOn DEF Pc
    <3>2. CASE ~run.present
      BY <1>1, <2>1, <3>2, GoesOn DEF Pc
    <3> QED BY <3>1, <3>2
  <2>3. run.input.dynamic <= asked.dynamic
    BY <2>1 DEF Orderly, Asking
  <2> QED BY <1>1, <2>1, <2>2, <2>3, Typed DEF Drawn, Alloy!Behind, Trying
<1>4. CASE Alloy!Renames
  <2>1. /\ run.pc = "rename" /\ files'.dynamic = run.input.dynamic
        /\ run'.pc = "reload" /\ run'.input = run.input /\ run'.previous = files.dynamic
    BY <1>1, <1>4, Typed DEF Alloy!Renames, Alloy!Config, Alloy!Run
  <2>2. run.input.dynamic <= asked.dynamic
    BY <2>1 DEF Orderly, Asking
  <2> QED BY <1>1, <2>1, <2>2, Typed DEF Drawn, Alloy!Behind, Trying
<1>5. CASE Alloy!Restores
  <2>1. Alloy!Goes("again") /\ run.pc = "restore" /\ files' = [files EXCEPT !.dynamic = run.previous]
    BY <1>5 DEF Alloy!Restores
  <2>2. /\ files'.dynamic = run.previous /\ run'.pc = "again" /\ run'.input = run.input
    BY <1>1, <2>1, GoesOn, Typed DEF Pc, Alloy!Config
  <2>3. run.previous <= asked.dynamic /\ run.previous <= run.input.dynamic
    BY <1>1, <2>1, Typed DEF Drawn, Trying
  <2> QED BY <1>1, <2>1, <2>2, <2>3 DEF Drawn, Alloy!Behind, Trying
<1> QED BY <1>2, <1>3, <1>4, <1>5

(* A container that starts reads what is on disk.                           *)
LEMMA ReplacesDraws == ASSUME Orderly, Drawn, Alloy!Replaces PROVE Drawn'
<1>1. /\ Alloy!AlloyAssumption /\ Alloy!TypeOK /\ run.pc \in {"remove", "create", "start"} /\ box' = Alloy!Replaced
      /\ UNCHANGED <<files, asked>> /\ files = run.input
  BY DEF Alloy!Replaces, Alloy!Goes, Orderly, InPlace
<1>2. ASSUME NEW pc \in {"create", "start", "wait"}, Alloy!Goes(pc)
      PROVE  run'.pc = pc /\ run'.input = run.input
  BY <1>1, <1>2, GoesOn DEF Pc
<1>3. CASE run.pc = "remove"
  <2>1. box' = Alloy!NoBox /\ Alloy!Goes("create")
    BY <1>1, <1>3 DEF Alloy!Replaced, Alloy!Replaces
  <2>2. ~Live'
    BY <1>1, <2>1, Blanks DEF Live
  <2> QED BY <1>1, <1>2, <1>3, <2>1, <2>2 DEF Drawn, Trying
<1>4. CASE run.pc = "create"
  <2>1. box' = [Alloy!NoBox EXCEPT !.up = "created", !.label = run.input.static] /\ Alloy!Goes("start")
    BY <1>1, <1>4 DEF Alloy!Replaced, Alloy!Replaces
  <2>2. box'.up = "created"
    BY <1>1, <2>1, Blanks DEF Alloy!Box
  <2>3. ~Live'
    BY <2>2 DEF Live
  <2> QED BY <1>1, <1>2, <1>4, <2>1, <2>3 DEF Drawn, Trying
<1>5. CASE run.pc = "start"
  <2>1. box' = [box EXCEPT !.up = "running", !.loaded = files] /\ Alloy!Goes("wait")
    BY <1>1, <1>5 DEF Alloy!Replaced, Alloy!Replaces
  <2>2. box'.loaded = files
    BY <1>1, <2>1, Typed DEF Alloy!Box
  <2> QED BY <1>1, <1>2, <1>5, <2>1, <2>2, Typed DEF Drawn, Alloy!Behind, Trying
<1> QED BY <1>1, <1>3, <1>4, <1>5

(* A reload that was done caught up; one that was not is taken back.        *)
LEMMA ReloadsDraw == ASSUME Orderly, Drawn, Alloy!Reloads \/ Alloy!ReloadFails PROVE Drawn'
<1>1. Alloy!TypeOK /\ run.pc \in {"reload", "again"} /\ files' = files
  BY DEF Alloy!Reloads, Alloy!ReloadFails, Orderly
<1>2. /\ box'.up = box.up /\ box'.loaded \in {box.loaded, files}
      /\ stale' = stale \/ box'.loaded = files
      /\ Alloy!Reloads => box'.loaded = files
  BY <1>1, Typed DEF Alloy!Reloads, Alloy!ReloadFails, Alloy!Box
<1>3. Live' = Live
  BY <1>2 DEF Live
<1>4. CASE run.pc = "again"
  <2>1. Alloy!Settle(FALSE)
    BY <1>4 DEF Alloy!Reloads, Alloy!ReloadFails
  <2>2. ~stale' => (~stale /\ run.pc \notin Alloy!Behind) \/ box'.loaded = files
    BY <1>2, <1>4 DEF Alloy!Behind
  <2>3. Live' => (Live /\ box'.loaded = box.loaded) \/ box'.loaded = files
    BY <1>2, <1>3
  <2> QED BY <1>1, <1>4, <2>1, <2>2, <2>3, SettleDraws
<1>5. ASSUME run.pc = "reload", NEW pc \in {"health", "restore"}, Alloy!Goes(pc),
             pc = "health" => box'.loaded = files
      PROVE  Drawn'
  <2>1. /\ run'.pc = pc /\ run'.input = run.input /\ run'.previous = run.previous
        /\ asked' = asked
    BY <1>1, <1>5, GoesOn DEF Pc
  <2> QED BY <1>1, <1>2, <1>3, <1>5, <2>1, Typed DEF Drawn, Alloy!Behind, Trying
<1> QED BY <1>1, <1>2, <1>4, <1>5 DEF Alloy!Reloads, Alloy!ReloadFails

(* An Alloy that is not healthy has loaded what may be taken back.          *)
LEMMA HealthDraws == ASSUME Orderly, Drawn, Alloy!Healthy \/ Alloy!Unhealthy PROVE Drawn'
<1>1. Alloy!TypeOK /\ run.pc \in {"health", "wait"} /\ UNCHANGED <<files, box, stale>> /\ Live' = Live
  BY DEF Alloy!Healthy, Alloy!Unhealthy, Orderly, Live
<1>2. CASE Alloy!Settle(TRUE) \/ Alloy!Settle(FALSE)
  BY <1>1, <1>2, SettleDraws DEF Alloy!Behind
<1>3. CASE run.pc = "health" /\ Alloy!Goes("restore")
  <2>1. /\ run'.pc = "restore" /\ run'.input = run.input /\ run'.previous = run.previous
        /\ asked' = asked
    BY <1>1, <1>3, GoesOn DEF Pc
  <2> QED BY <1>1, <1>3, <2>1, Typed DEF Drawn, Alloy!Behind, Trying
<1> QED BY <1>2, <1>3 DEF Alloy!Healthy, Alloy!Unhealthy

(* What fails, or dies, leaves Alloy behind, or as it was.                  *)
LEMMA FailsDraws == ASSUME Orderly, Drawn, Alloy!CallFails \/ Alloy!WriteFails PROVE Drawn'
<1>1. /\ Alloy!AlloyAssumption /\ Alloy!TypeOK /\ Alloy!Settle(FALSE) /\ files' = files
      /\ run.pc # "idle"
  BY DEF Alloy!CallFails, Alloy!WriteFails, Orderly
<1>2. CASE Alloy!Abandons
  <2>1. Live' = Live /\ box' = box /\ (~stale' => ~stale /\ run.pc \notin Alloy!Behind)
    BY <1>2 DEF Alloy!Abandons, Live
  <2> QED BY <1>1, <2>1, SettleDraws
<1>3. CASE run.pc \in {"remove", "create"} /\ box' = Alloy!Replaced
  <2>1. /\ run.pc = "remove" => box' = Alloy!NoBox
        /\ run.pc = "create" => box' = [Alloy!NoBox EXCEPT !.up = "created", !.label = run.input.static]
    BY <1>3 DEF Alloy!Replaced
  <2>2. box'.up \in {"absent", "created"}
    BY <1>1, <1>3, <2>1, Blanks DEF Alloy!Box
  <2>3. ~Live'
    BY <2>2 DEF Live
  <2> QED BY <1>1, <2>3, SettleDraws
<1>4. CASE run.pc = "start" /\ box' = Alloy!Replaced
  <2>1. box' = [box EXCEPT !.up = "running", !.loaded = files]
    BY <1>4 DEF Alloy!Replaced
  <2>2. box'.loaded = files
    BY <1>1, <2>1, Typed DEF Alloy!Box
  <2> QED BY <1>1, <2>2, SettleDraws
<1> QED BY <1>2, <1>3, <1>4 DEF Alloy!CallFails, Alloy!WriteFails

LEMMA CrashDraws == ASSUME Orderly, Drawn, Alloy!Crash PROVE Drawn'
<1>1. run' = Alloy!NoRun /\ UNCHANGED <<asked, files, box>> /\ Live' = Live
  BY DEF Alloy!Crash, Alloy!Abandons, Live
<1>2. ~stale' => ~stale /\ run.pc \notin Alloy!Behind
  BY DEF Alloy!Crash, Alloy!Abandons
<1>3. run'.pc = "idle"
  BY <1>1, Blanks DEF Orderly
<1> QED BY <1>1, <1>2, <1>3 DEF Drawn, Trying

(* Every step keeps it.                                                     *)
LEMMA NextDraws == ASSUME Orderly, Drawn, [Alloy!Next]_Alloy!vars PROVE Drawn'
<1>1. CASE UNCHANGED Alloy!vars
  BY <1>1 DEF Alloy!vars, Drawn, Live
<1> QED BY <1>1, OutsideDraws, EnsureDraws, LooksDraw, WritesDraw, ReplacesDraws,
           ReloadsDraw, HealthDraws, FailsDraws, CrashDraws DEF Alloy!Next, Alloy!Reconciles

(* There is no fragment yet.                                                *)
LEMMA InitDraws == ASSUME Alloy!AlloyAssumption PROVE Alloy!Init => Drawn
  BY Blanks DEF Alloy!Init, Drawn, Live, Trying

----------------------------------------------------------------------------
(* Theorems about the collector.                                            *)

(* The invariant of the collector's reconciles.                             *)
THEOREM AlloyOrderly == ASSUME Alloy!AlloyAssumption PROVE Alloy!Spec => []Orderly
<1>1. Alloy!Init => Orderly
  BY InitOrderly
<1>2. Orderly /\ [Alloy!Next]_Alloy!vars => Orderly'
  BY NextOrderly
<1> QED BY <1>1, <1>2, PTL DEF Alloy!Spec

(* Where a reconcile may end well.                                          *)
LEMMA SuccessIs ==
    ASSUME Orderly, Alloy!Next, Alloy!Succeeds
    PROVE  /\ pending = Alloy!Nothing /\ run.input = asked /\ asked' = asked /\ files' = files
           /\ box' = box /\ files = run.input /\ box.label = run.input.static
           /\ run.pc \in {"read", "health", "wait"} /\ stale' = stale
           /\ run.pc = "read" => run.current
<1>1. ASSUME NEW ok \in BOOLEAN, Alloy!Settle(ok) PROVE ok = TRUE /\ pending = Alloy!Nothing /\ asked' = asked
  BY <1>1, Settles DEF Orderly, Alloy!Succeeds
<1>2. ASSUME NEW pc \in Pc \ {"idle"}, Alloy!Goes(pc) PROVE FALSE
  BY <1>2, GoesOn DEF Orderly, Alloy!Succeeds
<1>3. run.pc # "idle" /\ run'.pc = "idle" /\ outcome' = "ok"
  BY DEF Alloy!Succeeds
<1>4. \/ Alloy!Reads /\ run.current /\ files = run.input /\ Alloy!Settle(TRUE)
      \/ Alloy!Healthy
  <2>1. ~(Alloy!Changes \/ Alloy!Dies \/ Alloy!Restarts \/ Alloy!ReloadsLate)
    BY <1>3 DEF Alloy!Changes, Alloy!Dies, Alloy!Restarts, Alloy!ReloadsLate
  <2>2. ~Alloy!Ensure
    BY <1>3 DEF Alloy!Ensure
  <2>3. ~Alloy!Crash
    BY <1>3 DEF Alloy!Crash
  <2>4. ~Alloy!Inspects /\ ~Alloy!Renames
    BY <1>3, Typed DEF Alloy!Inspects, Alloy!Renames, Orderly, Alloy!TypeOK, Alloy!Run
  <2>5. ~Alloy!CallFails /\ ~Alloy!WriteFails
    BY <1>1 DEF Alloy!CallFails, Alloy!WriteFails
  <2>6. ~Alloy!Validates /\ ~Alloy!WritesStatic /\ ~Alloy!WritesDynamic /\ ~Alloy!Restores /\ ~Alloy!Replaces
    BY <1>2 DEF Alloy!Validates, Alloy!WritesStatic, Alloy!WritesDynamic, Alloy!Restores, Alloy!Replaces, Pc
  <2>7. ~Alloy!Reloads /\ ~Alloy!ReloadFails /\ ~Alloy!Unhealthy
    BY <1>1, <1>2 DEF Alloy!Reloads, Alloy!ReloadFails, Alloy!Unhealthy, Pc
  <2>8. ASSUME Alloy!Reads, ~(run.current /\ files = run.input) PROVE FALSE
    BY <1>3, <2>8, Typed DEF Alloy!Reads, Orderly, Alloy!TypeOK, Alloy!Run
  <2>9. Alloy!Reads \/ Alloy!Healthy
    BY <2>1, <2>2, <2>3, <2>4, <2>5, <2>6, <2>7 DEF Alloy!Next, Alloy!Reconciles
  <2> QED BY <2>8, <2>9 DEF Alloy!Reads
<1>5. Alloy!Settle(TRUE) /\ files' = files /\ box' = box /\ stale' = stale
  BY <1>4 DEF Alloy!Healthy, Alloy!Reads
<1>6. pending = Alloy!Nothing /\ asked' = asked
  BY <1>1, <1>5
<1>7. run.input = asked
  BY <1>3, <1>6 DEF Orderly, Asking
<1>8. CASE Alloy!Reads /\ run.current /\ files = run.input
  BY <1>5, <1>6, <1>7, <1>8 DEF Alloy!Reads, Orderly, InPlace
<1>9. CASE Alloy!Healthy
  BY <1>5, <1>6, <1>7, <1>9 DEF Alloy!Healthy, Orderly, InPlace
<1> QED BY <1>4, <1>8, <1>9

(* Callers of ensureAlloyRuntime that hear of a success know that the latest *)
(* configuration is on disk and the container was made for it and reads it. *)
THEOREM Latest == ASSUME Alloy!AlloyAssumption PROVE Alloy!Spec => Alloy!SuccessIsLatest
<1>1. ASSUME Orderly, Alloy!Next, Alloy!Succeeds
      PROVE  /\ files' = asked' /\ box'.label = asked'.static
             /\ box'.up = "running" => box'.loaded.static = asked'.static
  BY <1>1, SuccessIs, Typed DEF Orderly, InOrder, Live
<1>2. Orderly /\ [Alloy!Next]_Alloy!vars =>
        [Alloy!Succeeds =>
           /\ files' = asked' /\ box'.label = asked'.static
           /\ box'.up = "running" => box'.loaded.static = asked'.static]_Alloy!vars
  BY <1>1
<1>3. Alloy!Spec => []Orderly
  BY AlloyOrderly
<1> QED BY <1>2, <1>3, PTL DEF Alloy!Spec, Alloy!SuccessIsLatest

(* Whatever fails or dies, what a snapshot takes for done is what Alloy has *)
(* loaded, unless Alloy still has to read a fragment that an earlier        *)
(* reconcile, cut short by a crash or by a failed write or removal, left on *)
(* disk (replaceAlloyDynamicConfig, reconcileAlloyRuntime).                 *)
THEOREM Loaded == ASSUME Alloy!AlloyAssumption PROVE Alloy!Spec => Alloy!SuccessIsLoaded
<1>1. Alloy!Spec => []Drawn
  <2>1. Orderly /\ Orderly' /\ Drawn /\ [Alloy!Next]_Alloy!vars => Drawn'
    BY NextDraws
  <2>2. Alloy!Init => Drawn
    BY InitDraws
  <2>3. Alloy!Spec => []Orderly
    BY AlloyOrderly
  <2> QED BY <2>1, <2>2, <2>3, PTL DEF Alloy!Spec
<1>2. ASSUME Orderly, Drawn, Alloy!Next, Alloy!Succeeds, box'.up = "running", ~stale' PROVE box'.loaded = asked'
  <2>1. /\ files = asked /\ box' = box /\ asked' = asked /\ Live /\ stale' = stale
        /\ run.pc \in {"read", "health", "wait"} /\ box.label = asked.static
    BY <1>2, SuccessIs DEF Live
  <2>2. box.loaded.dynamic = asked.dynamic
    BY <1>2, <2>1, Typed DEF Orderly, Drawn, Alloy!Behind
  <2>3. box.loaded.static = asked.static
    BY <1>2, <2>1, Typed DEF Orderly, InOrder
  <2> QED BY <1>2, <2>1, <2>2, <2>3, Typed, SameConfig DEF Orderly
<1>3. Orderly /\ Drawn /\ [Alloy!Next]_Alloy!vars =>
        [Alloy!Succeeds /\ box'.up = "running" /\ ~stale' => box'.loaded = asked']_Alloy!vars
  BY <1>2
<1>4. Alloy!Spec => []Orderly
  BY AlloyOrderly
<1> QED BY <1>1, <1>3, <1>4, PTL DEF Alloy!Spec, Alloy!SuccessIsLoaded

----------------------------------------------------------------------------
(***************************************************************************)
(* What a heartbeat carries: the inventory of the databases, for any        *)
(* databases, workers, passes, changes and faults.                          *)
(***************************************************************************)

CONSTANTS Databases, Unresolved, Workers, MaxPasses, MaxChanges
VARIABLES real, pass, latest, seen, newest, changes

Health == INSTANCE DatabaseHealth

APass == [pc: {"new", "list", "observe", "over"}, stage: [Databases -> Health!Stage],
          found: [Databases -> Health!State]]

(* Passes follow one another, and none publishes out of its turn.           *)
InTurn ==
    /\ \A i, j \in Health!Pass : j < i /\ pass[i].pc # "new" => pass[j].pc = "over"
    /\ newest # 0 => pass[newest].pc # "new"

(* What a pass holds about a database is what it has been since the stamp.  *)
GroundedAt(i, d) ==
    /\ pass[i].pc # "new" => real[d] \in seen[i][d]
    /\ pass[i].pc \in {"new", "list"} => pass[i].found[d] = "unknown"
    /\ pass[i].pc # "observe" => pass[i].stage[d] \in {"unlisted", "done"}
    /\ pass[i].pc = "observe" =>
         /\ pass[i].stage[d] = "unlisted" => "absent" \in seen[i][d]
         /\ pass[i].stage[d] = "logs" => "stopped" \in seen[i][d]
         /\ seen[i][d] \cap Health!Grounds[pass[i].found[d]] # {}

Grounded ==
    /\ Health!DatabaseHealthAssumption
    /\ Health!InventoryIsTrue
    /\ InTurn
    /\ \A i \in Health!Pass, d \in Databases : GroundedAt(i, d)

----------------------------------------------------------------------------
(* What a database may have been for an inventory to say what it says.       *)
LEMMA Entries ==
    /\ Health!Grounds["missing"] = {"absent"} /\ Health!Grounds["unavailable"] = {"absent", "stopped"}
    /\ Health!Grounds["ready"] = {"up"} /\ Health!Grounds["unknown"] = Health!Real
  BY DEF Health!Grounds

(* The parts of the invariant that are types.                                *)
LEMMA PassTyped ==
    ASSUME Grounded
    PROVE  /\ MaxPasses \in Nat /\ MaxChanges \in Nat /\ MaxFaults \in Nat
           /\ Health!TypeOK /\ real \in [Databases -> Health!Real] /\ pass \in [Health!Pass -> APass]
           /\ seen \in [Health!Pass -> [Databases -> SUBSET Health!Real]]
           /\ newest \in 0 .. MaxPasses /\ changes \in 0 .. MaxChanges /\ faults \in 0 .. MaxFaults
           /\ latest.stamp \in {0, newest}
           /\ \A d \in Databases : latest.grounds[d] \cap Health!Grounds[latest.entry[d]] # {}
  BY DEF Grounded, Health!DatabaseHealthAssumption, Health!InventoryIsTrue, Health!TypeOK, APass

(* A pass at work is the last that published, or comes after it.            *)
LEMMA Newest == ASSUME Grounded, NEW i \in Health!Pass, pass[i].pc \in {"list", "observe"}
                PROVE  newest <= i
<1>1. newest \in 0 .. MaxPasses /\ i \in 1 .. MaxPasses
  BY PassTyped DEF Health!Pass
<1>2. CASE newest > i
  <2>1. newest \in Health!Pass /\ newest # 0
    BY <1>1, <1>2 DEF Health!Pass
  <2>2. pass[i].pc = "over"
    BY <1>2, <2>1 DEF Grounded, InTurn
  <2> QED BY <2>2
<1> QED BY <1>1, <1>2

(* A pass at work goes on to p, and publishes or not.                       *)
LEMMA Continues ==
    ASSUME Grounded, NEW i \in Health!Pass, NEW p \in APass, pass[i].pc \in {"list", "observe"},
           pass' = [pass EXCEPT ![i] = p], p.pc \in {"observe", "over"},
           UNCHANGED <<real, seen, changes>>, faults' \in 0 .. MaxFaults,
           p.pc = "over" => \A d \in Databases : p.stage[d] \in {"unlisted", "done"},
           p.pc = "observe" => \A d \in Databases :
             /\ p.stage[d] = "unlisted" => "absent" \in seen[i][d]
             /\ p.stage[d] = "logs" => "stopped" \in seen[i][d]
             /\ seen[i][d] \cap Health!Grounds[p.found[d]] # {},
           \/ UNCHANGED <<latest, newest>>
           \/ /\ Health!Publish(i)
              /\ \A d \in Databases :
                   /\ p.stage[d] = "unlisted" => "absent" \in seen[i][d]
                   /\ seen[i][d] \cap Health!Grounds[p.found[d]] # {}
    PROVE  Grounded'
<1>0. i \in 1 .. MaxPasses /\ MaxPasses \in Nat
  BY PassTyped DEF Health!Pass
<1>1. /\ pass' \in [Health!Pass -> APass] /\ pass'[i] = p
      /\ \A j \in Health!Pass : j # i => pass'[j] = pass[j]
  BY PassTyped
<1>2. Health!InventoryIsTrue' /\ (newest' # 0 => pass'[newest'].pc # "new") /\ newest' \in 0 .. MaxPasses
  <2>1. CASE UNCHANGED <<latest, newest>>
    <3>1. Health!TypeOK'
      BY <1>1, <2>1, PassTyped DEF Health!TypeOK, APass
    <3>2. newest' # 0 => pass'[newest'].pc # "new"
      BY <1>1, <2>1, PassTyped DEF Grounded, InTurn, Health!Pass
    <3> QED BY <2>1, <3>1, <3>2, PassTyped DEF Health!InventoryIsTrue, Health!Grounds
  <2>2. CASE /\ Health!Publish(i)
             /\ \A d \in Databases :
                  /\ p.stage[d] = "unlisted" => "absent" \in seen[i][d]
                  /\ seen[i][d] \cap Health!Grounds[p.found[d]] # {}
    <3>1. newest' = i
      BY <2>2, <1>0, Newest, PassTyped DEF Health!Publish
    <3> DEFINE entry == [d \in Databases |-> IF p.stage[d] = "unlisted" THEN "missing"
                                             ELSE p.found[d]]
    <3>2. latest' = [stamp |-> i, entry |-> entry, grounds |-> seen[i]]
      BY <1>1, <2>2 DEF Health!Publish
    <3>3. /\ entry \in [Databases -> Health!State \cup {"missing"}]
          /\ seen[i] \in [Databases -> SUBSET Health!Real]
      BY PassTyped DEF APass
    <3>4. \A d \in Databases : seen[i][d] \cap Health!Grounds[entry[d]] # {}
      BY <2>2, Entries
    <3> HIDE DEF entry
    <3>5. latest'.stamp = i /\ latest'.entry = entry /\ latest'.grounds = seen[i]
      BY <3>2
    <3>6. latest' \in [stamp: 0 .. MaxPasses, entry: [Databases -> Health!State \cup {"missing"}],
                       grounds: [Databases -> SUBSET Health!Real]]
      BY <1>0, <3>2, <3>3
    <3>7. Health!TypeOK'
      BY <1>0, <1>1, <3>1, <3>6, PassTyped DEF Health!TypeOK, APass
    <3>8. \A d \in Databases : latest'.grounds[d] \cap Health!Grounds[latest'.entry[d]] # {}
      BY <3>4, <3>5
    <3>9. Health!InventoryIsTrue'
      BY <3>1, <3>5, <3>7, <3>8 DEF Health!InventoryIsTrue, Health!Grounds
    <3> QED BY <1>0, <1>1, <3>1, <3>9
  <2> QED BY <2>1, <2>2
<1>3. \A j, k \in Health!Pass : k < j /\ pass'[j].pc # "new" => pass'[k].pc = "over"
  <2> SUFFICES ASSUME NEW j \in Health!Pass, NEW k \in Health!Pass, k < j, pass'[j].pc # "new"
               PROVE  pass'[k].pc = "over"
    OBVIOUS
  <2>1. pass[j].pc # "new"
    BY <1>1
  <2>2. pass[k].pc = "over"
    BY <2>1 DEF Grounded, InTurn
  <2> QED BY <1>1, <2>2
<1>4. ASSUME NEW j \in Health!Pass, NEW d \in Databases PROVE GroundedAt(j, d)'
  <2>1. GroundedAt(j, d) /\ GroundedAt(i, d)
    BY DEF Grounded
  <2>2. CASE j # i
    BY <1>1, <2>1, <2>2 DEF GroundedAt, Health!Grounds
  <2>3. CASE j = i
    BY <1>1, <2>1, <2>3 DEF GroundedAt, Health!Grounds
  <2> QED BY <2>2, <2>3
<1> QED BY <1>2, <1>3, <1>4 DEF Grounded, InTurn

----------------------------------------------------------------------------
(* The steps of a pass.                                                     *)

(* A pass begins with what is there.                                        *)
LEMMA BeginGrounded ==
    ASSUME Grounded, NEW i \in Health!Pass, Health!Begin(i)
    PROVE  Grounded'
<1> DEFINE p == [pass[i] EXCEPT !.pc = "list"]
<1>1. /\ pass' = [pass EXCEPT ![i] = p] /\ pass[i].pc = "new"
      /\ \A j \in 1 .. i - 1 : pass[j].pc = "over"
      /\ seen' = [seen EXCEPT ![i] = [d \in Databases |-> {real[d]}]]
      /\ UNCHANGED <<real, latest, newest, changes, faults>>
  BY DEF Health!Begin
<1>2. p \in APass /\ p.pc = "list" /\ p.found = pass[i].found /\ p.stage = pass[i].stage
  BY PassTyped DEF APass
<1> HIDE DEF p
<1>3. /\ pass' \in [Health!Pass -> APass] /\ pass'[i] = p
      /\ \A j \in Health!Pass : j # i => pass'[j] = pass[j]
  BY <1>1, <1>2, PassTyped
<1>4. [d \in Databases |-> {real[d]}] \in [Databases -> SUBSET Health!Real]
  BY PassTyped
<1>5. /\ seen' \in [Health!Pass -> [Databases -> SUBSET Health!Real]]
      /\ \A d \in Databases : seen'[i][d] = {real[d]}
      /\ \A j \in Health!Pass : j # i => seen'[j] = seen[j]
  BY <1>1, <1>4, PassTyped
<1>6. Health!TypeOK'
  BY <1>1, <1>3, <1>5, PassTyped DEF Health!TypeOK, APass
<1>7. Health!InventoryIsTrue'
  BY <1>1, <1>6, PassTyped DEF Health!InventoryIsTrue, Health!Grounds
<1>8. InTurn'
  <2>1. ASSUME NEW j \in Health!Pass, NEW k \in Health!Pass, k < j, pass'[j].pc # "new"
        PROVE  pass'[k].pc = "over"
    <3>1. CASE j = i
      BY <1>1, <1>3, <2>1, <3>1 DEF Health!Pass
    <3>2. CASE j # i
      <4>1. pass[k].pc = "over"
        BY <1>3, <2>1, <3>2 DEF Grounded, InTurn
      <4> QED BY <1>1, <1>3, <4>1
    <3> QED BY <3>1, <3>2
  <2>2. newest' # 0 => pass'[newest'].pc # "new"
    BY <1>1, <1>2, <1>3, PassTyped DEF Grounded, InTurn, Health!Pass
  <2> QED BY <2>1, <2>2 DEF InTurn
<1>9. ASSUME NEW j \in Health!Pass, NEW d \in Databases PROVE GroundedAt(j, d)'
  <2>1. GroundedAt(j, d) /\ GroundedAt(i, d)
    BY DEF Grounded
  <2>2. CASE j = i
    BY <1>1, <1>2, <1>3, <1>5, <2>1, <2>2 DEF GroundedAt
  <2>3. CASE j # i
    BY <1>1, <1>3, <1>5, <2>1, <2>3 DEF GroundedAt, Health!Grounds
  <2> QED BY <2>2, <2>3
<1> QED BY <1>7, <1>8, <1>9 DEF Grounded

(* The listing finds absent what it does not name.                          *)
LEMMA ListGrounded == ASSUME Grounded, NEW i \in Health!Pass, Health!List(i) PROVE Grounded'
<1> DEFINE stage == [d \in Databases |-> IF real[d] = "absent" THEN "unlisted" ELSE "todo"]
           p == [pass[i] EXCEPT !.pc = "observe", !.stage = stage]
<1>1. /\ pass' = [pass EXCEPT ![i] = p] /\ pass[i].pc = "list" /\ Health!Publish(i)
      /\ UNCHANGED <<real, seen, changes, faults>>
  BY DEF Health!List
<1>2. pass[i] \in APass /\ stage \in [Databases -> Health!Stage]
  BY PassTyped DEF Health!Stage
<1>3. \A d \in Databases :
        /\ stage[d] = "unlisted" => real[d] = "absent"
        /\ stage[d] # "logs"
  OBVIOUS
<1> HIDE DEF stage
<1>4. p \in APass /\ p.pc = "observe" /\ p.found = pass[i].found /\ p.stage = stage
  BY <1>2 DEF APass
<1> HIDE DEF p
<1>5. ASSUME NEW d \in Databases
      PROVE  /\ p.stage[d] = "unlisted" => "absent" \in seen[i][d]
             /\ p.stage[d] = "logs" => "stopped" \in seen[i][d]
             /\ seen[i][d] \cap Health!Grounds[p.found[d]] # {}
  <2>1. real[d] \in seen[i][d] /\ pass[i].found[d] = "unknown" /\ real[d] \in Health!Real
    BY <1>1, PassTyped DEF Grounded, GroundedAt
  <2> QED BY <1>3, <1>4, <2>1, Entries
<1>6. faults' \in 0 .. MaxFaults
  BY <1>1, PassTyped
<1> QED BY <1>1, <1>4, <1>5, <1>6, Continues

(* A database goes on to stage s within its pass, and is found or not.      *)
LEMMA Observes ==
    ASSUME Grounded, NEW i \in Health!Pass, NEW d \in Databases,
           NEW s \in Health!Stage \ {"unlisted"},
           NEW f \in Health!State, pass[i].pc = "observe",
           pass' = [pass EXCEPT ![i].stage[d] = s, ![i].found[d] = f],
           UNCHANGED <<real, seen, changes>>, faults' \in 0 .. MaxFaults,
           s = "logs" => "stopped" \in seen[i][d],
           seen[i][d] \cap Health!Grounds[f] # {},
           UNCHANGED <<latest, newest>> \/ Health!Publish(i)
    PROVE  Grounded'
<1> DEFINE stage == [pass[i].stage EXCEPT ![d] = s]
           found == [pass[i].found EXCEPT ![d] = f]
           p == [pass[i] EXCEPT !.stage = stage, !.found = found]
<1>0. pass \in [Health!Pass -> APass] /\ pass[i] \in APass
  BY PassTyped
<1>1. pass' = [pass EXCEPT ![i] = p]
  BY <1>0 DEF APass
<1>2. /\ stage \in [Databases -> Health!Stage] /\ found \in [Databases -> Health!State]
      /\ stage[d] = s /\ found[d] = f
      /\ \A e \in Databases : e # d => stage[e] = pass[i].stage[e] /\ found[e] = pass[i].found[e]
  BY <1>0 DEF APass
<1> HIDE DEF stage, found
<1>3. p \in APass /\ p.pc = "observe" /\ p.stage = stage /\ p.found = found
  BY <1>0, <1>2 DEF APass
<1> HIDE DEF p
<1>4. ASSUME NEW e \in Databases
      PROVE  /\ p.stage[e] = "unlisted" => "absent" \in seen[i][e]
             /\ p.stage[e] = "logs" => "stopped" \in seen[i][e]
             /\ seen[i][e] \cap Health!Grounds[p.found[e]] # {}
  <2>1. CASE e = d
    BY <1>2, <1>3, <2>1
  <2>2. CASE e # d
    BY <1>2, <1>3, <2>2 DEF Grounded, GroundedAt
  <2> QED BY <2>1, <2>2
<1> QED BY <1>1, <1>3, <1>4, Continues

(* Only a stage that has come goes on: no pass that ended is at work.       *)
LEMMA StagesGrounded ==
    ASSUME Grounded, NEW i \in Health!Pass, NEW d \in Databases,
           NEW s \in Health!Stage \ {"unlisted"},
           pass[i].pc = "observe", Health!Stages(i, d, s),
           UNCHANGED <<real, latest, seen, newest, changes, faults>>,
           s = "logs" => "stopped" \in seen[i][d]
    PROVE  Grounded'
<1> DEFINE f == pass[i].found[d]
<1>0. pass \in [Health!Pass -> APass] /\ pass[i] \in APass
  BY PassTyped
<1>1. f \in Health!State /\ pass[i].found \in [Databases -> Health!State]
  BY <1>0 DEF APass
<1>2. [pass[i].found EXCEPT ![d] = f] = pass[i].found
  BY <1>1
<1>3. pass' = [pass EXCEPT ![i].stage[d] = s, ![i].found[d] = f]
  <2>1. \A q \in APass : [q.found EXCEPT ![d] = f] = q.found =>
          [q EXCEPT !.stage[d] = s] = [q EXCEPT !.stage[d] = s, !.found[d] = f]
    BY DEF APass
  <2>2. [pass[i] EXCEPT !.stage[d] = s] = [pass[i] EXCEPT !.stage[d] = s, !.found[d] = f]
    BY <1>0, <1>2, <2>1
  <2> QED BY <1>0, <2>2 DEF Health!Stages
<1>4. seen[i][d] \cap Health!Grounds[f] # {}
  BY DEF Grounded, GroundedAt
<1>5. faults' \in 0 .. MaxFaults
  BY PassTyped
<1> HIDE DEF f
<1> QED BY <1>1, <1>3, <1>4, <1>5, Observes

(* A database at a stage of a pass is one of those the pass listed.          *)
LEMMA AtWork ==
    ASSUME Grounded, NEW i \in Health!Pass, NEW d \in Databases
    PROVE  /\ pass[i].stage[d] \in {"todo", "inspect", "logs", "probe"} => pass[i].pc = "observe"
           /\ GroundedAt(i, d)
           /\ pass[i].pc = "observe" => real[d] \in seen[i][d]
           /\ real[d] \in Health!Real
           /\ seen[i][d] \in SUBSET Health!Real
  BY PassTyped DEF Grounded, GroundedAt

(* A finding, at a stage that has come, on grounds the pass has seen.       *)
LEMMA FindsGrounded ==
    ASSUME Grounded, NEW i \in Health!Pass, NEW d \in Databases, NEW f \in Health!State,
           pass[i].pc = "observe",
           Health!Finds(i, d, f), UNCHANGED <<real, seen, changes>>, faults' \in 0 .. MaxFaults,
           seen[i][d] \cap Health!Grounds[f] # {}
    PROVE  Grounded'
<1>1. pass' = [pass EXCEPT ![i].stage[d] = "done", ![i].found[d] = f] /\ Health!Publish(i)
  BY DEF Health!Finds
<1>2. "done" \in Health!Stage \ {"unlisted"}
  BY DEF Health!Stage
<1> QED BY <1>1, <1>2, Observes

(* A worker takes the next database of its pass.                             *)
LEMMA TakeGrounded ==
    ASSUME Grounded, NEW i \in Health!Pass, NEW d \in Databases, Health!Take(i, d)
    PROVE  Grounded'
<1>1. pass[i].pc = "observe"
  BY AtWork DEF Health!Take
<1>2. PICK s \in {"done", "inspect"} : Health!Stages(i, d, s)
  BY DEF Health!Take
<1>3. s \in Health!Stage \ {"unlisted"}
  BY DEF Health!Stage
<1> QED BY <1>1, <1>2, <1>3, StagesGrounded DEF Health!Take

(* Inspection: running goes on to the probe, stopped to the log, absent is found. *)
LEMMA InspectGrounded ==
    ASSUME Grounded, NEW i \in Health!Pass, NEW d \in Databases, Health!Inspect(i, d)
    PROVE  Grounded'
<1>1. /\ pass[i].pc = "observe" /\ real[d] \in seen[i][d] /\ real[d] \in Health!Real
      /\ UNCHANGED <<real, seen, changes, faults>> /\ faults' \in 0 .. MaxFaults
  BY AtWork, PassTyped DEF Health!Inspect
<1>2. CASE real[d] = "absent"
  <2>1. Health!Finds(i, d, "unavailable")
    BY <1>2 DEF Health!Inspect
  <2> QED BY <1>1, <1>2, <2>1, FindsGrounded, Entries DEF Health!State
<1>3. CASE real[d] = "created"
  <2>1. Health!Finds(i, d, "unknown")
    BY <1>3 DEF Health!Inspect
  <2> QED BY <1>1, <1>3, <2>1, FindsGrounded, Entries DEF Health!State
<1>4. CASE real[d] = "stopped"
  <2>1. Health!Stages(i, d, "logs") /\ UNCHANGED <<latest, newest>>
    BY <1>4 DEF Health!Inspect
  <2> QED BY <1>1, <1>4, <2>1, StagesGrounded DEF Health!Stage
<1>5. CASE real[d] = "up"
  <2>1. Health!Stages(i, d, "probe") /\ UNCHANGED <<latest, newest>>
    BY <1>5 DEF Health!Inspect
  <2> QED BY <1>1, <1>5, <2>1, StagesGrounded DEF Health!Stage
<1> QED BY <1>1, <1>2, <1>3, <1>4, <1>5 DEF Health!Real

(* That it had stopped was seen before its log was read.                    *)
LEMMA ReadLogGrounded ==
    ASSUME Grounded, NEW i \in Health!Pass, NEW d \in Databases, Health!ReadLog(i, d)
    PROVE  Grounded'
<1>1. pass[i].pc = "observe" /\ "stopped" \in seen[i][d]
  BY AtWork DEF Health!ReadLog, GroundedAt
<1>2. faults' \in 0 .. MaxFaults
  BY PassTyped DEF Health!ReadLog
<1> QED BY <1>1, <1>2, FindsGrounded, Entries DEF Health!ReadLog, Health!State

(* The probe's answer is of the moment it is asked.                          *)
LEMMA ProbeGrounded ==
    ASSUME Grounded, NEW i \in Health!Pass, NEW d \in Databases, Health!Probe(i, d)
    PROVE  Grounded'
<1>1. /\ pass[i].pc = "observe" /\ real[d] \in seen[i][d] /\ real[d] \in Health!Real
      /\ UNCHANGED <<real, seen, changes>> /\ faults' \in 0 .. MaxFaults
  BY AtWork, PassTyped DEF Health!Probe
<1>2. CASE real[d] = "up" /\ Health!Finds(i, d, "ready")
  BY <1>1, <1>2, FindsGrounded, Entries DEF Health!State
<1>3. CASE Health!Finds(i, d, "unknown")
  BY <1>1, <1>3, FindsGrounded, Entries DEF Health!State
<1> QED BY <1>2, <1>3 DEF Health!Probe

(* A failed inspection says unknown, which is true of anything.              *)
LEMMA InspectFailsGrounded ==
    ASSUME Grounded, NEW i \in Health!Pass, NEW d \in Databases, Health!InspectFails(i, d)
    PROVE  Grounded'
<1>1. /\ pass[i].pc = "observe" /\ real[d] \in seen[i][d] /\ real[d] \in Health!Real
      /\ UNCHANGED <<real, seen, changes>> /\ faults' \in 0 .. MaxFaults /\ Health!Finds(i, d, "unknown")
  BY AtWork, PassTyped DEF Health!InspectFails, Health!Fault
<1> QED BY <1>1, FindsGrounded, Entries DEF Health!State

(* A pass that has observed everything ends with its inventory published.    *)
LEMMA EndPassGrounded ==
    ASSUME Grounded, NEW i \in Health!Pass, Health!EndPass(i)
    PROVE  Grounded'
<1> DEFINE p == [pass[i] EXCEPT !.pc = "over"]
<1>1. /\ pass' = [pass EXCEPT ![i] = p] /\ pass[i].pc = "observe" /\ Health!Publish(i)
      /\ \A d \in Databases : pass[i].stage[d] \in {"unlisted", "done"}
      /\ UNCHANGED <<real, seen, changes, faults>> /\ faults' \in 0 .. MaxFaults
  BY PassTyped DEF Health!EndPass
<1>2. p \in APass /\ p.pc = "over" /\ p.found = pass[i].found /\ p.stage = pass[i].stage
  BY PassTyped DEF APass
<1> HIDE DEF p
<1>3. \A d \in Databases : /\ p.stage[d] = "unlisted" => "absent" \in seen[i][d]
                          /\ seen[i][d] \cap Health!Grounds[p.found[d]] # {}
  BY <1>1, <1>2 DEF Grounded, GroundedAt
<1> QED BY <1>1, <1>2, <1>3, Continues

(* A failed listing leaves the inventory that was published before.          *)
LEMMA ListFailsGrounded ==
    ASSUME Grounded, NEW i \in Health!Pass, Health!ListFails(i)
    PROVE  Grounded'
<1> DEFINE p == [pass[i] EXCEPT !.pc = "over"]
<1>1. /\ pass' = [pass EXCEPT ![i] = p] /\ pass[i].pc = "list"
      /\ UNCHANGED <<real, latest, seen, newest, changes>> /\ faults' \in 0 .. MaxFaults
  BY PassTyped DEF Health!ListFails, Health!Fault
<1>2. p \in APass /\ p.pc = "over" /\ p.stage = pass[i].stage
  BY PassTyped DEF APass
<1> HIDE DEF p
<1>3. \A d \in Databases : p.stage[d] \in {"unlisted", "done"}
  BY <1>1, <1>2 DEF Grounded, GroundedAt
<1> QED BY <1>1, <1>2, <1>3, Continues

----------------------------------------------------------------------------
(* Everything around the passes.                                            *)

(* What becomes of a database is seen by every pass that has begun.         *)
LEMMA BecomesGrounded ==
    ASSUME Grounded, NEW e \in Databases, NEW r \in Health!Real, Health!Becomes(e, r)
    PROVE  Grounded'
<1>1. /\ changes' \in 0 .. MaxChanges /\ real' = [real EXCEPT ![e] = r]
      /\ UNCHANGED <<pass, latest, newest, faults>>
  BY PassTyped DEF Health!Becomes
<1>2. /\ real' \in [Databases -> Health!Real] /\ real'[e] = r
      /\ \A d \in Databases : d # e => real'[d] = real[d]
  BY <1>1, PassTyped
<1>3. ASSUME NEW i \in Health!Pass
      PROVE  /\ seen'[i] \in [Databases -> SUBSET Health!Real]
             /\ pass[i].pc # "new" => r \in seen'[i][e]
             /\ \A d \in Databases : /\ seen[i][d] \subseteq seen'[i][d]
                                     /\ d # e => seen'[i][d] = seen[i][d]
  <2>1. seen'[i] = [seen[i] EXCEPT ![e] = IF pass[i].pc = "new" THEN @ ELSE @ \cup {r}]
    BY DEF Health!Becomes
  <2>2. seen[i] \in [Databases -> SUBSET Health!Real]
    BY PassTyped
  <2> QED BY <2>1, <2>2
<1>4. seen' \in [Health!Pass -> [Databases -> SUBSET Health!Real]]
  <2>1. seen' = [i \in Health!Pass |-> seen'[i]]
    BY DEF Health!Becomes
  <2> QED BY <1>3, <2>1
<1>5. Health!TypeOK'
  BY <1>1, <1>2, <1>4, PassTyped DEF Health!TypeOK, APass
<1>6. Health!InventoryIsTrue'
  BY <1>1, <1>5, PassTyped DEF Health!InventoryIsTrue, Health!Grounds
<1>7. InTurn'
  BY <1>1 DEF Grounded, InTurn
<1>8. ASSUME NEW i \in Health!Pass, NEW d \in Databases PROVE GroundedAt(i, d)'
  <2>1. GroundedAt(i, d)
    BY DEF Grounded
  <2>2. seen[i][d] \subseteq seen'[i][d] /\ (pass[i].pc # "new" => real'[d] \in seen'[i][d])
    BY <1>2, <1>3, <2>1 DEF GroundedAt
  <2> QED BY <1>1, <2>1, <2>2 DEF GroundedAt, Health!Grounds
<1> QED BY <1>6, <1>7, <1>8 DEF Grounded

(* The passes and the inventory die with the process.                        *)
LEMMA CrashGrounded == ASSUME Grounded, Health!Crash PROVE Grounded'
<1> DEFINE over == [Health!NewPass EXCEPT !.pc = "over"]
<1>1. /\ faults' \in 0 .. MaxFaults /\ latest' = Health!NoReport
      /\ pass' = [i \in Health!Pass |-> IF pass[i].pc = "new" THEN pass[i] ELSE over]
      /\ UNCHANGED <<real, seen, newest, changes>>
  BY PassTyped DEF Health!Crash, Health!Fault
<1>2. /\ over \in APass /\ over.pc = "over"
      /\ \A d \in Databases : over.stage[d] = "unlisted"
  BY DEF Health!NewPass, APass, Health!Stage, Health!State
<1> HIDE DEF over
<1>3. /\ pass' \in [Health!Pass -> APass]
      /\ \A i \in Health!Pass : pass'[i] = IF pass[i].pc = "new" THEN pass[i] ELSE over
  BY <1>1, <1>2, PassTyped
<1>4. /\ Health!NoReport \in [stamp: 0 .. MaxPasses, entry: [Databases -> Health!State \cup {"missing"}],
                        grounds: [Databases -> SUBSET Health!Real]]
      /\ Health!NoReport.stamp = 0
      /\ \A d \in Databases : Health!NoReport.entry[d] = "unknown" /\ Health!NoReport.grounds[d] = Health!Real
  BY PassTyped DEF Health!NoReport, Health!State
<1>5. Health!TypeOK'
  BY <1>1, <1>3, <1>4, PassTyped DEF Health!TypeOK, APass
<1>6. Health!Real \cap Health!Grounds["unknown"] # {}
  BY Entries DEF Health!Real
<1>7. Health!InventoryIsTrue'
  <2>1. latest'.stamp = 0 /\ \A d \in Databases : latest'.grounds[d] \cap Health!Grounds[latest'.entry[d]] # {}
    BY <1>1, <1>4, <1>6
  <2> QED BY <1>5, <2>1 DEF Health!InventoryIsTrue, Health!Grounds
<1>8. InTurn'
  <2>1. \A i \in Health!Pass : pass'[i].pc = IF pass[i].pc = "new" THEN "new" ELSE "over"
    BY <1>2, <1>3
  <2>2. newest # 0 => newest \in Health!Pass
    BY PassTyped DEF Health!Pass
  <2>3. \A i, j \in Health!Pass : j < i /\ pass'[i].pc # "new" => pass'[j].pc = "over"
    BY <2>1 DEF Grounded, InTurn
  <2>4. newest' # 0 => pass'[newest'].pc # "new"
    BY <1>1, <2>1, <2>2 DEF Grounded, InTurn
  <2> QED BY <2>3, <2>4 DEF InTurn
<1>9. ASSUME NEW i \in Health!Pass, NEW d \in Databases PROVE GroundedAt(i, d)'
  BY <1>1, <1>2, <1>3 DEF Grounded, GroundedAt, Health!Grounds
<1> QED BY <1>7, <1>8, <1>9 DEF Grounded

(* Every step of a pass keeps the invariant.                                 *)
LEMMA ObserveGrounded ==
    ASSUME Grounded, NEW i \in Health!Pass, Health!Observe(i)
    PROVE  Grounded'
  BY BeginGrounded, ListGrounded, ListFailsGrounded, EndPassGrounded, TakeGrounded,
     InspectGrounded, ReadLogGrounded, ProbeGrounded,
     InspectFailsGrounded DEF Health!Observe

(* Every step of the passes, Docker and the agent keeps the invariant.       *)
LEMMA NextGrounded == ASSUME Grounded, [Health!Next]_Health!vars PROVE Grounded'
<1>1. CASE \E i \in Health!Pass : Health!Observe(i)
  BY <1>1, ObserveGrounded
<1>2. CASE \E d \in Databases : Health!Created(d) \/ Health!Starts(d) \/ Health!Stops(d) \/ Health!Removed(d)
  <2>1. PICK d \in Databases, r \in Health!Real : Health!Becomes(d, r)
    BY <1>2 DEF Health!Created, Health!Starts, Health!Stops, Health!Removed, Health!Real
  <2> QED BY <2>1, BecomesGrounded
<1>3. CASE Health!Crash
  BY <1>3, CrashGrounded
<1>4. CASE UNCHANGED Health!vars
  <2>0. /\ real' = real /\ pass' = pass /\ latest' = latest /\ seen' = seen
        /\ newest' = newest /\ changes' = changes /\ faults' = faults
    BY <1>4 DEF Health!vars
  <2>1. Health!TypeOK'
    BY <2>0 DEF Grounded, Health!InventoryIsTrue, Health!TypeOK
  <2>2. Health!InventoryIsTrue'
    BY <2>0, <2>1 DEF Grounded, Health!InventoryIsTrue
  <2>3. InTurn'
    BY <2>0 DEF Grounded, InTurn
  <2>4. \A i \in Health!Pass, d \in Databases : GroundedAt(i, d)'
    BY <2>0 DEF Grounded, GroundedAt
  <2> QED BY <2>2, <2>3, <2>4 DEF Grounded
<1> QED BY <1>1, <1>2, <1>3, <1>4 DEF Health!Next

(* No pass has begun and nothing is published.                               *)
LEMMA InitGrounded == ASSUME Health!DatabaseHealthAssumption, Health!Init PROVE Grounded
<1>0. MaxPasses \in Nat /\ MaxChanges \in Nat /\ MaxFaults \in Nat
  BY DEF Health!DatabaseHealthAssumption
<1>1. /\ Health!NewPass \in APass /\ Health!NewPass.pc = "new"
      /\ \A d \in Databases : Health!NewPass.stage[d] = "unlisted" /\ Health!NewPass.found[d] = "unknown"
  BY DEF Health!NewPass, APass, Health!Stage, Health!State
<1>2. /\ Health!NoReport \in [stamp: 0 .. MaxPasses, entry: [Databases -> Health!State \cup {"missing"}],
                        grounds: [Databases -> SUBSET Health!Real]]
      /\ Health!NoReport.stamp = 0
      /\ \A d \in Databases : Health!NoReport.entry[d] = "unknown" /\ Health!NoReport.grounds[d] = Health!Real
  BY <1>0 DEF Health!NoReport, Health!State
<1>3. Health!TypeOK
  BY <1>0, <1>1, <1>2 DEF Health!Init, Health!TypeOK, APass, Health!Real
<1>4. Health!Real \cap Health!Grounds["unknown"] # {}
  BY Entries DEF Health!Real
<1>5. Health!InventoryIsTrue
  BY <1>2, <1>3, <1>4 DEF Health!Init, Health!InventoryIsTrue
<1>6. InTurn
  BY <1>1 DEF Health!Init, InTurn
<1>7. ASSUME NEW i \in Health!Pass, NEW d \in Databases PROVE GroundedAt(i, d)
  BY <1>1 DEF Health!Init, GroundedAt
<1> QED BY <1>5, <1>6, <1>7 DEF Grounded

(* What a pass holds of a database is what it has seen since its stamp, and *)
(* passes follow one another (collectDatabaseRuntimeHealthReport).          *)
THEOREM InventoryGrounded ==
    ASSUME Health!DatabaseHealthAssumption
    PROVE  Health!Spec => []Grounded
  BY InitGrounded, NextGrounded, PTL DEF Health!Spec

(* For any databases, workers and passes, the inventory a heartbeat carries *)
(* says of every database only what it has been since the pass's stamp      *)
(* (collectDatabaseRuntimeHealthReport).                                    *)
THEOREM InventoryTrue ==
    ASSUME Health!DatabaseHealthAssumption
    PROVE  Health!Spec => []Health!InventoryIsTrue
<1>1. Grounded => Health!InventoryIsTrue
  BY DEF Grounded
<1> QED BY <1>1, InventoryGrounded, PTL

----------------------------------------------------------------------------
(***************************************************************************)
(* What a heartbeat has Traefik do: the ingress, for any projects,          *)
(* configurations, items and faults. No reconcile loses an attachment, and  *)
(* what one records of its outcome is so.                                   *)
(***************************************************************************)

CONSTANTS Projects, MaxPeers, MaxItems
VARIABLES peers, item, items, beat, handler, queue, failure, file, networks, joined, whole

Traefik == INSTANCE TraefikRuntime

Nets == box["primary"].nets

(* What a deploy attached Traefik to is there, and a primary that a          *)
(* reconcile saw through is attached to it, running or not.                 *)
Linked == joined \subseteq networks
Through == whole => joined \subseteq Nets

(* What the reconcile under way knows of the primary at each of its stages: *)
(* after the networks are listed, it is attached to what is not to do.      *)
AsAsked == box["primary"].image = "pinned" /\ box["primary"].cfg = run.cfg
InStage ==
    /\ run.pc \in {"write", "inspect"} => run.stage = "current"
    /\ run.pc = "pull" => run.stage = "candidate"
    /\ run.pc = "build" => run.stage # "current" /\ (whole => run.stage = "candidate")
    /\ run.pc = "cut" => run.stage \in {"primary", "rollback"}
    /\ run.pc = "health" => run.stage # "current"
    /\ run.pc \in {"list", "connect", "health"} =>
         /\ run.stage \in {"current", "primary"} => AsAsked
         /\ run.stage = "rollback" => box["primary"].image = run.previous
    /\ run.stage # "candidate" =>
         /\ run.pc = "connect" => joined \subseteq Nets \cup run.todo
         /\ run.pc = "health" => joined \subseteq Nets

(* A handler works for an item of its kind; a project that is being deleted *)
(* is not one Traefik has to be attached to.                                *)
OwnedBy(p) ==
    /\ handler[p].pc # "idle" => item[p] # "none"
    /\ handler[p].pc \in {"base", "network", "attach"} => item[p] = "deploy"
    /\ handler[p].pc = "attach" => p \in networks
    /\ handler[p].pc \in {"find", "inspect", "disconnect", "remove"} => item[p] = "delete"
    /\ item[p] = "delete" => p \notin joined
Owned == \A p \in Projects : OwnedBy(p)

(* A deploy waits for the reconcile it asked for, and has asked for one.     *)
Asked ==
    /\ \A i \in 1 .. Len(queue) : queue[i].who # "beat" =>
         /\ handler[queue[i].who].pc = "base"
         /\ \A j \in 1 .. Len(queue) : queue[j].who = queue[i].who => j = i
         /\ run.pc # "idle" => run.who # queue[i].who
    /\ run.pc # "idle" /\ run.who # "beat" => handler[run.who].pc = "base"

Joined ==
    /\ Traefik!TraefikAssumption
    /\ Traefik!TypeOK /\ Linked /\ Through /\ InStage /\ Owned /\ Asked

----------------------------------------------------------------------------
(* The blank records are of their types.                                    *)
LEMMA BlankRecords ==
    ASSUME MaxPeers \in Nat
    PROVE  /\ Traefik!Absent \in Traefik!Container /\ Traefik!Absent.up = "absent"
           /\ Traefik!Absent.image = "none" /\ Traefik!Absent.nets = {}
           /\ Traefik!NoRun \in Traefik!Run /\ Traefik!NoRun.pc = "idle"
           /\ Traefik!NoRun.who = "beat" /\ Traefik!NoRun.stage = "current"
           /\ Traefik!NoBeat \in Traefik!Beat
           /\ Traefik!NoHandler \in Traefik!Handler /\ Traefik!NoHandler.pc = "idle"
<1>1. Traefik!NoPeers \in Traefik!Config
  BY DEF Traefik!NoPeers, Traefik!Config
<1>2. /\ Traefik!Absent \in Traefik!Container /\ Traefik!Absent.up = "absent"
      /\ Traefik!Absent.image = "none" /\ Traefik!Absent.nets = {}
  BY <1>1 DEF Traefik!Absent, Traefik!Container
<1>3. /\ Traefik!NoRun \in Traefik!Run /\ Traefik!NoRun.pc = "idle"
      /\ Traefik!NoRun.who = "beat" /\ Traefik!NoRun.stage = "current"
  BY <1>1 DEF Traefik!NoRun, Traefik!Run, Traefik!Asker, Traefik!Stage
<1>4. Traefik!NoBeat \in Traefik!Beat
  BY <1>1 DEF Traefik!NoBeat, Traefik!Beat
<1>5. Traefik!NoHandler \in Traefik!Handler /\ Traefik!NoHandler.pc = "idle"
  BY DEF Traefik!NoHandler, Traefik!Handler, Traefik!Role
<1> QED BY <1>2, <1>3, <1>4, <1>5

(* The parts of the state are of their types.                               *)
LEMMA TraefikTyped ==
    ASSUME Joined
    PROVE  /\ MaxPeers \in Nat /\ MaxPeers >= 1 /\ MaxItems \in Nat /\ MaxFaults \in Nat
           /\ peers \in Traefik!Config /\ config \in Traefik!Config /\ file \in Traefik!Config
           /\ item \in [Projects -> {"none", "deploy", "delete"}] /\ items \in 0 .. MaxItems
           /\ beat \in Traefik!Beat /\ beat.answer \in Traefik!Config
           /\ handler \in [Projects -> Traefik!Handler]
           /\ queue \in Seq(Traefik!Request)
           /\ run \in Traefik!Run /\ run.stage \in Traefik!Stage
           /\ run.who \in Traefik!Asker /\ run.cfg \in Traefik!Config
           /\ run.previous \in {"none", "old", "pinned"} /\ run.ok \in BOOLEAN
           /\ run.todo \subseteq Projects
           /\ failure \in Traefik!Failure
           /\ box \in [Traefik!Role -> Traefik!Container] /\ box["primary"] \in Traefik!Container
           /\ Nets \subseteq Projects
           /\ networks \subseteq Projects /\ joined \subseteq Projects
           /\ whole \in BOOLEAN /\ faults \in 0 .. MaxFaults
<1>1. "primary" \in Traefik!Role
  BY DEF Traefik!Role
<1>2. MaxPeers \in Nat /\ MaxPeers >= 1 /\ MaxItems \in Nat /\ MaxFaults \in Nat
  BY DEF Joined, Traefik!TraefikAssumption
<1> QED BY <1>1, <1>2 DEF Joined, Traefik!TypeOK, Traefik!Run, Traefik!Beat, Traefik!Container, Nets

(* A fault is one of those that are allowed.                                *)
LEMMA Faulty == ASSUME Joined, Traefik!Fault PROVE faults' \in 0 .. MaxFaults
  BY TraefikTyped DEF Traefik!Fault

(* Who waits is a heartbeat or the handler of a project.                    *)
LEMMA Waiting ==
    ASSUME Joined, NEW i \in 1 .. Len(queue)
    PROVE  queue[i] \in Traefik!Request /\ queue[i].who \in {"beat"} \cup Projects
<1>1. queue[i] \in Traefik!Request
  BY TraefikTyped, ElementOfSeq
<1> QED BY <1>1 DEF Traefik!Request, Traefik!Asker

(* What a handler is for depends on nothing but it, its item and the sets.   *)
LEMMA StillOwned ==
    ASSUME Joined, UNCHANGED item, networks \subseteq networks', joined' \subseteq joined,
           handler' \in [Projects -> Traefik!Handler],
           \A p \in Projects : handler'[p].pc \in {handler[p].pc, "idle"}
    PROVE  Owned'
<1> SUFFICES ASSUME NEW p \in Projects PROVE OwnedBy(p)'
  BY DEF Owned
<1>1. handler'[p].pc = handler[p].pc \/ handler'[p].pc = "idle"
  OBVIOUS
<1> QED BY <1>1 DEF Joined, Owned, OwnedBy

(* Who waits for a reconcile goes on waiting.                               *)
LEMMA StillAsked ==
    ASSUME Joined, UNCHANGED queue, run'.pc # "idle" => run.pc # "idle" /\ run'.who = run.who,
           \A p \in Projects : handler[p].pc = "base" => handler'[p].pc = "base"
    PROVE  Asked'
<1>1. run.who \in {"beat"} \cup Projects
  BY TraefikTyped DEF Traefik!Asker
<1>2. \A i \in 1 .. Len(queue) : queue[i].who \in {"beat"} \cup Projects
  BY Waiting
<1> QED BY <1>1, <1>2 DEF Joined, Asked

(* The end of a reconcile, told to the one who waits for it.                *)
LEMMA Ended ==
    ASSUME Joined, NEW ok \in BOOLEAN, Traefik!Ends(ok), run.pc # "idle",
           UNCHANGED <<item, queue, networks, joined>>
    PROVE  /\ run' \in Traefik!Run /\ beat' \in Traefik!Beat /\ handler' \in [Projects -> Traefik!Handler]
           /\ InStage' /\ Owned' /\ Asked'
<1>1. run' \in Traefik!Run /\ run'.pc = "idle"
  BY BlankRecords, TraefikTyped DEF Traefik!Ends
<1>2. InStage'
  <2>1. run'.stage = "current"
    BY BlankRecords, TraefikTyped DEF Traefik!Ends
  <2> QED BY <1>1, <2>1 DEF InStage
<1>3. CASE run.who = "beat"
  <2>1. beat' \in Traefik!Beat /\ UNCHANGED handler
    BY <1>3, TraefikTyped DEF Traefik!Ends, Traefik!Told, Traefik!Beat
  <2> QED BY <1>1, <1>2, <2>1, TraefikTyped, StillOwned, StillAsked
<1>4. CASE run.who # "beat"
  <2> DEFINE who == run.who
             pc == IF ok THEN "network" ELSE "fail"
  <2>1. who \in Projects /\ handler[who].pc = "base" /\ pc \in {"network", "fail"}
    BY <1>4, TraefikTyped DEF Traefik!Asker, Joined, Asked
  <2>2. UNCHANGED beat /\ handler' = [handler EXCEPT ![who].pc = pc]
    BY <1>4 DEF Traefik!Ends, Traefik!Told
  <2> HIDE DEF pc
  <2>3. /\ handler' \in [Projects -> Traefik!Handler] /\ handler'[who].pc = pc
        /\ \A p \in Projects : p # who => handler'[p] = handler[p]
    BY <2>1, <2>2, TraefikTyped DEF Traefik!Handler
  <2>4. Owned'
    <3> SUFFICES ASSUME NEW p \in Projects PROVE OwnedBy(p)'
      BY DEF Owned
    <3>1. OwnedBy(p)
      BY DEF Joined, Owned
    <3>2. CASE p = who
      BY <2>1, <2>3, <3>1, <3>2 DEF OwnedBy
    <3>3. CASE p # who
      BY <2>3, <3>1, <3>3 DEF OwnedBy
    <3> QED BY <3>2, <3>3
  <2>5. Asked'
    <3> SUFFICES ASSUME NEW i \in 1 .. Len(queue), queue[i].who # "beat"
                 PROVE  /\ handler'[queue[i].who].pc = "base"
                        /\ \A j \in 1 .. Len(queue) : queue[j].who = queue[i].who => j = i
      BY <1>1 DEF Asked
    <3>1. /\ handler[queue[i].who].pc = "base" /\ queue[i].who # who
          /\ \A j \in 1 .. Len(queue) : queue[j].who = queue[i].who => j = i
      BY DEF Joined, Asked
    <3>2. queue[i].who \in Projects
      BY Waiting
    <3> QED BY <2>3, <3>1, <3>2
  <2> QED BY <1>1, <1>2, <2>2, <2>3, <2>4, <2>5, TraefikTyped
<1> QED BY <1>3, <1>4

(* A step of a reconcile that goes on.                                      *)
LEMMA RunsOn ==
    ASSUME Joined, UNCHANGED <<Traefik!control, config, beat, handler, queue, networks, joined>>,
           run.pc # "idle", run' \in Traefik!Run, run'.who = run.who,
           box' \in [Traefik!Role -> Traefik!Container], failure' \in Traefik!Failure, file' \in Traefik!Config,
           whole' \in BOOLEAN, faults' \in 0 .. MaxFaults, Through', InStage'
    PROVE  Joined'
<1>1. Traefik!TypeOK'
  BY TraefikTyped DEF Traefik!TypeOK, Traefik!control
<1>2. Linked'
  BY DEF Joined, Linked
<1>3. Owned'
  BY StillOwned, TraefikTyped DEF Traefik!control
<1>4. Asked'
  BY StillAsked
<1> QED BY <1>1, <1>2, <1>3, <1>4 DEF Joined

(* The step that ends a reconcile.                                          *)
LEMMA IsOver ==
    ASSUME Joined, UNCHANGED <<Traefik!control, config, queue, networks, joined>>,
           run.pc # "idle", NEW ok \in BOOLEAN, Traefik!Ends(ok),
           box' \in [Traefik!Role -> Traefik!Container], failure' \in Traefik!Failure, file' \in Traefik!Config,
           whole' \in BOOLEAN, faults' \in 0 .. MaxFaults, Through'
    PROVE  Joined'
<1>1. /\ run' \in Traefik!Run /\ beat' \in Traefik!Beat /\ handler' \in [Projects -> Traefik!Handler]
      /\ InStage' /\ Owned' /\ Asked'
  BY Ended DEF Traefik!control
<1>2. Traefik!TypeOK'
  BY <1>1, TraefikTyped DEF Traefik!TypeOK, Traefik!control
<1>3. Linked'
  BY DEF Joined, Linked
<1> QED BY <1>1, <1>2, <1>3 DEF Joined

(* What happens to the primary beside the reconcile: it stays as the        *)
(* reconcile made it, and attached to what a deploy attaches it to.         *)
LEMMA Beside ==
    ASSUME Joined, UNCHANGED <<run, whole>>,
           box'["primary"].image = box["primary"].image,
           box'["primary"].cfg = box["primary"].cfg,
           \A q \in joined' : q \in box'["primary"].nets \/ (q \in joined /\ q \notin Nets)
    PROVE  Through' /\ InStage'
<1>1. Through'
  BY DEF Joined, Through, Nets
<1>2. AsAsked => AsAsked'
  BY DEF AsAsked
<1>3. \A S : joined \subseteq Nets \cup S => joined' \subseteq Nets' \cup S
  BY DEF Nets
<1>4. joined \subseteq Nets => joined' \subseteq Nets'
  BY DEF Nets
<1> QED BY <1>1, <1>2, <1>3, <1>4 DEF Joined, InStage

(* A step of the handler of a project that does not wait for a reconcile.   *)
LEMMA Handling ==
    ASSUME Joined, NEW p \in Projects, handler[p].pc # "base",
           handler' \in [Projects -> Traefik!Handler],
           \A q \in Projects : q # p => handler'[q] = handler[q] /\ item'[q] = item[q],
           item' \in [Projects -> {"none", "deploy", "delete"}],
           UNCHANGED <<peers, items, config, beat, queue, run, failure, file, whole>>,
           box' \in [Traefik!Role -> Traefik!Container], faults' \in 0 .. MaxFaults,
           networks' \subseteq Projects, joined' \subseteq Projects,
           networks \subseteq networks' \cup {p}, joined' \subseteq joined \cup {p},
           Linked', Through', InStage', OwnedBy(p)'
    PROVE  Joined'
<1>1. Traefik!TypeOK'
  BY TraefikTyped DEF Traefik!TypeOK
<1>2. Owned'
  <2> SUFFICES ASSUME NEW q \in Projects, q # p PROVE OwnedBy(q)'
    BY DEF Owned
  <2>1. OwnedBy(q)
    BY DEF Joined, Owned
  <2> QED BY <2>1 DEF OwnedBy
<1>3. Asked'
  BY StillAsked
<1> QED BY <1>1, <1>2, <1>3 DEF Joined

----------------------------------------------------------------------------
(* The initial states.                                                      *)
LEMMA Begins == ASSUME Traefik!TraefikAssumption, Traefik!Init PROVE Joined
<1>n. MaxPeers \in Nat /\ MaxPeers >= 1 /\ MaxItems \in Nat /\ MaxFaults \in Nat
  BY DEF Traefik!TraefikAssumption
<1>1. /\ Traefik!NoPeers \in Traefik!Config /\ "primary" \in Traefik!Role
      /\ 0 \in 0 .. MaxItems /\ 0 \in 0 .. MaxFaults
  BY <1>n DEF Traefik!NoPeers, Traefik!Config, Traefik!Role
<1> DEFINE first == [Traefik!Absent EXCEPT !.up = "running", !.image = "old", !.nets = networks]
<1>2. first \in Traefik!Container /\ first.nets = networks
  BY <1>n, BlankRecords DEF Traefik!Init, Traefik!Absent, Traefik!Container
<1> HIDE DEF first
<1>3. box \in [Traefik!Role -> Traefik!Container] /\ box["primary"] = first
  BY <1>1, <1>2, <1>n, BlankRecords DEF Traefik!Init, first
<1>4. /\ item \in [Projects -> {"none", "deploy", "delete"}] /\ queue \in Seq(Traefik!Request)
      /\ Len(queue) = 0 /\ handler \in [Projects -> Traefik!Handler]
  BY <1>n, BlankRecords DEF Traefik!Init
<1>5. Traefik!TypeOK
  BY <1>1, <1>3, <1>4, <1>n, BlankRecords DEF Traefik!Init, Traefik!TypeOK, Traefik!Failure
<1>6. Linked /\ Through
  BY <1>2, <1>3 DEF Traefik!Init, Linked, Through, Nets
<1>7. InStage /\ Asked
  BY <1>4, <1>n, BlankRecords DEF Traefik!Init, InStage, Asked
<1>8. Owned
  BY <1>n, BlankRecords DEF Traefik!Init, Owned, OwnedBy
<1> QED BY <1>5, <1>6, <1>7, <1>8 DEF Joined

----------------------------------------------------------------------------
(* The steps of a reconcile.                                                *)

(* The one that is first begins: its asker is not asked for twice.          *)
LEMMA StartRunStep == ASSUME Joined, Traefik!StartRun PROVE Joined'
<1> DEFINE first == Head(queue)
<1>1. /\ queue # <<>> /\ queue' = Tail(queue)
      /\ run' = [Traefik!NoRun EXCEPT !.pc = "write", !.who = first.who, !.cfg = first.cfg]
      /\ UNCHANGED <<Traefik!control, config, beat, handler, failure, file, Traefik!docker, joined, whole, faults>>
  BY DEF Traefik!StartRun
<1>2. queue \in Seq(Traefik!Request) /\ Len(queue) \in Nat
  BY TraefikTyped
<1>3. Len(queue) >= 1 /\ first = queue[1]
  BY <1>1, <1>2
<1>4. /\ queue' \in Seq(Traefik!Request) /\ Len(queue') = Len(queue) - 1
      /\ \A i \in 1 .. Len(queue') : queue'[i] = queue[i + 1]
  BY <1>1, <1>2, HeadTailProperties
<1>5. first \in Traefik!Request
  BY <1>2, <1>3, Waiting
<1>6. /\ run' \in Traefik!Run /\ run'.pc = "write" /\ run'.who = first.who /\ run'.stage = "current"
  BY <1>1, <1>5, BlankRecords, TraefikTyped DEF Traefik!Run, Traefik!Request, Traefik!NoRun
<1>7. Traefik!TypeOK'
  BY <1>1, <1>4, <1>6, TraefikTyped DEF Traefik!TypeOK, Traefik!control, Traefik!docker
<1>8. Linked' /\ Through' /\ InStage'
  BY <1>1, <1>6 DEF Joined, Linked, Through, Nets, InStage, Traefik!docker
<1>9. Owned'
  BY <1>1, StillOwned, TraefikTyped DEF Traefik!control, Traefik!docker
<1>10. Asked'
  <2>1. \A i \in 1 .. Len(queue') : /\ i + 1 \in 1 .. Len(queue) /\ i + 1 # 1
                                    /\ queue'[i] = queue[i + 1]
    BY <1>2, <1>3, <1>4
  <2>2. 1 \in 1 .. Len(queue)
    BY <1>2, <1>3
  <2>3. run'.who # "beat" => handler[run'.who].pc = "base"
    BY <1>3, <1>6, <2>2 DEF Joined, Asked
  <2>4. ASSUME NEW i \in 1 .. Len(queue'), queue'[i].who # "beat"
        PROVE  /\ handler[queue'[i].who].pc = "base" /\ run'.who # queue'[i].who
               /\ \A j \in 1 .. Len(queue') : queue'[j].who = queue'[i].who => j = i
    <3>1. /\ queue[i + 1].who # "beat" /\ handler[queue[i + 1].who].pc = "base"
          /\ \A j \in 1 .. Len(queue) : queue[j].who = queue[i + 1].who => j = i + 1
      BY <2>1, <2>4 DEF Joined, Asked
    <3>2. queue[1].who # queue[i + 1].who
      BY <2>1, <2>2, <3>1
    <3>3. ASSUME NEW j \in 1 .. Len(queue'), queue'[j].who = queue'[i].who PROVE j = i
      <4>1. j + 1 = i + 1
        BY <2>1, <3>1, <3>3
      <4> QED BY <4>1
    <3> QED BY <1>3, <1>6, <2>1, <3>1, <3>2, <3>3
  <2> QED BY <1>1, <2>3, <2>4 DEF Asked
<1> QED BY <1>7, <1>8, <1>9, <1>10 DEF Joined

(* The file is written first, and says nothing of the primary.              *)
LEMMA WriteFileStep == ASSUME Joined, Traefik!WriteFile PROVE Joined'
<1>1. /\ run.pc # "idle" /\ run' = [run EXCEPT !.pc = "inspect"] /\ file' = run.cfg
      /\ UNCHANGED <<Traefik!control, config, beat, handler, queue, failure, box, networks, joined,
                     whole, faults>>
  BY DEF Traefik!WriteFile, Traefik!docker
<1>2. /\ run' \in Traefik!Run /\ run'.pc = "inspect" /\ run'.who = run.who
      /\ run'.stage = run.stage /\ run.pc = "write"
  BY <1>1, TraefikTyped DEF Traefik!Run, Traefik!WriteFile
<1>3. Through' /\ InStage'
  BY <1>1, <1>2 DEF Joined, Through, Nets, InStage
<1> QED BY <1>1, <1>2, <1>3, RunsOn, TraefikTyped

(* A primary that is current is one as asked for.                           *)
LEMMA InspectPrimaryStep == ASSUME Joined, Traefik!InspectPrimary PROVE Joined'
<1>1. /\ run.pc # "idle"
      /\ UNCHANGED <<Traefik!control, config, beat, handler, queue, failure, file, box, networks,
                     joined, whole, faults>>
  BY DEF Traefik!InspectPrimary, Traefik!docker
<1>2. /\ run' \in Traefik!Run /\ run'.who = run.who /\ run'.cfg = run.cfg
      /\ \/ run'.pc = "list" /\ Traefik!Current(box["primary"])
         \/ run'.pc = "pull" /\ run'.stage = "candidate"
  <2>1. CASE Traefik!Current(box["primary"])
    BY <2>1, TraefikTyped DEF Traefik!InspectPrimary, Traefik!Run
  <2>2. CASE ~Traefik!Current(box["primary"])
    <3>1. run' = [run EXCEPT !.pc = "pull", !.stage = "candidate", !.previous = box["primary"].image]
      BY <2>2 DEF Traefik!InspectPrimary
    <3>2. box["primary"].image \in {"none", "old", "pinned"}
      BY TraefikTyped DEF Traefik!Container
    <3> QED BY <3>1, <3>2, TraefikTyped DEF Traefik!Run, Traefik!Stage
  <2> QED BY <2>1, <2>2
<1>3. run'.stage \in {"current", "candidate"}
  <2>1. run.stage = "current"
    BY DEF Joined, InStage, Traefik!InspectPrimary
  <2> QED BY <2>1, TraefikTyped DEF Traefik!InspectPrimary, Traefik!Run
<1>4. Through' /\ InStage'
  BY <1>1, <1>2, <1>3 DEF Joined, Through, Nets, InStage, Traefik!Current, AsAsked
<1> QED BY <1>1, <1>2, <1>4, RunsOn, TraefikTyped

(* A container in the place of another.                                     *)
LEMMA Put ==
    ASSUME Joined, NEW r \in Traefik!Role, NEW c \in Traefik!Container, box' = [box EXCEPT ![r] = c]
    PROVE  /\ box' \in [Traefik!Role -> Traefik!Container]
           /\ r = "primary" => box'["primary"] = c
           /\ r = "candidate" => box'["primary"] = box["primary"]
<1>1. "primary" \in Traefik!Role
  BY DEF Traefik!Role
<1> QED BY <1>1, TraefikTyped

(* The candidate is removed, before the next is built and in the end.       *)
LEMMA PullImageStep == ASSUME Joined, Traefik!PullImage PROVE Joined'
<1>1. /\ run.pc = "pull" /\ run' = [run EXCEPT !.pc = "build"]
      /\ box' = [box EXCEPT !["candidate"] = Traefik!Absent]
      /\ UNCHANGED <<Traefik!control, config, beat, handler, queue, failure, file, networks, joined,
                     whole, faults>>
  BY DEF Traefik!PullImage
<1>2. /\ run' \in Traefik!Run /\ run'.pc = "build" /\ run'.who = run.who /\ run'.stage = run.stage
  BY <1>1, TraefikTyped DEF Traefik!Run
<1>3. box' \in [Traefik!Role -> Traefik!Container] /\ box'["primary"] = box["primary"]
  BY <1>1, Put, BlankRecords, TraefikTyped DEF Traefik!Role
<1>4. Through' /\ InStage'
  BY <1>1, <1>2, <1>3 DEF Joined, Through, Nets, InStage
<1> QED BY <1>1, <1>2, <1>3, <1>4, RunsOn, TraefikTyped

(* What is built is of the image of its stage, and as asked for.            *)
LEMMA New ==
    ASSUME Joined, NEW up \in {"running", "down"}
    PROVE  /\ Traefik!Built(up) \in Traefik!Container /\ Traefik!Built(up).cfg = run.cfg
           /\ Traefik!Built(up).image = IF run.stage = "rollback" THEN run.previous ELSE "pinned"
<1> DEFINE image == IF run.stage = "rollback" THEN run.previous ELSE "pinned"
<1>1. image \in {"none", "old", "pinned"}
  BY TraefikTyped
<1>2. Traefik!Built(up) = [Traefik!Absent EXCEPT !.up = up, !.cfg = run.cfg, !.read = file, !.image = image]
  BY DEF Traefik!Built
<1> HIDE DEF image
<1>3. Traefik!Built(up) = [up |-> up, cfg |-> run.cfg, read |-> file, image |-> image,
                   nets |-> {}, stale |-> {}, strayed |-> FALSE]
  BY <1>2 DEF Traefik!Absent
<1>4. Traefik!Built(up) \in Traefik!Container /\ Traefik!Built(up).cfg = run.cfg /\ Traefik!Built(up).image = image
  BY <1>1, <1>3, TraefikTyped DEF Traefik!Container
<1> QED BY <1>4 DEF image

LEMMA BuildContainerStep == ASSUME Joined, Traefik!BuildContainer PROVE Joined'
<1> DEFINE c == Traefik!Built("running")
<1>1. /\ run.pc = "build" /\ run' = [run EXCEPT !.pc = "list"]
      /\ box' = [box EXCEPT ![Traefik!Target] = c]
      /\ UNCHANGED <<Traefik!control, config, beat, handler, queue, failure, file, networks, joined,
                     whole, faults>>
  BY DEF Traefik!BuildContainer
<1>2. /\ run' \in Traefik!Run /\ run'.pc = "list" /\ run'.who = run.who /\ run'.stage = run.stage
      /\ run'.cfg = run.cfg /\ run'.previous = run.previous
  BY <1>1, TraefikTyped DEF Traefik!Run
<1>3. c \in Traefik!Container /\ c.cfg = run.cfg
      /\ c.image = IF run.stage = "rollback" THEN run.previous ELSE "pinned"
  BY New
<1> HIDE DEF c
<1>4. CASE run.stage = "candidate"
  <2>1. box' \in [Traefik!Role -> Traefik!Container] /\ box'["primary"] = box["primary"]
    BY <1>1, <1>3, <1>4, Put DEF Traefik!Target, Traefik!Role
  <2>2. Through' /\ InStage'
    BY <1>1, <1>2, <1>4, <2>1 DEF Joined, Through, Nets, InStage
  <2> QED BY <1>1, <1>2, <2>1, <2>2, RunsOn, TraefikTyped
<1>5. CASE run.stage # "candidate"
  <2>1. box' \in [Traefik!Role -> Traefik!Container] /\ box'["primary"] = c
    BY <1>1, <1>3, <1>5, Put DEF Traefik!Target, Traefik!Role
  <2>2. ~whole /\ run.stage # "current"
    BY <1>1, <1>5 DEF Joined, InStage
  <2>3. Through' /\ InStage'
    BY <1>1, <1>2, <1>3, <1>5, <2>1, <2>2 DEF Joined, Through, InStage, AsAsked
  <2> QED BY <1>1, <1>2, <2>1, <2>3, RunsOn, TraefikTyped
<1> QED BY <1>4, <1>5

(* What is listed holds whatever Traefik is to be attached to.              *)
LEMMA ListNetworksStep == ASSUME Joined, Traefik!ListNetworks PROVE Joined'
<1>1. /\ run.pc = "list" /\ run' = [run EXCEPT !.pc = "connect", !.todo = networks]
      /\ UNCHANGED <<Traefik!control, config, beat, handler, queue, failure, file, box, networks,
                     joined, whole, faults>>
  BY DEF Traefik!ListNetworks, Traefik!docker
<1>2. /\ run' \in Traefik!Run /\ run'.pc = "connect" /\ run'.who = run.who /\ run'.stage = run.stage
      /\ run'.cfg = run.cfg /\ run'.previous = run.previous /\ run'.todo = networks
  BY <1>1, TraefikTyped DEF Traefik!Run
<1>3. Through' /\ InStage'
  BY <1>1, <1>2 DEF Joined, Linked, Through, Nets, InStage, AsAsked
<1> QED BY <1>1, <1>2, <1>3, RunsOn, TraefikTyped

(* A container is attached to one more network.                             *)
LEMMA OneAppended ==
    ASSUME Joined, NEW r \in Traefik!Role, NEW p \in Projects, Traefik!Attach(r, p)
    PROVE  /\ box' \in [Traefik!Role -> Traefik!Container]
           /\ box'["primary"].image = box["primary"].image
           /\ box'["primary"].cfg = box["primary"].cfg
           /\ Nets' = IF r = "primary" THEN Nets \cup {p} ELSE Nets
<1> DEFINE c == [box[r] EXCEPT !.nets = @ \cup {p}]
<1>1. box' = [box EXCEPT ![r] = c]
  BY DEF Traefik!Attach
<1>2. c \in Traefik!Container /\ c.image = box[r].image /\ c.cfg = box[r].cfg
      /\ c.nets = box[r].nets \cup {p}
  BY TraefikTyped DEF Traefik!Container
<1> HIDE DEF c
<1> QED BY <1>1, <1>2, Put DEF Nets, Traefik!Role

(* A network that is not to do any more is attached, or is gone and holds    *)
(* nothing Traefik has to be attached to.                                   *)
LEMMA ConnectNetworkStep == ASSUME Joined, NEW p \in Projects, Traefik!ConnectNetwork(p) PROVE Joined'
<1>1. /\ run.pc = "connect" /\ run' = [run EXCEPT !.todo = @ \ {p}]
      /\ IF p \in networks THEN Traefik!Attach(Traefik!Target, p) ELSE UNCHANGED box
      /\ UNCHANGED <<Traefik!control, config, beat, handler, queue, failure, file, networks, joined,
                     whole, faults>>
  BY DEF Traefik!ConnectNetwork
<1>2. /\ run' \in Traefik!Run /\ run'.pc = "connect" /\ run'.who = run.who /\ run'.stage = run.stage
      /\ run'.cfg = run.cfg /\ run'.previous = run.previous /\ run'.todo = run.todo \ {p}
  BY <1>1, TraefikTyped DEF Traefik!Run
<1>3. Traefik!Target \in Traefik!Role /\ (run.stage = "candidate" <=> Traefik!Target = "candidate")
  BY DEF Traefik!Target, Traefik!Role
<1>4. /\ box' \in [Traefik!Role -> Traefik!Container]
      /\ box'["primary"].image = box["primary"].image
      /\ box'["primary"].cfg = box["primary"].cfg
      /\ Nets \subseteq Nets'
      /\ p \in networks /\ run.stage # "candidate" => p \in Nets'
  <2>1. CASE p \in networks
    BY <1>1, <1>3, <2>1, OneAppended DEF Traefik!Role
  <2>2. CASE p \notin networks
    BY <1>1, <2>2, TraefikTyped DEF Nets
  <2> QED BY <2>1, <2>2
<1>5. p \notin networks => p \notin joined
  BY DEF Joined, Linked
<1>6. Through' /\ InStage'
  <2>1. Through'
    BY <1>1, <1>4 DEF Joined, Through
  <2>2. AsAsked => AsAsked'
    BY <1>2, <1>4 DEF AsAsked
  <2>3. run.stage # "candidate" => joined \subseteq Nets' \cup run'.todo
    BY <1>1, <1>2, <1>4, <1>5 DEF Joined, InStage
  <2> QED BY <1>1, <1>2, <1>4, <2>1, <2>2, <2>3 DEF Joined, InStage
<1> QED BY <1>1, <1>2, <1>4, <1>6, RunsOn, TraefikTyped

(* Attached everywhere: a primary that was current is done, and whole.      *)
LEMMA ConnectedStep == ASSUME Joined, Traefik!Connected PROVE Joined'
<1>1. /\ run.pc = "connect" /\ run.todo = {}
      /\ UNCHANGED <<Traefik!control, config, queue, file, box, networks, joined, faults>>
  BY DEF Traefik!Connected, Traefik!docker
<1>2. run.stage # "candidate" => joined \subseteq Nets
  BY <1>1 DEF Joined, InStage
<1>3. UNCHANGED Nets
  BY <1>1 DEF Nets
<1>4. CASE run.stage = "current"
  <2>1. Traefik!Ends(TRUE) /\ failure' = "none" /\ whole' = TRUE
    BY <1>4 DEF Traefik!Connected
  <2>2. Through'
    BY <1>1, <1>2, <1>3, <1>4 DEF Through
  <2> QED BY <1>1, <2>1, <2>2, IsOver, TraefikTyped DEF Traefik!Failure
<1>5. CASE run.stage # "current"
  <2>1. run' = [run EXCEPT !.pc = "health"] /\ UNCHANGED <<beat, handler, failure, whole>>
    BY <1>5 DEF Traefik!Connected
  <2>2. /\ run' \in Traefik!Run /\ run'.pc = "health" /\ run'.who = run.who /\ run'.stage = run.stage
        /\ run'.cfg = run.cfg /\ run'.previous = run.previous
    BY <2>1, TraefikTyped DEF Traefik!Run
  <2>3. Through' /\ InStage'
    BY <1>1, <1>2, <1>3, <1>5, <2>1, <2>2 DEF Joined, Through, InStage, AsAsked
  <2> QED BY <1>1, <2>1, <2>2, <2>3, RunsOn, TraefikTyped
<1> QED BY <1>4, <1>5

(* A new primary, or the one put back, is whole once it is healthy.         *)
LEMMA HealthyStep == ASSUME Joined, Traefik!Healthy PROVE Joined'
<1>1. /\ run.pc = "health" /\ run.stage \in {"candidate", "primary", "rollback"}
      /\ UNCHANGED <<Traefik!control, config, beat, handler, queue, file, box, networks, joined, faults>>
  BY TraefikTyped DEF Traefik!Healthy, Traefik!docker, Traefik!Stage, Joined, InStage
<1>2. CASE run.stage = "candidate"
  <2>1. /\ run' = [run EXCEPT !.pc = "cut", !.stage = "primary"] /\ UNCHANGED <<failure, whole>>
    BY <1>2 DEF Traefik!Healthy
  <2>2. run' \in Traefik!Run /\ run'.pc = "cut" /\ run'.who = run.who /\ run'.stage = "primary"
    BY <2>1, TraefikTyped DEF Traefik!Run, Traefik!Stage
  <2>3. Through' /\ InStage'
    BY <1>1, <2>1, <2>2 DEF Joined, Through, InStage, Nets
  <2> QED BY <1>1, <2>1, <2>2, <2>3, RunsOn, TraefikTyped
<1>3. CASE run.stage # "candidate"
  <2>1. whole' = TRUE /\ failure' \in Traefik!Failure
        /\ \/ run' = [run EXCEPT !.pc = "finish"]
           \/ run' = [run EXCEPT !.pc = "finish", !.ok = FALSE]
    BY <1>1, <1>3 DEF Traefik!Healthy, Traefik!Failure
  <2>2. run' \in Traefik!Run /\ run'.pc = "finish" /\ run'.who = run.who
    BY <2>1, TraefikTyped DEF Traefik!Run
  <2>3. joined \subseteq Nets
    BY <1>1, <1>3 DEF Joined, InStage
  <2>4. Through' /\ InStage'
    BY <1>1, <2>1, <2>2, <2>3 DEF Through, InStage, Nets
  <2> QED BY <1>1, <2>1, <2>2, <2>4, RunsOn, TraefikTyped
<1> QED BY <1>2, <1>3

(* Without its primary the ingress is not whole.                            *)
LEMMA CutPrimaryStep == ASSUME Joined, Traefik!CutPrimary PROVE Joined'
<1>1. /\ run.pc = "cut" /\ box' = [box EXCEPT !["primary"] = Traefik!Absent] /\ whole' = FALSE
      /\ UNCHANGED <<Traefik!control, config, beat, handler, queue, file, networks, joined, faults>>
  BY DEF Traefik!CutPrimary
<1>2. /\ failure' \in Traefik!Failure
      /\ \/ run' = [run EXCEPT !.pc = "build"]
         \/ run' = [run EXCEPT !.pc = "finish", !.ok = FALSE]
  BY TraefikTyped DEF Traefik!CutPrimary, Traefik!Failure
<1>3. /\ run' \in Traefik!Run /\ run'.who = run.who /\ run'.stage = run.stage
      /\ run'.pc \in {"build", "finish"}
  BY <1>2, TraefikTyped DEF Traefik!Run
<1>4. box' \in [Traefik!Role -> Traefik!Container]
  BY <1>1, Put, BlankRecords, TraefikTyped DEF Traefik!Role
<1>5. Through' /\ InStage'
  BY <1>1, <1>3 DEF Joined, Through, InStage
<1> QED BY <1>1, <1>2, <1>3, <1>4, <1>5, RunsOn, TraefikTyped

(* The candidate goes, and with it the reconcile.                           *)
LEMMA CandidateGoes ==
    ASSUME Joined, Traefik!Finish \/ Traefik!RejectCandidate
    PROVE  Joined'
<1>1. /\ run.pc # "idle" /\ box' = [box EXCEPT !["candidate"] = Traefik!Absent]
      /\ UNCHANGED <<Traefik!control, config, queue, file, networks, joined, whole, faults>>
  BY DEF Traefik!Finish, Traefik!RejectCandidate
<1>2. \E ok \in BOOLEAN : Traefik!Ends(ok)
  BY TraefikTyped DEF Traefik!Finish, Traefik!RejectCandidate
<1>3. failure' \in Traefik!Failure
  BY TraefikTyped DEF Traefik!Finish, Traefik!RejectCandidate, Traefik!Failure
<1>4. box' \in [Traefik!Role -> Traefik!Container] /\ box'["primary"] = box["primary"]
  BY <1>1, Put, BlankRecords, TraefikTyped DEF Traefik!Role
<1>5. Through'
  BY <1>1, <1>4 DEF Joined, Through, Nets
<1> QED BY <1>1, <1>2, <1>3, <1>4, <1>5, IsOver, TraefikTyped

(* An error leaves the primary alone, or does not leave a whole one.        *)
LEMMA ThrownStep ==
    ASSUME Joined, Traefik!Thrown, run.pc # "idle",
           UNCHANGED <<Traefik!control, config, queue, file, networks, joined, whole>>,
           faults' \in 0 .. MaxFaults, box' \in [Traefik!Role -> Traefik!Container],
           box'["primary"] = box["primary"] \/ ~whole
    PROVE  Joined'
<1>1. Through'
  BY DEF Joined, Through, Nets
<1>2. \/ /\ \E ok \in BOOLEAN : Traefik!Ends(ok)
         /\ UNCHANGED failure
      \/ /\ \/ run' = [run EXCEPT !.pc = "reject"]
            \/ run' = [run EXCEPT !.pc = "cut", !.stage = "rollback"]
            \/ run' = [run EXCEPT !.pc = "finish", !.ok = FALSE]
         /\ failure' \in {failure, "rollback_failed"} /\ UNCHANGED <<beat, handler>>
  BY Zenon DEF Traefik!Thrown
<1>3. CASE /\ \E ok \in BOOLEAN : Traefik!Ends(ok)
           /\ UNCHANGED failure
  BY <1>1, <1>3, IsOver, TraefikTyped
<1>4. CASE /\ \/ run' = [run EXCEPT !.pc = "reject"]
              \/ run' = [run EXCEPT !.pc = "cut", !.stage = "rollback"]
              \/ run' = [run EXCEPT !.pc = "finish", !.ok = FALSE]
           /\ failure' \in {failure, "rollback_failed"} /\ UNCHANGED <<beat, handler>>
  <2>1. /\ run' \in Traefik!Run /\ run'.who = run.who
        /\ run'.pc \in {"reject", "finish"} \/ (run'.pc = "cut" /\ run'.stage = "rollback")
    BY <1>4, TraefikTyped DEF Traefik!Run, Traefik!Stage
  <2>2. InStage'
    BY <2>1 DEF InStage
  <2>3. failure' \in Traefik!Failure
    BY <1>4, TraefikTyped DEF Traefik!Failure
  <2> QED BY <1>1, <1>4, <2>1, <2>2, <2>3, RunsOn, TraefikTyped
<1> QED BY <1>2, <1>3, <1>4

LEMMA CallFailsStep == ASSUME Joined, Traefik!CallFails PROVE Joined'
<1>1. /\ run.pc # "idle" /\ Traefik!Thrown /\ faults' \in 0 .. MaxFaults
      /\ UNCHANGED <<Traefik!control, config, queue, file, networks, joined, whole>>
  BY Faulty DEF Traefik!CallFails
<1>2. box' \in [Traefik!Role -> Traefik!Container] /\ (box'["primary"] = box["primary"] \/ ~whole)
  <2>1. CASE UNCHANGED box
    BY <2>1, TraefikTyped
  <2>2. CASE run.pc = "build" /\ \E left \in {Traefik!Absent, Traefik!Built("down")} :
               box' = [box EXCEPT ![Traefik!Target] = left]
    <3>1. PICK left \in Traefik!Container : box' = [box EXCEPT ![Traefik!Target] = left]
      BY <2>2, New, BlankRecords, TraefikTyped
    <3>2. run.stage # "candidate" => ~whole
      BY <2>2 DEF Joined, InStage
    <3>3. Traefik!Target \in Traefik!Role /\ (run.stage = "candidate" => Traefik!Target = "candidate")
      BY DEF Traefik!Target, Traefik!Role
    <3> QED BY <3>1, <3>2, <3>3, Put
  <2> QED BY <2>1, <2>2 DEF Traefik!CallFails
<1> QED BY <1>1, <1>2, ThrownStep

LEMMA TargetLostStep == ASSUME Joined, Traefik!TargetLost PROVE Joined'
<1>1. /\ run.pc # "idle" /\ Traefik!Thrown /\ UNCHANGED box
      /\ UNCHANGED <<Traefik!control, config, queue, file, networks, joined, whole, faults>>
  BY DEF Traefik!TargetLost, Traefik!docker
<1> QED BY <1>1, ThrownStep, TraefikTyped

----------------------------------------------------------------------------
(* The control plane, Docker and the heartbeats.                            *)

(* A step of none of them: what is to be the same about it.                 *)
LEMMA Elsewhere ==
    ASSUME Joined, UNCHANGED <<items, handler, run, box, networks, whole>>,
           item' \in [Projects -> {"none", "deploy", "delete"}], joined' \subseteq joined,
           peers' \in Traefik!Config, config' \in Traefik!Config,
           beat' \in Traefik!Beat, queue' \in Seq(Traefik!Request),
           failure' \in Traefik!Failure, file' \in Traefik!Config, faults' \in 0 .. MaxFaults,
           Owned', Asked'
    PROVE  Joined'
<1>1. Traefik!TypeOK'
  BY TraefikTyped DEF Traefik!TypeOK
<1>2. Linked'
  BY DEF Joined, Linked
<1>3. Through' /\ InStage'
  BY Beside DEF Nets
<1> QED BY <1>1, <1>2, <1>3 DEF Joined

LEMMA PeersChangeStep == ASSUME Joined, Traefik!PeersChange PROVE Joined'
<1>1. peers' \in Traefik!Config
  BY TraefikTyped DEF Traefik!PeersChange, Traefik!Config, Traefik!NoPeers
<1>2. Owned' /\ Asked'
  BY StillOwned, StillAsked, TraefikTyped DEF Traefik!PeersChange
<1> QED BY <1>1, <1>2, Elsewhere, TraefikTyped DEF Traefik!PeersChange

(* A project is not served any more from when its deletion is asked for.    *)
LEMMA QueueStep == ASSUME Joined, NEW p \in Projects, Traefik!Queue(p) PROVE Joined'
<1>1. PICK kind \in {"deploy", "delete"} : item' = [item EXCEPT ![p] = kind]
  BY DEF Traefik!Queue
<1>2. /\ item[p] = "none" /\ items' = items + 1 /\ items < MaxItems
      /\ joined' = IF item'[p] = "delete" THEN joined \ {p} ELSE joined
      /\ UNCHANGED <<peers, config, beat, handler, queue, run, failure, file, box, networks,
                     whole, faults>>
  BY DEF Traefik!Queue
<1>3. /\ item' \in [Projects -> {"none", "deploy", "delete"}] /\ item'[p] = kind
      /\ \A q \in Projects : q # p => item'[q] = item[q]
  BY <1>1, TraefikTyped
<1>4. handler[p].pc = "idle"
  BY <1>2 DEF Joined, Owned, OwnedBy
<1>5. joined' \subseteq joined /\ (kind = "delete" => p \notin joined')
  BY <1>2, <1>3
<1>6. Owned'
  <2> SUFFICES ASSUME NEW q \in Projects PROVE OwnedBy(q)'
    BY DEF Owned
  <2>1. OwnedBy(q)
    BY DEF Joined, Owned
  <2>2. CASE q = p
    BY <1>2, <1>3, <1>4, <1>5, <2>2 DEF OwnedBy
  <2>3. CASE q # p
    BY <1>2, <1>3, <1>5, <2>1, <2>3 DEF OwnedBy
  <2> QED BY <2>2, <2>3
<1>7. Asked'
  BY <1>2, StillAsked
<1>8. items' \in 0 .. MaxItems
  BY <1>2, TraefikTyped
<1>9. Traefik!TypeOK'
  BY <1>2, <1>3, <1>5, <1>8, TraefikTyped DEF Traefik!TypeOK
<1>10. Linked' /\ Through' /\ InStage'
  BY <1>2, <1>5, Beside DEF Joined, Linked, Nets
<1> QED BY <1>6, <1>7, <1>9, <1>10 DEF Joined

(* A container that dies, or is restarted, keeps what it is attached to.    *)
LEMMA SameBut ==
    ASSUME Joined, NEW r \in Traefik!Role, NEW c \in Traefik!Container, box' = [box EXCEPT ![r] = c],
           c.image = box[r].image, c.cfg = box[r].cfg, c.nets = box[r].nets,
           UNCHANGED <<Traefik!control, config, beat, handler, queue, run, failure, file, networks,
                       joined, whole>>,
           faults' \in 0 .. MaxFaults
    PROVE  Joined'
<1>1. /\ box' \in [Traefik!Role -> Traefik!Container] /\ Nets' = Nets
      /\ box'["primary"].image = box["primary"].image
      /\ box'["primary"].cfg = box["primary"].cfg
  BY Put DEF Nets, Traefik!Role
<1>2. Traefik!TypeOK'
  BY <1>1, TraefikTyped DEF Traefik!TypeOK, Traefik!control
<1>3. Linked' /\ Through' /\ InStage'
  BY <1>1, Beside DEF Joined, Linked, Nets
<1>4. Owned' /\ Asked'
  BY StillOwned, StillAsked, TraefikTyped DEF Traefik!control
<1> QED BY <1>2, <1>3, <1>4 DEF Joined

LEMMA BoxStep ==
    ASSUME Joined, (\E r \in Traefik!Role : Traefik!Dies(r)) \/ Traefik!Restarts
    PROVE  Joined'
<1>1. CASE \E r \in Traefik!Role : Traefik!Dies(r)
  <2>1. PICK r \in Traefik!Role : Traefik!Dies(r)
    BY <1>1
  <2> DEFINE c == [box[r] EXCEPT !.up = "down"]
  <2>2. box' = [box EXCEPT ![r] = c]
    BY <2>1 DEF Traefik!Dies
  <2>3. c \in Traefik!Container /\ c.image = box[r].image /\ c.cfg = box[r].cfg /\ c.nets = box[r].nets
    BY TraefikTyped DEF Traefik!Container
  <2>4. /\ UNCHANGED <<Traefik!control, config, beat, handler, queue, run, failure, file, networks,
                       joined, whole>>
        /\ faults' \in 0 .. MaxFaults
    BY <2>1, Faulty DEF Traefik!Dies
  <2> HIDE DEF c
  <2> QED BY <2>2, <2>3, <2>4, SameBut
<1>2. CASE Traefik!Restarts
  <2> DEFINE c == [box["primary"] EXCEPT !.up = "running", !.read = file,
                                         !.strayed = file # box["primary"].cfg]
  <2>1. box' = [box EXCEPT !["primary"] = c]
    BY <1>2 DEF Traefik!Restarts
  <2>2. /\ c \in Traefik!Container /\ c.image = box["primary"].image /\ c.cfg = box["primary"].cfg
        /\ c.nets = box["primary"].nets
    BY TraefikTyped DEF Traefik!Container
  <2>3. "primary" \in Traefik!Role
    BY DEF Traefik!Role
  <2>4. /\ UNCHANGED <<Traefik!control, config, beat, handler, queue, run, failure, file, networks,
                       joined, whole>>
        /\ faults' \in 0 .. MaxFaults
    BY <1>2, TraefikTyped DEF Traefik!Restarts
  <2> HIDE DEF c
  <2> QED BY <2>1, <2>2, <2>3, <2>4, SameBut
<1> QED BY <1>1, <1>2

(* Who asks for a reconcile goes to the end of the queue.                   *)
LEMMA Enqueued ==
    ASSUME Joined, NEW who \in Traefik!Asker, NEW cfg \in Traefik!Config,
           Traefik!Enqueue(who, cfg), UNCHANGED run,
           who # "beat" => handler[who].pc # "base" /\ handler'[who].pc = "base",
           \A p \in Projects : handler[p].pc = "base" => handler'[p].pc = "base"
    PROVE  queue' \in Seq(Traefik!Request) /\ Asked'
<1> DEFINE last == [who |-> who, cfg |-> cfg]
<1>1. last \in Traefik!Request /\ last.who = who /\ queue' = Append(queue, last)
  BY DEF Traefik!Request, Traefik!Enqueue
<1> HIDE DEF last
<1>2. queue \in Seq(Traefik!Request) /\ Len(queue) \in Nat
  BY TraefikTyped
<1>3. /\ queue' \in Seq(Traefik!Request) /\ Len(queue') = Len(queue) + 1
      /\ queue'[Len(queue) + 1] = last
      /\ \A i \in 1 .. Len(queue) : queue'[i] = queue[i]
  BY <1>1, <1>2, AppendProperties
<1>4. \A i \in 1 .. Len(queue') : i \in 1 .. Len(queue) \/ i = Len(queue) + 1
  BY <1>2, <1>3
<1>5. \A i \in 1 .. Len(queue) : queue[i].who # "beat" =>
        /\ handler[queue[i].who].pc = "base" /\ handler'[queue[i].who].pc = "base"
        /\ queue[i].who # who
  BY Waiting DEF Joined, Asked
<1>6. run.pc # "idle" /\ run.who # "beat" =>
        handler[run.who].pc = "base" /\ handler'[run.who].pc = "base" /\ run.who # who
  BY TraefikTyped DEF Joined, Asked, Traefik!Asker
<1>7. ASSUME NEW i \in 1 .. Len(queue'), queue'[i].who # "beat"
      PROVE  /\ handler'[queue'[i].who].pc = "base"
             /\ \A j \in 1 .. Len(queue') : queue'[j].who = queue'[i].who => j = i
             /\ run.pc # "idle" => run.who # queue'[i].who
  <2>1. CASE i \in 1 .. Len(queue)
    <3>1. /\ queue'[i] = queue[i] /\ queue[i].who # "beat" /\ queue[i].who # who
          /\ handler'[queue[i].who].pc = "base"
      BY <1>3, <1>5, <1>7, <2>1
    <3>2. ASSUME NEW j \in 1 .. Len(queue'), queue'[j].who = queue'[i].who PROVE j = i
      <4>1. j \in 1 .. Len(queue)
        BY <1>1, <1>3, <1>4, <3>1, <3>2
      <4>2. queue[j].who = queue[i].who
        BY <1>3, <3>1, <3>2, <4>1
      <4> QED BY <2>1, <3>1, <4>1, <4>2 DEF Joined, Asked
    <3>3. run.pc # "idle" => run.who # queue[i].who
      BY <2>1, <3>1 DEF Joined, Asked
    <3> QED BY <3>1, <3>2, <3>3
  <2>2. CASE i = Len(queue) + 1
    <3>1. queue'[i].who = who /\ who # "beat"
      BY <1>1, <1>3, <1>7, <2>2
    <3>2. \A j \in 1 .. Len(queue') : queue'[j].who = who => j = i
      BY <1>3, <1>4, <1>5, <2>2, <3>1
    <3> QED BY <1>6, <3>1, <3>2
  <2> QED BY <1>4, <2>1, <2>2
<1> QED BY <1>3, <1>6, <1>7 DEF Asked

LEMMA BeatsStep == ASSUME Joined, Traefik!Beats \/ Traefik!BeatLost PROVE Joined'
<1>1. "beat" \in Traefik!Asker /\ config \in Traefik!Config /\ peers \in Traefik!Config
  BY TraefikTyped DEF Traefik!Asker
<1>2. CASE Traefik!Snapshot
  <2>1. /\ Traefik!Enqueue("beat", config) /\ beat' = [Traefik!NoBeat EXCEPT !.pc = "snapshot", !.cfg = config]
        /\ UNCHANGED <<Traefik!control, config, handler, run, failure, file, Traefik!docker, joined, whole, faults>>
    BY <1>2 DEF Traefik!Snapshot
  <2>2. beat' \in Traefik!Beat
    BY <1>1, <2>1, BlankRecords, TraefikTyped DEF Traefik!Beat
  <2>3. queue' \in Seq(Traefik!Request) /\ Asked'
    BY <1>1, <2>1, Enqueued
  <2>4. Owned'
    BY <2>1, StillOwned, TraefikTyped DEF Traefik!control, Traefik!docker
  <2> QED BY <2>1, <2>2, <2>3, <2>4, Elsewhere, TraefikTyped DEF Traefik!control, Traefik!docker
<1>3. CASE Traefik!Answered
  <2>1. /\ UNCHANGED queue \/ Traefik!Enqueue("beat", peers)
        /\ beat' = [beat EXCEPT !.answer = peers,
                                !.pc = IF peers = beat.cfg THEN "adopt" ELSE "apply"]
        /\ UNCHANGED <<Traefik!control, config, handler, run, failure, file, Traefik!docker, joined, whole, faults>>
    BY <1>3 DEF Traefik!Answered
  <2>2. beat' \in Traefik!Beat
    BY <1>1, <2>1, TraefikTyped DEF Traefik!Beat
  <2>3. queue' \in Seq(Traefik!Request) /\ Asked'
    BY <1>1, <2>1, Enqueued, StillAsked, TraefikTyped
  <2>4. Owned'
    BY <2>1, StillOwned, TraefikTyped DEF Traefik!control, Traefik!docker
  <2> QED BY <2>1, <2>2, <2>3, <2>4, Elsewhere, TraefikTyped DEF Traefik!control, Traefik!docker
<1>4. CASE Traefik!Adopt \/ Traefik!BeatLost
  <2>1. /\ beat' \in Traefik!Beat /\ config' \in Traefik!Config /\ faults' \in 0 .. MaxFaults
        /\ UNCHANGED <<Traefik!control, handler, queue, run, failure, file, Traefik!docker, joined, whole>>
    BY <1>4, BlankRecords, Faulty, TraefikTyped DEF Traefik!Adopt, Traefik!BeatLost
  <2>2. Owned' /\ Asked'
    BY <2>1, StillOwned, StillAsked, TraefikTyped DEF Traefik!control, Traefik!docker
  <2> QED BY <2>1, <2>2, Elsewhere, TraefikTyped DEF Traefik!control, Traefik!docker
<1> QED BY <1>2, <1>3, <1>4 DEF Traefik!Beats

----------------------------------------------------------------------------
(* The handlers of the work items.                                          *)

(* A handler in the place of another, and one that goes on.                 *)
LEMMA Becomes ==
    ASSUME Joined, NEW p \in Projects, NEW h \in Traefik!Handler, handler' = [handler EXCEPT ![p] = h]
    PROVE  /\ handler' \in [Projects -> Traefik!Handler] /\ handler'[p] = h
           /\ \A q \in Projects : q # p => handler'[q] = handler[q]
  BY TraefikTyped

LEMMA WentOn ==
    ASSUME Joined, NEW p \in Projects, NEW pc, Traefik!Goes(p, pc),
           pc \in {"idle", "base", "network", "attach", "find", "inspect", "disconnect",
                   "remove", "done", "fail"}
    PROVE  /\ handler' \in [Projects -> Traefik!Handler] /\ handler'[p].pc = pc
           /\ \A q \in Projects : q # p => handler'[q] = handler[q]
<1> DEFINE h == [handler[p] EXCEPT !.pc = pc]
<1>1. handler' = [handler EXCEPT ![p] = h]
  BY DEF Traefik!Goes
<1>2. h \in Traefik!Handler /\ h.pc = pc
  BY TraefikTyped DEF Traefik!Handler
<1> HIDE DEF h
<1> QED BY <1>1, <1>2, Becomes

(* A deploy of an app asks for a reconcile and waits.                       *)
LEMMA LeaseStep == ASSUME Joined, NEW p \in Projects, Traefik!Lease(p) PROVE Joined'
<1>1. /\ item[p] # "none" /\ handler[p].pc = "idle" /\ config' = peers
      /\ UNCHANGED <<peers, item, items, beat, run, failure, file, box, networks, joined, whole,
                     faults>>
  BY DEF Traefik!Lease, Traefik!control, Traefik!docker
<1>2. PICK pc \in {"base", "network", "find"} :
        /\ Traefik!Goes(p, pc)
        /\ item[p] = IF pc = "find" THEN "delete" ELSE "deploy"
        /\ IF pc = "base" THEN Traefik!Enqueue(p, peers) ELSE UNCHANGED queue
  BY DEF Traefik!Lease
<1>3. /\ handler' \in [Projects -> Traefik!Handler] /\ handler'[p].pc = pc
      /\ \A q \in Projects : q # p => handler'[q] = handler[q]
  BY <1>2, WentOn
<1>4. queue' \in Seq(Traefik!Request) /\ Asked'
  <2>1. CASE pc = "base"
    <3>1. p \in Traefik!Asker /\ peers \in Traefik!Config /\ Traefik!Enqueue(p, peers)
      BY <1>2, <2>1, TraefikTyped DEF Traefik!Asker
    <3>2. \A q \in Projects : handler[q].pc = "base" => handler'[q].pc = "base"
      BY <1>1, <1>3, <2>1
    <3> QED BY <1>1, <1>3, <2>1, <3>1, <3>2, Enqueued
  <2>2. CASE pc # "base"
    <3>1. \A q \in Projects : handler[q].pc = "base" => handler'[q].pc = "base"
      BY <1>1, <1>3
    <3> QED BY <1>1, <1>2, <2>2, <3>1, StillAsked, TraefikTyped
  <2> QED BY <2>1, <2>2
<1>5. Owned'
  <2> SUFFICES ASSUME NEW q \in Projects PROVE OwnedBy(q)'
    BY DEF Owned
  <2>1. OwnedBy(q)
    BY DEF Joined, Owned
  <2>2. CASE q = p
    BY <1>1, <1>2, <1>3, <2>1, <2>2 DEF OwnedBy
  <2>3. CASE q # p
    BY <1>1, <1>3, <2>1, <2>3 DEF OwnedBy
  <2> QED BY <2>2, <2>3
<1>6. Traefik!TypeOK'
  BY <1>1, <1>3, <1>4, TraefikTyped DEF Traefik!TypeOK
<1>7. Linked' /\ Through' /\ InStage'
  BY <1>1, Beside DEF Joined, Linked, Nets
<1> QED BY <1>4, <1>5, <1>6, <1>7 DEF Joined

LEMMA CreateNetworkStep == ASSUME Joined, NEW p \in Projects, Traefik!CreateNetwork(p) PROVE Joined'
<1>1. /\ handler[p].pc = "network" /\ networks' = networks \cup {p} /\ Traefik!Goes(p, "attach")
      /\ UNCHANGED <<peers, item, items, config, beat, queue, run, failure, file, box, joined,
                     whole, faults>>
  BY DEF Traefik!CreateNetwork, Traefik!control
<1>2. /\ handler' \in [Projects -> Traefik!Handler] /\ handler'[p].pc = "attach"
      /\ \A q \in Projects : q # p => handler'[q] = handler[q]
  BY <1>1, WentOn
<1>3. OwnedBy(p)'
  BY <1>1, <1>2 DEF Joined, Owned, OwnedBy
<1>4. Linked' /\ Through' /\ InStage'
  BY <1>1, Beside DEF Joined, Linked, Nets
<1> QED BY <1>1, <1>2, <1>3, <1>4, Handling, TraefikTyped

(* A deploy attaches whatever primary there is.                             *)
LEMMA JoinNetworkStep == ASSUME Joined, NEW p \in Projects, Traefik!JoinNetwork(p) PROVE Joined'
<1>1. /\ handler[p].pc = "attach"
      /\ UNCHANGED <<peers, item, items, config, beat, queue, run, failure, file, networks,
                     whole, faults>>
  BY DEF Traefik!JoinNetwork, Traefik!control
<1>2. item[p] = "deploy" /\ p \in networks
  BY <1>1 DEF Joined, Owned, OwnedBy
<1>3. CASE box["primary"].up = "absent"
  <2>1. Traefik!Goes(p, "fail") /\ UNCHANGED <<box, joined>>
    BY <1>3 DEF Traefik!JoinNetwork
  <2>2. /\ handler' \in [Projects -> Traefik!Handler] /\ handler'[p].pc = "fail"
        /\ \A q \in Projects : q # p => handler'[q] = handler[q]
    BY <2>1, WentOn
  <2>3. OwnedBy(p)'
    BY <1>1, <1>2, <2>1, <2>2 DEF Joined, Owned, OwnedBy
  <2>4. Linked' /\ Through' /\ InStage'
    BY <1>1, <2>1, Beside DEF Joined, Linked, Nets
  <2> QED BY <1>1, <2>1, <2>2, <2>3, <2>4, Handling, TraefikTyped
<1>4. CASE box["primary"].up # "absent"
  <2>1. Traefik!Goes(p, "done") /\ Traefik!Attach("primary", p) /\ joined' = joined \cup {p}
    BY <1>4 DEF Traefik!JoinNetwork
  <2>2. /\ handler' \in [Projects -> Traefik!Handler] /\ handler'[p].pc = "done"
        /\ \A q \in Projects : q # p => handler'[q] = handler[q]
    BY <2>1, WentOn
  <2>3. OwnedBy(p)'
    BY <1>1, <1>2, <2>2 DEF OwnedBy
  <2>4. /\ box' \in [Traefik!Role -> Traefik!Container] /\ Nets' = Nets \cup {p}
        /\ box'["primary"].image = box["primary"].image
        /\ box'["primary"].cfg = box["primary"].cfg
    BY <2>1, OneAppended DEF Traefik!Role
  <2>5. Through' /\ InStage'
    <3>1. \A q \in joined' : q \in box'["primary"].nets \/ (q \in joined /\ q \notin Nets)
      BY <2>1, <2>4 DEF Nets
    <3> QED BY <1>1, <2>4, <3>1, Beside
  <2>6. Linked'
    BY <1>1, <1>2, <2>1 DEF Joined, Linked
  <2> QED BY <1>1, <2>1, <2>2, <2>3, <2>4, <2>5, <2>6, Handling, TraefikTyped
<1> QED BY <1>3, <1>4

(* What is looked up and what is past changes the handler only.             *)
LEMMA Passed ==
    ASSUME Joined, NEW p \in Projects
    PROVE  Traefik!Past(p) \in Traefik!Handler /\ Traefik!Past(p).pc \in {"inspect", "remove"}
  BY BlankRecords, TraefikTyped DEF Traefik!Past, Traefik!Handler, Traefik!NoHandler, Traefik!Role

LEMMA Looks ==
    ASSUME Joined, NEW p \in Projects, Traefik!FindNetwork(p) \/ Traefik!InspectTraefik(p)
    PROVE  Joined'
<1>1. /\ handler[p].pc \in {"find", "inspect"}
      /\ UNCHANGED <<peers, item, items, config, beat, queue, run, failure, file, box, networks,
                     joined, whole, faults>>
  BY DEF Traefik!FindNetwork, Traefik!InspectTraefik, Traefik!control, Traefik!docker
<1>2. /\ handler' \in [Projects -> Traefik!Handler]
      /\ handler'[p].pc \in {"inspect", "done", "disconnect", "remove"}
      /\ \A q \in Projects : q # p => handler'[q] = handler[q]
  <2>1. CASE Traefik!FindNetwork(p)
    <3>1. PICK pc \in {"inspect", "done"} : Traefik!Goes(p, pc)
      BY <2>1 DEF Traefik!FindNetwork
    <3> QED BY <3>1, WentOn
  <2>2. CASE Traefik!InspectTraefik(p)
    <3> DEFINE h == IF p \in box[handler[p].role].nets
                    THEN [handler[p] EXCEPT !.pc = "disconnect"] ELSE Traefik!Past(p)
    <3>1. handler' = [handler EXCEPT ![p] = h]
      BY <2>2 DEF Traefik!InspectTraefik
    <3>2. [handler[p] EXCEPT !.pc = "disconnect"] \in Traefik!Handler
      BY TraefikTyped DEF Traefik!Handler
    <3>3. h \in Traefik!Handler /\ h.pc \in {"disconnect", "inspect", "remove"}
      BY <3>2, Passed, TraefikTyped DEF Traefik!Handler
    <3> HIDE DEF h
    <3> QED BY <3>1, <3>3, Becomes
  <2> QED BY <2>1, <2>2
<1>3. OwnedBy(p)'
  BY <1>1, <1>2 DEF Joined, Owned, OwnedBy
<1>4. Linked' /\ Through' /\ InStage'
  BY <1>1, Beside DEF Joined, Linked, Nets
<1> QED BY <1>1, <1>2, <1>3, <1>4, Handling, TraefikTyped

(* Only what is not to be attached is disconnected.                         *)
LEMMA DisconnectStep == ASSUME Joined, NEW p \in Projects, Traefik!DisconnectTraefik(p) PROVE Joined'
<1> DEFINE r == handler[p].role
           c == [box[r] EXCEPT !.nets = @ \ {p}]
<1>1. /\ handler[p].pc = "disconnect"
      /\ UNCHANGED <<peers, item, items, config, beat, queue, run, failure, file, networks,
                     joined, whole, faults>>
      /\ \/ Traefik!Goes(p, "fail") /\ UNCHANGED box
         \/ box' = [box EXCEPT ![r] = c] /\ handler' = [handler EXCEPT ![p] = Traefik!Past(p)]
  BY DEF Traefik!DisconnectTraefik, Traefik!control
<1>2. item[p] = "delete" /\ p \notin joined
  BY <1>1 DEF Joined, Owned, OwnedBy
<1>3. r \in Traefik!Role
  BY TraefikTyped DEF Traefik!Handler
<1>4. c \in Traefik!Container /\ c.image = box[r].image /\ c.cfg = box[r].cfg /\ c.nets = box[r].nets \ {p}
  BY <1>3, TraefikTyped DEF Traefik!Container
<1> HIDE DEF r, c
<1>5. /\ handler' \in [Projects -> Traefik!Handler] /\ handler'[p].pc \in {"fail", "inspect", "remove"}
      /\ \A q \in Projects : q # p => handler'[q] = handler[q]
  BY <1>1, WentOn, Becomes, Passed
<1>6. /\ box' \in [Traefik!Role -> Traefik!Container] /\ Nets \ {p} \subseteq Nets'
      /\ box'["primary"].image = box["primary"].image
      /\ box'["primary"].cfg = box["primary"].cfg
  <2>1. CASE UNCHANGED box
    BY <2>1, TraefikTyped DEF Nets
  <2>2. CASE box' = [box EXCEPT ![r] = c]
    BY <1>3, <1>4, <2>2, Put DEF Nets, Traefik!Role
  <2> QED BY <1>1, <2>1, <2>2
<1>7. OwnedBy(p)'
  BY <1>1, <1>2, <1>5 DEF OwnedBy
<1>8. Linked' /\ Through' /\ InStage'
  <2>1. \A q \in joined' : q \in box'["primary"].nets \/ (q \in joined /\ q \notin Nets)
    BY <1>1, <1>2, <1>6 DEF Nets
  <2> QED BY <1>1, <1>6, <2>1, Beside DEF Joined, Linked
<1> QED BY <1>1, <1>5, <1>6, <1>7, <1>8, Handling, TraefikTyped

LEMMA RemoveNetworkStep == ASSUME Joined, NEW p \in Projects, Traefik!RemoveNetwork(p) PROVE Joined'
<1> DEFINE gone(r) == [box[r] EXCEPT !.nets = @ \ {p},
                                     !.stale = @ \cup (box[r].nets \cap {p})]
<1>1. /\ handler[p].pc = "remove"
      /\ UNCHANGED <<peers, item, items, config, beat, queue, run, failure, file, joined, whole,
                     faults>>
  BY DEF Traefik!RemoveNetwork, Traefik!control
<1>2. item[p] = "delete" /\ p \notin joined
  BY <1>1 DEF Joined, Owned, OwnedBy
<1>3. CASE Traefik!Goes(p, "fail") /\ UNCHANGED Traefik!docker
  <2>1. /\ handler' \in [Projects -> Traefik!Handler] /\ handler'[p].pc = "fail"
        /\ \A q \in Projects : q # p => handler'[q] = handler[q]
    BY <1>3, WentOn
  <2>2. UNCHANGED <<box, networks>>
    BY <1>3 DEF Traefik!docker
  <2>3. OwnedBy(p)'
    BY <1>1, <1>2, <2>1 DEF OwnedBy
  <2>4. Linked' /\ Through' /\ InStage'
    BY <1>1, <2>2, Beside DEF Joined, Linked, Nets
  <2> QED BY <1>1, <2>1, <2>2, <2>3, <2>4, Handling, TraefikTyped
<1>4. CASE networks' = networks \ {p} /\ box' = [r \in Traefik!Role |-> gone(r)] /\ Traefik!Goes(p, "done")
  <2>1. /\ handler' \in [Projects -> Traefik!Handler] /\ handler'[p].pc = "done"
        /\ \A q \in Projects : q # p => handler'[q] = handler[q]
    BY <1>4, WentOn
  <2>2. \A r \in Traefik!Role : /\ gone(r) \in Traefik!Container /\ gone(r).image = box[r].image
                        /\ gone(r).cfg = box[r].cfg /\ gone(r).nets = box[r].nets \ {p}
    BY TraefikTyped DEF Traefik!Container
  <2> HIDE DEF gone
  <2>3. /\ box' \in [Traefik!Role -> Traefik!Container] /\ Nets' = Nets \ {p}
        /\ box'["primary"].image = box["primary"].image
        /\ box'["primary"].cfg = box["primary"].cfg
    BY <1>4, <2>2 DEF Nets, Traefik!Role
  <2>4. OwnedBy(p)'
    BY <1>1, <1>2, <2>1 DEF OwnedBy
  <2>5. Linked'
    BY <1>1, <1>2, <1>4 DEF Joined, Linked
  <2>6. Through' /\ InStage'
    <3>1. \A q \in joined' : q \in box'["primary"].nets \/ (q \in joined /\ q \notin Nets)
      BY <1>1, <1>2, <2>3 DEF Nets
    <3> QED BY <1>1, <2>3, <3>1, Beside
  <2> QED BY <1>1, <1>4, <2>1, <2>3, <2>4, <2>5, <2>6, Handling, TraefikTyped
<1> QED BY <1>3, <1>4 DEF Traefik!RemoveNetwork

(* The end of an item, and of an attempt at it.                             *)
LEMMA ReportStep == ASSUME Joined, NEW p \in Projects, Traefik!Report(p) PROVE Joined'
<1>1. /\ handler[p].pc \in {"done", "fail"}
      /\ handler' = [handler EXCEPT ![p] = Traefik!NoHandler] /\ item' = [item EXCEPT ![p] = "none"]
      /\ UNCHANGED <<peers, items, config, beat, queue, run, failure, file, box, networks,
                     joined, whole, faults>>
  BY DEF Traefik!Report, Traefik!docker
<1>2. /\ handler' \in [Projects -> Traefik!Handler] /\ handler'[p].pc = "idle"
      /\ \A q \in Projects : q # p => handler'[q] = handler[q]
  BY <1>1, Becomes, BlankRecords, TraefikTyped
<1>3. /\ item' \in [Projects -> {"none", "deploy", "delete"}] /\ item'[p] = "none"
      /\ \A q \in Projects : q # p => item'[q] = item[q]
  BY <1>1, TraefikTyped
<1>4. OwnedBy(p)'
  BY <1>2, <1>3 DEF OwnedBy
<1>5. Linked' /\ Through' /\ InStage'
  BY <1>1, Beside DEF Joined, Linked, Nets
<1> QED BY <1>1, <1>2, <1>3, <1>4, <1>5, Handling, TraefikTyped

LEMMA HandlerFailsStep == ASSUME Joined, NEW p \in Projects, Traefik!HandlerFails(p) PROVE Joined'
<1> DEFINE h == [Traefik!NoHandler EXCEPT !.pc = IF handler[p].pc = "done" THEN "idle" ELSE "fail"]
<1>1. /\ handler[p].pc \notin {"idle", "base", "fail"} /\ faults' \in 0 .. MaxFaults
      /\ handler' = [handler EXCEPT ![p] = h]
      /\ UNCHANGED <<peers, item, items, config, beat, queue, run, failure, file, box, networks,
                     joined, whole>>
  BY Faulty DEF Traefik!HandlerFails, Traefik!control, Traefik!docker
<1>2. h \in Traefik!Handler /\ h.pc \in {"idle", "fail"}
  BY DEF Traefik!NoHandler, Traefik!Handler, Traefik!Role
<1> HIDE DEF h
<1>3. /\ handler' \in [Projects -> Traefik!Handler] /\ handler'[p].pc \in {"idle", "fail"}
      /\ \A q \in Projects : q # p => handler'[q] = handler[q]
  BY <1>1, <1>2, Becomes
<1>4. OwnedBy(p)'
  BY <1>1, <1>3 DEF Joined, Owned, OwnedBy
<1>5. Linked' /\ Through' /\ InStage'
  BY <1>1, Beside DEF Joined, Linked, Nets
<1> QED BY <1>1, <1>3, <1>4, <1>5, Handling, TraefikTyped

(* Nobody waits and nothing is under way after a crash.                     *)
LEMMA AgentCrashStep == ASSUME Joined, Traefik!AgentCrash PROVE Joined'
<1>1. /\ config' = Traefik!NoPeers /\ beat' = Traefik!NoBeat /\ failure' = "none"
      /\ handler' = [p \in Projects |-> Traefik!NoHandler] /\ queue' = <<>> /\ run' = Traefik!NoRun
      /\ UNCHANGED <<peers, item, items, file, box, networks, joined, whole>>
      /\ faults' \in 0 .. MaxFaults
  BY Faulty DEF Traefik!AgentCrash, Traefik!control, Traefik!docker
<1>2. /\ config' \in Traefik!Config /\ failure' \in Traefik!Failure /\ queue' \in Seq(Traefik!Request)
      /\ Len(queue') = 0 /\ handler' \in [Projects -> Traefik!Handler]
  BY <1>1, BlankRecords, TraefikTyped DEF Traefik!NoPeers, Traefik!Config, Traefik!Failure
<1>3. Traefik!TypeOK'
  BY <1>1, <1>2, BlankRecords, TraefikTyped DEF Traefik!TypeOK
<1>4. Linked' /\ Through'
  BY <1>1 DEF Joined, Linked, Through, Nets
<1>5. InStage' /\ Asked'
  BY <1>1, <1>2, BlankRecords, TraefikTyped DEF InStage, Asked
<1>6. Owned'
  BY <1>1, <1>2, BlankRecords, TraefikTyped, StillOwned
<1> QED BY <1>3, <1>4, <1>5, <1>6 DEF Joined

----------------------------------------------------------------------------
(* Every step keeps the invariant.                                          *)
LEMMA Proceeds == ASSUME Joined, [Traefik!Next]_Traefik!vars PROVE Joined'
<1>1. CASE Traefik!Reconciles
  BY <1>1, StartRunStep, WriteFileStep, InspectPrimaryStep, PullImageStep, BuildContainerStep,
     ListNetworksStep, ConnectNetworkStep, ConnectedStep, HealthyStep, CutPrimaryStep,
     CandidateGoes, TargetLostStep DEF Traefik!Reconciles
<1>2. CASE Traefik!Beats \/ Traefik!BeatLost
  BY <1>2, BeatsStep
<1>3. ASSUME NEW p \in Projects, Traefik!Handles(p) \/ Traefik!Queue(p) \/ Traefik!HandlerFails(p)
      PROVE  Joined'
  BY <1>3, LeaseStep, CreateNetworkStep, JoinNetworkStep, Looks, DisconnectStep,
     RemoveNetworkStep, ReportStep, QueueStep, HandlerFailsStep DEF Traefik!Handles
<1>4. CASE \/ Traefik!PeersChange \/ (\E r \in Traefik!Role : Traefik!Dies(r))
           \/ Traefik!Restarts \/ Traefik!CallFails \/ Traefik!AgentCrash
  BY <1>4, PeersChangeStep, BoxStep, CallFailsStep, AgentCrashStep
<1>5. CASE UNCHANGED Traefik!vars
  BY <1>5 DEF Traefik!vars, Joined, Traefik!TypeOK, Linked, Through, Nets, InStage, AsAsked, Owned, OwnedBy, Asked
<1> QED BY <1>1, <1>2, <1>3, <1>4, <1>5 DEF Traefik!Next

(* The invariant: beside what the reconcile under way knows, a deploy only  *)
(* has to be attached to what it created, and a deletion only removes what  *)
(* no deploy has to be attached to (runSerializedTraefikRuntimeReconcile).  *)
THEOREM TraefikJoined ==
    ASSUME Traefik!TraefikAssumption
    PROVE  Traefik!Spec => []Joined
<1> QED BY Begins, Proceeds, PTL DEF Traefik!Spec

(* Attached: once a reconcile has seen the ingress through, Traefik never   *)
(* runs without a project that a deploy attached it to, whatever fails and  *)
(* dies, and whatever is deployed and deleted beside cutovers and rollbacks *)
(* (connectTraefikToManagedProjectNetworks).                                *)
THEOREM AttachedThroughout ==
    ASSUME Traefik!TraefikAssumption
    PROVE  Traefik!Spec => []Traefik!Attached
<1>1. Joined => Traefik!Attached
  BY DEF Joined, Through, Nets, Traefik!Attached
<1> QED BY <1>1, TraefikJoined, PTL

----------------------------------------------------------------------------
(* What a step may record: nothing new; a failure; that a primary is as     *)
(* asked for; or that the one there was runs again.                         *)
Restored == box["primary"].image = run.previous /\ box["primary"].up = "running"
Records ==
    \/ UNCHANGED failure
    \/ failure' \in {"preflight", "not_rolled_back", "rollback_failed"}
    \/ failure' = "none" /\ AsAsked
    \/ failure' = "rolled_back" /\ Restored
    \/ failure' = "none" /\ faults' # faults

LEMMA RunRecords == ASSUME Joined, Traefik!Reconciles PROVE Records
<1>1. CASE \/ Traefik!StartRun \/ Traefik!WriteFile \/ Traefik!InspectPrimary \/ Traefik!PullImage \/ Traefik!BuildContainer
           \/ Traefik!ListNetworks \/ (\E p \in Projects : Traefik!ConnectNetwork(p)) \/ Traefik!Finish
  BY <1>1 DEF Traefik!StartRun, Traefik!WriteFile, Traefik!InspectPrimary, Traefik!PullImage,
              Traefik!BuildContainer, Traefik!ListNetworks,
              Traefik!ConnectNetwork, Traefik!Finish, Records
<1>2. CASE Traefik!Connected
  <2>1. run.pc = "connect" /\ (UNCHANGED failure \/ (failure' = "none" /\ run.stage = "current"))
    BY <1>2 DEF Traefik!Connected
  <2> QED BY <2>1 DEF Joined, InStage, AsAsked, Records
<1>3. CASE Traefik!Healthy
  <2>1. run.pc = "health" /\ box[Traefik!Target].up = "running"
        /\ run.stage \in {"candidate", "primary", "rollback"}
    BY <1>3, TraefikTyped DEF Traefik!Healthy, Traefik!Stage, Joined, InStage
  <2>2. CASE run.stage = "candidate"
    BY <1>3, <2>2 DEF Traefik!Healthy, Records
  <2>3. CASE run.stage = "primary"
    BY <1>3, <2>1, <2>3 DEF Traefik!Healthy, Records, Joined, InStage, AsAsked
  <2>4. CASE run.stage = "rollback"
    BY <1>3, <2>1, <2>4 DEF Traefik!Healthy, Traefik!Target, Records, Joined, InStage, Restored
  <2> QED BY <2>1, <2>2, <2>3, <2>4
<1>4. CASE Traefik!CutPrimary
  BY <1>4 DEF Traefik!CutPrimary, Records
<1>5. CASE Traefik!RejectCandidate
  BY <1>5 DEF Traefik!RejectCandidate, Records
<1>6. CASE Traefik!TargetLost
  BY <1>6, Zenon DEF Traefik!TargetLost, Traefik!Thrown, Records
<1> QED BY <1>1, <1>2, <1>3, <1>4, <1>5, <1>6 DEF Traefik!Reconciles

LEMMA StepRecords == ASSUME Joined, [Traefik!Next]_Traefik!vars PROVE Records
<1>1. CASE Traefik!Reconciles
  BY <1>1, RunRecords
<1>2. CASE Traefik!Beats \/ Traefik!BeatLost
  BY <1>2 DEF Traefik!Beats, Traefik!Snapshot, Traefik!Answered, Traefik!Adopt, Traefik!BeatLost, Records
<1>3. ASSUME NEW p \in Projects, Traefik!Handles(p)
      PROVE  Records
  BY <1>3 DEF Traefik!Handles, Traefik!Lease, Traefik!CreateNetwork, Traefik!JoinNetwork,
              Traefik!FindNetwork, Traefik!InspectTraefik,
              Traefik!DisconnectTraefik, Traefik!RemoveNetwork, Traefik!Report, Records
<1>4. ASSUME NEW p \in Projects, Traefik!Queue(p) \/ Traefik!HandlerFails(p)
      PROVE  Records
  BY <1>4 DEF Traefik!Queue, Traefik!HandlerFails, Records
<1>5. CASE Traefik!PeersChange \/ (\E r \in Traefik!Role : Traefik!Dies(r)) \/ Traefik!Restarts
  BY <1>5 DEF Traefik!PeersChange, Traefik!Dies, Traefik!Restarts, Records
<1>6. CASE Traefik!CallFails
  BY <1>6, Zenon DEF Traefik!CallFails, Traefik!Thrown, Records
<1>7. CASE Traefik!AgentCrash
  BY <1>7, TraefikTyped DEF Traefik!AgentCrash, Traefik!Fault, Records
<1>8. CASE UNCHANGED Traefik!vars
  BY <1>8 DEF Traefik!vars, Records
<1> QED BY <1>1, <1>2, <1>3, <1>4, <1>5, <1>6, <1>7, <1>8 DEF Traefik!Next

(* RecordIsTrue: lastTraefikRuntimeFailure is cleared only for a primary of *)
(* the pinned image with the configuration asked for, unless the agent dies *)
(* and forgets it, and says "rolled back" only for a primary that runs and  *)
(* is of the image there was (reconcileTraefikRuntime).                     *)
THEOREM RecordTrue ==
    ASSUME Traefik!TraefikAssumption
    PROVE  Traefik!Spec => Traefik!RecordIsTrue
<1> DEFINE A == /\ failure # "none" /\ failure' = "none" /\ faults' = faults
                     => box["primary"].image = "pinned" /\ box["primary"].cfg = run.cfg
                /\ failure' = "rolled_back" /\ failure # "rolled_back"
                     => box["primary"].image = run.previous /\ box["primary"].up = "running"
<1>1. Joined /\ [Traefik!Next]_Traefik!vars => [A]_Traefik!vars
  BY StepRecords DEF Records, AsAsked, Restored
<1>2. [][A]_Traefik!vars <=> Traefik!RecordIsTrue
  BY PTL DEF Traefik!RecordIsTrue
<1> QED BY <1>1, <1>2, TraefikJoined, PTL DEF Traefik!Spec
=============================================================================
