------------------------------ MODULE Heartbeat -------------------------------
(***************************************************************************)
(* The heartbeat of an agent: the loop that sends one attempt after         *)
(* another, its watchdog, and the credentials and configuration that an     *)
(* attempt brings back.  An attempt that outlives its deadline is abandoned *)
(* and not cancelled; the loop waits for it, counting, and ends the process *)
(* when it has counted too far, so that Docker starts it anew.              *)
(*                                                                          *)
(* The control plane revokes the agent's token now and then and changes the *)
(* configuration.  The registration token gets a new one, as long as the    *)
(* environment has it and the control plane still accepts it: an agent may  *)
(* be installed without one, and whether one registration uses it up is the *)
(* control plane's to say, so both are considered.                          *)
(***************************************************************************)
EXTENDS Naturals

CONSTANTS
    Limit,          \* MAX_HEARTBEAT_FAILURES
    MaxConfigs,     \* bound: configurations the control plane goes through
    MaxFaults       \* bound: failed calls, Docker calls that hang, revocations, crashes

ASSUME HeartbeatAssumption == {Limit, MaxConfigs} \subseteq Nat \ {0} /\ MaxFaults \in Nat

VARIABLES
    current,    \* control plane: the configuration it hands out
    stored,     \* disk: the token of the credentials file
    token,      \* agent: the token of the credentials object everyone shares
    used,       \* agent: registrationUsed
    ticket,     \* environment and control plane: the registration token
    config,     \* agent: the configuration adopted
    loop,       \* agent: the loop: its stage, its counters, inFlight
    work,       \* agent: the attempt under way
    silence,    \* history: ticks since the last attempt that succeeded
    atOnce,     \* history: attempts under way at once, at the most
    ended,      \* history: what ended the process before this one
    faults

vars == <<current, stored, token, used, ticket, config, loop, work, silence, atOnce, ended,
          faults>>

identity == <<stored, token, used, ticket>>

(* A token is what the control plane makes of it; a configuration is the    *)
(* n-th it hands out, or the agent's own (0).                               *)
Token == {"none", "revoked", "valid"}
Config == 0 .. MaxConfigs

(* boot: main, up to the end of the first heartbeat, which no loop watches; *)
(* waiting: for the timer; racing: the attempt against its deadline.        *)
Loop == [pc: {"boot", "waiting", "racing"}, failures: 0 .. Limit, skips: 0 .. Limit,
         inFlight: BOOLEAN]
Work == [pc: {"idle", "snapshot", "request", "apply", "resnapshot", "register", "store"},
         pace: {"prompt", "hung", "late"}, aborted: BOOLEAN, answer: Config, fresh: Token]
NoWork == [pc |-> "idle", pace |-> "prompt", aborted |-> FALSE, answer |-> 0, fresh |-> "none"]
At(pc) == [NoWork EXCEPT !.pc = pc]

TypeOK ==
    /\ current \in Config \ {0}
    /\ {stored, token} \subseteq Token /\ used \in BOOLEAN
    /\ ticket \in {"none", "good", "spent"}
    /\ config \in Config
    /\ loop \in Loop /\ work \in Work
    /\ silence \in Nat /\ atOnce \in 1 .. 2
    /\ ended \in {"nothing", "crash", "boot", "limit"}
    /\ faults \in 0 .. MaxFaults

(* A process that starts registers when no credentials are stored.          *)
Booting == [pc |-> "boot", failures |-> 0, skips |-> 0, inFlight |-> FALSE]
FirstWork == IF stored = "none" THEN At("resnapshot") ELSE At("snapshot")

(* A new agent, or one that was installed before and has only its token.    *)
Init ==
    /\ current = 1 /\ used = FALSE
    /\ \/ stored = "none" /\ ticket = "good"
       \/ stored = "valid" /\ ticket = "none"
    /\ token = stored
    /\ config = 0
    /\ loop = Booting /\ work = FirstWork
    /\ silence = 0 /\ atOnce = 1 /\ ended = "nothing"
    /\ faults = 0

Fault == faults < MaxFaults /\ faults' = faults + 1

----------------------------------------------------------------------------
(* The control plane.                                                       *)

Reconfigures ==
    /\ current < MaxConfigs
    /\ current' = current + 1
    /\ UNCHANGED <<identity, config, loop, work, silence, atOnce, ended, faults>>

Outdated(t) == IF t = "valid" THEN "revoked" ELSE t

Revokes ==
    /\ Fault
    /\ stored' = Outdated(stored) /\ token' = Outdated(token)
    /\ work' = [work EXCEPT !.fresh = Outdated(@)]
    /\ UNCHANGED <<current, used, ticket, config, loop, silence, atOnce, ended>>

(* A poll for work is answered with a configuration, to a valid token.      *)
LeaseWork ==
    /\ loop.pc # "boot" /\ token = "valid"
    /\ config' = current
    /\ UNCHANGED <<current, identity, loop, work, silence, atOnce, ended, faults>>

----------------------------------------------------------------------------
(* How a tick ends and what follows it.                                     *)

(* process.exit(1), and Docker's restart: what is not on the disk is lost.  *)
Restart(why) ==
    /\ loop' = Booting /\ work' = FirstWork
    /\ token' = stored /\ used' = FALSE /\ config' = 0
    /\ silence' = 0 /\ atOnce' = 1 /\ ended' = why
    /\ UNCHANGED <<stored, ticket>>

KeepsRest == UNCHANGED <<identity, config, atOnce, ended>>

(* recordFailure, recordSkip, reschedule.                                   *)
RecordFailure(skips, inFlight) ==
    IF loop.failures + 1 >= Limit
    THEN Restart("limit")
    ELSE /\ loop' = [pc |-> "waiting", failures |-> loop.failures + 1, skips |-> skips,
                     inFlight |-> inFlight]
         /\ work' = IF inFlight THEN [work EXCEPT !.aborted = TRUE] ELSE NoWork
         /\ KeepsRest /\ UNCHANGED silence

RecordSkip ==
    IF loop.skips + 1 >= Limit
    THEN Restart("limit")
    ELSE /\ loop' = [loop EXCEPT !.skips = @ + 1]
         /\ silence' = silence + 1
         /\ UNCHANGED work /\ KeepsRest

(* The timer fires: an attempt starts unless one is still under way.        *)
Fire ==
    /\ loop.pc = "waiting"
    /\ IF loop.inFlight
       THEN RecordSkip
       ELSE /\ loop' = [loop EXCEPT !.pc = "racing", !.inFlight = TRUE]
            /\ work' = At("snapshot")
            /\ atOnce' = IF work.pc = "idle" THEN 1 ELSE 2
            /\ silence' = silence + 1
            /\ UNCHANGED <<identity, config, ended>>
    /\ UNCHANGED <<current, faults>>

\* Fault: the deadline aborts the request, and the loop waits for the attempt.
DeadlineAborts ==
    /\ loop.pc = "racing" /\ ~work.aborted /\ work.pace # "prompt"
    /\ work' = [work EXCEPT !.aborted = TRUE]
    /\ UNCHANGED loop /\ KeepsRest /\ UNCHANGED silence
    /\ UNCHANGED <<current, faults>>

(* The deadline passes over an attempt that was slow somewhere: it is       *)
(* aborted, and waited out.                                                 *)
Deadline ==
    /\ loop.pc = "racing" /\ work.pace # "prompt"
    /\ RecordFailure(loop.skips, TRUE)
    /\ UNCHANGED <<current, faults>>

\* Fault: a late failure clears both counters.
FailedClears ==
    CASE loop.pc = "boot" -> Restart("boot")
      [] loop.pc = "racing" -> RecordFailure(0, FALSE)
      [] loop.pc = "waiting" ->
           /\ loop' = [loop EXCEPT !.skips = 0, !.failures = 0, !.inFlight = FALSE]
           /\ work' = NoWork /\ KeepsRest /\ UNCHANGED silence

(* The attempt settles, in time or late.  A failure of the first heartbeat  *)
(* ends the process.                                                        *)
Failed ==
    CASE loop.pc = "boot" -> Restart("boot")
      [] loop.pc = "racing" -> RecordFailure(0, FALSE)
      [] loop.pc = "waiting" -> /\ loop' = [loop EXCEPT !.skips = 0, !.inFlight = FALSE]
                                /\ work' = NoWork /\ KeepsRest /\ UNCHANGED silence

\* Fault: a late success leaves the failure its deadline counted.
SucceededKeeps(answer) ==
    /\ loop' = [pc |-> "waiting", skips |-> 0, inFlight |-> FALSE,
                failures |-> IF loop.pc = "waiting" THEN loop.failures ELSE 0]
    /\ work' = NoWork
    /\ config' = answer
    /\ silence' = 0
    /\ UNCHANGED <<identity, atOnce, ended>>

Succeeded(answer) ==
    /\ loop' = [pc |-> "waiting", failures |-> 0, skips |-> 0, inFlight |-> FALSE]
    /\ work' = NoWork
    /\ config' = answer
    /\ silence' = 0
    /\ UNCHANGED <<identity, atOnce, ended>>

----------------------------------------------------------------------------
(* An attempt, step by step.                                                *)

Step(pc) == work.pc = pc /\ work.pace # "hung"
Then(pc) == work' = [work EXCEPT !.pc = pc]

Snapshot ==
    /\ Step("snapshot")
    /\ Then("request")
    /\ UNCHANGED <<current, identity, config, loop, silence, atOnce, ended, faults>>

(* A token that is refused is replaced once in the life of a process, if    *)
(* the environment has the registration token.                              *)
Request ==
    /\ Step("request") /\ ~work.aborted
    /\ IF token = "valid"
       THEN /\ work' = [work EXCEPT !.pc = "apply", !.answer = current]
            /\ UNCHANGED <<identity, config, loop, silence, atOnce, ended>>
       ELSE IF used \/ ticket = "none"
       THEN Failed
       ELSE Then("resnapshot") /\ UNCHANGED <<identity, config, loop, silence, atOnce, ended>>
    /\ UNCHANGED <<current, faults>>

(* Traefik and Alloy follow the answer as they can; it is adopted anyway.   *)
Apply ==
    /\ Step("apply")
    /\ Succeeded(work.answer)
    /\ UNCHANGED <<current, faults>>

Resnapshot ==
    /\ Step("resnapshot")
    /\ Then("register")
    /\ UNCHANGED <<current, identity, config, loop, silence, atOnce, ended, faults>>

(* A registration takes every earlier token out of use, and the one it was  *)
(* made with if the control plane takes a registration token but once.      *)
Registers ==
    /\ Step("register") /\ ticket = "good"
    /\ ticket' \in {"good", "spent"}
    /\ stored' = Outdated(stored) /\ token' = Outdated(token)
    /\ UNCHANGED <<current, used, config, loop, silence, atOnce, ended>>

Register ==
    /\ ~work.aborted
    /\ \/ /\ Registers
          /\ work' = [work EXCEPT !.pc = "store", !.answer = current, !.fresh = "valid"]
       \/ /\ Step("register") /\ ticket # "good"
          /\ Failed
          /\ UNCHANGED current
    /\ UNCHANGED faults

(* writeCredentials, and the shared object with it: main goes on to its     *)
(* first heartbeat, an attempt to its end.                                  *)
Store ==
    /\ Step("store")
    /\ stored' = work.fresh /\ token' = work.fresh /\ used' = TRUE
    /\ IF loop.pc = "boot" /\ token = "none"
       THEN work' = At("snapshot") /\ config' = work.answer
       ELSE Then("apply") /\ UNCHANGED config
    /\ UNCHANGED <<current, ticket, loop, silence, atOnce, ended, faults>>

(* What an aborted attempt still asks for is refused at once.               *)
Aborted ==
    /\ work.pc \in {"request", "register"} /\ work.aborted
    /\ Failed
    /\ UNCHANGED <<current, faults>>

----------------------------------------------------------------------------
(* What goes wrong.                                                         *)

(* A call fails; the answer to a registration may be what is lost.          *)
CallFails ==
    /\ work.pc \in {"snapshot", "request", "resnapshot", "register", "store"}
    /\ work.pace # "hung"
    /\ Fault
    /\ Failed
    /\ UNCHANGED current

AnswerLost ==
    /\ Registers
    /\ Fault
    /\ work' = [work EXCEPT !.pc = "request", !.aborted = TRUE]

(* A Docker call of a snapshot, or of what follows the answer, does not     *)
(* come back, or not soon.                                                  *)
Hangs ==
    /\ work.pc \in {"snapshot", "apply", "resnapshot"} /\ work.pace # "hung"
    /\ Fault
    /\ work' = [work EXCEPT !.pace = "hung"]
    /\ UNCHANGED <<current, identity, config, loop, silence, atOnce, ended>>

ComesBack ==
    /\ work.pace = "hung"
    /\ work' = [work EXCEPT !.pace = "late"]
    /\ UNCHANGED <<current, identity, config, loop, silence, atOnce, ended, faults>>

Crash ==
    /\ Fault
    /\ Restart("crash")
    /\ UNCHANGED current

----------------------------------------------------------------------------
Attempt == Snapshot \/ Request \/ Apply \/ Resnapshot \/ Register \/ Store \/ Aborted

Next ==
    \/ Attempt \/ Fire \/ Deadline
    \/ Reconfigures \/ Revokes \/ LeaseWork
    \/ CallFails \/ AnswerLost \/ Hangs \/ ComesBack \/ Crash

Spec == Init /\ [][Next]_vars

(* Timers fire and what does not hang goes on; nothing says that a call     *)
(* that hangs comes back.                                                   *)
FairSpec == Spec /\ WF_vars(Attempt) /\ WF_vars(Fire) /\ WF_vars(Deadline)

----------------------------------------------------------------------------
(* Properties.                                                              *)

(* At most one attempt is under way, for two snapshots would reconcile the  *)
(* same containers at once; and a live loop is never silent for longer than *)
(* its two counters allow, each failure preceded by as many skips as do not *)
(* end the process (createAgentHeartbeatLoop).  The types included.         *)
SilenceIsShort ==
    /\ TypeOK
    /\ atOnce = 1
    /\ silence <= Limit * (Limit - 1) + 1

(* The loop ends the process only after Limit ticks without a success: a    *)
(* host that is slow and answers late is not a host that fails.             *)
ExitIsDeserved ==
    [][loop.pc # "boot" /\ loop'.pc = "boot" /\ ended' = "limit"
         => silence + (IF loop.pc = "waiting" THEN 1 ELSE 0) >= Limit]_vars

(* Whatever failed, hung or was revoked, the agent ends up with a token     *)
(* that is accepted and the configuration of the control plane.  It does    *)
(* not where it is stuck in the first heartbeat of a process, the one no    *)
(* loop watches, nor where it has no accepted token and no registration     *)
(* token to get one with: "Agent credentials were rejected. Reinstall the   *)
(* agent."                                                                  *)
Recovered == token = "valid" /\ stored = "valid" /\ config = current
Reinstall == stored # "valid" /\ ticket # "good"
Recovers == <>[](Recovered \/ Reinstall \/ (loop.pc = "boot" /\ work.pace = "hung"))
=============================================================================
