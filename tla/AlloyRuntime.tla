----------------------------- MODULE AlloyRuntime -----------------------------
(***************************************************************************)
(* The collector of logs and metrics: one Alloy container that reads two    *)
(* files, a static configuration and a fragment with the versions of the    *)
(* redaction context.  A new static configuration replaces the container; a *)
(* new fragment is renamed into place and Alloy told to reload, with the    *)
(* way back to the fragment before it.                                      *)
(*                                                                          *)
(* Whoever asks while a reconcile runs leaves what he wants and waits for   *)
(* the drain, which goes on until nothing is left: only the latest counts.  *)
(* Heartbeats ask again and again.  Both parts of a configuration are       *)
(* numbered in the order the control plane makes them; 0 is no file.        *)
(***************************************************************************)
EXTENDS Naturals

CONSTANTS
    MaxStatic, MaxDynamic,  \* bound: configurations the control plane makes
    MaxFaults,              \* bound: crashes, failed calls, Alloys that die
    Crashes,                \* the agent may die
    CallsFail               \* a file may not be written, a call to Docker may fail

AlloyAssumption ==
    /\ MaxStatic \in Nat \ {0} /\ MaxDynamic \in Nat \ {0} /\ MaxFaults \in Nat
    /\ Crashes \in BOOLEAN /\ CallsFail \in BOOLEAN

VARIABLES
    wanted,     \* control plane: the configuration it names by now
    pending,    \* agent: pendingAlloyReconcile
    run,        \* agent: alloyReconcileDrain and the reconcile under way
    outcome,    \* agent: how the last drain ended; failed is lastAlloyRuntimeFailure
    asked,      \* history: what the agent was last asked for
    files,      \* disk: the two files
    box,        \* Docker: the container
    stale,      \* history: a reconcile left Alloy without the fragment on disk
    faults

vars == <<wanted, pending, run, outcome, asked, files, box, stale, faults>>

Config == [static: 0 .. MaxStatic, dynamic: 0 .. MaxDynamic]
Nothing == [static |-> 0, dynamic |-> 0]

(* label is the hash label, loaded what Alloy read when it started or last  *)
(* reloaded, late a request to reload it has still to act on.               *)
Box == [up: {"absent", "created", "running", "down"}, label: 0 .. MaxStatic,
        loaded: Config, late: BOOLEAN]
NoBox == [up |-> "absent", label |-> 0, loaded |-> Nothing, late |-> FALSE]

Run == [pc: {"idle", "inspect", "read", "validate", "rename", "reload", "health", "restore",
             "again", "static", "dynamic", "remove", "create", "start", "wait"},
        input: Config, present: BOOLEAN, current: BOOLEAN, previous: 0 .. MaxDynamic]
NoRun == [pc |-> "idle", input |-> Nothing, present |-> FALSE, current |-> FALSE, previous |-> 0]

TypeOK ==
    /\ {wanted, pending, asked, files} \subseteq Config
    /\ run \in Run /\ box \in Box
    /\ outcome \in {"none", "ok", "failed"} /\ stale \in BOOLEAN
    /\ faults \in 0 .. MaxFaults

Init ==
    /\ wanted = [static |-> 1, dynamic |-> 1]
    /\ pending = Nothing /\ asked = Nothing /\ files = Nothing
    /\ run = NoRun /\ outcome = "none"
    /\ box = NoBox /\ stale = FALSE
    /\ faults = 0

Fault == faults < MaxFaults /\ faults' = faults + 1

----------------------------------------------------------------------------
(* The control plane, Docker and Alloy.                                     *)

Changes ==
    /\ \/ wanted.static < MaxStatic /\ wanted' = [wanted EXCEPT !.static = @ + 1]
       \/ wanted.dynamic < MaxDynamic /\ wanted' = [wanted EXCEPT !.dynamic = @ + 1]
    /\ UNCHANGED <<pending, run, outcome, asked, files, box, stale, faults>>

Dies ==
    /\ box.up = "running"
    /\ Fault
    /\ box' = [box EXCEPT !.up = "down", !.late = FALSE]
    /\ UNCHANGED <<wanted, pending, run, outcome, asked, files, stale>>

(* Restart policy unless-stopped; Alloy reads the files as they are by then.*)
Restarts ==
    /\ box.up = "down"
    /\ box' = [box EXCEPT !.up = "running", !.loaded = files] /\ stale' = FALSE
    /\ UNCHANGED <<wanted, pending, run, outcome, asked, files, faults>>

ReloadsLate ==
    /\ box.late
    /\ box' = [box EXCEPT !.late = FALSE, !.loaded = files] /\ stale' = FALSE
    /\ UNCHANGED <<wanted, pending, run, outcome, asked, files, faults>>

----------------------------------------------------------------------------
(* ensureAlloyRuntime                                                       *)

Reconcile(input) == run' = [NoRun EXCEPT !.pc = "inspect", !.input = input]

(* A heartbeat's validation snapshot, or the context its answer brought; it *)
(* asks for what the control plane names by then.                           *)
Ensure ==
    /\ asked' = wanted
    /\ IF run.pc = "idle" THEN Reconcile(wanted) /\ UNCHANGED pending
       ELSE pending' = wanted /\ UNCHANGED run
    /\ UNCHANGED <<wanted, outcome, files, box, stale, faults>>

(* A reconcile ends; the drain goes on while anything is wanted, and those  *)
(* who wait hear how the last one ended.  No caller runs between the last   *)
(* look at what is wanted and the end of the drain.                         *)
Settle(ok) ==
    /\ IF pending = Nothing THEN run' = NoRun ELSE Reconcile(pending)
    /\ pending' = Nothing
    /\ outcome' = IF ok THEN "ok" ELSE IF pending = Nothing THEN "failed" ELSE outcome
    /\ UNCHANGED <<wanted, asked>>

Goes(pc) == run' = [run EXCEPT !.pc = pc] /\ UNCHANGED <<wanted, pending, outcome, asked>>

----------------------------------------------------------------------------
(* reconcileAlloyRuntime                                                    *)

(* isAlloyContainerCurrent; the label stands for all that is compared.      *)
Current(input) == box.up = "running" /\ box.label = input.static

Inspects ==
    /\ run.pc = "inspect"
    /\ run' = [run EXCEPT !.pc = "read", !.present = box.up # "absent",
                          !.current = Current(run.input)]
    /\ UNCHANGED <<wanted, pending, outcome, asked, files, box, stale, faults>>

(* A current container and files as wanted are left alone.                  *)
Reads ==
    /\ run.pc = "read"
    /\ IF run.current /\ files = run.input THEN Settle(TRUE)
       ELSE /\ run' = [run EXCEPT !.pc = "validate",
                                  !.current = @ /\ files.static = run.input.static]
            /\ UNCHANGED <<wanted, pending, outcome, asked>>
    /\ UNCHANGED <<files, box, stale, faults>>

(* validateAlloyConfig, in a container of its own.                          *)
Validates ==
    /\ run.pc = "validate"
    /\ Goes(IF run.current THEN "rename" ELSE "static")
    /\ UNCHANGED <<files, box, stale, faults>>

WritesStatic ==
    /\ run.pc = "static"
    /\ files' = [files EXCEPT !.static = run.input.static]
    /\ Goes("dynamic")
    /\ UNCHANGED <<box, stale, faults>>

WritesDynamic ==
    /\ run.pc = "dynamic"
    /\ files' = [files EXCEPT !.dynamic = run.input.dynamic]
    /\ Goes(IF run.present THEN "remove" ELSE "create")
    /\ UNCHANGED <<box, stale, faults>>

(* What the calls that replace the container do to it.                      *)
Replaced ==
    CASE run.pc = "remove" -> NoBox
      [] run.pc = "create" -> [NoBox EXCEPT !.up = "created", !.label = run.input.static]
      [] run.pc = "start" -> [box EXCEPT !.up = "running", !.loaded = files]
      [] OTHER -> box

Replaces ==
    /\ run.pc \in {"remove", "create", "start"}
    /\ box' = Replaced /\ stale' = FALSE
    /\ Goes(CASE run.pc = "remove" -> "create" [] run.pc = "create" -> "start" [] OTHER -> "wait")
    /\ UNCHANGED <<files, faults>>

(* A reconcile that ends where Alloy may not have read the fragment on disk:*)
(* on its way to a reload, to the fragment before, or to another container. *)
Behind == {"reload", "restore", "remove"}
Abandons == UNCHANGED box /\ stale' = (stale \/ run.pc \in Behind)

(* A call to Docker fails, before or after it did its work.                 *)
CallFails ==
    /\ CallsFail
    /\ Fault
    /\ \/ run.pc \in {"inspect", "validate", "remove", "create", "start"} /\ Abandons
       \/ run.pc \in {"remove", "create", "start"} /\ box' = Replaced /\ stale' = FALSE
    /\ Settle(FALSE)
    /\ UNCHANGED files

----------------------------------------------------------------------------
(* replaceAlloyDynamicConfig                                                *)

Renames ==
    /\ run.pc = "rename"
    /\ files' = [files EXCEPT !.dynamic = run.input.dynamic]
    /\ run' = [run EXCEPT !.pc = "reload", !.previous = files.dynamic]
    /\ UNCHANGED <<wanted, pending, outcome, asked, box, stale, faults>>

(* The second reload, of the fragment restored, ends in an error either way,*)
(* and so does the wait for health behind it.                               *)
Reloads ==
    /\ run.pc \in {"reload", "again"}
    /\ box.up = "running"
    /\ box' = [box EXCEPT !.loaded = files] /\ stale' = FALSE
    /\ IF run.pc = "reload" THEN Goes("health") ELSE Settle(FALSE)
    /\ UNCHANGED <<files, faults>>

(* Refused, or unanswered: it was done, will be, or never is.               *)
ReloadFails ==
    /\ run.pc \in {"reload", "again"}
    /\ IF box.up = "running"
       THEN /\ Fault
            /\ \/ box' = [box EXCEPT !.loaded = files] /\ stale' = FALSE
               \/ box' \in {box, [box EXCEPT !.late = TRUE]} /\ UNCHANGED stale
       ELSE UNCHANGED <<box, stale, faults>>
    /\ IF run.pc = "reload" THEN Goes("restore") ELSE Settle(FALSE)
    /\ UNCHANGED files

(* waitForAlloyHealth                                                       *)
Healthy ==
    /\ run.pc \in {"health", "wait"}
    /\ box.up = "running"
    /\ Settle(TRUE)
    /\ UNCHANGED <<files, box, stale, faults>>

Unhealthy ==
    /\ run.pc \in {"health", "wait"}
    /\ IF box.up = "running" THEN Fault ELSE UNCHANGED faults
    /\ IF run.pc = "health" THEN Goes("restore") ELSE Settle(FALSE)
    /\ UNCHANGED <<files, box, stale>>

Restores ==
    /\ run.pc = "restore"
    /\ files' = [files EXCEPT !.dynamic = run.previous]
    /\ Goes("again")
    /\ UNCHANGED <<box, stale, faults>>

(* The disk is full, or the like.                                           *)
WriteFails ==
    /\ CallsFail
    /\ run.pc \in {"static", "dynamic", "rename", "restore"}
    /\ Fault
    /\ Settle(FALSE) /\ Abandons
    /\ UNCHANGED files

Crash ==
    /\ Crashes
    /\ Fault
    /\ run' = NoRun /\ pending' = Nothing /\ outcome' = "none"
    /\ Abandons
    /\ UNCHANGED <<wanted, asked, files>>

----------------------------------------------------------------------------

Reconciles ==
    \/ Inspects \/ Reads \/ Validates \/ WritesStatic \/ WritesDynamic \/ Replaces \/ CallFails
    \/ Renames \/ Reloads \/ ReloadFails \/ Healthy \/ Unhealthy \/ Restores \/ WriteFails

Next == Changes \/ Dies \/ Restarts \/ ReloadsLate \/ Ensure \/ Reconciles \/ Crash

(* Heartbeats go on, the agent gets to run, every call ends, and Docker and *)
(* Alloy do what they have to.                                              *)
Fairness == WF_vars(Ensure) /\ WF_vars(Reconciles) /\ WF_vars(Restarts) /\ WF_vars(ReloadsLate)

Spec == Init /\ [][Next]_vars
FairSpec == Spec /\ Fairness

----------------------------------------------------------------------------
(* Properties.                                                              *)

Succeeds == run.pc # "idle" /\ run'.pc = "idle" /\ outcome' = "ok"

(* Concurrent calls coalesce to the latest: those who hear of a success     *)
(* know that what was asked for last is on disk and that the container was  *)
(* made for it and reads it.  Crashes and failed calls do not change that,  *)
(* because the label is compared with the file.                             *)
SuccessIsLatest ==
    [][Succeeds =>
         /\ files' = asked' /\ box'.label = asked'.static
         /\ box'.up = "running" => box'.loaded.static = asked'.static]_vars

(* What a snapshot takes for done, Alloy has loaded, whatever failed before:*)
(* a fragment whose reload fails is taken back.  It holds but where a crash,*)
(* a failed write or a failed removal left Alloy without the fragment that  *)
(* is on disk, which the next look takes for loaded, until Alloy reads it.  *)
SuccessIsLoaded ==
    [][Succeeds /\ box'.up = "running" /\ ~stale' => box'.loaded = asked']_vars

(* "Adopt the config anyway: every later validation snapshot retries the    *)
(* reload": the same without exception, which does not hold.                *)
SnapshotsRetry ==
    [][Succeeds /\ box'.up = "running" => box'.loaded = asked']_vars

(* In the end the collector runs with the static configuration wanted,      *)
(* whatever was cut short in replacing it.                                  *)
CollectorConverges == <>[](box.up = "running" /\ box.loaded.static = wanted.static)

(* And with the fragment wanted, if only Alloy and its reloads fail.        *)
FragmentConverges == <>[](box.up = "running" /\ box.loaded = wanted)

=============================================================================
