---------------------------- MODULE WorkerJobsProofs ----------------------------
(***************************************************************************)
(* Proofs about WorkerJobs, for any runs and any number of faults: a run's  *)
(* command is started once, its verdict stands, and a success that a        *)
(* receipt records is one of the command.                                   *)
(***************************************************************************)
EXTENDS WorkerJobs, TLAPS

USE JobsAssumption

(* One item of a run is open at a time, and only its handler is at work,    *)
(* unless an inspection and a stop overlap.                                 *)
AloneAt(r) ==
    /\ \A k \in Kind : handler[r][k].pc # "idle" => item[r][k] = "open"
    /\ item[r]["start"] = "open" => r \notin overlapped
    /\ r \notin overlapped =>
         \A k, l \in Kind : item[r][k] = "open" /\ item[r][l] = "open" => k = l

(* What a handler at pc knows of the receipt it has read.                   *)
Knows(r, k, pc) ==
    /\ pc \in {"probe", "adopt", "check", "create", "record"} => receipt[r] = "none"
    /\ pc \in {"probe", "adopt"} => k \in {"start", "cleanup"}
    /\ pc \in {"look", "launch"} => receipt[r] # "none"
    /\ pc \in {"look", "launch", "mark", "settle", "halt"} /\ k # "cleanup"
         => receipt[r] \notin Terminal
    /\ pc = "settle" => k # "cleanup"

KnowsAt(r) == r \notin overlapped => \A k \in Kind : Knows(r, k, handler[r][k].pc)

(* A command that was started left a receipt and no created container.      *)
OnceAt(r) ==
    /\ item[r]["start"] = "open" /\ receipt[r] = "none" => starts[r] = 0
    /\ box[r].state = "created" => starts[r] = 0
    /\ handler[r]["start"].pc \in {"record", "launch"} => box[r].state \in {"absent", "created"}
    /\ starts[r] <= 1

Inv == TypeOK /\ \A r \in Runs : AloneAt(r) /\ KnowsAt(r) /\ OnceAt(r)

(* The handler of r's item of kind k goes to pc, and no other moves.        *)
Moved(r, k, pc) ==
    /\ handler' \in [Runs -> [Kind -> Handler]]
    /\ handler'[r][k].pc = pc
    /\ \A q \in Runs, l \in Kind : q # r \/ l # k => handler'[q][l] = handler[q][l]

(* Nothing of run q is touched.                                             *)
Untouched(q) ==
    /\ UNCHANGED <<item[q], handler[q], receipt[q], box[q], starts[q]>>
    /\ q \in overlapped' <=> q \in overlapped

PC == {"idle", "read", "probe", "adopt", "look", "check", "create", "record", "launch", "mark",
       "settle", "halt", "remove", "forget", "reply", "fail"}

----------------------------------------------------------------------------
(* Moves of a handler.                                                      *)

(* The parts of the state that concern one run have their types.             *)
LEMMA Typed == ASSUME TypeOK, NEW r \in Runs, NEW k \in Kind
               PROVE  /\ handler[r] \in [Kind -> Handler] /\ handler[r][k] \in Handler
                      /\ item[r] \in [Kind -> {"none", "open", "done", "failed"}]
                      /\ receipt[r] \in Receipt /\ box[r] \in Container /\ starts[r] \in Nat
                      /\ faults \in 0 .. MaxFaults
  BY DEF TypeOK

(* A handler that moves on stands at one place of the handlers.              *)
LEMMA Placed ==
    ASSUME TypeOK, NEW r \in Runs, NEW k \in Kind, NEW h \in Handler,
           handler' = [handler EXCEPT ![r][k] = h]
    PROVE  Moved(r, k, h.pc)
<1>1. handler \in [Runs -> [Kind -> Handler]]
  BY DEF TypeOK
<1>2. handler'[r] = [handler[r] EXCEPT ![k] = h]
  BY <1>1
<1>3. handler' \in [Runs -> [Kind -> Handler]]
  BY <1>1
<1> QED BY <1>1, <1>2, <1>3 DEF Moved

(* Goto moves one handler and leaves what it has read.                       *)
LEMMA GotoMoves ==
    ASSUME TypeOK, NEW r \in Runs, NEW k \in Kind, NEW pc \in PC, Goto(r, k, pc)
    PROVE  Moved(r, k, pc)
<1> DEFINE h == [handler[r][k] EXCEPT !.pc = pc]
<1>1. h \in Handler /\ h.pc = pc
  BY Typed DEF Handler, PC
<1>2. handler' = [handler EXCEPT ![r][k] = h]
  BY DEF Goto
<1> QED BY <1>1, <1>2, Placed

(* Saw keeps what Docker answered and moves one handler.                     *)
LEMMA SawMoves ==
    ASSUME TypeOK, NEW r \in Runs, NEW k \in Kind, NEW pc \in PC, Saw(r, k, pc)
    PROVE  Moved(r, k, pc)
<1> DEFINE h == [handler[r][k] EXCEPT !.pc = pc, !.seen = box[r]]
<1>1. h \in Handler /\ h.pc = pc
  <2> DEFINE g == [handler[r][k] EXCEPT !.pc = pc]
  <2>0. g \in Handler /\ g.pc = pc
    BY Typed DEF Handler, PC
  <2>1. h = [g EXCEPT !.seen = box[r]]
    OBVIOUS
  <2> HIDE DEF g, h
  <2> QED BY <2>0, <2>1, Typed DEF Handler, PC
<1>2. handler' = [handler EXCEPT ![r][k] = h]
  BY DEF Saw
<1> HIDE DEF h
<1> QED BY <1>1, <1>2, Placed

(* Read keeps the receipt that was read and moves one handler.               *)
LEMMA ReadMoves ==
    ASSUME TypeOK, NEW r \in Runs, NEW k \in Kind, NEW pc \in PC, NEW read \in Receipt,
           handler' = [handler EXCEPT ![r][k].read = read, ![r][k].pc = pc]
    PROVE  Moved(r, k, pc)
<1> DEFINE h == [handler[r][k] EXCEPT !.read = read, !.pc = pc]
<1>1. h \in Handler /\ h.pc = pc
  <2> DEFINE g == [handler[r][k] EXCEPT !.read = read]
  <2>0. g \in Handler
    BY Typed DEF Handler
  <2>1. h = [g EXCEPT !.pc = pc]
    OBVIOUS
  <2> HIDE DEF g, h
  <2> QED BY <2>0, <2>1, Typed DEF Handler, PC
<1>2. handler' = [handler EXCEPT ![r][k] = h]
  BY DEF TypeOK
<1> HIDE DEF h
<1> QED BY <1>1, <1>2, Placed

----------------------------------------------------------------------------
(* What the steps have in common.                                           *)

(* A run that is not touched is as it was.                                  *)
LEMMA Elsewhere ==
    ASSUME Inv, NEW q \in Runs, Untouched(q)
    PROVE  AloneAt(q)' /\ KnowsAt(q)' /\ OnceAt(q)'
  BY DEF Inv, Untouched, AloneAt, KnowsAt, Knows, OnceAt

(* A step of one run has to be looked at for that run only.                 *)
LEMMA OneRun ==
    ASSUME Inv, NEW r \in Runs, TypeOK', AloneAt(r)', KnowsAt(r)', OnceAt(r)',
           \A q \in Runs : q # r => Untouched(q)
    PROVE  Inv'
  BY Elsewhere DEF Inv

(* The handlers of another run stay where they are.                          *)
LEMMA Others ==
    ASSUME TypeOK, NEW r \in Runs, NEW k \in Kind, NEW pc, Moved(r, k, pc), NEW q \in Runs, q # r
    PROVE  handler'[q] = handler[q]
<1>1. handler[q] \in [Kind -> Handler] /\ handler'[q] \in [Kind -> Handler]
  BY DEF TypeOK, Moved
<1>2. \A l \in Kind : handler'[q][l] = handler[q][l]
  BY DEF Moved
<1> QED BY <1>1, <1>2

(* The handler at work on a run that is not overlapped is the only one.     *)
LEMMA OnlyOne ==
    ASSUME Inv, NEW r \in Runs, NEW k \in Kind, handler[r][k].pc # "idle"
    PROVE  /\ item[r][k] = "open"
           /\ r \notin overlapped => \A l \in Kind : l # k => handler[r][l].pc = "idle" /\ item[r][l] # "open"
           /\ k = "start" => r \notin overlapped
           /\ r \notin overlapped => Knows(r, k, handler[r][k].pc)
           /\ k # "start" => item[r]["start"] # "open" \/ r \in overlapped
           /\ k # "start" => item[r]["start"] # "open"
<1>1. AloneAt(r) /\ KnowsAt(r)
  BY DEF Inv
<1>2. item[r][k] = "open" /\ (k = "start" => r \notin overlapped)
  BY <1>1 DEF AloneAt
<1>3. r \notin overlapped => \A l \in Kind : l # k => handler[r][l].pc = "idle" /\ item[r][l] # "open"
  BY <1>1, <1>2 DEF AloneAt
<1>4. k # "start" => item[r]["start"] # "open"
  BY <1>1, <1>3 DEF AloneAt, Kind
<1> QED BY <1>1, <1>2, <1>3, <1>4 DEF KnowsAt

(* A step that only moves a handler which is, and stays, at work.           *)
LEMMA Thinks ==
    ASSUME Inv, NEW r \in Runs, NEW k \in Kind, NEW pc \in PC, Moved(r, k, pc),
           item[r][k] = "open", faults' \in 0 .. MaxFaults,
           UNCHANGED <<item, receipt, box, starts, ended, overlapped>>,
           r \notin overlapped => Knows(r, k, pc),
           k = "start" /\ pc \in {"record", "launch"} => box[r].state \in {"absent", "created"}
    PROVE  Inv'
<1>1. TypeOK'
  BY DEF Inv, TypeOK, Moved
<1>2. AloneAt(r)'
  BY DEF Inv, AloneAt, Moved
<1>3. KnowsAt(r)'
  BY DEF Inv, KnowsAt, Knows, Moved
<1>4. OnceAt(r)'
  <2>1. CASE k = "start"
    BY <2>1 DEF Inv, OnceAt, Moved
  <2>2. CASE k # "start"
    <3>1. handler'[r]["start"] = handler[r]["start"]
      BY <2>2 DEF Moved, Kind
    <3> QED BY <3>1 DEF Inv, OnceAt
  <2> QED BY <2>1, <2>2
<1>5. \A q \in Runs : q # r => Untouched(q)
  BY Others DEF Untouched, Inv
<1> QED BY <1>1, <1>2, <1>3, <1>4, <1>5, OneRun

(* A handler that throws knows nothing any more.                            *)
LEMMA ThrowsInv ==
    ASSUME Inv, NEW r \in Runs, NEW k \in Kind, handler[r][k].pc # "idle", Throws(r, k),
           UNCHANGED <<item, receipt, box, starts, ended, overlapped>>, faults' \in 0 .. MaxFaults
    PROVE  Inv'
<1>1. Moved(r, k, "fail")
  BY GotoMoves DEF Inv, Throws, PC
<1>2. Knows(r, k, "fail")
  BY DEF Knows
<1> QED BY <1>1, <1>2, Thinks, OnlyOne DEF PC

----------------------------------------------------------------------------
(* Steps that decide.                                                       *)

(* Faults and types, as the steps cite them.                                 *)
LEMMA Counted == ASSUME Inv PROVE faults \in 0 .. MaxFaults /\ TypeOK
  BY DEF Inv, TypeOK

(* A lease starts a handler that knows nothing yet.                          *)
LEMMA LeaseInv == ASSUME Inv, NEW r \in Runs, NEW k \in Kind, Lease(r, k) PROVE Inv'
<1> DEFINE h == [NoHandler EXCEPT !.pc = "read"]
<1>1. h \in Handler /\ h.pc = "read"
  BY DEF Handler, NoHandler, Receipt, Container, Absent
<1>2. handler' = [handler EXCEPT ![r][k] = h]
  BY DEF Lease
<1> HIDE DEF h
<1>3. Moved(r, k, "read")
  BY <1>1, <1>2, Placed, Counted
<1>4. Knows(r, k, "read")
  BY DEF Knows
<1> QED BY <1>3, <1>4, Thinks, Counted DEF Lease, PC

(* A handler reads its run's receipt (readWorkerJobReceipt).                 *)
LEMMA ReadReceiptInv == ASSUME Inv, NEW r \in Runs, NEW k \in Kind, ReadReceipt(r, k) PROVE Inv'
<1>0. /\ handler[r][k].pc = "read" /\ TypeOK /\ receipt[r] \in Receipt
      /\ UNCHANGED <<item, receipt, box, starts, ended, overlapped>> /\ faults' \in 0 .. MaxFaults
  BY Counted DEF ReadReceipt, At, TypeOK
<1>1. CASE receipt[r] = "none" /\ k \in {"inspect", "stop"}
  BY <1>0, <1>1, ThrowsInv DEF ReadReceipt
<1>2. CASE ~(receipt[r] = "none" /\ k \in {"inspect", "stop"})
  <2> DEFINE pc == IF receipt[r] = "none" THEN "probe"
                   ELSE IF receipt[r] \in Terminal /\ k # "cleanup" THEN "reply"
                   ELSE IF k = "stop" THEN "halt" ELSE "look"
  <2>1. handler' = [handler EXCEPT ![r][k].read = receipt[r], ![r][k].pc = pc]
    BY <1>2 DEF ReadReceipt
  <2>4. /\ pc \in {"probe", "reply", "halt", "look"}
        /\ pc = "probe" => receipt[r] = "none"
        /\ pc = "look" => receipt[r] # "none"
        /\ pc \in {"look", "halt"} /\ k # "cleanup" => receipt[r] \notin Terminal
    OBVIOUS
  <2>2. pc \in {"probe", "reply", "halt", "look"} /\ Knows(r, k, pc)
    BY <1>2, <2>4 DEF Knows, Kind
  <2> HIDE DEF pc
  <2>3. Moved(r, k, pc)
    BY <1>0, <2>1, <2>2, ReadMoves DEF PC
  <2> QED BY <1>0, <2>2, <2>3, Thinks, OnlyOne DEF PC
<1> QED BY <1>1, <1>2

(* A handler asks Docker for its run's container by name.                    *)
LEMMA ProbeInv == ASSUME Inv, NEW r \in Runs, NEW k \in Kind, Probe(r, k) PROVE Inv'
<1> DEFINE pc == IF box[r].state # "absent" THEN "adopt"
                 ELSE IF k = "start" THEN "check" ELSE "reply"
<1>1. /\ Saw(r, k, pc) /\ handler[r][k].pc = "probe"
      /\ UNCHANGED <<item, receipt, box, starts, ended, overlapped>> /\ faults' \in 0 .. MaxFaults
  BY Counted DEF Probe, At
<1>2. pc \in {"adopt", "check", "reply"}
  OBVIOUS
<1>3. r \notin overlapped => Knows(r, k, "probe")
  BY <1>1, OnlyOne
<1> HIDE DEF pc
<1>4. r \notin overlapped => Knows(r, k, pc)
  BY <1>2, <1>3 DEF Knows
<1>5. Moved(r, k, pc)
  BY <1>1, <1>2, SawMoves, Counted DEF PC
<1> QED BY <1>1, <1>2, <1>4, <1>5, Thinks, OnlyOne DEF PC

(* A handler asks Docker how its run's container is.                         *)
LEMMA LookInv == ASSUME Inv, NEW r \in Runs, NEW k \in Kind, Look(r, k) PROVE Inv'
<1>0. /\ handler[r][k].pc = "look"
      /\ UNCHANGED <<item, receipt, box, starts, ended, overlapped>> /\ faults' \in 0 .. MaxFaults
  BY Counted DEF Look, At
<1>1. CASE k = "cleanup" /\ box[r].state = "running"
  BY <1>0, <1>1, ThrowsInv DEF Look
<1>2. CASE ~(k = "cleanup" /\ box[r].state = "running")
  <2> DEFINE pc == CASE k = "cleanup" -> "remove"
                     [] k = "start" -> NextOfStart(handler[r][k].read, box[r])
                     [] k = "inspect" /\ box[r].state = "running" -> "reply"
                     [] OTHER -> "settle"
  <2>1. Saw(r, k, pc)
    BY <1>2 DEF Look
  <2>2. /\ pc \in {"remove", "reply", "launch", "settle"}
        /\ pc = "launch" => k = "start" /\ box[r].state = "created"
        /\ pc = "settle" => k # "cleanup"
    BY DEF NextOfStart
  <2>3. r \notin overlapped => Knows(r, k, "look")
    BY <1>0, OnlyOne
  <2> HIDE DEF pc
  <2>4. r \notin overlapped => Knows(r, k, pc)
    BY <2>2, <2>3 DEF Knows
  <2>5. Moved(r, k, pc)
    BY <2>1, <2>2, SawMoves, Counted DEF PC
  <2> QED BY <1>0, <2>2, <2>4, <2>5, Thinks, OnlyOne DEF PC
<1> QED BY <1>1, <1>2

(* A start asks whether the volume is in use.                                *)
LEMMA CheckHostInv == ASSUME Inv, NEW r \in Runs, CheckHost(r) PROVE Inv'
<1>0. /\ handler[r]["start"].pc = "check" /\ "start" \in Kind
      /\ UNCHANGED <<item, receipt, box, starts, ended, overlapped>> /\ faults' \in 0 .. MaxFaults
  BY Counted DEF CheckHost, At, Kind
<1>1. CASE Throws(r, "start")
  BY <1>0, <1>1, ThrowsInv
<1>2. CASE Goto(r, "start", "create")
  <2>1. Moved(r, "start", "create")
    BY <1>0, <1>2, GotoMoves, Counted DEF PC
  <2>2. r \notin overlapped => Knows(r, "start", "create")
    BY <1>0, OnlyOne DEF Knows
  <2> QED BY <1>0, <2>1, <2>2, Thinks, OnlyOne DEF PC
<1> QED BY <1>1, <1>2 DEF CheckHost

(* A call of a handler fails and the handler throws.                         *)
LEMMA StepThrowsInv == ASSUME Inv, NEW r \in Runs, NEW k \in Kind, StepThrows(r, k) PROVE Inv'
<1>1. handler[r][k].pc # "idle" /\ faults' \in 0 .. MaxFaults
  BY Counted DEF StepThrows, Fault
<1> QED BY <1>1, ThrowsInv DEF StepThrows

----------------------------------------------------------------------------
(* Steps that write a receipt or change the container.                      *)

(* A handler writes the receipt of its run.                                 *)
LEMMA Writes ==
    ASSUME Inv, NEW r \in Runs, NEW k \in Kind, NEW pc \in PC, NEW status \in Receipt,
           handler[r][k].pc # "idle", Moved(r, k, pc),
           receipt' = [receipt EXCEPT ![r] = status],
           UNCHANGED <<item, box, starts, ended, overlapped, faults>>,
           status = "none" => k # "start",
           r \notin overlapped => Knows(r, k, pc)',
           k = "start" /\ pc \in {"record", "launch"} => box[r].state \in {"absent", "created"}
    PROVE  Inv'
<1>0. /\ receipt \in [Runs -> Receipt] /\ receipt'[r] = status
      /\ \A q \in Runs : q # r => receipt'[q] = receipt[q]
  BY Counted DEF TypeOK
<1>1. TypeOK'
  BY <1>0, Counted DEF TypeOK, Moved
<1>2. item[r][k] = "open"
  BY OnlyOne
<1>3. AloneAt(r)'
  BY <1>2 DEF Inv, AloneAt, Moved
<1>4. KnowsAt(r)'
  <2> SUFFICES ASSUME r \notin overlapped', NEW l \in Kind
               PROVE  Knows(r, l, handler[r][l].pc)'
    BY DEF KnowsAt
  <2>1. CASE l = k
    BY <2>1 DEF Moved, Knows
  <2>2. CASE l # k
    <3>1. handler'[r][l].pc = "idle"
      BY <2>2, OnlyOne DEF Moved
    <3> QED BY <3>1 DEF Knows
  <2> QED BY <2>1, <2>2
<1>5. OnceAt(r)'
  <2>1. CASE k = "start"
    BY <1>0, <2>1 DEF Inv, OnceAt, Moved
  <2>2. CASE k # "start"
    <3>1. handler'[r]["start"] = handler[r]["start"] /\ item[r]["start"] # "open"
      BY <2>2, OnlyOne DEF Moved, Kind
    <3> QED BY <3>1 DEF Inv, OnceAt
  <2> QED BY <2>1, <2>2
<1>6. \A q \in Runs : q # r => Untouched(q)
  BY <1>0, Others, Counted DEF Untouched
<1> QED BY <1>1, <1>3, <1>4, <1>5, <1>6, OneRun

(* A handler settles on a container an earlier attempt left.                 *)
LEMMA AdoptInv == ASSUME Inv, NEW r \in Runs, NEW k \in Kind, Adopt(r, k) PROVE Inv'
<1>6. PICK status \in Receipt : status = Recovered(handler[r][k].seen) /\ status # "none"
  BY DEF Recovered, Receipt, Terminal
<1> DEFINE pc == IF k = "start" /\ status \in Terminal THEN "reply" ELSE "look"
<1>0. /\ handler[r][k].pc = "adopt" /\ receipt' = [receipt EXCEPT ![r] = status]
      /\ handler' = [handler EXCEPT ![r][k].read = status, ![r][k].pc = pc]
      /\ UNCHANGED <<item, box, starts, ended, overlapped, faults>>
  BY <1>6 DEF Adopt, At
<1>1. pc \in {"reply", "look"} /\ (pc = "look" /\ k = "start" => status \notin Terminal)
  OBVIOUS
<1> HIDE DEF pc
<1>2. Moved(r, k, pc)
  BY <1>0, <1>1, ReadMoves, Counted DEF PC
<1>3. r \notin overlapped => k \in {"start", "cleanup"}
  BY <1>0, OnlyOne DEF Knows
<1>4. receipt'[r] = status
  BY <1>0, Counted DEF TypeOK
<1>5. r \notin overlapped => Knows(r, k, pc)'
  BY <1>1, <1>3, <1>4, <1>6 DEF Knows
<1> QED BY <1>0, <1>1, <1>2, <1>5, <1>6, Writes DEF PC

(* A start records the container it created before it starts it.             *)
LEMMA RecordCreatedInv == ASSUME Inv, NEW r \in Runs, RecordCreated(r) PROVE Inv'
<1>0. /\ handler[r]["start"].pc = "record" /\ "start" \in Kind
      /\ receipt' = [receipt EXCEPT ![r] = "created"]
      /\ UNCHANGED <<item, box, starts, ended, overlapped, faults>>
  BY DEF RecordCreated, At, Kind
<1>1. Moved(r, "start", "launch")
  BY <1>0, GotoMoves, Counted DEF RecordCreated, PC
<1>2. box[r].state \in {"absent", "created"}
  BY <1>0 DEF Inv, OnceAt
<1>3. receipt'[r] = "created"
  BY <1>0, Counted DEF TypeOK
<1>4. Knows(r, "start", "launch")'
  BY <1>3 DEF Knows, Terminal
<1> QED BY <1>0, <1>1, <1>2, <1>4, Writes DEF PC, Receipt

(* A start records that its container runs.                                  *)
LEMMA MarkRunningInv == ASSUME Inv, NEW r \in Runs, MarkRunning(r) PROVE Inv'
<1>0. /\ handler[r]["start"].pc = "mark" /\ "start" \in Kind
      /\ receipt' = [receipt EXCEPT ![r] = "running"]
      /\ UNCHANGED <<item, box, starts, ended, overlapped, faults>>
  BY DEF MarkRunning, At, Kind
<1>1. Moved(r, "start", "reply")
  BY <1>0, GotoMoves, Counted DEF MarkRunning, PC
<1>2. Knows(r, "start", "reply")'
  BY DEF Knows
<1> QED BY <1>0, <1>1, <1>2, Writes DEF PC, Receipt

(* A handler records how the command ended.                                  *)
LEMMA SettleReceiptInv == ASSUME Inv, NEW r \in Runs, NEW k \in Kind, SettleReceipt(r, k) PROVE Inv'
<1> DEFINE status == IF k = "stop" THEN "cancelled" ELSE TerminalOf(handler[r][k].seen)
<1>0. /\ handler[r][k].pc = "settle" /\ receipt' = [receipt EXCEPT ![r] = status]
      /\ UNCHANGED <<item, box, starts, ended, overlapped, faults>>
  BY DEF SettleReceipt, At
<1>1. status \in Receipt /\ status # "none"
  BY DEF TerminalOf, Receipt, Terminal
<1> HIDE DEF status
<1>2. Moved(r, k, "reply")
  BY <1>0, GotoMoves, Counted DEF SettleReceipt, PC
<1>3. Knows(r, k, "reply")'
  BY DEF Knows
<1> QED BY <1>0, <1>1, <1>2, <1>3, Writes DEF PC

(* Cleanup removes the receipt after the container is gone.                  *)
LEMMA ForgetReceiptInv == ASSUME Inv, NEW r \in Runs, ForgetReceipt(r) PROVE Inv'
<1>0. /\ handler[r]["cleanup"].pc = "forget" /\ "cleanup" \in Kind
      /\ receipt' = [receipt EXCEPT ![r] = "none"]
      /\ UNCHANGED <<item, box, starts, ended, overlapped, faults>>
  BY DEF ForgetReceipt, At, Kind
<1>1. Moved(r, "cleanup", "reply")
  BY <1>0, GotoMoves, Counted DEF ForgetReceipt, PC
<1>2. Knows(r, "cleanup", "reply")'
  BY DEF Knows
<1> QED BY <1>0, <1>1, <1>2, Writes DEF PC, Receipt

(* A handler changes the container of its run.                              *)
LEMMA Acts ==
    ASSUME Inv, NEW r \in Runs, NEW k \in Kind, NEW pc \in PC,
           handler[r][k].pc # "idle", Moved(r, k, pc),
           box' \in [Runs -> Container], starts' \in [Runs -> Nat],
           ended' \in [Runs -> {"no", "zero", "nonzero"}],
           \A q \in Runs : q # r => box'[q] = box[q] /\ starts'[q] = starts[q],
           UNCHANGED <<item, receipt, overlapped>>, faults' \in 0 .. MaxFaults,
           r \notin overlapped => Knows(r, k, pc), OnceAt(r)'
    PROVE  Inv'
<1>1. TypeOK'
  BY Counted DEF TypeOK, Moved
<1>2. item[r][k] = "open"
  BY OnlyOne
<1>3. AloneAt(r)'
  BY <1>2 DEF Inv, AloneAt, Moved
<1>4. KnowsAt(r)'
  BY DEF Inv, KnowsAt, Knows, Moved
<1>5. \A q \in Runs : q # r => Untouched(q)
  BY Others, Counted DEF Untouched
<1> QED BY <1>1, <1>3, <1>4, <1>5, OneRun

(* A start creates its container: no command has been started.               *)
LEMMA CreateContainerInv == ASSUME Inv, NEW r \in Runs, CreateContainer(r) PROVE Inv'
<1>0. /\ handler[r]["start"].pc = "create" /\ "start" \in Kind
      /\ UNCHANGED <<item, receipt, starts, ended, overlapped, faults>> /\ faults' \in 0 .. MaxFaults
  BY Counted DEF CreateContainer, At, Kind
<1>1. CASE box[r].state = "absent"
  <2>1. /\ box' = [box EXCEPT ![r] = [state |-> "created", ok |-> TRUE]]
        /\ Goto(r, "start", "record")
    BY <1>1 DEF CreateContainer
  <2>2. Moved(r, "start", "record")
    BY <1>0, <2>1, GotoMoves, Counted DEF PC
  <2>3. [state |-> "created", ok |-> TRUE] \in Container
    BY DEF Container
  <2>4. /\ box' \in [Runs -> Container] /\ box'[r].state = "created"
        /\ \A q \in Runs : q # r => box'[q] = box[q]
    BY <2>1, <2>3, Counted DEF TypeOK
  <2>5. receipt[r] = "none" /\ item[r]["start"] = "open"
    BY <1>0, OnlyOne DEF Knows
  <2>6. starts[r] = 0
    BY <2>5 DEF Inv, OnceAt
  <2>7. OnceAt(r)'
    BY <1>0, <2>4, <2>6 DEF OnceAt
  <2>8. Knows(r, "start", "record")
    BY <2>5 DEF Knows
  <2>9. starts' \in [Runs -> Nat] /\ ended' \in [Runs -> {"no", "zero", "nonzero"}]
        /\ starts' = starts
    BY <1>0, Counted DEF TypeOK
  <2> QED BY <1>0, <2>2, <2>4, <2>7, <2>8, <2>9, Acts DEF PC
<1>2. CASE box[r].state # "absent"
  <2>1. Throws(r, "start") /\ UNCHANGED box
    BY <1>2 DEF CreateContainer
  <2> QED BY <1>0, <2>1, ThrowsInv
<1> QED BY <1>1, <1>2

(* A first start finds a container that was never started, or none.         *)
LEMMA LaunchInv == ASSUME Inv, NEW r \in Runs, Launch(r) PROVE Inv'
<1>0. /\ handler[r]["start"].pc = "launch" /\ "start" \in Kind
      /\ UNCHANGED <<item, receipt, ended, overlapped>>
      /\ box[r].state \in {"absent", "created"} /\ TypeOK /\ faults \in 0 .. MaxFaults
  BY Counted DEF Launch, At, Kind, Inv, OnceAt
<1>1. receipt[r] # "none" /\ receipt[r] \notin Terminal
  BY <1>0, OnlyOne DEF Knows
<1>2. CASE box[r].state = "absent"
  BY <1>0, <1>2, ThrowsInv DEF Launch
<1>3. CASE box[r].state = "created"
  <2>0. starts[r] = 0
    BY <1>3 DEF Inv, OnceAt
  <2>1. PICK pc \in {"mark", "fail"} :
          /\ Goto(r, "start", pc) /\ faults' \in 0 .. MaxFaults
          /\ \/ /\ box' = [box EXCEPT ![r] = [state |-> "running", ok |-> TRUE]]
                /\ starts' = [starts EXCEPT ![r] = @ + 1]
             \/ box' = [box EXCEPT ![r].ok = FALSE] /\ UNCHANGED starts
    BY <1>0, <1>3 DEF Launch, Throws, Fault
  <2>2. Moved(r, "start", pc)
    BY <1>0, <2>1, GotoMoves DEF PC
  <2>3. Knows(r, "start", pc)
    BY <1>1, <2>1 DEF Knows
  <2>4. /\ box' \in [Runs -> Container] /\ starts' \in [Runs -> Nat]
        /\ \A q \in Runs : q # r => box'[q] = box[q] /\ starts'[q] = starts[q]
        /\ \/ box'[r].state = "running" /\ starts'[r] = 1
           \/ starts'[r] = 0
    <3>1. box \in [Runs -> Container] /\ starts \in [Runs -> Nat]
      BY <1>0 DEF TypeOK
    <3>2. CASE /\ box' = [box EXCEPT ![r] = [state |-> "running", ok |-> TRUE]]
               /\ starts' = [starts EXCEPT ![r] = @ + 1]
      <4>1. [state |-> "running", ok |-> TRUE] \in Container
        BY DEF Container
      <4>2. box'[r] = [state |-> "running", ok |-> TRUE] /\ box' \in [Runs -> Container]
        BY <3>1, <3>2, <4>1
      <4> QED BY <2>0, <3>1, <3>2, <4>2
    <3>3. CASE box' = [box EXCEPT ![r].ok = FALSE] /\ UNCHANGED starts
      <4>1. [box[r] EXCEPT !.ok = FALSE] \in Container
        BY <3>1 DEF Container
      <4> QED BY <2>0, <3>1, <3>3, <4>1
    <3> QED BY <2>1, <3>2, <3>3
  <2>5. handler'[r]["start"].pc = pc
    BY <2>2 DEF Moved
  <2>6. OnceAt(r)'
    BY <1>0, <1>1, <2>1, <2>4, <2>5 DEF OnceAt
  <2>7. ended' \in [Runs -> {"no", "zero", "nonzero"}]
    BY <1>0 DEF TypeOK
  <2> QED BY <1>0, <2>1, <2>2, <2>3, <2>4, <2>6, <2>7, Acts DEF PC
<1> QED BY <1>0, <1>2, <1>3

(* A stop halts the container.                                               *)
LEMMA HaltInv == ASSUME Inv, NEW r \in Runs, Halt(r) PROVE Inv'
<1>0. /\ handler[r]["stop"].pc = "halt" /\ "stop" \in Kind /\ "start" \in Kind /\ "stop" # "start"
      /\ Goto(r, "stop", "settle")
      /\ UNCHANGED <<item, receipt, starts, overlapped, faults>> /\ faults' \in 0 .. MaxFaults /\ TypeOK
  BY Counted DEF Halt, At, Kind
<1>1. Moved(r, "stop", "settle")
  BY <1>0, GotoMoves DEF PC
<1>2. r \notin overlapped => Knows(r, "stop", "settle")
  BY <1>0, OnlyOne DEF Knows
<1>3. /\ box' \in [Runs -> Container] /\ ended' \in [Runs -> {"no", "zero", "nonzero"}]
      /\ \A q \in Runs : q # r => box'[q] = box[q]
      /\ box'[r] = box[r] \/ box'[r].state = "exited"
  <2>1. box \in [Runs -> Container] /\ ended \in [Runs -> {"no", "zero", "nonzero"}]
    BY <1>0 DEF TypeOK
  <2>2. CASE box[r].state = "running"
    <3>1. PICK ok \in BOOLEAN :
            /\ box' = [box EXCEPT ![r] = [state |-> "exited", ok |-> ok]]
            /\ ended' = [ended EXCEPT ![r] = IF ok THEN "zero" ELSE "nonzero"]
      BY <2>2 DEF Halt
    <3>2. [state |-> "exited", ok |-> ok] \in Container
      BY DEF Container
    <3>3. box' \in [Runs -> Container] /\ box'[r] = [state |-> "exited", ok |-> ok]
      BY <2>1, <3>1, <3>2
    <3> QED BY <2>1, <2>2, <3>1, <3>3
  <2>3. CASE box[r].state # "running"
    <3>1. box' = box /\ ended' = ended
      BY <2>3 DEF Halt
    <3>2. box' \in [Runs -> Container] /\ ended' \in [Runs -> {"no", "zero", "nonzero"}]
      BY <2>1, <3>1
    <3> QED BY <3>1, <3>2
  <2> QED BY <2>2, <2>3
<1>4. OnceAt(r)'
  <2>1. item[r]["start"] # "open" /\ handler'[r]["start"] = handler[r]["start"]
    BY <1>0, <1>1, OnlyOne DEF Moved
  <2>2. handler'[r]["start"].pc = "idle"
    BY <1>0, <2>1 DEF Inv, AloneAt
  <2> QED BY <1>0, <1>3, <2>1, <2>2 DEF Inv, OnceAt
<1>5. starts' \in [Runs -> Nat] /\ starts' = starts
  BY <1>0 DEF TypeOK
<1> QED BY <1>0, <1>1, <1>2, <1>3, <1>4, <1>5, Acts DEF PC

(* A handler removes its run's container.                                    *)
LEMMA RemoveContainerInv == ASSUME Inv, NEW r \in Runs, RemoveContainer(r) PROVE Inv'
<1>0. /\ handler[r]["cleanup"].pc = "remove" /\ "cleanup" \in Kind /\ "start" \in Kind /\ "cleanup" # "start"
      /\ box' = [box EXCEPT ![r] = Absent] /\ Goto(r, "cleanup", "forget")
      /\ UNCHANGED <<item, receipt, starts, ended, overlapped, faults>> /\ faults' \in 0 .. MaxFaults /\ TypeOK
  BY Counted DEF RemoveContainer, At, Kind
<1>1. Moved(r, "cleanup", "forget")
  BY <1>0, GotoMoves DEF PC
<1>2. Knows(r, "cleanup", "forget")
  BY DEF Knows
<1>3. Absent \in Container /\ Absent.state = "absent"
  BY DEF Absent, Container
<1>4. /\ box' \in [Runs -> Container] /\ box'[r].state = "absent"
      /\ \A q \in Runs : q # r => box'[q] = box[q]
  BY <1>0, <1>3 DEF TypeOK
<1>5. OnceAt(r)'
  BY <1>0, <1>4 DEF Inv, OnceAt
<1>6. /\ starts' \in [Runs -> Nat] /\ ended' \in [Runs -> {"no", "zero", "nonzero"}]
      /\ starts' = starts
  BY <1>0 DEF TypeOK
<1> QED BY <1>0, <1>1, <1>2, <1>4, <1>5, <1>6, Acts DEF PC

(* What Docker does by itself leaves no created container behind.           *)
LEMMA BoxInv ==
    ASSUME Inv, NEW r \in Runs, NEW c \in Container, box' = [box EXCEPT ![r] = c],
           c.state = "absent" \/ (c.state = "exited" /\ box[r].state = "running"),
           ended' \in [Runs -> {"no", "zero", "nonzero"}], faults' \in 0 .. MaxFaults,
           UNCHANGED <<item, handler, receipt, starts, overlapped>>
    PROVE  Inv'
<1>0. TypeOK
  BY Counted
<1>1. /\ box' \in [Runs -> Container] /\ box'[r] = c
      /\ \A q \in Runs : q # r => box'[q] = box[q]
  BY <1>0 DEF TypeOK
<1>2. TypeOK'
  BY <1>0, <1>1 DEF TypeOK
<1>3. AloneAt(r)' /\ KnowsAt(r)'
  BY DEF Inv, AloneAt, KnowsAt, Knows
<1>4. OnceAt(r)'
  BY <1>1 DEF Inv, OnceAt
<1>5. \A q \in Runs : q # r => Untouched(q)
  BY <1>1 DEF Untouched
<1> QED BY <1>2, <1>3, <1>4, <1>5, OneRun

(* The command ends by itself.                                               *)
LEMMA ExitsInv == ASSUME Inv, NEW r \in Runs, Exits(r) PROVE Inv'
<1>1. PICK ok \in BOOLEAN :
        /\ box' = [box EXCEPT ![r] = [state |-> "exited", ok |-> ok]]
        /\ ended' = [ended EXCEPT ![r] = IF ok THEN "zero" ELSE "nonzero"]
  BY DEF Exits
<1> DEFINE c == [state |-> "exited", ok |-> ok]
<1>2. c \in Container /\ c.state = "exited" /\ box' = [box EXCEPT ![r] = c]
  BY <1>1 DEF Container
<1>3. /\ ended' \in [Runs -> {"no", "zero", "nonzero"}] /\ faults' \in 0 .. MaxFaults
      /\ box[r].state = "running" /\ UNCHANGED <<item, handler, receipt, starts, overlapped>>
  BY <1>1, Counted DEF TypeOK, Exits
<1> HIDE DEF c
<1> QED BY <1>2, <1>3, BoxInv

(* Someone other than the agent removes the container.                       *)
LEMMA VanishesInv == ASSUME Inv, NEW r \in Runs, Vanishes(r) PROVE Inv'
<1>1. Absent \in Container /\ Absent.state = "absent"
  BY DEF Absent, Container
<1>2. ended' \in [Runs -> {"no", "zero", "nonzero"}] /\ faults' \in 0 .. MaxFaults
  BY Counted DEF TypeOK, Vanishes, Fault
<1>3. /\ box' = [box EXCEPT ![r] = Absent]
      /\ UNCHANGED <<item, handler, receipt, starts, overlapped>>
  BY DEF Vanishes
<1> QED BY <1>1, <1>2, <1>3, BoxInv

----------------------------------------------------------------------------
(* Items.                                                                   *)

(* A handler reports, or its report is lost.                                 *)
LEMMA ReplyInv == ASSUME Inv, NEW r \in Runs, NEW k \in Kind, Reply(r, k) PROVE Inv'
<1>0. /\ handler[r][k].pc \in {"reply", "fail"} /\ handler' = [handler EXCEPT ![r][k] = NoHandler]
      /\ UNCHANGED <<receipt, box, starts, ended, overlapped>> /\ TypeOK /\ faults' \in 0 .. MaxFaults
  BY Counted DEF Reply, Fault
<1>1. NoHandler \in Handler /\ NoHandler.pc = "idle"
  BY DEF NoHandler, Handler, Receipt, Container, Absent
<1>2. Moved(r, k, "idle")
  BY <1>0, <1>1, Placed
<1>3. item[r][k] = "open"
  BY <1>0, OnlyOne
<1>4. CASE UNCHANGED item
  <2>1. Knows(r, k, "idle")
    BY DEF Knows
  <2> QED BY <1>0, <1>2, <1>3, <1>4, <2>1, Thinks DEF PC
<1>5. ASSUME NEW status \in {"done", "failed"}, item' = [item EXCEPT ![r][k] = status]
      PROVE  Inv'
  <2>1. /\ item' \in [Runs -> [Kind -> {"none", "open", "done", "failed"}]]
        /\ item'[r][k] = status
        /\ \A l \in Kind : l # k => item'[r][l] = item[r][l]
        /\ \A q \in Runs : q # r => item'[q] = item[q]
    BY <1>0, <1>5 DEF TypeOK
  <2>2. TypeOK'
    BY <1>0, <1>2, <2>1 DEF TypeOK, Moved
  <2>3. AloneAt(r)'
    BY <1>0, <1>2, <2>1 DEF Inv, AloneAt, Moved, Kind
  <2>4. KnowsAt(r)'
    BY <1>0, <1>2 DEF Inv, KnowsAt, Knows, Moved
  <2>5. OnceAt(r)'
    <3>1. item'[r]["start"] # "open" \/ item'[r]["start"] = item[r]["start"]
      BY <2>1 DEF Kind
    <3>2. handler'[r]["start"].pc = "idle" \/ handler'[r]["start"] = handler[r]["start"]
      BY <1>2 DEF Moved, Kind
    <3> QED BY <1>0, <3>1, <3>2 DEF Inv, OnceAt
  <2>6. \A q \in Runs : q # r => Untouched(q)
    BY <1>0, <1>2, <2>1, Others DEF Untouched
  <2> QED BY <2>2, <2>3, <2>4, <2>5, <2>6, OneRun
<1>6. UNCHANGED item \/ \E status \in {"done", "failed"} : item' = [item EXCEPT ![r][k] = status]
  BY DEF Reply
<1> QED BY <1>4, <1>5, <1>6

(* The control plane opens a run's items in their order.                    *)
LEMMA IssueInv == ASSUME Inv, NEW r \in Runs, NEW k \in Kind, Issue(r, k) PROVE Inv'
<1>0. /\ TypeOK /\ UNCHANGED <<handler, receipt, box, starts, ended, faults>>
      /\ item' = [item EXCEPT ![r][k] = "open"] /\ k # "start"
      /\ item[r]["start"] # "open"
      /\ k \in {"inspect", "stop"} => item[r]["cleanup"] = "none"
      /\ k = "cleanup" => item[r]["inspect"] # "open" /\ item[r]["stop"] # "open"
  BY Counted DEF Issue, Kind
<1>1. /\ item' \in [Runs -> [Kind -> {"none", "open", "done", "failed"}]]
      /\ item'[r][k] = "open"
      /\ \A l \in Kind : l # k => item'[r][l] = item[r][l]
      /\ \A q \in Runs : q # r => item'[q] = item[q]
  BY <1>0 DEF TypeOK
<1>2. /\ overlapped' = overlapped \/ overlapped' = overlapped \cup {r}
      /\ \A l \in {"inspect", "stop"} \ {k} : item[r][l] = "open" => r \in overlapped'
      /\ overlapped' \in SUBSET Runs /\ (r \in overlapped => r \in overlapped')
  BY <1>0 DEF Issue, TypeOK
<1>3. TypeOK'
  BY <1>0, <1>1, <1>2 DEF TypeOK
<1>4. item'[r]["start"] # "open"
  BY <1>0, <1>1 DEF Kind
<1>5. AloneAt(r)'
  <2>1. \A l \in Kind : handler'[r][l].pc # "idle" => item'[r][l] = "open"
    BY <1>0, <1>1 DEF Inv, AloneAt
  <2>2. ASSUME r \notin overlapped', NEW l \in Kind, l # k PROVE item'[r][l] # "open"
    BY <1>0, <1>1, <1>2, <2>2 DEF Kind
  <2> QED BY <1>4, <2>1, <2>2 DEF AloneAt
<1>6. KnowsAt(r)' /\ OnceAt(r)'
  BY <1>0, <1>2, <1>4 DEF Inv, KnowsAt, Knows, OnceAt
<1>7. \A q \in Runs : q # r => Untouched(q)
  BY <1>0, <1>1, <1>2 DEF Untouched
<1> QED BY <1>3, <1>5, <1>6, <1>7, OneRun

(* Every handler dies with the agent; receipts and containers stay.          *)
LEMMA AgentCrashInv == ASSUME Inv, AgentCrash PROVE Inv'
<1>0. /\ TypeOK /\ UNCHANGED <<item, receipt, box, starts, ended, overlapped>>
      /\ faults' \in 0 .. MaxFaults
      /\ handler' = [r \in Runs |-> [k \in Kind |-> NoHandler]]
  BY Counted DEF AgentCrash, Fault
<1>1. NoHandler \in Handler /\ NoHandler.pc = "idle"
  BY DEF NoHandler, Handler, Receipt, Container, Absent
<1>2. TypeOK'
  BY <1>0, <1>1 DEF TypeOK
<1>3. ASSUME NEW r \in Runs PROVE AloneAt(r)' /\ KnowsAt(r)' /\ OnceAt(r)'
  <2>1. \A k \in Kind : handler'[r][k].pc = "idle"
    BY <1>0, <1>1
  <2>2. AloneAt(r)' /\ KnowsAt(r)'
    BY <1>0, <2>1 DEF Inv, AloneAt, KnowsAt, Knows
  <2>3. OnceAt(r)'
    BY <1>0, <2>1 DEF Inv, OnceAt, Kind
  <2> QED BY <2>2, <2>3
<1> QED BY <1>2, <1>3 DEF Inv

----------------------------------------------------------------------------
(* All steps.                                                               *)

(* The steps of a start that lead up to its command.                         *)
LEMMA BeginsInv == ASSUME Inv, NEW r \in Runs, Begins(r) PROVE Inv'
  BY CheckHostInv, CreateContainerInv, RecordCreatedInv, LaunchInv, MarkRunningInv DEF Begins

(* The steps any of the four handlers takes.                                 *)
LEMMA WorkInv == ASSUME Inv, NEW r \in Runs, NEW k \in Kind, Work(r, k) PROVE Inv'
  BY LeaseInv, ReadReceiptInv, ProbeInv, AdoptInv, LookInv, SettleReceiptInv, ReplyInv,
     BeginsInv, HaltInv, RemoveContainerInv, ForgetReceiptInv DEF Work

(* Every step of handlers, Docker and control plane keeps the invariant.     *)
LEMMA NextInv == ASSUME Inv, [Next]_vars PROVE Inv'
<1>1. CASE \E r \in Runs : \E k \in Kind : Work(r, k) \/ StepThrows(r, k) \/ Issue(r, k)
  BY <1>1, WorkInv, StepThrowsInv, IssueInv
<1>2. CASE \E r \in Runs : Exits(r) \/ Vanishes(r)
  BY <1>2, ExitsInv, VanishesInv
<1>3. CASE AgentCrash
  BY <1>3, AgentCrashInv
<1>4. CASE UNCHANGED vars
  <2>1. TypeOK'
    BY <1>4, Counted DEF TypeOK, vars
  <2>2. \A q \in Runs : Untouched(q)
    BY <1>4 DEF vars, Untouched
  <2> QED BY <2>1, <2>2, Elsewhere DEF Inv
<1> QED BY <1>1, <1>2, <1>3, <1>4 DEF Next

(* No run has been asked for.                                                *)
LEMMA InitInv == ASSUME Init PROVE Inv
<1>1. NoHandler \in Handler /\ NoHandler.pc = "idle" /\ Absent \in Container /\ Absent.state = "absent"
  BY DEF NoHandler, Handler, Receipt, Container, Absent
<1>2. TypeOK
  BY <1>1 DEF Init, TypeOK, Receipt
<1>3. ASSUME NEW r \in Runs PROVE AloneAt(r) /\ KnowsAt(r) /\ OnceAt(r)
  <2>1. \A k \in Kind : /\ handler[r][k].pc = "idle"
                        /\ item[r][k] = "open" => k = "start"
    BY <1>1 DEF Init
  <2>2. /\ receipt[r] = "none" /\ starts[r] = 0 /\ box[r].state = "absent" /\ r \notin overlapped
        /\ "start" \in Kind
    BY <1>1 DEF Init, Kind
  <2>3. AloneAt(r) /\ KnowsAt(r)
    BY <2>1, <2>2 DEF AloneAt, KnowsAt, Knows
  <2>4. OnceAt(r)
    BY <2>1, <2>2 DEF OnceAt
  <2> QED BY <2>3, <2>4
<1> QED BY <1>2, <1>3 DEF Inv

(* What the handlers know of a run, its receipt and its container agree at every *)
(* moment (startWorkerJob to cleanupWorkerJob).                              *)
THEOREM Inductive == Spec => []Inv
  BY InitInv, NextInv, PTL DEF Spec

(* However often a start is leased again, a crash or a lost report comes    *)
(* between two steps, or Docker fails: the command of a run is started once *)
(* (startWorkerJob).                                                        *)
THEOREM StartsOnce == Spec => []CommandStartsOnce
<1>1. Inv => CommandStartsOnce
  BY DEF Inv, OnceAt, CommandStartsOnce
<1> QED BY <1>1, Inductive, PTL

(* Who writes a receipt of a run that is not overlapped has found no        *)
(* verdict in it, or removes it.                                            *)
LEMMA VerdictStep ==
    ASSUME Inv, NEW q \in Runs, NEW k \in Kind, Work(q, k),
           NEW r \in Runs \ overlapped, receipt[r] \in Terminal
    PROVE  receipt'[r] \in {receipt[r], "none"}
<1>0. receipt \in [Runs -> Receipt] /\ {"start", "stop", "cleanup"} \subseteq Kind
  BY Counted DEF TypeOK, Kind
<1>1. ASSUME NEW status, receipt' = [receipt EXCEPT ![q] = status],
             handler[q][k].pc \in {"adopt", "record", "settle"} \/ (At(q, "start", "mark") /\ k = "start")
      PROVE  receipt'[r] = receipt[r]
  <2>1. CASE q # r
    BY <1>0, <1>1, <2>1
  <2>2. CASE q = r
    <3>1. Knows(r, k, handler[r][k].pc)
      BY <1>1, <2>2, OnlyOne DEF At
    <3> QED BY <1>1, <2>2, <3>1 DEF Knows, Terminal, At
  <2> QED BY <2>1, <2>2
<1>2. CASE Adopt(q, k)
  BY <1>1, <1>2 DEF Adopt, At
<1>3. CASE SettleReceipt(q, k)
  BY <1>1, <1>3 DEF SettleReceipt, At
<1>4. CASE k = "start" /\ Begins(q)
  <2>1. CASE RecordCreated(q)
    BY <1>1, <1>4, <2>1 DEF RecordCreated, At
  <2>2. CASE MarkRunning(q)
    BY <1>1, <1>4, <2>2 DEF MarkRunning, At
  <2>3. CASE CheckHost(q) \/ CreateContainer(q) \/ Launch(q)
    BY <2>3 DEF CheckHost, CreateContainer, Launch
  <2> QED BY <1>4, <2>1, <2>2, <2>3 DEF Begins
<1>5. CASE ForgetReceipt(q)
  BY <1>0, <1>5 DEF ForgetReceipt
<1>6. CASE Lease(q, k) \/ ReadReceipt(q, k) \/ Probe(q, k) \/ Look(q, k) \/ Reply(q, k)
  BY <1>6 DEF Lease, ReadReceipt, Probe, Look, Reply
<1>7. CASE Halt(q) \/ RemoveContainer(q)
  BY <1>7 DEF Halt, RemoveContainer
<1> QED BY <1>2, <1>3, <1>4, <1>5, <1>6, <1>7 DEF Work

(* A verdict in a receipt is rewritten by no handler, unless an inspection  *)
(* and a stop of the run overlapped.                                        *)
THEOREM VerdictKept == Spec => VerdictStands
<1>1. ASSUME Inv, [Next]_vars, NEW r \in Runs \ overlapped, receipt[r] \in Terminal
      PROVE  receipt'[r] \in {receipt[r], "none"}
  <2>1. CASE \E q \in Runs : \E k \in Kind : Work(q, k)
    BY <1>1, <2>1, VerdictStep
  <2>2. CASE \/ \E q \in Runs : \E k \in Kind : StepThrows(q, k) \/ Issue(q, k)
             \/ \E q \in Runs : Exits(q) \/ Vanishes(q)
             \/ AgentCrash \/ UNCHANGED vars
    BY <2>2 DEF StepThrows, Issue, Exits, Vanishes, AgentCrash, vars
  <2> QED BY <1>1, <2>1, <2>2 DEF Next
<1>2. Inv /\ [Next]_vars
      => [\A r \in Runs \ overlapped :
            receipt[r] \in Terminal => receipt'[r] \in {receipt[r], "none"}]_vars
  BY <1>1
<1> QED BY <1>2, Inductive, PTL DEF Spec, VerdictStands

----------------------------------------------------------------------------
(* What a receipt records is what the command did.                          *)

(* An exit code of zero is the command's.                                   *)
Proves(r, c) == c.state = "exited" /\ c.ok => ended[r] = "zero"

(* Receipt, container and command of a run.  A container that was created   *)
(* and not started has a start that is not done, so that nobody but the     *)
(* start judges it.                                                         *)
Recorded(r) ==
    /\ receipt[r] = "succeeded" => ended[r] = "zero"
    /\ box[r].state \in {"created", "running"} => ended[r] = "no"
    /\ starts[r] = 0 => ended[r] = "no" /\ box[r].state \in {"absent", "created"}
    /\ Proves(r, box[r])
    /\ box[r].state = "created" => /\ receipt[r] \in {"none", "created"}
                                   /\ item[r]["start"] # "done"
    /\ \A k \in {"inspect", "stop"} : item[r][k] # "none" => item[r]["start"] = "done"

(* What the handler h of r's item of kind k judges by.                      *)
Judges(r, k, h) ==
    /\ h.pc = "adopt" => /\ h.seen.state # "absent" /\ Proves(r, h.seen)
                         /\ h.seen.state # "created" => box[r].state # "created"
    /\ h.pc = "settle" => /\ k # "cleanup"
                          /\ k # "stop" => /\ h.seen.state \in {"absent", "exited"}
                                           /\ Proves(r, h.seen)
    /\ k = "start" /\ h.pc \in {"mark", "settle", "reply"} => box[r].state # "created"
    /\ k = "start" /\ h.pc = "look" /\ box[r].state = "created" => h.read = "created"

Real == \A r \in Runs : Recorded(r) /\ \A k \in Kind : Judges(r, k, handler[r][k])

(* The handler of r's item of kind k becomes h, and no other moves.         *)
Steps(r, k, h) ==
    /\ handler'[r][k] = h
    /\ \A q \in Runs, l \in Kind : q # r \/ l # k => handler'[q][l] = handler[q][l]

(* It goes on to pc with a receipt it has read, or written.                 *)
Reads(r, k, read, pc) == handler' = [handler EXCEPT ![r][k].read = read, ![r][k].pc = pc]

----------------------------------------------------------------------------
(* What the steps have in common.                                           *)

(* A handler that is replaced is the only one to move.                      *)
LEMMA Put ==
    ASSUME TypeOK, NEW r \in Runs, NEW k \in Kind, NEW h,
           handler' = [handler EXCEPT ![r][k] = h]
    PROVE  Steps(r, k, h)
<1>1. handler \in [Runs -> [Kind -> Handler]]
  BY DEF TypeOK
<1>2. handler'[r] = [handler[r] EXCEPT ![k] = h]
  BY <1>1
<1> QED BY <1>1, <1>2 DEF Steps

(* Goto keeps what the handler has read and seen.                           *)
LEMMA GotoSteps ==
    ASSUME TypeOK, NEW r \in Runs, NEW k \in Kind, NEW pc, Goto(r, k, pc)
    PROVE  \E h : /\ Steps(r, k, h) /\ h.pc = pc
                  /\ h.read = handler[r][k].read /\ h.seen = handler[r][k].seen
<1> DEFINE h == [handler[r][k] EXCEPT !.pc = pc]
<1>1. h.pc = pc /\ h.read = handler[r][k].read /\ h.seen = handler[r][k].seen
  BY Typed DEF Handler
<1>2. handler' = [handler EXCEPT ![r][k] = h]
  BY DEF Goto
<1> HIDE DEF h
<1> QED BY <1>1, <1>2, Put

(* Saw keeps what Docker answered.                                          *)
LEMMA SawSteps ==
    ASSUME TypeOK, NEW r \in Runs, NEW k \in Kind, NEW pc, Saw(r, k, pc)
    PROVE  \E h : /\ Steps(r, k, h) /\ h.pc = pc
                  /\ h.read = handler[r][k].read /\ h.seen = box[r]
<1> DEFINE h == [handler[r][k] EXCEPT !.pc = pc, !.seen = box[r]]
<1>1. h.pc = pc /\ h.read = handler[r][k].read /\ h.seen = box[r]
  BY Typed DEF Handler
<1>2. handler' = [handler EXCEPT ![r][k] = h]
  BY DEF Saw
<1> HIDE DEF h
<1> QED BY <1>1, <1>2, Put

(* Reading a receipt keeps what was read.                                   *)
LEMMA ReadSteps ==
    ASSUME TypeOK, NEW r \in Runs, NEW k \in Kind, NEW pc, NEW read, Reads(r, k, read, pc)
    PROVE  \E h : /\ Steps(r, k, h) /\ h.pc = pc
                  /\ h.read = read /\ h.seen = handler[r][k].seen
<1> DEFINE h == [handler[r][k] EXCEPT !.read = read, !.pc = pc]
<1>1. h.pc = pc /\ h.read = read /\ h.seen = handler[r][k].seen
  BY Typed DEF Handler
<1>2. handler' = [handler EXCEPT ![r][k] = h]
  BY DEF TypeOK, Reads
<1> HIDE DEF h
<1> QED BY <1>1, <1>2, Put

(* A handler's grounds outlive the end of the command, for none was a       *)
(* success before the command had ended.                                    *)
LEMMA GroundsKept ==
    ASSUME NEW r \in Runs, NEW k \in Kind, NEW h, Judges(r, k, h),
           box'[r].state = "created" => box[r].state = "created",
           ended'[r] = ended[r] \/ ended[r] = "no"
    PROVE  Judges(r, k, h)'
  BY DEF Judges, Proves

(* A step of one run by one handler.  Only a start creates a container, and *)
(* then no other handler of the run is at work.                             *)
LEMMA StepReal ==
    ASSUME Inv, Real, NEW r \in Runs, NEW k \in Kind, NEW h, Steps(r, k, h),
           \A q \in Runs : q # r =>
             UNCHANGED <<item[q], receipt[q], box[q], starts[q], ended[q]>>,
           \/ box'[r].state = "created" => box[r].state = "created"
           \/ k = "start" /\ handler[r][k].pc # "idle",
           ended'[r] = ended[r] \/ ended[r] = "no",
           Recorded(r)', Judges(r, k, h)'
    PROVE  Real'
<1>1. ASSUME NEW q \in Runs, q # r PROVE Recorded(q)'
  BY <1>1 DEF Real, Recorded, Proves
<1>2. ASSUME NEW q \in Runs, q # r, NEW l \in Kind PROVE Judges(q, l, handler[q][l])'
  <2>1. handler'[q][l] = handler[q][l] /\ Judges(q, l, handler[q][l])
    BY <1>2 DEF Steps, Real
  <2>2. box'[q] = box[q] /\ ended'[q] = ended[q]
    BY <1>2
  <2> QED BY <2>1, <2>2 DEF Judges, Proves
<1>3. ASSUME NEW l \in Kind, l # k PROVE Judges(r, l, handler[r][l])'
  <2>1. handler'[r][l] = handler[r][l] /\ Judges(r, l, handler[r][l])
    BY <1>3 DEF Steps, Real
  <2>2. CASE box'[r].state = "created" => box[r].state = "created"
    BY <2>1, <2>2 DEF Judges, Proves
  <2>3. CASE k = "start" /\ handler[r][k].pc # "idle"
    <3>1. handler'[r][l].pc = "idle" /\ l # "start"
      BY <1>3, <2>1, <2>3, OnlyOne
    <3> QED BY <3>1 DEF Judges
  <2> QED BY <2>2, <2>3
<1>4. Judges(r, k, handler[r][k])'
  BY DEF Steps, Judges
<1> QED BY <1>1, <1>2, <1>3, <1>4 DEF Real

(* A step that only moves a handler.                                        *)
LEMMA ThinkReal ==
    ASSUME Inv, Real, NEW r \in Runs, NEW k \in Kind, NEW h, Steps(r, k, h),
           UNCHANGED <<item, receipt, box, starts, ended>>, Judges(r, k, h)
    PROVE  Real'
<1>1. Recorded(r)'
  BY DEF Real, Recorded, Proves
<1>2. Judges(r, k, h)'
  BY DEF Judges, Proves
<1> QED BY <1>1, <1>2, StepReal

(* A handler that throws judges nothing.                                    *)
LEMMA ThrowsReal ==
    ASSUME Inv, Real, NEW r \in Runs, NEW k \in Kind, Throws(r, k),
           UNCHANGED <<item, receipt, box, starts, ended>>
    PROVE  Real'
<1>1. PICK h : Steps(r, k, h) /\ h.pc = "fail"
  BY GotoSteps, Counted DEF Throws
<1> QED BY <1>1, ThinkReal DEF Judges

----------------------------------------------------------------------------
(* Steps that decide.                                                       *)

(* A lease starts a handler that has seen nothing.                          *)
LEMMA LeaseReal == ASSUME Inv, Real, NEW r \in Runs, NEW k \in Kind, Lease(r, k) PROVE Real'
<1> DEFINE h == [NoHandler EXCEPT !.pc = "read"]
<1>1. h.pc = "read" /\ handler' = [handler EXCEPT ![r][k] = h]
  BY DEF Lease, NoHandler
<1> HIDE DEF h
<1>2. Steps(r, k, h)
  BY <1>1, Put, Counted
<1>3. Judges(r, k, h)
  BY <1>1 DEF Judges
<1> QED BY <1>2, <1>3, ThinkReal DEF Lease

(* A receipt that is terminal, or says running, has no created container.   *)
LEMMA ReadReceiptReal ==
    ASSUME Inv, Real, NEW r \in Runs, NEW k \in Kind, ReadReceipt(r, k) PROVE Real'
<1>0. TypeOK /\ UNCHANGED <<item, receipt, box, starts, ended>>
  BY Counted DEF ReadReceipt
<1>1. CASE receipt[r] = "none" /\ k \in {"inspect", "stop"}
  BY <1>0, <1>1, ThrowsReal DEF ReadReceipt
<1>2. CASE ~(receipt[r] = "none" /\ k \in {"inspect", "stop"})
  <2> DEFINE pc == IF receipt[r] = "none" THEN "probe"
                   ELSE IF receipt[r] \in Terminal /\ k # "cleanup" THEN "reply"
                   ELSE IF k = "stop" THEN "halt" ELSE "look"
  <2>1. Reads(r, k, receipt[r], pc)
    BY <1>2 DEF ReadReceipt, Reads
  <2>2. /\ pc \in {"probe", "reply", "halt", "look"}
        /\ pc = "look" => receipt[r] # "none"
        /\ pc = "reply" => receipt[r] \in Terminal
    OBVIOUS
  <2> HIDE DEF pc
  <2>3. PICK h : Steps(r, k, h) /\ h.pc = pc /\ h.read = receipt[r]
    BY <1>0, <2>1, ReadSteps
  <2>4. box[r].state = "created" => receipt[r] \in {"none", "created"}
    BY DEF Real, Recorded
  <2>5. Judges(r, k, h)
    BY <2>2, <2>3, <2>4 DEF Judges, Terminal
  <2> QED BY <1>0, <2>3, <2>5, ThinkReal
<1> QED BY <1>1, <1>2

(* A container that is found is what its exit code says.                    *)
LEMMA ProbeReal == ASSUME Inv, Real, NEW r \in Runs, NEW k \in Kind, Probe(r, k) PROVE Real'
<1> DEFINE pc == IF box[r].state # "absent" THEN "adopt"
                 ELSE IF k = "start" THEN "check" ELSE "reply"
<1>1. PICK h : Steps(r, k, h) /\ h.pc = pc /\ h.seen = box[r]
  BY SawSteps, Counted DEF Probe
<1>2. Proves(r, box[r])
  BY DEF Real, Recorded
<1>3. Judges(r, k, h)
  BY <1>1, <1>2 DEF Judges
<1> QED BY <1>1, <1>3, ThinkReal DEF Probe

(* Whoever settles on a container has seen it ended, or gone.               *)
LEMMA LookReal == ASSUME Inv, Real, NEW r \in Runs, NEW k \in Kind, Look(r, k) PROVE Real'
<1>0. handler[r][k].pc = "look" /\ UNCHANGED <<item, receipt, box, starts, ended>> /\ TypeOK
  BY Counted DEF Look, At
<1>1. CASE k = "cleanup" /\ box[r].state = "running"
  BY <1>0, <1>1, ThrowsReal DEF Look
<1>2. CASE ~(k = "cleanup" /\ box[r].state = "running")
  <2> DEFINE pc == CASE k = "cleanup" -> "remove"
                     [] k = "start" -> NextOfStart(handler[r][k].read, box[r])
                     [] k = "inspect" /\ box[r].state = "running" -> "reply"
                     [] OTHER -> "settle"
  <2>1. PICK h : Steps(r, k, h) /\ h.pc = pc /\ h.seen = box[r]
    BY <1>0, <1>2, SawSteps DEF Look
  <2>2. /\ k = "start" => pc = NextOfStart(handler[r][k].read, box[r])
        /\ k = "cleanup" => pc = "remove"
        /\ k = "inspect" => pc = IF box[r].state = "running" THEN "reply" ELSE "settle"
        /\ k = "stop" => pc = "settle"
    OBVIOUS
  <2> HIDE DEF pc
  <2>3. Judges(r, k, handler[r][k]) /\ Recorded(r) /\ box[r] \in Container
    BY <1>0, Typed DEF Real
  <2>4. CASE k = "start"
    <3>1. /\ pc \in {"reply", "launch", "settle"}
          /\ pc = "reply" => box[r].state = "running"
          /\ pc = "settle" => box[r].state \in {"absent", "exited"}
      BY <1>0, <2>2, <2>3, <2>4 DEF NextOfStart, Judges, Container
    <3>2. Judges(r, k, h)
      BY <2>1, <2>3, <2>4, <3>1 DEF Judges, Recorded
    <3> QED BY <1>0, <2>1, <3>2, ThinkReal
  <2>5. CASE k = "inspect"
    <3>1. box[r].state # "created"
      <4>1. item[r]["inspect"] = "open"
        BY <1>0, <2>5, OnlyOne
      <4> QED BY <2>3, <4>1 DEF Recorded
    <3>2. Judges(r, k, h)
      BY <2>1, <2>2, <2>3, <2>5, <3>1 DEF Judges, Recorded, Container
    <3> QED BY <1>0, <2>1, <3>2, ThinkReal
  <2>6. CASE k \in {"stop", "cleanup"}
    <3>1. Judges(r, k, h)
      BY <2>1, <2>2, <2>6 DEF Judges
    <3> QED BY <1>0, <2>1, <3>1, ThinkReal
  <2> QED BY <2>4, <2>5, <2>6 DEF Kind
<1> QED BY <1>1, <1>2

(* A start that goes on to create has judged nothing.                       *)
LEMMA CheckHostReal == ASSUME Inv, Real, NEW r \in Runs, CheckHost(r) PROVE Real'
<1>0. "start" \in Kind /\ UNCHANGED <<item, receipt, box, starts, ended>>
  BY DEF CheckHost, Kind
<1>1. CASE Throws(r, "start")
  BY <1>0, <1>1, ThrowsReal
<1>2. CASE Goto(r, "start", "create")
  <2>1. PICK h : Steps(r, "start", h) /\ h.pc = "create"
    BY <1>0, <1>2, GotoSteps, Counted
  <2>2. Judges(r, "start", h)
    BY <2>1 DEF Judges
  <2> QED BY <1>0, <2>1, <2>2, ThinkReal
<1> QED BY <1>1, <1>2 DEF CheckHost

----------------------------------------------------------------------------
(* Steps that write a receipt or change the container.                      *)

(* A receipt is written of a run whose container and command stay.          *)
LEMMA WriteReal ==
    ASSUME Inv, Real, NEW r \in Runs, NEW k \in Kind, NEW h, NEW status \in Receipt,
           Steps(r, k, h), Judges(r, k, h),
           receipt' = [receipt EXCEPT ![r] = status],
           UNCHANGED <<item, box, starts, ended>>,
           status = "succeeded" => ended[r] = "zero",
           box[r].state = "created" => status \in {"none", "created"}
    PROVE  Real'
<1>0. receipt'[r] = status /\ \A q \in Runs : q # r => receipt'[q] = receipt[q]
  BY Counted DEF TypeOK
<1>1. Recorded(r)'
  BY <1>0 DEF Real, Recorded, Proves
<1>2. Judges(r, k, h)'
  BY DEF Judges, Proves
<1> QED BY <1>0, <1>1, <1>2, StepReal

(* An adopted container is recorded as it was seen.                         *)
LEMMA AdoptReal == ASSUME Inv, Real, NEW r \in Runs, NEW k \in Kind, Adopt(r, k) PROVE Real'
<1>1. PICK status \in Receipt : status = Recovered(handler[r][k].seen)
  BY DEF Recovered, Receipt, Terminal
<1> DEFINE pc == IF k = "start" /\ status \in Terminal THEN "reply" ELSE "look"
<1>2. /\ handler[r][k].pc = "adopt" /\ receipt' = [receipt EXCEPT ![r] = status]
      /\ Reads(r, k, status, pc)
      /\ UNCHANGED <<item, box, starts, ended>> /\ TypeOK
  BY <1>1, Counted DEF Adopt, At, Reads
<1>3. pc \in {"reply", "look"} /\ (pc = "reply" => status \in Terminal)
  OBVIOUS
<1> HIDE DEF pc
<1>4. PICK h : Steps(r, k, h) /\ h.pc = pc /\ h.read = status
  BY <1>2, ReadSteps
<1>5. /\ Proves(r, handler[r][k].seen) /\ handler[r][k].seen.state # "absent"
      /\ handler[r][k].seen.state # "created" => box[r].state # "created"
      /\ handler[r][k].seen \in Container
  BY <1>2, Typed DEF Real, Judges, Handler
<1>6. /\ status = "succeeded" => ended[r] = "zero"
      /\ box[r].state = "created" => status = "created"
  BY <1>1, <1>5 DEF Recovered, Proves, Container
<1>7. Judges(r, k, h)
  BY <1>3, <1>4, <1>6 DEF Judges, Terminal
<1> QED BY <1>2, <1>4, <1>6, <1>7, WriteReal

(* A created container is recorded as created.                              *)
LEMMA RecordCreatedReal == ASSUME Inv, Real, NEW r \in Runs, RecordCreated(r) PROVE Real'
<1>1. /\ receipt' = [receipt EXCEPT ![r] = "created"] /\ "start" \in Kind
      /\ UNCHANGED <<item, box, starts, ended>> /\ "created" \in Receipt
  BY DEF RecordCreated, Kind, Receipt
<1>2. PICK h : Steps(r, "start", h) /\ h.pc = "launch"
  BY <1>1, GotoSteps, Counted DEF RecordCreated
<1>3. Judges(r, "start", h)
  BY <1>2 DEF Judges
<1> QED BY <1>1, <1>2, <1>3, WriteReal

(* A container that is recorded as running was started.                     *)
LEMMA MarkRunningReal == ASSUME Inv, Real, NEW r \in Runs, MarkRunning(r) PROVE Real'
<1>1. /\ receipt' = [receipt EXCEPT ![r] = "running"] /\ "start" \in Kind
      /\ handler[r]["start"].pc = "mark"
      /\ UNCHANGED <<item, box, starts, ended>> /\ "running" \in Receipt
  BY DEF MarkRunning, Kind, Receipt, At
<1>2. PICK h : Steps(r, "start", h) /\ h.pc = "reply"
  BY <1>1, GotoSteps, Counted DEF MarkRunning
<1>3. box[r].state # "created"
  BY <1>1 DEF Real, Judges
<1>4. Judges(r, "start", h)
  BY <1>2, <1>3 DEF Judges
<1> QED BY <1>1, <1>2, <1>3, <1>4, WriteReal

(* A terminal receipt is written of a container that was seen ended or      *)
(* gone, by a stop as cancelled.                                            *)
LEMMA SettleReceiptReal ==
    ASSUME Inv, Real, NEW r \in Runs, NEW k \in Kind, SettleReceipt(r, k) PROVE Real'
<1> DEFINE status == IF k = "stop" THEN "cancelled" ELSE TerminalOf(handler[r][k].seen)
<1>1. /\ handler[r][k].pc = "settle" /\ receipt' = [receipt EXCEPT ![r] = status]
      /\ UNCHANGED <<item, box, starts, ended>>
  BY DEF SettleReceipt, At
<1>2. Judges(r, k, handler[r][k]) /\ Recorded(r)
  BY DEF Real
<1>3. /\ status \in Receipt
      /\ status = "succeeded" => ended[r] = "zero"
  BY <1>1, <1>2 DEF Judges, Proves, TerminalOf, Receipt, Terminal
<1>4. box[r].state # "created"
  <2>1. CASE k = "start"
    BY <1>1, <1>2, <2>1 DEF Judges
  <2>2. CASE k # "start"
    <3>1. k \in {"inspect", "stop"} /\ item[r][k] = "open"
      BY <1>1, <1>2, <2>2, OnlyOne DEF Judges, Kind
    <3> QED BY <1>2, <3>1 DEF Recorded
  <2> QED BY <2>1, <2>2
<1> HIDE DEF status
<1>5. PICK h : Steps(r, k, h) /\ h.pc = "reply"
  BY GotoSteps, Counted DEF SettleReceipt
<1>6. Judges(r, k, h)
  BY <1>4, <1>5 DEF Judges
<1> QED BY <1>1, <1>3, <1>4, <1>5, <1>6, WriteReal

(* A receipt that is gone says nothing.                                     *)
LEMMA ForgetReceiptReal == ASSUME Inv, Real, NEW r \in Runs, ForgetReceipt(r) PROVE Real'
<1>1. /\ receipt' = [receipt EXCEPT ![r] = "none"] /\ "cleanup" \in Kind
      /\ UNCHANGED <<item, box, starts, ended>> /\ "none" \in Receipt
  BY DEF ForgetReceipt, Kind, Receipt
<1>2. PICK h : Steps(r, "cleanup", h) /\ h.pc = "reply"
  BY <1>1, GotoSteps, Counted DEF ForgetReceipt
<1>3. Judges(r, "cleanup", h)
  BY <1>2 DEF Judges
<1> QED BY <1>1, <1>2, <1>3, WriteReal

(* A container is created for a run without a receipt, whose command was    *)
(* never started.                                                           *)
LEMMA CreateContainerReal == ASSUME Inv, Real, NEW r \in Runs, CreateContainer(r) PROVE Real'
<1>0. /\ handler[r]["start"].pc = "create" /\ "start" \in Kind /\ TypeOK
      /\ UNCHANGED <<item, receipt, starts, ended>>
  BY Counted DEF CreateContainer, At, Kind
<1>1. CASE box[r].state = "absent"
  <2>1. /\ box' = [box EXCEPT ![r] = [state |-> "created", ok |-> TRUE]]
        /\ Goto(r, "start", "record")
    BY <1>1 DEF CreateContainer
  <2>2. PICK h : Steps(r, "start", h) /\ h.pc = "record"
    BY <1>0, <2>1, GotoSteps
  <2>3. box'[r].state = "created" /\ \A q \in Runs : q # r => box'[q] = box[q]
    BY <1>0, <2>1 DEF TypeOK
  <2>4. receipt[r] = "none" /\ item[r]["start"] = "open"
    BY <1>0, OnlyOne DEF Knows
  <2>5. ended[r] = "no"
    BY <2>4 DEF Inv, OnceAt, Real, Recorded
  <2>6. Recorded(r)'
    BY <1>0, <2>3, <2>4, <2>5 DEF Real, Recorded, Proves
  <2>7. Judges(r, "start", h)'
    BY <2>2 DEF Judges
  <2> QED BY <1>0, <2>2, <2>3, <2>6, <2>7, StepReal
<1>2. CASE box[r].state # "absent"
  BY <1>0, <1>2, ThrowsReal DEF CreateContainer
<1> QED BY <1>1, <1>2

(* A container that is started has no end of its command yet.               *)
LEMMA LaunchReal == ASSUME Inv, Real, NEW r \in Runs, Launch(r) PROVE Real'
<1>0. /\ handler[r]["start"].pc = "launch" /\ "start" \in Kind
      /\ UNCHANGED <<item, receipt, ended>>
      /\ box[r].state \in {"absent", "created"} /\ TypeOK
  BY Counted DEF Launch, At, Kind, Inv, OnceAt
<1>1. receipt[r] # "none" /\ receipt[r] \notin Terminal /\ item[r]["start"] = "open"
  BY <1>0, OnlyOne DEF Knows
<1>2. CASE box[r].state = "absent"
  BY <1>0, <1>2, ThrowsReal DEF Launch
<1>3. CASE box[r].state = "created"
  <2>1. PICK pc \in {"mark", "fail"} :
          /\ Goto(r, "start", pc)
          /\ \/ /\ box' = [box EXCEPT ![r] = [state |-> "running", ok |-> TRUE]]
                /\ starts' = [starts EXCEPT ![r] = @ + 1]
             \/ pc = "fail" /\ box' = [box EXCEPT ![r].ok = FALSE] /\ UNCHANGED starts
    BY <1>0, <1>3 DEF Launch, Throws
  <2>2. PICK h : Steps(r, "start", h) /\ h.pc = pc
    BY <1>0, <2>1, GotoSteps
  <2>3. /\ \A q \in Runs : q # r => box'[q] = box[q] /\ starts'[q] = starts[q]
        /\ \/ box'[r].state = "running" /\ starts'[r] # 0
           \/ pc = "fail" /\ box'[r].state = "created" /\ starts'[r] = starts[r]
    <3>1. /\ box \in [Runs -> Container] /\ starts \in [Runs -> Nat]
          /\ box[r] \in [state: {"absent", "created", "running", "exited"}, ok: BOOLEAN]
      BY <1>0 DEF TypeOK, Container
    <3>2. CASE /\ box' = [box EXCEPT ![r] = [state |-> "running", ok |-> TRUE]]
               /\ starts' = [starts EXCEPT ![r] = @ + 1]
      <4>1. starts[r] + 1 # 0 /\ starts'[r] = starts[r] + 1
        BY <3>1, <3>2
      <4> QED BY <3>1, <3>2, <4>1
    <3>3. CASE pc = "fail" /\ box' = [box EXCEPT ![r].ok = FALSE] /\ UNCHANGED starts
      <4>1. box'[r] = [box[r] EXCEPT !.ok = FALSE]
        BY <3>1, <3>3
      <4>2. box'[r].state = "created"
        BY <1>3, <3>1, <4>1
      <4> QED BY <3>1, <3>3, <4>2
    <3> QED BY <2>1, <3>2, <3>3
  <2>4. ended[r] = "no"
    BY <1>3 DEF Real, Recorded
  <2>5. Recorded(r)'
    BY <1>0, <1>1, <1>3, <2>3, <2>4 DEF Real, Recorded, Proves, Terminal
  <2>6. Judges(r, "start", h)'
    BY <2>1, <2>2, <2>3 DEF Judges
  <2> QED BY <1>0, <1>3, <2>2, <2>3, <2>5, <2>6, StepReal
<1> QED BY <1>0, <1>2, <1>3

(* The command ends: nothing was judged a success before.                   *)
LEMMA EndReal ==
    ASSUME Inv, Real, NEW r \in Runs, NEW k \in Kind, NEW h, NEW ok \in BOOLEAN,
           box[r].state = "running", Steps(r, k, h), Judges(r, k, h),
           box' = [box EXCEPT ![r] = [state |-> "exited", ok |-> ok]],
           ended' = [ended EXCEPT ![r] = IF ok THEN "zero" ELSE "nonzero"],
           UNCHANGED <<item, receipt, starts>>
    PROVE  Real'
<1>1. /\ box'[r].state = "exited" /\ box'[r].ok = ok
      /\ ended'[r] = IF ok THEN "zero" ELSE "nonzero"
      /\ \A q \in Runs : q # r => box'[q] = box[q] /\ ended'[q] = ended[q]
  BY Counted DEF TypeOK
<1>2. ended[r] = "no" /\ Recorded(r)
  BY DEF Real, Recorded
<1>3. starts[r] # 0
  BY <1>2 DEF Recorded
<1>4. Recorded(r)'
  BY <1>1, <1>2, <1>3 DEF Recorded, Proves
<1>5. Judges(r, k, h)'
  BY <1>1, <1>2, GroundsKept
<1> QED BY <1>1, <1>2, <1>4, <1>5, StepReal

(* A stop ends the command, or finds it ended.                              *)
LEMMA HaltReal == ASSUME Inv, Real, NEW r \in Runs, Halt(r) PROVE Real'
<1>0. /\ "stop" \in Kind /\ TypeOK /\ UNCHANGED <<item, receipt, starts>>
  BY Counted DEF Halt, Kind
<1>1. PICK h : Steps(r, "stop", h) /\ h.pc = "settle"
  BY <1>0, GotoSteps DEF Halt
<1>2. Judges(r, "stop", h)
  BY <1>1 DEF Judges
<1>3. CASE box[r].state = "running"
  <2>1. PICK ok \in BOOLEAN :
          /\ box' = [box EXCEPT ![r] = [state |-> "exited", ok |-> ok]]
          /\ ended' = [ended EXCEPT ![r] = IF ok THEN "zero" ELSE "nonzero"]
    BY <1>3 DEF Halt
  <2> QED BY <1>0, <1>1, <1>2, <1>3, <2>1, EndReal
<1>4. CASE box[r].state # "running"
  <2>1. UNCHANGED <<box, ended>>
    BY <1>4 DEF Halt
  <2> QED BY <1>0, <1>1, <1>2, <2>1, ThinkReal
<1> QED BY <1>3, <1>4

(* A container is removed, and nothing else of the run changes.             *)
LEMMA GoneReal ==
    ASSUME Inv, Real, NEW r \in Runs, NEW k \in Kind, NEW h, Steps(r, k, h), Judges(r, k, h),
           box' = [box EXCEPT ![r] = Absent], UNCHANGED <<item, receipt, starts, ended>>
    PROVE  Real'
<1>1. box'[r].state = "absent" /\ \A q \in Runs : q # r => box'[q] = box[q]
  BY Counted DEF TypeOK, Absent
<1>2. Recorded(r)'
  BY <1>1 DEF Real, Recorded, Proves
<1>3. Judges(r, k, h)'
  BY <1>1, GroundsKept
<1> QED BY <1>1, <1>2, <1>3, StepReal

(* A cleanup removes the container.                                         *)
LEMMA RemoveContainerReal == ASSUME Inv, Real, NEW r \in Runs, RemoveContainer(r) PROVE Real'
<1>0. /\ "cleanup" \in Kind /\ TypeOK /\ box' = [box EXCEPT ![r] = Absent]
      /\ UNCHANGED <<item, receipt, starts, ended>>
  BY Counted DEF RemoveContainer, Kind
<1>1. PICK h : Steps(r, "cleanup", h) /\ h.pc = "forget"
  BY <1>0, GotoSteps DEF RemoveContainer
<1>2. Judges(r, "cleanup", h)
  BY <1>1 DEF Judges
<1> QED BY <1>0, <1>1, <1>2, GoneReal

(* What Docker does by itself moves no handler.                             *)
LEMMA DockerReal == ASSUME Inv, Real, NEW r \in Runs, Exits(r) \/ Vanishes(r) PROVE Real'
<1> DEFINE h == handler[r]["start"]
<1>1. /\ "start" \in Kind /\ UNCHANGED <<item, receipt, starts>>
      /\ Steps(r, "start", h) /\ Judges(r, "start", h)
  BY DEF Exits, Vanishes, Kind, Steps, Real
<1> HIDE DEF h
<1>2. CASE Exits(r)
  <2>1. /\ box[r].state = "running"
        /\ \E ok \in BOOLEAN :
             /\ box' = [box EXCEPT ![r] = [state |-> "exited", ok |-> ok]]
             /\ ended' = [ended EXCEPT ![r] = IF ok THEN "zero" ELSE "nonzero"]
    BY <1>2 DEF Exits
  <2> QED BY <1>1, <2>1, EndReal
<1>3. CASE Vanishes(r)
  <2>1. box' = [box EXCEPT ![r] = Absent] /\ UNCHANGED ended
    BY <1>3 DEF Vanishes
  <2> QED BY <1>1, <2>1, GoneReal
<1> QED BY <1>2, <1>3

----------------------------------------------------------------------------
(* Items.                                                                   *)

(* A start that is done has no created container.                           *)
LEMMA ReplyReal == ASSUME Inv, Real, NEW r \in Runs, NEW k \in Kind, Reply(r, k) PROVE Real'
<1>0. /\ handler[r][k].pc \in {"reply", "fail"} /\ handler' = [handler EXCEPT ![r][k] = NoHandler]
      /\ UNCHANGED <<receipt, box, starts, ended>> /\ TypeOK
  BY Counted DEF Reply
<1>1. Steps(r, k, NoHandler)
  BY <1>0, Put
<1>2. Judges(r, k, NoHandler) /\ Judges(r, k, NoHandler)'
  BY DEF Judges, NoHandler
<1>3. CASE UNCHANGED item
  BY <1>0, <1>1, <1>2, <1>3, ThinkReal
<1>4. CASE item' = [item EXCEPT ![r][k] = IF At(r, k, "reply") THEN "done" ELSE "failed"]
  <2>1. /\ \A l \in Kind : l # k => item'[r][l] = item[r][l]
        /\ \A q \in Runs : q # r => item'[q] = item[q]
        /\ item'[r][k] = IF At(r, k, "reply") THEN "done" ELSE "failed"
    BY <1>0, <1>4 DEF TypeOK
  <2>2. Recorded(r) /\ Judges(r, k, handler[r][k]) /\ item[r][k] = "open"
    BY <1>0, OnlyOne DEF Real
  <2>3. {"start", "inspect", "stop"} \subseteq Kind
    BY DEF Kind
  <2>4. box[r].state = "created" => item'[r]["start"] # "done"
    BY <1>0, <2>1, <2>2, <2>3 DEF Recorded, Judges, At
  <2>5. \A l \in {"inspect", "stop"} : item'[r][l] # "none" => item'[r]["start"] = "done"
    <3>1. CASE k = "start"
      <4>1. \A l \in {"inspect", "stop"} : item[r][l] = "none" /\ item'[r][l] = item[r][l]
        BY <2>1, <2>2, <2>3, <3>1 DEF Recorded
      <4> QED BY <4>1
    <3>2. CASE k # "start"
      <4>1. item'[r]["start"] = item[r]["start"]
        BY <2>1, <2>3, <3>2
      <4> QED BY <2>1, <2>2, <2>3, <4>1 DEF Recorded
    <3> QED BY <3>1, <3>2
  <2>6. Recorded(r)'
    BY <1>0, <2>2, <2>4, <2>5 DEF Recorded, Proves
  <2> QED BY <1>0, <1>1, <1>2, <2>1, <2>6, StepReal
<1> QED BY <1>3, <1>4 DEF Reply

(* An inspection or a stop is opened of a run whose start is done.          *)
LEMMA IssueReal == ASSUME Inv, Real, NEW r \in Runs, NEW k \in Kind, Issue(r, k) PROVE Real'
<1>0. /\ TypeOK /\ UNCHANGED <<handler, receipt, box, starts, ended>>
      /\ item' = [item EXCEPT ![r][k] = "open"] /\ k # "start"
      /\ k \in {"inspect", "stop"} => item[r]["start"] = "done"
  BY Counted DEF Issue, Kind
<1>1. /\ item'[r]["start"] = item[r]["start"]
      /\ \A l \in Kind : l # k => item'[r][l] = item[r][l]
      /\ \A q \in Runs : q # r => item'[q] = item[q]
  BY <1>0 DEF TypeOK, Kind
<1>2. \A l \in {"inspect", "stop"} : item'[r][l] # "none" => item'[r]["start"] = "done"
  BY <1>0, <1>1 DEF Real, Recorded, Kind
<1>3. Recorded(r)'
  BY <1>0, <1>1, <1>2 DEF Real, Recorded, Proves
<1>4. ASSUME NEW q \in Runs, q # r PROVE Recorded(q)'
  BY <1>0, <1>1, <1>4 DEF Real, Recorded, Proves
<1>5. ASSUME NEW q \in Runs, NEW l \in Kind PROVE Judges(q, l, handler[q][l])'
  BY <1>0 DEF Real, Judges, Proves
<1> QED BY <1>3, <1>4, <1>5 DEF Real

(* No handler outlives the agent.                                           *)
LEMMA AgentCrashReal == ASSUME Inv, Real, AgentCrash PROVE Real'
<1>1. ASSUME NEW r \in Runs PROVE Recorded(r)'
  BY DEF Real, Recorded, Proves, AgentCrash
<1>2. ASSUME NEW r \in Runs, NEW k \in Kind PROVE Judges(r, k, handler[r][k])'
  BY DEF AgentCrash, NoHandler, Judges
<1> QED BY <1>1, <1>2 DEF Real

----------------------------------------------------------------------------
(* All steps.                                                               *)

(* The steps of a start that lead up to its command.                        *)
LEMMA BeginsReal == ASSUME Inv, Real, NEW r \in Runs, Begins(r) PROVE Real'
  BY CheckHostReal, CreateContainerReal, RecordCreatedReal, LaunchReal, MarkRunningReal DEF Begins

(* The steps any of the four handlers takes, and its throws.                *)
LEMMA WorkReal ==
    ASSUME Inv, Real, NEW r \in Runs, NEW k \in Kind, Work(r, k) \/ StepThrows(r, k)
    PROVE  Real'
<1>1. CASE StepThrows(r, k)
  BY <1>1, ThrowsReal DEF StepThrows
<1> QED BY <1>1, LeaseReal, ReadReceiptReal, ProbeReal, AdoptReal, LookReal, SettleReceiptReal,
           ReplyReal, BeginsReal, HaltReal, RemoveContainerReal, ForgetReceiptReal DEF Work

(* Every step of handlers, Docker and control plane keeps it true.          *)
LEMMA NextReal == ASSUME Inv, Real, [Next]_vars PROVE Real'
<1>1. CASE UNCHANGED vars
  BY <1>1 DEF vars, Real, Recorded, Judges, Proves
<1> QED BY <1>1, WorkReal, IssueReal, DockerReal, AgentCrashReal DEF Next

(* No run has been asked for.                                               *)
LEMMA InitReal == ASSUME Init PROVE Real
<1>1. ASSUME NEW r \in Runs PROVE Recorded(r)
  BY DEF Init, Recorded, Proves, Absent, Kind
<1>2. ASSUME NEW r \in Runs, NEW k \in Kind PROVE Judges(r, k, handler[r][k])
  BY DEF Init, Judges, NoHandler
<1> QED BY <1>1, <1>2 DEF Real

(* A receipt says succeeded only of a command that ended with code zero,    *)
(* however leases, crashes, failed calls, removed containers and overlapped *)
(* inspections and stops interleave (toTerminalWorkerJobReceipt,            *)
(* recoverWorkerJobReceiptFromContainer).                                   *)
THEOREM SuccessReal == Spec => []SuccessIsReal
<1>1. Real => SuccessIsReal
  BY DEF Real, Recorded, SuccessIsReal
<1> QED BY <1>1, Inductive, InitReal, NextReal, PTL DEF Spec

===============================================================================
