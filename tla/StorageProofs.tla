----------------------------- MODULE StorageProofs -----------------------------
(***************************************************************************)
(* Proofs about Storage, for any volumes, engine, items, leases and faults: *)
(* a handler that reports a success has done what it reports, and a wipe    *)
(* that is leased again spares what came after it.                          *)
(***************************************************************************)
EXTENDS Storage, FiniteSetTheorems, SequenceTheorems, TLAPS

USE StorageAssumption

(* Where a step stands among the steps of any handler: what is awaited ends *)
(* before the next step.                                                    *)
Rank(step) ==
    CASE step = "await" -> 0 [] step = "look" -> 1 [] step = "clear" -> 2
      [] step = "erase" -> 3 [] step = "make" -> 4 [] step = "receipt" -> 5
      [] step \in {"restart", "dispose", "provision"} -> 6
      [] step = "ready" -> 7 [] step = "check" -> 8
      [] step = "unstage" -> 9 [] step = "stage" -> 10 [] step = "dump" -> 11
      [] step = "upload" -> 12 [] step = "fetch" -> 13 [] step = "verify" -> 14
      [] step = "load" -> 15 [] step = "finally" -> 16 [] step = "sweep" -> 17

(* What may come after a step; a restore and an import make their volume    *)
(* late.                                                                    *)
Follows(a, b) ==
    Rank(a) < Rank(b) \/ (b = "make" /\ a \in {"unstage", "stage", "fetch", "verify"})

(* The records of a handler at work, as TypeOK has them.                    *)
Handler == [on: BOOLEAN, todo: Seq(Steps), at: Names, failed: BOOLEAN]

(* The steps of a list, and a list in the order of the handlers.            *)
In(x, s) == \E i \in DOMAIN s : s[i] = x

Ordered(s) == \A i, j \in DOMAIN s : i < j => Follows(s[i], s[j])

(* The items that start a container, those that write a volume that is not  *)
(* attached, and those that use the stage volume.                           *)
Serving == {"provision", "apply"}
Writing == {"restore", "pitr", "import"}
Staging == (engine = "mysql" /\ item.kind \in {"backup", "restore"}) \/ item.kind = "import"

(* The steps of the item's handler, those taken and those left.             *)
Program ==
    CASE item.kind = "provision" -> {"provision", "ready"}
      [] item.kind = "apply" -> {"clear", "provision", "ready"}
      [] item.kind = "restart" -> {"restart", "ready"}
      [] item.kind = "remove" -> {"dispose"}
      [] item.kind = "delete" -> {"erase"}
      [] item.kind = "wipe" -> {"look", "erase", "make", "receipt", "check"}
              \cup (IF Target = attached THEN {"clear", "provision", "ready"} ELSE {})
      [] item.kind = "backup" -> {"await", "upload"}
              \cup (IF engine = "postgres" THEN {"fetch"} ELSE {})
              \cup (IF engine = "mysql" THEN {"unstage", "stage", "dump", "finally"} ELSE {})
      [] item.kind = "restore" -> {"await", "make", "load"}
              \cup (IF engine = "mysql" THEN {"unstage", "stage", "fetch", "finally"} ELSE {})
      [] item.kind = "pitr" -> {"await", "load"}
      [] item.kind = "import" -> {"await", "unstage", "stage", "fetch", "verify", "make", "load",
                                  "finally", "sweep"}
      [] OTHER -> {}

(* The item at work is the last issued.                                      *)
Itemised ==
    /\ item # NoItem => /\ item.id = issued /\ issued > 0 /\ item.kind # "none"
                        /\ Target \in Volumes
    /\ item.kind \in {"provision", "backup", "restart", "remove"} => Target = attached
    /\ item.kind \in Writing =>
         /\ Target # attached
         /\ item.from \in IF item.kind = "import" THEN {W} ELSE saved
    /\ item.kind = "import" => engine # "mysql"
    /\ item.gen # 0 => item.kind = "wipe" /\ item.gen = W
    /\ item.kind \in {"none", "wipe", "delete"} \/ item.emptied = Foreign

(* The handler is somewhere on its way: it has taken its steps in order,    *)
(* and what is left of them is what the rest of the handler needs.          *)
Course ==
    /\ ~h.on => h = Idle
    /\ h.on => item # NoItem /\ item.tries > 0
    /\ \A x \in Steps : Left(x) => x \in Program
    /\ Ordered(h.todo)
    /\ h.failed => \A x \in Steps : Left(x) => x \in {"finally", "sweep"}
    /\ ~h.failed =>
         /\ Left("stage") => Left("finally")
         /\ Left("clear") => Left("provision") /\ Left("ready")
         /\ Left("erase") /\ item.kind = "wipe" => Left("check")

(* Of items not issued yet there is no trace, of saved ones no upload is under way. *)
Traces ==
    /\ \A w \in Ids : w > issued => w \notin saved \cup staged /\ \A n \in Names : task[w][n] = NoTask
    /\ \A v \in Volumes : receipt[v] <= issued
    /\ item # NoItem => W \notin saved
    /\ \A w \in saved : task[w]["upload"].run = "none"
    /\ item # NoItem /\ item.kind # "backup" => task[W]["upload"].run = "none"

(* The handler is at work, and nothing of it has failed.                    *)
Good == h.on /\ ~h.failed

(* A task that loads a volume is the only one to, and has written there     *)
(* what it writes and nothing else.                                         *)
LoadedAt(w, v) ==
    v \in task[w]["load"].mounts =>
      /\ data[v].is \in {"torn", "cluster"}
      /\ task[w]["load"].result.is \in {"torn", "cluster"}
      /\ task[w]["load"].run = "running" => data[v] \in {Torn, task[w]["load"].result}
      /\ item.kind \in Writing /\ v = Target => w = W
      /\ \A x \in Ids : v \in task[x]["load"].mounts => x = w

(* A volume that is not there holds nothing, and the container has its      *)
(* volume.                                                                  *)
Stored ==
    /\ \A w \in Ids, v \in Volumes : LoadedAt(w, v)
    /\ \A v \in Volumes : data[v].is = "absent" => data[v] = Absent
    /\ box # NoVolume => data[box].is # "absent"

(* What a wipe has emptied stays so, or holds a cluster born since.          *)
Wiped ==
    item.kind = "wipe" /\ item.emptied # Foreign =>
      /\ item.emptied <= born
      /\ data[Target].is # "torn"
      /\ data[Target].is = "cluster" => data[Target].id > item.emptied
      /\ \A w \in Ids : Target \notin task[w]["load"].mounts

(* The receipt says that a wipe has emptied its volume; until it is written *)
(* no container has the volume and nothing is in it.                        *)
Receipted ==
    item.gen # 0 =>
      /\ receipt[Target] = item.gen => item.emptied # Foreign
      /\ item.emptied # Foreign /\ receipt[Target] # item.gen =>
           box # Target /\ data[Target].is \in {"absent", "empty"}

(* The steps of a wipe: emptied once erased, with a receipt once written,   *)
(* and no erase after a receipt.                                            *)
Wiping ==
    /\ Good /\ item.kind = "wipe" /\ ~Left("erase") => item.emptied # Foreign
    /\ Good /\ item.gen # 0 /\ ~Left("receipt") => receipt[Target] = item.gen
    /\ item.gen # 0 /\ Left("erase") /\ ~Left("look") => receipt[Target] # item.gen

(* What the handlers about containers and volumes have established at each  *)
(* step they have taken.                                                    *)
Served ==
    /\ Good /\ (item.kind \in Serving \/ (item.kind = "wipe" /\ Target = attached)) =>
         /\ ~Left("provision") => box = Target
         /\ ~Left("ready") => box = Target /\ data[Target].is = "cluster"
    /\ Good /\ item.kind = "wipe" /\ ~Left("check") => data[Target].is # "absent"
    /\ Good /\ item.kind = "delete" /\ ~Left("erase") => data[Target].is = "absent"
    /\ Good /\ item.kind = "restart" /\ ~Left("ready") => Serves
    /\ Good /\ item.kind = "remove" /\ ~Left("dispose") => box = NoVolume

(* The handler waits for task n.                                            *)
Awaits(n) == Left("await") /\ h.at = n

(* An upload put in the bucket what the attached volume holds.              *)
BackedUp ==
    Good /\ item.kind = "backup" /\ ~Left("upload") =>
      LET t == task[W]["upload"]
      IN  IF Awaits("upload")
          THEN /\ t.result.is = "cluster" => data[attached] = t.result
               /\ t.run = "ok" => t.result.is = "cluster" /\ bucket[W] = [is |-> "good", id |-> t.result.id]
          ELSE /\ t.run = "none"
               /\ data[attached].is = "cluster"
               /\ bucket[W] = [is |-> "good", id |-> data[attached].id]

(* What a restore, a recovery or an import is to write.                     *)
Wanted == IF item.kind = "import" THEN Cluster(Foreign) ELSE Artifact

(* A load that ended well has written what was wanted, and an import's      *)
(* object is the foreign cluster until it is loaded.                        *)
Restored ==
    /\ item.kind = "import" /\ (item.tries = 0 \/ Left("load")) => bucket[W].id = Foreign
    /\ Good /\ item.kind \in Writing /\ ~Left("load") /\ engine # "mysql" =>
      LET t == task[W]["load"]
      IN  IF Awaits("load")
          THEN /\ t.run # "none" => t.result = Wanted /\ t.mounts = {Target}
               /\ t.run = "ok" => data[Target] = Wanted
          ELSE data[Target] = Wanted

(* The stage volume of an item is there only for an item that stages, until *)
(* its finally.                                                             *)
Unstaged ==
    /\ item # NoItem /\ W \in staged => Staging
    /\ Good /\ ~Left("finally") => W \notin staged

(* Clusters to come: every empty volume may initialise one, and a handler   *)
(* that erases, or works on a volume not made yet, leaves one more. Each    *)
(* lease leaves at most one, which bounds the clusters ever born.           *)
Empties == {v \in Volumes : data[v].is = "empty"}
Leases == IF item = NoItem THEN issued * MaxTries ELSE (issued - 1) * MaxTries + item.tries
Credit == IF h.on /\ (Left("erase") \/ data[Target].is = "absent") THEN 1 ELSE 0
Counted == IsFiniteSet(Empties) /\ born + Cardinality(Empties) + Credit <= Leases

(* The inductive invariant.                                                 *)
Inv ==
    /\ TypeOK /\ Itemised /\ Course /\ Traces /\ Stored /\ Wiped /\ Receipted
    /\ Wiping /\ Served /\ BackedUp /\ Restored /\ Unstaged /\ Counted

(* What is left of a handler's steps when it has taken the first one.        *)
LEMMA Tails ==
    ASSUME NEW s \in Seq(Steps), s # <<>>
    PROVE  /\ Tail(s) \in Seq(Steps) /\ In(Head(s), s)
           /\ \A x : In(x, s) <=> x = Head(s) \/ In(x, Tail(s))
           /\ Ordered(s) => Ordered(Tail(s)) /\ \A x : In(x, Tail(s)) => Follows(Head(s), x)
<1> DEFINE t == Tail(s)
<1>1. /\ t \in Seq(Steps) /\ Head(s) = s[1] /\ 1 \in DOMAIN s
      /\ \A i \in DOMAIN t : i + 1 \in DOMAIN s /\ t[i] = s[i + 1]
      /\ \A i \in DOMAIN s : i = 1 \/ (i - 1 \in DOMAIN t /\ t[i - 1] = s[i])
      /\ \A i \in DOMAIN t : i \in Nat /\ 1 < i + 1
  BY HeadTailProperties, LenProperties
<1> HIDE DEF t
<1>2. \A x : In(x, s) <=> x = Head(s) \/ In(x, t)
  BY <1>1 DEF In
<1>3. ASSUME Ordered(s), NEW i \in DOMAIN t PROVE Follows(s[1], t[i])
  <2>1. i + 1 \in DOMAIN s /\ t[i] = s[i + 1] /\ 1 < i + 1 /\ 1 \in DOMAIN s
    BY <1>1
  <2>2. Follows(s[1], s[i + 1])
    BY <1>3, <2>1 DEF Ordered
  <2> QED BY <2>1, <2>2
<1>4. ASSUME Ordered(s), NEW i \in DOMAIN t, NEW j \in DOMAIN t, i < j PROVE Follows(t[i], t[j])
  <2>1. /\ i + 1 \in DOMAIN s /\ t[i] = s[i + 1] /\ j + 1 \in DOMAIN s /\ t[j] = s[j + 1]
        /\ i + 1 < j + 1
    BY <1>1, <1>4
  <2>2. Follows(s[i + 1], s[j + 1])
    BY <1>4, <2>1 DEF Ordered
  <2> QED BY <2>1, <2>2
<1>5. Ordered(s) => Ordered(t) /\ \A x : In(x, t) => Follows(Head(s), x)
  BY <1>1, <1>3, <1>4 DEF Ordered, In
<1> QED BY <1>1, <1>2, <1>5 DEF In, t

(* Steps that come one after the other.                                      *)
LEMMA Joined ==
    ASSUME NEW s \in Seq(Steps), NEW t \in Seq(Steps)
    PROVE  /\ s \o t \in Seq(Steps)
           /\ \A x : In(x, s \o t) <=> In(x, s) \/ In(x, t)
           /\ Ordered(s) /\ Ordered(t) /\ (\A x, y : In(x, s) /\ In(y, t) => Follows(x, y)) =>
                Ordered(s \o t)
<1> DEFINE u == s \o t
           n == Len(s)
<1>1. /\ u \in Seq(Steps) /\ Len(u) = n + Len(t)
      /\ \A i \in 1 .. Len(u) : u[i] = IF i <= n THEN s[i] ELSE t[i - n]
  BY ConcatProperties
<1>2. /\ DOMAIN u = 1 .. Len(u) /\ DOMAIN t = 1 .. Len(t) /\ DOMAIN s = 1 .. n
      /\ Len(t) \in Nat /\ n \in Nat
  BY <1>1, LenProperties
<1> HIDE DEF u, n
<1>3. /\ \A i \in DOMAIN s : i \in DOMAIN u /\ u[i] = s[i]
      /\ \A i \in DOMAIN t : i + n \in DOMAIN u /\ u[i + n] = t[i]
      /\ \A i \in DOMAIN u :
           \/ i <= n /\ i \in DOMAIN s /\ u[i] = s[i]
           \/ i > n /\ i - n \in DOMAIN t /\ u[i] = t[i - n]
  <2>1. ASSUME NEW i \in DOMAIN s PROVE i \in DOMAIN u /\ u[i] = s[i]
    BY <1>1, <1>2
  <2>2. ASSUME NEW i \in DOMAIN t PROVE i + n \in DOMAIN u /\ u[i + n] = t[i]
    <3>1. i + n \in 1 .. Len(u) /\ ~(i + n <= n) /\ (i + n) - n = i
      BY <1>1, <1>2
    <3> QED BY <1>1, <1>2, <3>1
  <2>3. ASSUME NEW i \in DOMAIN u
        PROVE  \/ i <= n /\ i \in DOMAIN s /\ u[i] = s[i]
               \/ i > n /\ i - n \in DOMAIN t /\ u[i] = t[i - n]
    BY <1>1, <1>2
  <2> QED BY <2>1, <2>2, <2>3
<1>4. \A x : In(x, u) <=> In(x, s) \/ In(x, t)
  BY <1>3 DEF In
<1>5. ASSUME Ordered(s), Ordered(t), \A x, y : In(x, s) /\ In(y, t) => Follows(x, y),
             NEW i \in DOMAIN u, NEW j \in DOMAIN u, i < j
      PROVE  Follows(u[i], u[j])
  <2>0. i \in Nat /\ j \in Nat
    BY <1>1, <1>2
  <2>1. CASE j <= n
    <3>1. i \in DOMAIN s /\ u[i] = s[i] /\ j \in DOMAIN s /\ u[j] = s[j]
      BY <1>2, <1>3, <1>5, <2>0, <2>1
    <3> QED BY <1>5, <3>1 DEF Ordered
  <2>2. CASE i > n
    <3>1. /\ i - n \in DOMAIN t /\ u[i] = t[i - n] /\ j - n \in DOMAIN t /\ u[j] = t[j - n]
          /\ i - n < j - n
      BY <1>2, <1>3, <1>5, <2>0, <2>2
    <3>2. Follows(t[i - n], t[j - n])
      BY <1>5, <3>1 DEF Ordered
    <3> QED BY <3>1, <3>2
  <2>3. CASE i <= n /\ j > n
    <3>1. i \in DOMAIN s /\ u[i] = s[i] /\ j - n \in DOMAIN t /\ u[j] = t[j - n]
      BY <1>2, <1>3, <2>0, <2>3
    <3>2. In(u[i], s) /\ In(u[j], t)
      BY <3>1 DEF In
    <3> QED BY <1>5, <3>2
  <2> QED BY <1>2, <2>0, <2>1, <2>2, <2>3
<1>6. /\ Ordered(s) /\ Ordered(t) /\ (\A x, y : In(x, s) /\ In(y, t) => Follows(x, y)) =>
           Ordered(u)
  BY <1>5 DEF Ordered
<1> QED BY <1>1, <1>4, <1>6 DEF u

(* A list of one step.                                                      *)
LEMMA One ==
    ASSUME NEW a \in Steps
    PROVE  <<a>> \in Seq(Steps) /\ Ordered(<<a>>) /\ \A x : In(x, <<a>>) <=> x = a
  BY DEF Ordered, In

(* The steps left are those of the list.                                    *)
LEMMA LeftIn == \A x : (Left(x) <=> In(x, h.todo)) /\ (Left(x)' <=> In(x, h'.todo))
  BY DEF Left, In

(* A step is done: what is left comes after it.                              *)
LEMMA Advance ==
    ASSUME TypeOK, Ordered(h.todo), NEW name, Step(name), Went
    PROVE  /\ h'.todo = Tail(h.todo) /\ h'.at = h.at /\ h'.on /\ h.on /\ h'.failed = h.failed
           /\ h' \in Handler
           /\ Left(name) /\ \A x : x # name => (Left(x) <=> Left(x)')
           /\ \A x : Left(x)' => Left(x) /\ Follows(name, x)
           /\ Ordered(h'.todo)
<1>1. /\ h \in Handler /\ h.todo # <<>> /\ h.todo \in Seq(Steps)
      /\ h.on /\ name = Head(h.todo) /\ h' = [h EXCEPT !.todo = Tail(h.todo)]
  BY DEF TypeOK, Handler, Step, Went
<1>2. /\ Tail(h.todo) \in Seq(Steps) /\ In(name, h.todo)
      /\ \A x : In(x, h.todo) <=> x = name \/ In(x, Tail(h.todo))
      /\ Ordered(Tail(h.todo)) /\ \A x : In(x, Tail(h.todo)) => Follows(name, x)
  BY <1>1, Tails
<1>3. /\ h' \in Handler /\ h'.todo = Tail(h.todo) /\ h'.on /\ h'.failed = h.failed /\ h'.at = h.at
  BY <1>1, <1>2 DEF Handler
<1> QED BY <1>1, <1>2, <1>3, LeftIn

(* A task was started.                                                       *)
LEMMA Launch ==
    ASSUME TypeOK, Ordered(h.todo), NEW name \in Steps \ {"await"}, Step(name),
           NEW n \in Names, NEW mounts, NEW stage, NEW result, Run(n, mounts, stage, result)
    PROVE  /\ h'.at = n /\ h'.on /\ h.on /\ h'.failed = h.failed
           /\ h' \in Handler
           /\ Left(name) /\ \A x : x \notin {name, "await"} => (Left(x) <=> Left(x)')
           /\ \A x : Left(x)' /\ x # "await" => Left(x) /\ Follows(name, x)
           /\ Left("await")' /\ Ordered(h'.todo)
<1> DEFINE t == Tail(h.todo)
           u == <<"await">> \o t
<1>1. /\ h \in Handler /\ h.todo # <<>> /\ h.todo \in Seq(Steps)
      /\ h.on /\ name = Head(h.todo) /\ h' = [h EXCEPT !.todo = u, !.at = n]
  BY DEF TypeOK, Handler, Step, Run
<1>2. /\ t \in Seq(Steps) /\ In(name, h.todo)
      /\ \A x : In(x, h.todo) <=> x = name \/ In(x, t)
      /\ Ordered(t) /\ \A x : In(x, t) => Follows(name, x)
  BY <1>1, Tails
<1>3. /\ u \in Seq(Steps) /\ \A x : In(x, u) <=> x = "await" \/ In(x, t)
      /\ Ordered(t) /\ (\A x : In(x, t) => Follows("await", x)) => Ordered(u)
  <2>1. <<"await">> \in Seq(Steps) /\ Ordered(<<"await">>) /\ \A x : In(x, <<"await">>) <=> x = "await"
    BY One DEF Steps
  <2>2. ASSUME Ordered(t), \A x : In(x, t) => Follows("await", x) PROVE Ordered(u)
    <3>1. \A x, y : In(x, <<"await">>) /\ In(y, t) => Follows(x, y)
      BY <2>1, <2>2
    <3> QED BY <1>2, <2>1, <2>2, <3>1, Joined
  <2>3. u \in Seq(Steps) /\ \A x : In(x, u) <=> In(x, <<"await">>) \/ In(x, t)
    BY <1>2, <2>1, Joined
  <2> HIDE DEF u
  <2> QED BY <2>1, <2>2, <2>3
<1>4. \A x : In(x, t) => Follows("await", x)
  <2> SUFFICES ASSUME NEW x, In(x, t) PROVE Follows("await", x)
    OBVIOUS
  <2>1. x \in Steps
    BY <1>2, ElementOfSeq, LenProperties DEF In
  <2> QED BY <1>2, <2>1 DEF Follows, Rank, Steps
<1> HIDE DEF u, t
<1>5. /\ h' \in Handler /\ h'.todo = u /\ h'.on /\ h'.failed = h.failed /\ h'.at = n
  BY <1>1, <1>3 DEF Handler
<1> QED BY <1>1, <1>2, <1>3, <1>4, <1>5, LeftIn

(* A throw leaves the finally at most, if its try was entered.              *)
LEMMA Throw ==
    ASSUME TypeOK, h.on, Threw
    PROVE  /\ h' \in Handler /\ h'.on /\ h'.failed /\ h'.at = h.at
           /\ \A x : Left(x)' => x \in {"finally", "sweep"} /\ Left("finally")
           /\ Left("sweep")' => item.kind = "import"
           /\ Ordered(h'.todo)
<1> DEFINE cleanup == IF Left("stage") \/ ~Left("finally") THEN <<>>
                      ELSE IF item.kind = "import" THEN <<"finally", "sweep">>
                      ELSE <<"finally">>
<1>1. h' = [h EXCEPT !.todo = cleanup, !.failed = TRUE] /\ h \in Handler
  BY DEF Threw, TypeOK, Handler
<1>2. cleanup \in Seq(Steps)
  <2>1. <<>> \in Seq(Steps)
    OBVIOUS
  <2>2. <<"finally">> \in Seq(Steps)
    BY DEF Steps
  <2>3. <<"finally", "sweep">> \in Seq(Steps)
    BY DEF Steps
  <2> QED BY <2>1, <2>2, <2>3
<1>3. /\ h'.todo = cleanup /\ h'.on /\ h'.failed /\ h'.at = h.at /\ h' \in Handler
  BY <1>1, <1>2 DEF Handler
<1>4. CASE cleanup = <<>>
  BY <1>3, <1>4 DEF Left, Ordered
<1>5. CASE cleanup = <<"finally">> /\ Left("finally")
  BY <1>3, <1>5 DEF Left, Ordered
<1>6. CASE cleanup = <<"finally", "sweep">> /\ Left("finally") /\ item.kind = "import"
  <2>1. /\ h'.todo = <<"finally", "sweep">> /\ DOMAIN h'.todo = {1, 2}
        /\ h'.todo[1] = "finally" /\ h'.todo[2] = "sweep"
    BY <1>3, <1>6
  <2>2. \A x : Left(x)' => x \in {"finally", "sweep"}
    BY <2>1 DEF Left
  <2>3. Ordered(h'.todo)
    <3>1. Follows("finally", "sweep")
      BY DEF Follows, Rank
    <3>2. \A i, j \in {1, 2} : i < j => i = 1 /\ j = 2
      OBVIOUS
    <3> QED BY <2>1, <3>1, <3>2 DEF Ordered
  <2> QED BY <1>3, <1>6, <2>2, <2>3
<1> QED BY <1>3, <1>4, <1>5, <1>6

(* Steps that are written out.                                               *)
IsList(s, S) == s \in Seq(Steps) /\ Ordered(s) /\ \A x : In(x, s) <=> x \in S

(* The lists the handlers are written with.                                 *)
LEMMA Written ==
    /\ IsList(<<"provision", "ready">>, {"provision", "ready"})
    /\ IsList(<<"clear", "provision", "ready">>, {"clear", "provision", "ready"})
    /\ IsList(<<"restart", "ready">>, {"restart", "ready"})
    /\ IsList(<<"dispose">>, {"dispose"})
    /\ IsList(<<"look", "clear", "erase", "make", "receipt", "provision", "ready", "check">>,
              {"look", "clear", "erase", "make", "receipt", "provision", "ready", "check"})
    /\ IsList(<<"look", "erase", "make", "receipt", "check">>,
              {"look", "erase", "make", "receipt", "check"})
    /\ IsList(<<"erase">>, {"erase"})
    /\ IsList(<<"upload", "fetch">>, {"upload", "fetch"})
    /\ IsList(<<"upload">>, {"upload"})
    /\ IsList(<<"make", "load">>, {"make", "load"})
    /\ IsList(<<"load">>, {"load"})
    /\ IsList(<<"provision", "ready", "check">>, {"provision", "ready", "check"})
    /\ IsList(<<"check">>, {"check"})
    /\ IsList(<<"unstage", "stage">>, {"unstage", "stage"})
    /\ IsList(<<"finally">>, {"finally"})
    /\ IsList(<<"dump", "upload">>, {"dump", "upload"})
    /\ IsList(<<"fetch", "load">>, {"fetch", "load"})
    /\ IsList(<<"fetch", "verify", "make", "load">>, {"fetch", "verify", "make", "load"})
    /\ IsList(<<"make">>, {"make"})
    /\ IsList(<<"sweep">>, {"sweep"})
    /\ IsList(<<"finally", "sweep">>, {"finally", "sweep"})
<1>1. IsList(<<"provision", "ready">>, {"provision", "ready"})
  <2>1. <<"provision", "ready">> \in Seq(Steps)
    BY DEF Steps
  <2>2. Ordered(<<"provision", "ready">>)
    BY DEF Ordered, Follows, Rank
  <2> QED BY <2>1, <2>2 DEF IsList, In
<1>2. IsList(<<"clear", "provision", "ready">>, {"clear", "provision", "ready"})
  <2>1. <<"clear", "provision", "ready">> \in Seq(Steps)
    BY DEF Steps
  <2>2. Ordered(<<"clear", "provision", "ready">>)
    BY DEF Ordered, Follows, Rank
  <2> QED BY <2>1, <2>2 DEF IsList, In
<1>3. IsList(<<"restart", "ready">>, {"restart", "ready"})
  <2>1. <<"restart", "ready">> \in Seq(Steps)
    BY DEF Steps
  <2>2. Ordered(<<"restart", "ready">>)
    BY DEF Ordered, Follows, Rank
  <2> QED BY <2>1, <2>2 DEF IsList, In
<1>4. IsList(<<"dispose">>, {"dispose"})
  BY One DEF IsList, Steps
<1>5. IsList(<<"look", "clear", "erase", "make", "receipt", "provision", "ready", "check">>,
            {"look", "clear", "erase", "make", "receipt", "provision", "ready", "check"})
  <2>1. <<"look", "clear", "erase", "make", "receipt", "provision", "ready", "check">> \in Seq(Steps)
    BY DEF Steps
  <2>2. Ordered(<<"look", "clear", "erase", "make", "receipt", "provision", "ready", "check">>)
    BY DEF Ordered, Follows, Rank
  <2> QED BY <2>1, <2>2 DEF IsList, In
<1>6. IsList(<<"look", "erase", "make", "receipt", "check">>,
            {"look", "erase", "make", "receipt", "check"})
  <2>1. <<"look", "erase", "make", "receipt", "check">> \in Seq(Steps)
    BY DEF Steps
  <2>2. Ordered(<<"look", "erase", "make", "receipt", "check">>)
    BY DEF Ordered, Follows, Rank
  <2> QED BY <2>1, <2>2 DEF IsList, In
<1>7. IsList(<<"erase">>, {"erase"})
  BY One DEF IsList, Steps
<1>8. IsList(<<"upload", "fetch">>, {"upload", "fetch"})
  <2>1. <<"upload", "fetch">> \in Seq(Steps)
    BY DEF Steps
  <2>2. Ordered(<<"upload", "fetch">>)
    BY DEF Ordered, Follows, Rank
  <2> QED BY <2>1, <2>2 DEF IsList, In
<1>9. IsList(<<"upload">>, {"upload"})
  BY One DEF IsList, Steps
<1>10. IsList(<<"make", "load">>, {"make", "load"})
  <2>1. <<"make", "load">> \in Seq(Steps)
    BY DEF Steps
  <2>2. Ordered(<<"make", "load">>)
    BY DEF Ordered, Follows, Rank
  <2> QED BY <2>1, <2>2 DEF IsList, In
<1>11. IsList(<<"load">>, {"load"})
  BY One DEF IsList, Steps
<1>12. IsList(<<"provision", "ready", "check">>, {"provision", "ready", "check"})
  <2>1. <<"provision", "ready", "check">> \in Seq(Steps)
    BY DEF Steps
  <2>2. Ordered(<<"provision", "ready", "check">>)
    BY DEF Ordered, Follows, Rank
  <2> QED BY <2>1, <2>2 DEF IsList, In
<1>13. IsList(<<"check">>, {"check"})
  BY One DEF IsList, Steps
<1>14. IsList(<<"unstage", "stage">>, {"unstage", "stage"})
  <2>1. <<"unstage", "stage">> \in Seq(Steps)
    BY DEF Steps
  <2>2. Ordered(<<"unstage", "stage">>)
    BY DEF Ordered, Follows, Rank
  <2> QED BY <2>1, <2>2 DEF IsList, In
<1>15. IsList(<<"finally">>, {"finally"})
  BY One DEF IsList, Steps
<1>16. IsList(<<"dump", "upload">>, {"dump", "upload"})
  <2>1. <<"dump", "upload">> \in Seq(Steps)
    BY DEF Steps
  <2>2. Ordered(<<"dump", "upload">>)
    BY DEF Ordered, Follows, Rank
  <2> QED BY <2>1, <2>2 DEF IsList, In
<1>17. IsList(<<"fetch", "load">>, {"fetch", "load"})
  <2>1. <<"fetch", "load">> \in Seq(Steps)
    BY DEF Steps
  <2>2. Ordered(<<"fetch", "load">>)
    BY DEF Ordered, Follows, Rank
  <2> QED BY <2>1, <2>2 DEF IsList, In
<1>18. IsList(<<"fetch", "verify", "make", "load">>, {"fetch", "verify", "make", "load"})
  <2>1. <<"fetch", "verify", "make", "load">> \in Seq(Steps)
    BY DEF Steps
  <2>2. Ordered(<<"fetch", "verify", "make", "load">>)
    BY DEF Ordered, Follows, Rank
  <2> QED BY <2>1, <2>2 DEF IsList, In
<1>19. IsList(<<"make">>, {"make"})
  BY One DEF IsList, Steps
<1>20. IsList(<<"sweep">>, {"sweep"})
  BY One DEF IsList, Steps
<1>21. IsList(<<"finally", "sweep">>, {"finally", "sweep"})
  <2>1. <<"finally", "sweep">> \in Seq(Steps)
    BY DEF Steps
  <2>2. Ordered(<<"finally", "sweep">>)
    BY DEF Ordered, Follows, Rank
  <2> QED BY <2>1, <2>2 DEF IsList, In
<1> QED BY <1>1, <1>2, <1>3, <1>4, <1>5, <1>6, <1>7, <1>8, <1>9, <1>10, <1>11, <1>12, <1>13,
           <1>14, <1>15, <1>16, <1>17, <1>18, <1>19, <1>20, <1>21

(* A list after another, whose steps all come later.                        *)
LEMMA JoinedLists ==
    ASSUME NEW s, NEW S, IsList(s, S), NEW t, NEW T, IsList(t, T),
           \A x \in S, y \in T : Follows(x, y)
    PROVE  IsList(s \o t, S \cup T)
  BY Joined DEF IsList

(* The steps of each kind of item, and no more.                              *)
LEMMA Programs ==
    ASSUME TypeOK, item.kind # "none"
    PROVE  IsList(StepsOf(item.kind), Program \ {"await"})
<1>1. CASE item.kind \in {"provision", "apply", "restart", "remove", "delete", "pitr"}
  <2>1. CASE item.kind \in {"provision", "apply", "restart"}
    <3>1. CASE item.kind = "provision"
      BY <3>1, Written DEF StepsOf, Program
    <3>2. CASE item.kind = "apply"
      BY <3>2, Written DEF StepsOf, Program
    <3>3. CASE item.kind = "restart"
      BY <3>3, Written DEF StepsOf, Program
    <3> QED BY <2>1, <3>1, <3>2, <3>3
  <2>2. CASE item.kind \in {"remove", "delete", "pitr"}
    <3>1. CASE item.kind = "remove"
      BY <3>1, Written DEF StepsOf, Program
    <3>2. CASE item.kind = "delete"
      BY <3>2, Written DEF StepsOf, Program
    <3>3. CASE item.kind = "pitr"
      BY <3>3, Written DEF StepsOf, Program
    <3> QED BY <2>2, <3>1, <3>2, <3>3
  <2> QED BY <1>1, <2>1, <2>2
<1>2. CASE item.kind = "wipe"
  <2>1. CASE Target = attached
    <3>1. /\ StepsOf(item.kind) = <<"look", "clear", "erase", "make", "receipt", "provision", "ready", "check">>
          /\ Program \ {"await"} = {"look", "clear", "erase", "make", "receipt", "provision", "ready", "check"}
      BY <1>2, <2>1 DEF StepsOf, WipeSteps, Program
    <3> QED BY <3>1, Written
  <2>2. CASE Target # attached
    <3>1. /\ StepsOf(item.kind) = <<"look", "erase", "make", "receipt", "check">>
          /\ Program \ {"await"} = {"look", "erase", "make", "receipt", "check"}
      BY <1>2, <2>2 DEF StepsOf, WipeSteps, Program
    <3> QED BY <3>1, Written
  <2> QED BY <2>1, <2>2
<1>3. CASE item.kind \in {"backup", "restore"} /\ engine # "mysql"
  <2>1. CASE item.kind = "backup" /\ engine = "postgres"
    <3>1. /\ StepsOf(item.kind) = <<"upload", "fetch">>
          /\ Program \ {"await"} = {"upload", "fetch"}
      BY <2>1 DEF StepsOf, Program
    <3> QED BY <3>1, Written
  <2>2. CASE item.kind = "backup" /\ engine # "postgres"
    <3>1. StepsOf(item.kind) = <<"upload">> /\ Program \ {"await"} = {"upload"}
      BY <1>3, <2>2 DEF StepsOf, Program
    <3> QED BY <3>1, Written
  <2>3. CASE item.kind = "restore"
    <3>1. StepsOf(item.kind) = <<"make", "load">> /\ Program \ {"await"} = {"make", "load"}
      BY <1>3, <2>3 DEF StepsOf, Program
    <3> QED BY <3>1, Written
  <2> QED BY <1>3, <2>1, <2>2, <2>3
<1>4. ASSUME NEW t, NEW T, IsList(t, T), T \subseteq {"dump", "upload", "fetch", "verify", "make", "load"}
      PROVE  IsList(Staged(t), {"unstage", "stage"} \cup T \cup {"finally"})
  <2>1. IsList(<<"unstage", "stage">> \o t, {"unstage", "stage"} \cup T)
    <3>1. \A x \in {"unstage", "stage"}, y \in T : Follows(x, y)
      BY <1>4 DEF Follows, Rank
    <3>2. IsList(<<"unstage", "stage">>, {"unstage", "stage"})
      BY Written
    <3> QED BY <1>4, <3>1, <3>2, JoinedLists
  <2>2. \A x \in {"unstage", "stage"} \cup T, y \in {"finally"} : Follows(x, y)
    BY <1>4 DEF Follows, Rank
  <2>3. IsList(<<"finally">>, {"finally"})
    BY Written
  <2> QED BY <2>1, <2>2, <2>3, JoinedLists DEF Staged
<1>5. CASE item.kind = "backup" /\ engine = "mysql"
  <2>1. IsList(Staged(<<"dump", "upload">>), {"unstage", "stage"} \cup {"dump", "upload"} \cup {"finally"})
    BY <1>4, Written
  <2>2. /\ StepsOf(item.kind) = Staged(<<"dump", "upload">>)
        /\ Program \ {"await"} = {"unstage", "stage"} \cup {"dump", "upload"} \cup {"finally"}
    BY <1>5 DEF StepsOf, Program
  <2> QED BY <2>1, <2>2
<1>6. CASE item.kind = "restore" /\ engine = "mysql"
  <2> DEFINE T == {"unstage", "stage"} \cup {"fetch", "load"} \cup {"finally"}
  <2>1. IsList(Staged(<<"fetch", "load">>), T)
    BY <1>4, Written
  <2>2. IsList(<<"make">>, {"make"}) /\ \A x \in {"make"}, y \in T : Follows(x, y)
    BY Written DEF Follows, Rank
  <2>3. IsList(<<"make">> \o Staged(<<"fetch", "load">>), {"make"} \cup T)
    BY <2>1, <2>2, JoinedLists
  <2>4. /\ StepsOf(item.kind) = <<"make">> \o Staged(<<"fetch", "load">>)
        /\ Program \ {"await"} = {"make"} \cup T
    BY <1>6 DEF StepsOf, Program
  <2> QED BY <2>3, <2>4
<1>7. CASE item.kind = "import"
  <2> DEFINE T == {"unstage", "stage"} \cup {"fetch", "verify", "make", "load"} \cup {"finally"}
  <2>1. IsList(Staged(<<"fetch", "verify", "make", "load">>), T)
    BY <1>4, Written
  <2>2. IsList(<<"sweep">>, {"sweep"}) /\ \A x \in T, y \in {"sweep"} : Follows(x, y)
    BY Written DEF Follows, Rank
  <2>3. IsList(Staged(<<"fetch", "verify", "make", "load">>) \o <<"sweep">>, T \cup {"sweep"})
    BY <2>1, <2>2, JoinedLists
  <2>4. /\ StepsOf(item.kind) = Staged(<<"fetch", "verify", "make", "load">>) \o <<"sweep">>
        /\ Program \ {"await"} = T \cup {"sweep"}
    BY <1>7 DEF StepsOf, Program
  <2> QED BY <2>3, <2>4
<1>8. item.kind \in {"provision", "apply", "restart", "remove", "wipe", "delete", "backup",
                     "restore", "pitr", "import"}
  BY DEF TypeOK, Item
<1> QED BY <1>1, <1>2, <1>3, <1>5, <1>6, <1>7, <1>8

----------------------------------------------------------------------------
(* How the handler moves.                                                    *)

(* The parts of the state have their types.                                  *)
LEMMA Typed ==
    ASSUME TypeOK
    PROVE  /\ h \in Handler /\ h.todo \in Seq(Steps) /\ item \in Item
           /\ data \in [Volumes -> Content] /\ task \in [Ids -> [Names -> Task]]
           /\ bucket \in [Ids -> [is: {"none", "unchecked", "good"}, id: Clusters]]
           /\ receipt \in [Volumes -> 0 .. MaxWork] /\ W \in 0 .. MaxWork
           /\ issued \in 0 .. MaxWork /\ born \in Clusters /\ faults \in 0 .. MaxFaults
           /\ NoVolume \notin Volumes /\ Target \in Volumes \cup {NoVolume}
           /\ Clusters \subseteq Nat /\ Foreign \in Nat
           /\ \A x : Left(x) => x \in Steps
<1>1. h \in Handler /\ item \in Item
  BY DEF TypeOK, Handler
<1>2. h.todo \in Seq(Steps) /\ \A x : Left(x) => x \in Steps
  BY <1>1, ElementOfSeq, LenProperties DEF Handler, Left
<1>3. MaxWork * MaxTries \in Nat
  OBVIOUS
<1>4. Foreign \in Nat /\ Clusters \subseteq Nat
  BY <1>3 DEF Clusters, Foreign
<1>5. W \in 0 .. MaxWork /\ Target \in Volumes \cup {NoVolume}
  BY <1>1 DEF W, Target, Item
<1> QED BY <1>1, <1>2, <1>4, <1>5 DEF TypeOK

(* The service, its item and the volume the item is about stay as they are.  *)
Same ==
    /\ UNCHANGED <<engine, attached, saved, issued>>
    /\ item' = item \/ item' = [item EXCEPT !.emptied = born]

(* The item is the same one, whether or not it has emptied its volume.      *)
LEMMA SameItem ==
    ASSUME TypeOK, Itemised, item # NoItem, Same
    PROVE  /\ W' = W /\ Target' = Target /\ item'.kind = item.kind /\ item'.from = item.from
           /\ item'.gen = item.gen /\ item'.tries = item.tries /\ item' # NoItem
           /\ item' = item \/ item'.emptied = born
           /\ Program' = Program /\ Staging' = Staging /\ item' \in Item
<1>1. /\ item.kind # "none" /\ NoItem.kind = "none" /\ item \in Item
  BY Typed DEF Itemised, NoItem
<1>2. /\ W' = W /\ Target' = Target /\ item'.kind = item.kind /\ item'.from = item.from
      /\ item'.gen = item.gen /\ item'.tries = item.tries /\ item' \in Item
      /\ item' = item \/ item'.emptied = born
  BY <1>1, Typed DEF Same, Item, W, Target
<1> QED BY <1>1, <1>2 DEF Same, Program, Staging, Target

(* A step that went leaves the handler on its course.                        *)
LEMMA WentCourse ==
    ASSUME Inv, NEW name \in Steps, Step(name), Went, Same
    PROVE  /\ Course' /\ h'.at = h.at /\ h'.on /\ h.on /\ h'.failed = h.failed /\ h' \in Handler
           /\ Left(name) /\ \A x : x # name => (Left(x) <=> Left(x)')
           /\ \A x : Left(x)' => Follows(name, x)
           /\ item # NoItem /\ item.tries > 0 /\ name \in Program
           /\ h.failed => name \in {"finally", "sweep"}
<1>0. TypeOK /\ Course /\ Itemised
  BY DEF Inv
<1>1. /\ h'.at = h.at /\ h'.on /\ h.on /\ h'.failed = h.failed /\ h' \in Handler
      /\ Left(name) /\ \A x : x # name => (Left(x) <=> Left(x)')
      /\ \A x : Left(x)' => Left(x) /\ Follows(name, x)
      /\ Ordered(h'.todo)
  BY <1>0, Advance DEF Course
<1>2. item # NoItem /\ item.tries > 0
  BY <1>0, <1>1 DEF Course
<1>3. /\ W' = W /\ item'.tries = item.tries /\ item'.kind = item.kind /\ item' # NoItem
      /\ Program' = Program
  BY <1>0, <1>2, SameItem
<1>4. \A x \in Steps : Left(x)' => x \in Program'
  BY <1>0, <1>1, <1>3 DEF Course
<1>5. h'.failed => \A x \in Steps : Left(x)' => x \in {"finally", "sweep"}
  BY <1>0, <1>1 DEF Course
<1>6. ~h'.failed => /\ Left("stage")' => Left("finally")'
                    /\ Left("clear")' => Left("provision")' /\ Left("ready")'
                    /\ Left("erase")' /\ item'.kind = "wipe" => Left("check")'
  <2>1. /\ ~Follows("finally", "stage") /\ ~Follows("provision", "clear")
        /\ ~Follows("ready", "clear") /\ ~Follows("check", "erase")
    BY DEF Follows, Rank
  <2> QED BY <1>0, <1>1, <1>3, <2>1 DEF Course
<1>7. Course'
  <2>1. (~h.on => h = Idle)' /\ (h.on => item # NoItem /\ item.tries > 0)'
    BY <1>1, <1>2, <1>3
  <2> QED BY <1>1, <1>4, <1>5, <1>6, <2>1 DEF Course
<1> QED BY <1>0, <1>1, <1>2, <1>7 DEF Course

(* A step that threw leaves at most the cleanup.                             *)
LEMMA FailedCourse ==
    ASSUME Inv, h.on, Threw \/ ThrewForGood, Same
    PROVE  /\ Course' /\ h'.on /\ h'.failed /\ h' \in Handler
           /\ \A x : Left(x)' => x \in {"finally", "sweep"}
           /\ item # NoItem /\ item.tries > 0
<1>0. TypeOK /\ Course /\ Itemised
  BY DEF Inv
<1>1. item # NoItem /\ item.tries > 0
  BY <1>0 DEF Course
<1>2. /\ W' = W /\ item'.tries = item.tries /\ item' # NoItem /\ Program' = Program
  BY <1>0, <1>1, SameItem
<1>3. CASE Threw
  <2>1. /\ h' \in Handler /\ h'.on /\ h'.failed /\ h'.at = h.at
        /\ \A x : Left(x)' => x \in {"finally", "sweep"} /\ Left("finally")
        /\ Left("sweep")' => item.kind = "import"
        /\ Ordered(h'.todo)
    BY <1>0, <1>3, Throw
  <2>2. \A x \in Steps : Left(x)' => x \in Program
    <3>1. Left("finally") => "finally" \in Program
      BY <1>0 DEF Course, Steps
    <3>2. item.kind = "import" => "sweep" \in Program
      BY DEF Program
    <3> QED BY <2>1, <3>1, <3>2
  <2> QED BY <1>1, <1>2, <2>1, <2>2 DEF Course
<1>4. CASE ThrewForGood
  <2>1. h' = [h EXCEPT !.todo = <<>>, !.failed = TRUE] /\ h \in Handler
    BY <1>0, <1>4, Typed DEF ThrewForGood
  <2>2. h' \in Handler /\ h'.on /\ h'.failed /\ h'.todo = <<>>
    <3>1. <<>> \in Seq(Steps)
      OBVIOUS
    <3> QED BY <2>1, <3>1 DEF Handler
  <2>3. \A x : ~Left(x)'
    BY <2>2 DEF Left
  <2>4. Ordered(h'.todo)
    BY <2>2 DEF Ordered
  <2> QED BY <1>1, <1>2, <2>2, <2>3, <2>4 DEF Course
<1> QED BY <1>3, <1>4

(* What is true of Docker whatever the handler does.                         *)
Ground == TypeOK /\ Itemised /\ Traces /\ Stored /\ Wiped /\ Receipted /\ Counted

(* A handler that throws keeps what is true of Docker, and owes no more     *)
(* than its cleanup.                                                        *)
LEMMA FailedInv ==
    ASSUME Inv, h.on, Threw \/ ThrewForGood, Same, Ground', staged' \subseteq staged
    PROVE  Inv'
<1>0. TypeOK /\ Course /\ Itemised /\ Unstaged
  BY DEF Inv
<1>1. /\ Course' /\ h'.on /\ h'.failed /\ h' \in Handler
      /\ \A x : Left(x)' => x \in {"finally", "sweep"}
      /\ item # NoItem /\ item.tries > 0
  BY FailedCourse
<1>2. /\ W' = W /\ Target' = Target /\ item'.tries = item.tries /\ item'.kind = item.kind
      /\ Staging' = Staging /\ ~Good' /\ ~Left("erase")' /\ ~Left("load")'
  BY <1>0, <1>1, SameItem DEF Good
<1>3. Wiping' /\ Served' /\ BackedUp'
  BY <1>2 DEF Wiping, Served, BackedUp
<1>4. item.tries # 0
  BY <1>0, <1>1, Typed DEF Item
<1>5. Restored'
  BY <1>2, <1>4 DEF Restored
<1>6. Unstaged'
  BY <1>0, <1>1, <1>2 DEF Unstaged
<1> QED BY <1>1, <1>3, <1>5, <1>6 DEF Inv, Ground

(* The item at work has its own tasks.                                       *)
LEMMA Working ==
    ASSUME TypeOK, Itemised, item # NoItem
    PROVE  /\ W \in Ids /\ W = issued /\ Target \in Volumes /\ Target # NoVolume
           /\ item.kind # "none" /\ W > 0
  BY Typed DEF Itemised, Ids, W

(* Nothing is counted when nothing comes or goes.                            *)
LEMMA CountedKept ==
    ASSUME TypeOK, Itemised, Counted, item # NoItem, Same, h.on, UNCHANGED <<data, born>>,
           Left("erase")' => Left("erase")
    PROVE  Counted'
<1>1. Empties' = Empties
  BY DEF Empties
<1>2. Leases' = Leases /\ Target' = Target
  BY SameItem DEF Leases, Same
<1>3. Credit' = Credit \/ (Credit' = 0 /\ Credit = 1)
  BY <1>2 DEF Credit
<1>4. IsFiniteSet(Empties) /\ born \in Nat
  BY Typed DEF Counted
<1>5. Cardinality(Empties) \in Nat
  BY <1>4, FS_CardinalityType
<1>6. Leases \in Int
  <2>1. issued \in Nat /\ item.tries \in Nat
    BY Typed DEF Item
  <2> QED BY <2>1 DEF Leases
<1> QED BY <1>1, <1>2, <1>3, <1>4, <1>5, <1>6 DEF Counted

(* A step of the handler that leaves the volumes alone.                      *)
LEMMA GroundKept ==
    ASSUME Inv, h.on, TypeOK', UNCHANGED <<engine, data, box, receipt, item, known, born>>,
           Left("erase")' => Left("erase"), staged' \subseteq staged \cup {W},
           \A w \in Ids, n \in Names : w # W => task'[w][n] = task[w][n],
           \A n \in Names : n = "load" => task'[W][n] = task[W][n] \/ task'[W][n].mounts = {},
           item.kind = "backup" \/ \A n \in Names : n = "upload" => task'[W][n] \in {task[W][n], NoTask}
    PROVE  Ground'
<1>0. TypeOK /\ Itemised /\ Traces /\ Stored /\ Wiped /\ Receipted /\ Counted /\ item # NoItem
  BY DEF Inv, Course
<1>1. W \in Ids /\ W = issued /\ W > 0 /\ "load" \in Names /\ "upload" \in Names
  BY <1>0, Working DEF Names
<1>2. Same /\ W' = W /\ Target' = Target
  BY DEF Same, known, W, Target
<1>3. Itemised'
  BY <1>0, <1>2 DEF Itemised, known
<1>4. Traces'
  <2>1. \A w \in Ids : w > issued => w \notin saved' \cup staged' /\ \A n \in Names : task'[w][n] = NoTask
    <3> SUFFICES ASSUME NEW w \in Ids, w > issued
                 PROVE  w \notin saved' \cup staged' /\ \A n \in Names : task'[w][n] = NoTask
      OBVIOUS
    <3>1. w # W
      <4>1. issued \in 0 .. MaxWork /\ w \in 1 .. MaxWork /\ MaxWork \in Nat
        BY <1>0, Typed DEF Ids
      <4>2. ~(w = issued)
        BY <4>1
      <4> QED BY <1>1, <4>2
    <3>2. w \notin saved \cup staged /\ \A n \in Names : task[w][n] = NoTask
      BY <1>0 DEF Traces
    <3>3. \A n \in Names : task'[w][n] = task[w][n]
      BY <3>1
    <3> QED BY <3>1, <3>2, <3>3 DEF known
  <2>2. \A w \in saved : w \in Ids /\ task'[w]["upload"].run = "none"
    <3> SUFFICES ASSUME NEW w \in saved PROVE w \in Ids /\ task'[w]["upload"].run = "none"
      OBVIOUS
    <3>1. w \in Ids /\ w # W /\ task[w]["upload"].run = "none"
      BY <1>0 DEF Traces, TypeOK
    <3>2. task'[w]["upload"] = task[w]["upload"]
      BY <1>1, <3>1
    <3> QED BY <3>1, <3>2
  <2>3. item.kind # "backup" => task'[W]["upload"].run = "none"
    BY <1>0, <1>1 DEF Traces, NoTask
  <2> QED BY <1>0, <1>2, <2>1, <2>2, <2>3 DEF Traces, known
<1>5. Stored'
  <2>1. ASSUME NEW w \in Ids, NEW v \in Volumes PROVE LoadedAt(w, v)'
    <3>1. \A x \in Ids : task'[x]["load"] = task[x]["load"] \/ task'[x]["load"].mounts = {}
      BY <1>1
    <3>2. LoadedAt(w, v)
      BY <1>0 DEF Stored
    <3> QED BY <1>2, <3>1, <3>2 DEF LoadedAt
  <2> QED BY <1>0, <2>1 DEF Stored
<1>6. Wiped'
  <2>1. \A w \in Ids : task'[w]["load"] = task[w]["load"] \/ task'[w]["load"].mounts = {}
    BY <1>1
  <2> QED BY <1>0, <1>2, <2>1 DEF Wiped
<1>7. Receipted'
  BY <1>0, <1>2 DEF Receipted
<1>8. Counted'
  BY <1>0, <1>2, CountedKept
<1> QED BY <1>3, <1>4, <1>5, <1>6, <1>7, <1>8 DEF Ground

(* A step that threw and changed nothing.                                    *)
LEMMA FailedQuiet ==
    ASSUME Inv, h.on, Threw \/ ThrewForGood, faults' \in 0 .. MaxFaults,
           UNCHANGED <<engine, docker, bucket, receipt, item, known, born>>
    PROVE  Inv'
<1>1. Same /\ TypeOK
  BY DEF Inv, Same, known
<1>2. h' \in Handler /\ ~Left("erase")'
  BY <1>1, FailedCourse
<1>3. TypeOK'
  BY <1>1, <1>2 DEF TypeOK, Handler, docker, known
<1>4. Ground'
  BY <1>2, <1>3, GroundKept DEF docker
<1> QED BY <1>1, <1>4, FailedInv DEF docker

(* A step that went, of those that neither start a task nor wait for one.    *)
LEMMA Onward ==
    ASSUME Inv, NEW name \in Steps \ {"await", "erase", "receipt", "sweep"}, Step(name), Went, Ground',
           UNCHANGED <<engine, item, known, receipt, bucket, task>>,
           \A v \in Volumes : data'[v] = data[v] \/ (data[v].is = "absent" /\ data'[v].is = "empty"),
           box' = box \/ name \in {"clear", "provision", "dispose"},
           staged' \subseteq staged \cup {W}, name # "stage" => staged' \subseteq staged,
           name = "look" => ~AlreadyReplaced, name = "provision" => box' = Target,
           name = "ready" => Serves, name = "dispose" => box' = NoVolume,
           name = "check" => data[Target].is # "absent", name = "finally" => W \notin staged',
           name \notin {"upload", "load"}
    PROVE  Inv'
<1>1. /\ Same /\ W' = W /\ Target' = Target /\ Staging' = Staging /\ Artifact' = Artifact
      /\ Wanted' = Wanted
  BY DEF Same, known, W, Target, Staging, Artifact, Wanted
<1>2. /\ Course' /\ h'.at = h.at /\ h'.on /\ h.on /\ h'.failed = h.failed /\ h' \in Handler
      /\ Left(name) /\ \A x : x # name => (Left(x) <=> Left(x)')
      /\ \A x : Left(x)' => Follows(name, x)
      /\ item # NoItem /\ item.tries > 0 /\ name \in Program
      /\ h.failed => name \in {"finally", "sweep"}
  BY <1>1, WentCourse
<1>3. /\ TypeOK /\ Itemised /\ Course /\ Wiping /\ Served /\ BackedUp /\ Restored /\ Unstaged /\ Stored
      /\ Target \in Volumes /\ (item.kind = "backup" => attached = Target)
  BY <1>2, Working DEF Inv, Itemised
<1>d. data'[Target] = data[Target] \/ (data[Target].is = "absent" /\ data'[Target].is = "empty")
  <2>1. Target \in Volumes
    BY <1>3
  <2> QED BY <2>1
<1>4. ~Left("await") /\ ~Left("await")'
  BY <1>2 DEF Follows, Rank, Steps
<1>5. Good' = Good
  BY <1>2 DEF Good
<1>6. Wiping'
  BY <1>1, <1>2, <1>3, <1>5 DEF Wiping, AlreadyReplaced
<1>7. Served'
  <2>1. ASSUME Good, item.kind \in Serving \/ (item.kind = "wipe" /\ Target = attached)
        PROVE  /\ ~Left("provision")' => box' = Target
               /\ ~Left("ready")' => box' = Target /\ data'[Target].is = "cluster"
    <3>1. name # "dispose"
      BY <1>2, <2>1 DEF Program, Serving
    <3>a. /\ name # "provision" => (Left("provision") <=> Left("provision")')
          /\ name # "ready" => (Left("ready") <=> Left("ready")')
      BY <1>2
    <3>b. /\ ~Left("provision") => box = Target
          /\ ~Left("ready") => box = Target /\ data[Target].is = "cluster"
      BY <1>3, <2>1 DEF Served
    <3>c. data[Target].is = "cluster" => data'[Target].is = "cluster"
      BY <1>d
    <3>2. CASE name = "clear"
      BY <1>2, <1>3, <2>1, <3>2 DEF Course, Good
    <3>3. CASE name = "ready"
      <4>1. ~Left("provision")
        BY <1>2, <3>3 DEF Follows, Rank
      <4> QED BY <3>3, <3>a, <3>b, <3>c, <4>1 DEF Serves
    <3>4. CASE name = "provision"
      BY <3>4, <3>a, <3>b, <3>c
    <3>5. CASE name \notin {"clear", "ready", "provision"}
      BY <3>1, <3>5, <3>a, <3>b, <3>c
    <3> QED BY <3>2, <3>3, <3>4, <3>5
  <2>2. Good /\ item.kind = "wipe" /\ ~Left("check")' => data'[Target].is # "absent"
    <3>1. name # "check" => (Left("check") <=> Left("check")')
      BY <1>2
    <3>2. Good /\ item.kind = "wipe" /\ ~Left("check") => data[Target].is # "absent"
      BY <1>3 DEF Served
    <3>3. data[Target].is # "absent" => data'[Target].is # "absent"
      BY <1>d
    <3> QED BY <3>1, <3>2, <3>3
  <2>3. item.kind # "delete"
    BY <1>2 DEF Program
  <2>4. Good /\ item.kind = "restart" /\ ~Left("ready")' => Serves'
    <3> HAVE Good /\ item.kind = "restart" /\ ~Left("ready")'
    <3>1. name \in {"restart", "ready"} /\ box' = box
      BY <1>2 DEF Program
    <3>2. Serves
      BY <1>2, <1>3 DEF Served
    <3> QED BY <1>3, <3>1, <3>2 DEF Serves, TypeOK
  <2>5. Good /\ item.kind = "remove" => name = "dispose"
    BY <1>2, <1>4 DEF Program
  <2> QED BY <1>1, <1>2, <1>5, <2>1, <2>2, <2>3, <2>4, <2>5 DEF Served, known
<1>8. BackedUp'
  BY <1>1, <1>2, <1>3, <1>4, <1>5 DEF BackedUp, Awaits, known
<1>9. Restored'
  <2>1. Left("load")' <=> Left("load")
    BY <1>2
  <2>2. Good /\ item.kind \in Writing /\ ~Left("load") /\ engine # "mysql" => data'[Target] = Wanted
    <3>1. Good /\ item.kind \in Writing /\ ~Left("load") /\ engine # "mysql" => data[Target] = Wanted
      BY <1>3, <1>4 DEF Restored, Awaits
    <3>2. data[Target] = Wanted => data[Target].is # "absent"
      BY DEF Wanted, Cluster, Artifact
    <3> QED BY <1>d, <3>1, <3>2
  <2> QED BY <1>1, <1>2, <1>3, <1>4, <1>5, <2>1, <2>2 DEF Restored, Awaits
<1>10. Unstaged'
  <2>1. name = "stage" => Staging /\ (~h.failed => Left("finally"))
    BY <1>2, <1>3 DEF Program, Staging, Course
  <2> QED BY <1>1, <1>2, <1>3, <1>5, <2>1 DEF Unstaged, Good
<1> QED BY <1>2, <1>6, <1>7, <1>8, <1>9, <1>10 DEF Inv, Ground

(* A volume more that is empty, if there is a lease to account for it.       *)
LEMMA CountedMade ==
    ASSUME TypeOK, Itemised, Counted, item # NoItem, Same, h.on, born' = born, Left("erase")' => Left("erase"),
           data' = data \/ (data' = Created /\ ~Left("erase")')
    PROVE  Counted'
<1>1. CASE data' = data
  BY <1>1, CountedKept
<1>2. CASE data' = Created /\ data' # data /\ ~Left("erase")'
  <2>1. data[Target] = Absent /\ data' = [data EXCEPT ![Target] = Empty] /\ Target \in Volumes
    BY <1>2, Working DEF Created
  <2>2. data'[Target].is = "empty" /\ \A v \in Volumes : v # Target => data'[v] = data[v]
    BY <2>1, Typed DEF Empty
  <2>3. Empties' = Empties \cup {Target} /\ Target \notin Empties
    BY <2>1, <2>2 DEF Empties, Absent
  <2>4. Leases' = Leases /\ Target' = Target
    BY SameItem DEF Leases, Same
  <2>5. Credit = 1 /\ Credit' = 0
    BY <1>2, <2>1, <2>2, <2>4 DEF Credit, Absent
  <2>6. IsFiniteSet(Empties) /\ born \in Nat
    BY Typed DEF Counted
  <2>7. /\ IsFiniteSet(Empties') /\ Cardinality(Empties') = Cardinality(Empties) + 1
        /\ Cardinality(Empties) \in Nat
    BY <2>3, <2>6, FS_AddElement, FS_CardinalityType
  <2>8. Leases \in Int
    <3>1. issued \in Nat /\ item.tries \in Nat
      BY Typed DEF Item
    <3> QED BY <3>1 DEF Leases
  <2> QED BY <2>4, <2>5, <2>6, <2>7, <2>8 DEF Counted
<1> QED BY <1>1, <1>2

(* A step of the handler that makes a volume or moves the database.          *)
LEMMA GroundMade ==
    ASSUME Inv, h.on, TypeOK', UNCHANGED <<engine, task, receipt, item, known, born, staged>>,
           Left("erase")' => Left("erase"), data' = data \/ (data' = Created /\ ~Left("erase")'),
           \/ box' \in {box, NoVolume}
           \/ /\ box' = Target /\ data' = Created
              /\ item.gen # 0 => receipt[Target] = item.gen
    PROVE  Ground'
<1>0. TypeOK /\ Itemised /\ Traces /\ Stored /\ Wiped /\ Receipted /\ Counted /\ item # NoItem
  BY DEF Inv, Course
<1>1. Same /\ W' = W /\ Target' = Target /\ Target \in Volumes /\ Target # NoVolume
  BY <1>0, Working DEF Same, known, W, Target
<1>2. Itemised' /\ Traces'
  BY <1>0, <1>1 DEF Itemised, Traces, known
<1>3. \A v \in Volumes : data'[v] = data[v] \/ (data[v] = Absent /\ data'[v] = Empty /\ v = Target)
  BY <1>0, <1>1, Typed DEF Created
<1>4. data' = Created => data'[Target].is # "absent"
  <2>1. CASE data[Target] = Absent
    BY <1>1, <2>1, <1>0, Typed DEF Created, Empty
  <2>2. CASE data[Target] # Absent
    BY <1>1, <2>2, <1>0 DEF Created, Stored
  <2> QED BY <2>1, <2>2
<1>5. Stored'
  <2>1. ASSUME NEW w \in Ids, NEW v \in Volumes PROVE LoadedAt(w, v)'
    <3>1. LoadedAt(w, v)
      BY <1>0 DEF Stored
    <3>2. v \in task[w]["load"].mounts => data'[v] = data[v]
      BY <1>3, <3>1 DEF LoadedAt, Absent
    <3> QED BY <1>1, <3>1, <3>2 DEF LoadedAt
  <2>2. \A v \in Volumes : data'[v].is = "absent" => data'[v] = Absent
    BY <1>0, <1>3 DEF Stored, Empty
  <2>3. box' # NoVolume => data'[box'].is # "absent"
    <3>1. CASE box' = box /\ box # NoVolume
      <4>1. box \in Volumes /\ data[box].is # "absent"
        BY <1>0, <3>1 DEF Stored, TypeOK
      <4>2. data'[box] = data[box]
        BY <1>3, <4>1 DEF Absent
      <4> QED BY <3>1, <4>1, <4>2
    <3> QED BY <1>4, <3>1
  <2> QED BY <2>1, <2>2, <2>3 DEF Stored
<1>6. data'[Target] = data[Target] \/ (data[Target] = Absent /\ data'[Target] = Empty)
  BY <1>1, <1>3
<1>7. Wiped'
  BY <1>0, <1>1, <1>6 DEF Wiped, Empty
<1>8. Receipted'
  BY <1>0, <1>1, <1>6 DEF Receipted, Empty
<1>9. Counted'
  BY <1>0, <1>1, CountedMade
<1> QED BY <1>2, <1>5, <1>7, <1>8, <1>9 DEF Ground

----------------------------------------------------------------------------
(* The steps of a handler, one by one.                                       *)

(* What every step of a handler starts from.                                 *)
LEMMA AtWork ==
    ASSUME Inv, NEW name \in Steps, Step(name)
    PROVE  /\ TypeOK /\ Itemised /\ Course /\ h.on /\ item # NoItem /\ Target \in Volumes
           /\ Target # NoVolume /\ W \in Ids /\ Left(name) /\ name \in Program /\ item.tries > 0
           /\ ~h.failed \/ name \in {"finally", "sweep"}
           /\ faults \in 0 .. MaxFaults
<1>1. TypeOK /\ Itemised /\ Course /\ h.on /\ faults \in 0 .. MaxFaults
  BY Typed DEF Inv, Step
<1>2. Left(name)
  BY <1>1, Tails, LeftIn, Typed DEF Step
<1> QED BY <1>1, <1>2, Working DEF Course

(* A fault is counted, or there is none.                                    *)
LEMMA Faulted == ASSUME TypeOK, Fault \/ NoFault PROVE faults' \in 0 .. MaxFaults
  BY DEF TypeOK, Fault, NoFault

(* A step that did nothing to Docker but what it found out.                  *)
LEMMA WentQuiet ==
    ASSUME Inv, NEW name \in {"look", "verify", "ready", "restart", "check"}, Step(name), Went,
           UNCHANGED <<engine, docker, bucket, receipt, item, known, born>>, faults' \in 0 .. MaxFaults,
           name = "look" => ~AlreadyReplaced, name = "ready" => Serves,
           name = "check" => data[Target].is # "absent"
    PROVE  Inv'
<1>0. name \in Steps
  BY DEF Steps
<1>1. Same
  BY DEF Same, known
<1>2. h' \in Handler /\ h.on /\ TypeOK /\ Left("erase")' => Left("erase")
  BY <1>0, <1>1, WentCourse DEF Inv
<1>3. TypeOK'
  BY <1>0, <1>1, <1>2, WentCourse DEF TypeOK, Handler, docker, known, Inv
<1>4. Ground'
  BY <1>0, <1>1, <1>3, GroundKept, WentCourse DEF docker
<1> QED BY <1>0, <1>4, Onward DEF docker

(* An import verifies the artifact it fetched.                              *)
LEMMA VerifyInv == ASSUME Inv, Verify PROVE Inv'
<1>1. /\ Step("verify") /\ "verify" \in Steps
      /\ UNCHANGED <<engine, docker, bucket, receipt, item, known, born, faults>>
  BY DEF Verify, others, still, docker, known, Steps
<1> QED BY <1>1, AtWork, WentQuiet, FailedQuiet DEF Verify

(* Docker restarts the container, or cannot.                                *)
LEMMA RestartInv == ASSUME Inv, Restart PROVE Inv'
<1>1. /\ Step("restart") /\ "restart" \in Steps
      /\ UNCHANGED <<engine, docker, bucket, receipt, item, known, born>>
  BY DEF Restart, others, docker, known, Steps
<1>2. TypeOK /\ (Fault \/ NoFault)
  BY DEF Restart, Outcome, Inv
<1>3. faults' \in 0 .. MaxFaults
  BY <1>2, Faulted
<1> QED BY <1>1, <1>3, AtWork, WentQuiet, FailedQuiet DEF Restart, Outcome

(* The handler waits until the database serves.                             *)
LEMMA ReadyInv == ASSUME Inv, Ready PROVE Inv'
<1>1. /\ Step("ready") /\ "ready" \in Steps
      /\ UNCHANGED <<engine, docker, bucket, receipt, item, known, born>>
  BY DEF Ready, others, docker, known, Steps
<1>2. TypeOK /\ (Fault \/ NoFault)
  BY DEF Ready, Inv
<1>3. faults' \in 0 .. MaxFaults
  BY <1>2, Faulted
<1> QED BY <1>1, <1>3, AtWork, WentQuiet, FailedQuiet DEF Ready

(* A wipe ends on a volume that is there.                                   *)
LEMMA CheckInv == ASSUME Inv, Check PROVE Inv'
<1>1. /\ Step("check") /\ "check" \in Steps
      /\ UNCHANGED <<engine, docker, bucket, receipt, item, known, born, faults>>
  BY DEF Check, others, docker, known, Steps
<1> QED BY <1>1, AtWork, WentQuiet, FailedQuiet DEF Check

(* A wipe that finds its receipt goes on behind the erase                   *)
(* (handleWipeVolume).                                                      *)
LEMMA LookInv == ASSUME Inv, Look PROVE Inv'
<1>1. /\ Step("look") /\ "look" \in Steps
      /\ UNCHANGED <<engine, docker, bucket, receipt, item, known, born>>
  BY DEF Look, others, docker, known, Steps
<1>2. TypeOK /\ (Fault \/ NoFault)
  BY DEF Look, Inv
<1>3. faults' \in 0 .. MaxFaults
  BY <1>2, Faulted
<1>4. CASE Threw
  BY <1>1, <1>3, <1>4, AtWork, FailedQuiet
<1>5. CASE Went /\ ~AlreadyReplaced
  BY <1>1, <1>3, <1>5, WentQuiet
<1>6. CASE /\ AlreadyReplaced
           /\ h' = [h EXCEPT !.todo = IF Target = attached THEN <<"provision", "ready", "check">>
                                     ELSE <<"check">>]
  <2> DEFINE s == IF Target = attached THEN <<"provision", "ready", "check">> ELSE <<"check">>
             S == IF Target = attached THEN {"provision", "ready", "check"} ELSE {"check"}
  <2>1. IsList(s, S)
    BY Written
  <2>2. s \in Seq(Steps) /\ h \in Handler
    BY <1>2, <2>1, Typed DEF IsList
  <2>3. h' = [h EXCEPT !.todo = s]
    BY <1>6
  <2> HIDE DEF s
  <2>4. h' \in Handler /\ h'.todo = s /\ h'.on = h.on /\ h'.failed = h.failed /\ h'.at = h.at
    BY <2>2, <2>3 DEF Handler
  <2>5. Ordered(h'.todo) /\ \A x : Left(x)' <=> x \in S
    BY <2>1, <2>4, LeftIn DEF IsList
  <2> HIDE DEF S
  <2>6. S \subseteq {"provision", "ready", "check"} /\ "check" \in S
        /\ (Target = attached => S = {"provision", "ready", "check"})
    BY DEF S
  <2>7. /\ h.on /\ ~h.failed /\ item.kind = "wipe" /\ item.gen # 0 /\ receipt[Target] = item.gen
        /\ S \subseteq Program
    <3>1. item.kind = "wipe"
      BY <1>1, AtWork DEF Program
    <3>2. item.gen # 0 /\ receipt[Target] = item.gen
      BY <1>6 DEF AlreadyReplaced
    <3>3. h.on /\ ~h.failed
      BY <1>1, AtWork
    <3> QED BY <3>1, <3>2, <3>3 DEF Program, S
  <2>8. TypeOK'
    BY <1>1, <1>2, <1>3, <2>4 DEF TypeOK, Handler, docker, known
  <2>9. Ground'
    BY <1>1, <2>5, <2>6, <2>7, <2>8, GroundKept DEF docker
  <2>10. Same /\ W' = W /\ Target' = Target /\ Program' = Program /\ Staging' = Staging
    BY <1>1 DEF Same, known, Target, Program, Staging, W
  <2>11. Course'
    <3>1. item' # NoItem /\ item'.tries > 0
      BY <1>1, AtWork
    <3>2. (\A x \in Steps : Left(x) => x \in Program)'
      BY <2>5, <2>7, <2>10
    <3> QED BY <2>4, <2>5, <2>6, <2>7, <3>1, <3>2 DEF Course
  <2>12. Wiping'
    BY <1>1, <2>5, <2>6, <2>7, <2>10 DEF Wiping, Inv, Receipted
  <2>13. Served'
    BY <1>1, <2>5, <2>6, <2>7, <2>10 DEF Served, Serving, known
  <2>14. BackedUp' /\ Restored'
    <3>1. item'.kind = "wipe"
      BY <1>1, <2>7
    <3> QED BY <3>1 DEF BackedUp, Restored, Writing
  <2>15. Unstaged'
    <3>1. ~Staging /\ item # NoItem
      BY <1>1, <2>7, AtWork DEF Staging
    <3>2. W \notin staged
      BY <3>1 DEF Inv, Unstaged
    <3> QED BY <1>1, <2>10, <3>2 DEF Unstaged, docker
  <2> QED BY <2>9, <2>11, <2>12, <2>13, <2>14, <2>15 DEF Inv, Ground
<1> QED BY <1>4, <1>5, <1>6 DEF Look

(* What is left comes after the step the handler is at.                      *)
LEMMA First ==
    ASSUME Inv, NEW name \in Steps, Step(name)
    PROVE  \A x : Left(x) => x = name \/ Follows(name, x)
<1>1. h.todo \in Seq(Steps) /\ h.todo # <<>> /\ Head(h.todo) = name /\ Ordered(h.todo)
  BY Typed DEF Inv, Course, Step
<1> QED BY <1>1, Tails, LeftIn

(* The container of the volume, if any, is removed first.                   *)
LEMMA ClearInv == ASSUME Inv, Clear PROVE Inv'
<1>1. /\ Step("clear") /\ "clear" \in Steps
      /\ UNCHANGED <<engine, data, task, staged, bucket, receipt, item, known, born>>
  BY DEF Clear, others, known, Steps
<1>2. /\ TypeOK /\ (Fault \/ NoFault) /\ box' \in {box, NoVolume}
      /\ (Went /\ NoFault) \/ (Threw /\ Fault)
  BY DEF Clear, Inv
<1>3. faults' \in 0 .. MaxFaults /\ Same
  BY <1>1, <1>2, Faulted DEF Same, known
<1>4. h' \in Handler /\ (Left("erase")' => Left("erase")) /\ h.on
  BY <1>1, <1>2, <1>3, AtWork, WentCourse, FailedCourse
<1>5. TypeOK'
  BY <1>1, <1>2, <1>3, <1>4 DEF TypeOK, Handler, known
<1>6. Ground'
  BY <1>1, <1>2, <1>4, <1>5, GroundMade
<1>7. CASE Went
  BY <1>1, <1>2, <1>6, <1>7, Onward DEF known
<1>8. CASE Threw
  BY <1>1, <1>3, <1>4, <1>6, <1>8, FailedInv
<1> QED BY <1>2, <1>7, <1>8

(* A remove takes the container away, and leaves the volume.                *)
LEMMA DisposeInv == ASSUME Inv, Dispose PROVE Inv'
<1>1. /\ Step("dispose") /\ "dispose" \in Steps
      /\ UNCHANGED <<engine, data, task, staged, bucket, receipt, item, known, born>>
  BY DEF Dispose, others, known, Steps
<1>2. /\ TypeOK /\ (Fault \/ NoFault) /\ box' \in {box, NoVolume}
      /\ (Went /\ box' = NoVolume) \/ Threw
  BY DEF Dispose, Outcome, Inv
<1>3. faults' \in 0 .. MaxFaults /\ Same
  BY <1>1, <1>2, Faulted DEF Same, known
<1>4. h' \in Handler /\ (Left("erase")' => Left("erase")) /\ h.on
  BY <1>1, <1>2, <1>3, AtWork, WentCourse, FailedCourse
<1>5. TypeOK'
  BY <1>1, <1>2, <1>3, <1>4 DEF TypeOK, Handler, known
<1>6. Ground'
  BY <1>1, <1>2, <1>4, <1>5, GroundMade
<1>7. CASE Went /\ box' = NoVolume
  BY <1>1, <1>2, <1>6, <1>7, Onward DEF known
<1>8. CASE Threw
  BY <1>1, <1>3, <1>4, <1>6, <1>8, FailedInv
<1> QED BY <1>2, <1>7, <1>8

(* What a volume is once createVolume has returned.                          *)
LEMMA CreatedType ==
    ASSUME TypeOK, Target \in Volumes
    PROVE  /\ Created \in [Volumes -> Content]
           /\ \A v \in Volumes : Created[v] = data[v] \/ (data[v].is = "absent" /\ Created[v].is = "empty")
<1>1. Empty \in Content /\ 0 \in Clusters
  BY Typed DEF Empty, Content, Clusters
<1>2. data \in [Volumes -> Content]
  BY Typed
<1>3. Created \in [Volumes -> Content]
  BY <1>1, <1>2 DEF Created
<1>4. ASSUME NEW v \in Volumes
      PROVE Created[v] = data[v] \/ (data[v].is = "absent" /\ Created[v].is = "empty")
  BY <1>2 DEF Created, Absent, Empty
<1> QED BY <1>3, <1>4

(* A volume that is not there is made empty.                                *)
LEMMA MakeInv == ASSUME Inv, Make PROVE Inv'
<1>1. /\ Step("make") /\ "make" \in Steps
      /\ UNCHANGED <<engine, box, task, staged, bucket, receipt, item, known, born>>
  BY DEF Make, others, known, Steps
<1>2. /\ TypeOK /\ (Fault \/ NoFault) /\ (data' = data \/ data' = Created)
      /\ Went \/ Threw
  BY DEF Make, Outcome, Inv
<1>3. faults' \in 0 .. MaxFaults /\ Same /\ Target \in Volumes
  BY <1>1, <1>2, Faulted, AtWork DEF Same, known
<1>4. h' \in Handler /\ ~Left("erase")' /\ h.on
  <2>1. ~Follows("make", "erase")
    BY DEF Follows, Rank
  <2> QED BY <1>1, <1>2, <1>3, <2>1, AtWork, WentCourse, FailedCourse
<1>5. TypeOK'
  BY <1>1, <1>2, <1>3, <1>4, CreatedType DEF TypeOK, Handler, known
<1>6. Ground'
  BY <1>1, <1>2, <1>4, <1>5, GroundMade
<1>7. CASE Went
  BY <1>1, <1>2, <1>3, <1>6, <1>7, CreatedType, Onward DEF known
<1>8. CASE Threw
  BY <1>1, <1>3, <1>4, <1>6, <1>8, FailedInv
<1> QED BY <1>2, <1>7, <1>8

(* A container is created for the volume of the item, which is made if it   *)
(* is not there.                                                            *)
LEMMA ProvisionInv == ASSUME Inv, Provision PROVE Inv'
<1>1. /\ Step("provision") /\ "provision" \in Steps
      /\ UNCHANGED <<engine, task, staged, bucket, receipt, item, known, born>>
  BY DEF Provision, others, known, Steps
<1>2. /\ TypeOK /\ (Fault \/ NoFault)
      /\ \/ data' = Created /\ box' = Target /\ (Went \/ Threw)
         \/ data' = Created /\ box' = NoVolume /\ Threw
         \/ data' = data /\ box' = box /\ Threw
  BY DEF Provision, Outcome, Inv
<1>3. faults' \in 0 .. MaxFaults /\ Same /\ Target \in Volumes
  BY <1>1, <1>2, Faulted, AtWork DEF Same, known
<1>4. h' \in Handler /\ ~Left("erase")' /\ h.on
  <2>1. ~Follows("provision", "erase")
    BY DEF Follows, Rank
  <2> QED BY <1>1, <1>2, <1>3, <2>1, AtWork, WentCourse, FailedCourse
<1>5. TypeOK'
  BY <1>1, <1>2, <1>3, <1>4, CreatedType DEF TypeOK, Handler, known
<1>6. item.gen # 0 => receipt[Target] = item.gen
  <2>1. ~Left("receipt")
    <3>1. ~Follows("provision", "receipt") /\ "receipt" # "provision"
      BY DEF Follows, Rank
    <3>2. CASE Left("receipt")
      BY <1>1, <3>1, <3>2, First
    <3> QED BY <3>2
  <2>2. Good
    BY <1>1, AtWork DEF Good
  <2> QED BY <2>1, <2>2 DEF Inv, Wiping
<1>7. Ground'
  BY <1>1, <1>2, <1>4, <1>5, <1>6, GroundMade
<1>8. CASE Went /\ data' = Created /\ box' = Target
  BY <1>1, <1>2, <1>3, <1>7, <1>8, CreatedType, Onward DEF known
<1>9. CASE Threw
  BY <1>1, <1>3, <1>4, <1>7, <1>9, FailedInv
<1> QED BY <1>2, <1>8, <1>9

(* A step that only makes or removes the staging volume.                     *)
LEMMA StagingInv ==
    ASSUME Inv, NEW name \in {"unstage", "stage", "finally"}, Step(name), Went, faults' \in 0 .. MaxFaults,
           UNCHANGED <<engine, data, box, task, bucket, receipt, item, known, born>>,
           staged' = staged \ {W} \/ (name = "stage" /\ staged' = staged \cup {W})
    PROVE  Inv'
<1>0. name \in Steps /\ TypeOK
  BY DEF Steps, Inv
<1>1. Same
  BY DEF Same, known
<1>2. h' \in Handler /\ h.on /\ (Left("erase")' => Left("erase")) /\ W \in Ids
  BY <1>0, <1>1, WentCourse, AtWork
<1>3. TypeOK'
  BY <1>0, <1>2 DEF TypeOK, Handler, known
<1>4. Ground'
  BY <1>1, <1>2, <1>3, GroundKept
<1> QED BY <1>0, <1>4, Onward

(* A stage volume left by an earlier attempt is removed.                    *)
LEMMA UnstageInv == ASSUME Inv, Unstage PROVE Inv'
<1>1. /\ Step("unstage") /\ "unstage" \in Steps
      /\ UNCHANGED <<engine, data, box, task, bucket, receipt, item, known, born>>
  BY DEF Unstage, others, still, known, Steps
<1>2. /\ TypeOK /\ (Fault \/ NoFault)
      /\ (Went /\ staged' = staged \ {W}) \/ (Threw /\ UNCHANGED staged)
  BY DEF Unstage, Inv
<1>3. faults' \in 0 .. MaxFaults
  BY <1>2, Faulted
<1> QED BY <1>1, <1>2, <1>3, AtWork, StagingInv, FailedQuiet DEF docker

(* The stage volume is made.                                                *)
LEMMA StageInv == ASSUME Inv, Stage PROVE Inv'
<1>1. /\ Step("stage") /\ "stage" \in Steps
      /\ UNCHANGED <<engine, data, box, task, bucket, receipt, item, known, born>>
  BY DEF Stage, others, still, known, Steps
<1>2. /\ TypeOK /\ (Fault \/ NoFault)
      /\ (Went /\ staged' = staged \cup {W}) \/ (Threw /\ UNCHANGED staged)
  BY DEF Stage, Inv
<1>3. faults' \in 0 .. MaxFaults
  BY <1>2, Faulted
<1> QED BY <1>1, <1>2, <1>3, AtWork, StagingInv, FailedQuiet DEF docker

(* The finally removes the stage volume.                                    *)
LEMMA FinallyInv == ASSUME Inv, Finally PROVE Inv'
<1>1. /\ Step("finally") /\ "finally" \in Steps
      /\ UNCHANGED <<engine, data, box, task, bucket, receipt, item, known, born>>
  BY DEF Finally, others, still, known, Steps
<1>2. /\ TypeOK /\ (Fault \/ NoFault)
      /\ (Went /\ staged' = staged \ {W}) \/ (ThrewForGood /\ UNCHANGED staged)
  BY DEF Finally, Inv
<1>3. faults' \in 0 .. MaxFaults
  BY <1>2, Faulted
<1> QED BY <1>1, <1>2, <1>3, AtWork, StagingInv, FailedQuiet DEF docker

(* The artifact an import brought is read by nothing any more when it goes.  *)
LEMMA SweepInv == ASSUME Inv, Sweep PROVE Inv'
<1>1. /\ Step("sweep") /\ "sweep" \in Steps /\ Went /\ TypeOK
      /\ UNCHANGED <<engine, docker, receipt, item, known, born, faults>>
      /\ bucket' \in {bucket, [bucket EXCEPT ![W] = NoObject]}
  BY DEF Sweep, still, docker, known, Steps, Inv
<1>2. Same /\ W' = W /\ Target' = Target /\ Staging' = Staging
  BY <1>1 DEF Same, known, W, Target, Staging
<1>3. /\ Course' /\ h'.at = h.at /\ h'.on /\ h.on /\ h'.failed = h.failed /\ h' \in Handler
      /\ Left("sweep") /\ \A x : x # "sweep" => (Left(x) <=> Left(x)')
      /\ \A x : Left(x)' => Follows("sweep", x)
      /\ item # NoItem /\ item.tries > 0 /\ "sweep" \in Program
  BY <1>1, <1>2, WentCourse
<1>4. item.kind = "import" /\ W \in Ids /\ Target \in Volumes
  BY <1>1, <1>3, AtWork DEF Program
<1>5. \A x \in Steps : ~Left(x)'
  BY <1>3 DEF Follows, Rank, Steps
<1>6. TypeOK'
  <2>1. NoObject \in [is: {"none", "unchecked", "good"}, id: Clusters]
    BY Typed, <1>1 DEF NoObject, Clusters
  <2>2. bucket' \in [Ids -> [is: {"none", "unchecked", "good"}, id: Clusters]]
    BY <1>1, <1>4, <2>1, Typed
  <2> QED BY <1>1, <1>3, <2>2 DEF TypeOK, Handler, docker, known
<1>7. Ground'
  BY <1>1, <1>3, <1>5, <1>6, GroundKept DEF docker
<1>8. /\ Good' = Good /\ "load" \in Steps /\ "await" \in Steps /\ "finally" \in Steps
      /\ "sweep" # "load" /\ "sweep" # "finally"
  BY <1>3 DEF Good, Steps
<1>9. Wiping' /\ Served' /\ BackedUp'
  BY <1>1, <1>4 DEF Wiping, Served, BackedUp, Serving, Inv, Itemised
<1>10. Restored'
  <2>1. ~Left("load")' /\ ~Left("load") /\ item.tries # 0 /\ ~Left("await")' /\ ~Left("await")
    <3>1. ~Left("load")' /\ ~Left("await")'
      BY <1>5, <1>8
    <3>2. item.tries # 0
      BY <1>1, <1>3, Typed DEF Item
    <3> QED BY <1>1, <1>3, <1>8, <3>1, <3>2
  <2>2. Good /\ engine # "mysql" => data[Target] = Wanted
    BY <1>4, <2>1 DEF Inv, Restored, Writing, Awaits
  <2>3. Wanted' = Wanted
    BY <1>1, <1>4 DEF Wanted
  <2> QED BY <1>1, <1>2, <1>4, <1>8, <2>1, <2>2, <2>3 DEF Restored, Awaits, docker
<1>11. Unstaged'
  BY <1>1, <1>2, <1>3, <1>8 DEF Unstaged, Inv, docker
<1> QED BY <1>3, <1>7, <1>9, <1>10, <1>11 DEF Inv, Ground

(* No more clusters are initialised than items were leased.                  *)
LEMMA BornSmall ==
    ASSUME TypeOK, Itemised, Counted
    PROVE  born < Foreign /\ born + Cardinality(Empties) < Foreign /\ Cardinality(Empties) \in Nat
<1>1. /\ issued \in Nat /\ issued <= MaxWork /\ item.tries \in Nat /\ item.tries <= MaxTries
      /\ MaxWork \in Nat /\ MaxTries \in Nat /\ born \in Nat
  BY Typed DEF Item
<1>2. \A i, j \in Nat : i <= j => i * MaxTries <= j * MaxTries
  BY <1>1
<1>3. /\ issued * MaxTries <= MaxWork * MaxTries /\ issued * MaxTries \in Nat
      /\ MaxWork * MaxTries \in Nat
  BY <1>1, <1>2
<1>4. Leases <= MaxWork * MaxTries /\ Leases \in Int
  <2>1. CASE item = NoItem
    BY <1>3, <2>1 DEF Leases
  <2>2. CASE item # NoItem
    <3>1. /\ (issued - 1) * MaxTries + item.tries <= issued * MaxTries
          /\ (issued - 1) * MaxTries \in Int
      <4>1. (issued - 1) * MaxTries = issued * MaxTries - MaxTries
        BY <1>1
      <4> QED BY <1>1, <1>3, <4>1
    <3> QED BY <1>1, <1>3, <2>2, <3>1 DEF Leases
  <2> QED BY <2>1, <2>2
<1>5. IsFiniteSet(Empties) /\ Cardinality(Empties) \in Nat
  BY FS_CardinalityType DEF Counted
<1>6. Credit \in {0, 1}
  BY DEF Credit
<1> QED BY <1>1, <1>3, <1>4, <1>5, <1>6 DEF Counted, Foreign

(* The volume is gone: nothing used it.                                      *)
LEMMA GroundErased ==
    ASSUME Inv, Step("erase"), TypeOK', ~InUse(Target), h'.on,
           data' = [data EXCEPT ![Target] = Absent], item' = [item EXCEPT !.emptied = born],
           UNCHANGED <<engine, box, task, staged, receipt, known, born>>
    PROVE  Ground'
<1>0. /\ TypeOK /\ Itemised /\ Traces /\ Stored /\ Wiped /\ Receipted /\ Counted /\ item # NoItem
      /\ Target \in Volumes /\ "erase" \in Program /\ Left("erase") /\ h.on
  BY AtWork DEF Inv, Steps
<1>1. Same
  BY DEF Same, known
<1>2. /\ W' = W /\ Target' = Target /\ item'.kind = item.kind /\ item'.from = item.from
      /\ item'.gen = item.gen /\ item'.tries = item.tries /\ item' # NoItem /\ item'.id = item.id
      /\ item'.emptied = born
  BY <1>0, <1>1, SameItem, Typed DEF Item, W
<1>3. item.kind \in {"wipe", "delete"} /\ born # Foreign /\ born \in Nat
  BY <1>0, BornSmall, Typed DEF Program
<1>4. Itemised'
  BY <1>0, <1>2, <1>3 DEF Itemised, Writing, known
<1>5. Traces'
  BY <1>0, <1>2 DEF Traces, known
<1>6. /\ data'[Target] = Absent /\ \A v \in Volumes : v # Target => data'[v] = data[v]
      /\ Absent.is = "absent"
  BY <1>0, Typed DEF Absent
<1>7. box # Target /\ \A w \in Ids : Target \notin task[w]["load"].mounts
  BY DEF InUse, Names
<1>8. Stored'
  <2>1. ASSUME NEW w \in Ids, NEW v \in Volumes PROVE LoadedAt(w, v)'
    <3>1. LoadedAt(w, v)
      BY <1>0 DEF Stored
    <3>2. v \in task[w]["load"].mounts => data'[v] = data[v]
      BY <1>6, <1>7
    <3> QED BY <1>2, <3>1, <3>2 DEF LoadedAt
  <2>2. \A v \in Volumes : data'[v].is = "absent" => data'[v] = Absent
    BY <1>0, <1>6 DEF Stored
  <2>3. box # NoVolume => data'[box].is # "absent"
    BY <1>0, <1>6, <1>7 DEF Stored, TypeOK
  <2> QED BY <2>1, <2>2, <2>3 DEF Stored
<1>9. Wiped'
  BY <1>2, <1>3, <1>6, <1>7 DEF Wiped
<1>10. Receipted'
  BY <1>2, <1>3, <1>6, <1>7 DEF Receipted
<1>11. Counted'
  <2>1. Empties' \subseteq Empties
    BY <1>6 DEF Empties
  <2>2. IsFiniteSet(Empties)
    BY <1>0 DEF Counted
  <2>3. /\ IsFiniteSet(Empties') /\ Cardinality(Empties') <= Cardinality(Empties)
        /\ Cardinality(Empties) \in Nat /\ Cardinality(Empties') \in Nat
    BY <2>1, <2>2, FS_Subset, FS_CardinalityType
  <2>4. Credit = 1 /\ Credit' \in {0, 1}
    BY <1>0 DEF Credit
  <2>5. Leases' = Leases /\ Leases \in Int
    <3>1. issued \in Nat /\ item.tries \in Nat
      BY <1>0, Typed DEF Item
    <3> QED BY <1>0, <1>2, <3>1 DEF Leases, known
  <2> QED BY <1>0, <1>3, <2>3, <2>4, <2>5 DEF Counted
<1> QED BY <1>4, <1>5, <1>8, <1>9, <1>10, <1>11 DEF Ground

(* A volume no container has is removed.                                    *)
LEMMA EraseInv == ASSUME Inv, Erase PROVE Inv'
<1>1. /\ Step("erase") /\ "erase" \in Steps /\ TypeOK /\ (Fault \/ NoFault)
      /\ UNCHANGED <<box, task, staged, receipt, born, engine, bucket, known>>
      /\ \/ /\ ~InUse(Target) /\ (Went \/ Threw)
            /\ data' = [data EXCEPT ![Target] = Absent] /\ item' = [item EXCEPT !.emptied = born]
         \/ Threw /\ UNCHANGED <<data, item>>
  BY DEF Erase, Outcome, Steps, Inv
<1>2. /\ faults' \in 0 .. MaxFaults /\ h.on /\ Target \in Volumes /\ item # NoItem /\ "erase" \in Program
      /\ Left("erase") /\ Itemised /\ Course /\ Counted /\ ~h.failed
  BY <1>1, Faulted, AtWork DEF Inv
<1>3. CASE Threw /\ UNCHANGED <<data, item>>
  BY <1>1, <1>2, <1>3, FailedQuiet DEF docker
<1>4. CASE /\ ~InUse(Target) /\ (Went \/ Threw)
           /\ data' = [data EXCEPT ![Target] = Absent] /\ item' = [item EXCEPT !.emptied = born]
  <2>1. Same
    BY <1>1, <1>4 DEF Same, known
  <2>2. h' \in Handler /\ h'.on
    BY <1>1, <1>2, <1>4, <2>1, WentCourse, FailedCourse
  <2>3. TypeOK'
    <3>1. item' \in Item
      BY <1>1, <1>2, <2>1, SameItem
    <3>2. Absent \in Content
      BY <1>1, Typed DEF Absent, Content, Clusters
    <3>3. data' \in [Volumes -> Content]
      BY <1>1, <1>4, <3>2, Typed
    <3> QED BY <1>1, <1>2, <2>2, <3>1, <3>3 DEF TypeOK, Handler, known
  <2>4. Ground'
    BY <1>1, <1>4, <2>2, <2>3, GroundErased
  <2>5. CASE Threw
    BY <1>1, <1>2, <2>1, <2>4, <2>5, FailedInv
  <2>6. CASE Went
    <3>1. /\ Course' /\ h'.failed = h.failed
          /\ \A x : x # "erase" => (Left(x) <=> Left(x)')
          /\ \A x : Left(x)' => Follows("erase", x)
      BY <1>1, <2>1, <2>6, WentCourse
    <3>2. /\ W' = W /\ Target' = Target /\ item'.kind = item.kind /\ item'.gen = item.gen
          /\ item'.emptied = born /\ Staging' = Staging
      BY <1>1, <1>2, <1>4, <2>1, SameItem, Typed DEF Item
    <3>3. item.kind \in {"wipe", "delete"} /\ born # Foreign /\ ~Left("erase")'
      <4>1. ~Follows("erase", "erase")
        BY DEF Follows, Rank
      <4> QED BY <1>1, <1>2, <3>1, <4>1, BornSmall, Typed DEF Program
    <3>4. data'[Target] = Absent /\ Absent.is = "absent" /\ box # Target
      BY <1>1, <1>2, <1>4, Typed DEF Absent, InUse
    <3>5. Good /\ Good' /\ Wiping /\ Served /\ Unstaged
      BY <1>2, <2>2, <3>1 DEF Good, Inv
    <3>6. Wiping'
      BY <1>1, <3>1, <3>2, <3>3, <3>5 DEF Wiping
    <3>7. Served'
      <4>1. item.kind = "wipe" => Left("check") /\ Left("check")'
        BY <1>2, <3>1 DEF Course
      <4>2. item.kind = "wipe" /\ Target = attached =>
              Left("provision") /\ Left("ready") /\ Left("provision")' /\ Left("ready")'
        BY <3>1, <3>4, <3>5 DEF Served
      <4> QED BY <1>1, <3>2, <3>3, <3>4, <4>1, <4>2 DEF Served, Serving, known
    <3>8. BackedUp' /\ Restored'
      BY <3>2, <3>3 DEF BackedUp, Restored, Writing
    <3>9. Unstaged'
      <4>1. ~Staging
        BY <3>3 DEF Staging
      <4>2. W \notin staged
        BY <1>2, <3>5, <4>1 DEF Unstaged
      <4> QED BY <1>1, <3>2, <4>2 DEF Unstaged
    <3> QED BY <2>4, <3>1, <3>6, <3>7, <3>8, <3>9 DEF Inv, Ground
  <2> QED BY <1>4, <2>5, <2>6
<1> QED BY <1>1, <1>3, <1>4

(* The receipt of a wipe is written when the volume has been erased.        *)
LEMMA WriteReceiptInv == ASSUME Inv, WriteReceipt PROVE Inv'
<1>1. /\ Step("receipt") /\ "receipt" \in Steps /\ TypeOK /\ (Fault \/ NoFault)
      /\ UNCHANGED <<data, box, task, staged, bucket, item, born, engine, known>>
      /\ \/ Went /\ receipt' = IF item.gen = 0 THEN receipt ELSE [receipt EXCEPT ![Target] = item.gen]
         \/ Threw /\ UNCHANGED receipt
  BY DEF WriteReceipt, others, Steps, Inv
<1>2. /\ faults' \in 0 .. MaxFaults /\ h.on /\ Target \in Volumes /\ item # NoItem /\ "receipt" \in Program
      /\ Left("receipt") /\ Itemised /\ Course /\ Counted /\ ~h.failed
  BY <1>1, Faulted, AtWork DEF Inv
<1>3. CASE Threw /\ UNCHANGED receipt
  BY <1>1, <1>2, <1>3, FailedQuiet DEF docker
<1>4. CASE Went /\ receipt' = IF item.gen = 0 THEN receipt ELSE [receipt EXCEPT ![Target] = item.gen]
  <2>1. Same /\ W' = W /\ Target' = Target /\ Staging' = Staging
    BY <1>1 DEF Same, known, W, Target, Staging
  <2>2. /\ Course' /\ h'.failed = h.failed /\ h' \in Handler /\ h'.on
        /\ \A x : x # "receipt" => (Left(x) <=> Left(x)')
        /\ \A x : Left(x)' => Follows("receipt", x)
    BY <1>1, <1>4, <2>1, WentCourse
  <2>3. /\ item.kind = "wipe" /\ ~Left("erase") /\ ~Left("erase")' /\ ~Left("receipt")'
        /\ Good /\ Good'
    <3>1. ~Follows("receipt", "erase") /\ ~Follows("receipt", "receipt") /\ "erase" # "receipt"
      BY DEF Follows, Rank
    <3> QED BY <1>1, <1>2, <2>2, <3>1 DEF Program, Good
  <2>4. /\ item.gen \in 0 .. MaxWork /\ (item.gen # 0 => item.gen = issued)
        /\ receipt \in [Volumes -> 0 .. MaxWork]
    BY <1>1, <1>2, Working, Typed DEF Itemised, Item
  <2>5. /\ receipt' \in [Volumes -> 0 .. MaxWork]
        /\ item.gen # 0 => receipt'[Target] = item.gen
        /\ \A v \in Volumes : receipt'[v] = receipt[v] \/ (item.gen # 0 /\ receipt'[v] = item.gen)
    BY <1>2, <1>4, <2>4
  <2>6. TypeOK'
    BY <1>1, <1>2, <2>2, <2>5 DEF TypeOK, Handler, known
  <2>7. item.emptied # Foreign
    BY <2>3 DEF Inv, Wiping
  <2>8. Traces'
    <3>1. Traces /\ issued \in Nat
      BY <1>1, Typed DEF Inv
    <3>2. \A v \in Volumes : receipt'[v] <= issued
      BY <2>4, <2>5, <3>1 DEF Traces
    <3> QED BY <1>1, <2>1, <3>1, <3>2 DEF Traces, known
  <2>9. Itemised' /\ Wiped' /\ Counted'
    <3>1. Itemised' /\ Wiped'
      BY <1>1, <2>1 DEF Inv, Itemised, Wiped, known
    <3> QED BY <1>1, <1>2, <2>1, <2>3, <3>1, CountedKept
  <2>10. Stored'
    <3>1. ASSUME NEW w \in Ids, NEW v \in Volumes PROVE LoadedAt(w, v)'
      <4>1. LoadedAt(w, v)
        BY DEF Inv, Stored
      <4> QED BY <1>1, <2>1, <4>1 DEF LoadedAt
    <3> QED BY <1>1, <3>1 DEF Inv, Stored
  <2>11. Receipted'
    BY <1>1, <2>1, <2>5, <2>7 DEF Receipted
  <2>12. Wiping'
    BY <1>1, <2>1, <2>3, <2>5, <2>7 DEF Wiping
  <2>13. Served'
    <3>1. /\ Left("provision") <=> Left("provision")'
          /\ Left("ready") <=> Left("ready")'
          /\ Left("check") <=> Left("check")'
      BY <2>2
    <3> QED BY <1>1, <2>1, <2>3, <3>1 DEF Inv, Served, Serving, known
  <2>14. BackedUp' /\ Restored'
    BY <1>1, <2>3 DEF BackedUp, Restored, Writing
  <2>15. Unstaged'
    <3>1. ~Staging
      BY <2>3 DEF Staging
    <3>2. W \notin staged
      BY <1>2, <3>1 DEF Inv, Unstaged
    <3> QED BY <1>1, <2>1, <3>2 DEF Unstaged
  <2> QED BY <2>2, <2>6, <2>8, <2>9, <2>10, <2>11, <2>12, <2>13, <2>14, <2>15 DEF Inv
<1> QED BY <1>1, <1>3, <1>4

----------------------------------------------------------------------------
(* The steps that start a task, and the wait for it.                         *)

(* The steps that start a task.                                             *)
Launches == {"dump", "upload", "fetch", "load"}

(* A handler that starts a task waits for it.                               *)
LEMMA LaunchCourse ==
    ASSUME Inv, NEW name \in Launches, Step(name), Same, UNCHANGED item,
           NEW n \in Names, NEW mounts, NEW stage, NEW result, Run(n, mounts, stage, result)
    PROVE  /\ Course' /\ h'.at = n /\ h'.on /\ h.on /\ ~h'.failed /\ ~h.failed /\ h' \in Handler
           /\ Left(name) /\ \A x : x \notin {name, "await"} => (Left(x) <=> Left(x)')
           /\ \A x : Left(x)' /\ x # "await" => Follows(name, x)
           /\ Left("await")' /\ ~Left("await")
           /\ item # NoItem /\ item.tries > 0 /\ name \in Program
           /\ item.kind \in {"backup", "restore", "pitr", "import"}
           /\ W' = W /\ Target' = Target /\ Staging' = Staging
<1>0. /\ TypeOK /\ Course /\ Itemised /\ name \in Steps \ {"await"} /\ item # NoItem /\ item.tries > 0
      /\ name \in Program /\ ~h.failed
  BY AtWork DEF Launches, Steps
<1>1. /\ h'.at = n /\ h'.on /\ h.on /\ h'.failed = h.failed /\ h' \in Handler
      /\ Left(name) /\ \A x : x \notin {name, "await"} => (Left(x) <=> Left(x)')
      /\ \A x : Left(x)' /\ x # "await" => Left(x) /\ Follows(name, x)
      /\ Left("await")' /\ Ordered(h'.todo)
  BY <1>0, Launch DEF Course
<1>2. item.kind \in {"backup", "restore", "pitr", "import"}
  BY <1>0 DEF Program, Launches, TypeOK, Item
<1>3. "await" \in Program
  BY <1>2 DEF Program
<1>4. W' = W /\ Target' = Target /\ Staging' = Staging /\ Program' = Program
  BY DEF Same, W, Target, Staging, Program
<1>5. ~Left("await")
  <2>1. \A x : Left(x) => x = name \/ Follows(name, x)
    BY <1>0, First
  <2>2. ~Follows(name, "await") /\ name # "await"
    BY DEF Follows, Rank, Launches
  <2> QED BY <2>1, <2>2
<1>6. \A x \in Steps : Left(x)' => x \in Program'
  BY <1>0, <1>1, <1>3, <1>4 DEF Course
<1>7. /\ Left("stage")' => Left("finally")'
      /\ Left("clear")' => Left("provision")' /\ Left("ready")'
      /\ Left("erase")' /\ item.kind = "wipe" => Left("check")'
  BY <1>0, <1>1, <1>2 DEF Course, Launches
<1>8. Course'
  BY <1>0, <1>1, <1>6, <1>7 DEF Course
<1> QED BY <1>0, <1>1, <1>2, <1>4, <1>5, <1>8

(* A task only writes its own entry.                                         *)
LEMMA RunTask ==
    ASSUME TypeOK, W \in Ids, NEW n \in Names, NEW mounts \in SUBSET Volumes, NEW stage \in BOOLEAN,
           NEW result \in Content, Run(n, mounts, stage, result)
    PROVE  /\ task' \in [Ids -> [Names -> Task]]
           /\ task'[W][n] = [run |-> "running", stage |-> stage, mounts |-> mounts, result |-> result]
           /\ \A m \in Names : m # n => task'[W][m] = task[W][m]
           /\ \A w \in Ids : w # W => task'[w] = task[w]
<1> DEFINE t == [run |-> "running", stage |-> stage, mounts |-> mounts, result |-> result]
<1>1. t \in Task
  BY DEF Task
<1> HIDE DEF t
<1>2. task' = [task EXCEPT ![W][n] = t] /\ task \in [Ids -> [Names -> Task]]
  BY Typed DEF Run, t
<1> QED BY <1>1, <1>2 DEF t

(* A backup, a restore or an import owes nothing about wipes and            *)
(* containers.                                                              *)
LEMMA CopyServed ==
    ASSUME Inv, item # NoItem, item.kind \in {"backup", "restore", "pitr", "import"}, UNCHANGED item
    PROVE  Wiping' /\ Served'
<1>1. item.gen = 0 /\ item'.kind \in {"backup", "restore", "pitr", "import"}
  BY DEF Inv, Itemised
<1> QED BY <1>1 DEF Wiping, Served, Serving

(* What is dumped or uploaded is what a volume holds, or nothing.           *)
LEMMA LiveType == ASSUME TypeOK, attached \in Volumes PROVE Live \in Content
<1>1. Absent \in Content
  BY Typed DEF Absent, Content, Clusters
<1>2. data \in [Volumes -> Content]
  BY DEF TypeOK
<1> QED BY <1>1, <1>2 DEF Live

(* A task that neither uploads nor loads.                                    *)
LEMMA LaunchInv ==
    ASSUME Inv, NEW name \in {"dump", "fetch"}, Step(name),
           NEW mounts \in SUBSET Volumes, NEW stage \in BOOLEAN, NEW result \in Content,
           Run(name, mounts, stage, result),
           UNCHANGED <<engine, data, box, staged, bucket, receipt, item, known, born, faults>>
    PROVE  Inv'
<1>0. /\ name \in Launches /\ name \in Names /\ name \in Steps /\ TypeOK /\ name # "upload"
      /\ name # "load"
      /\ name # "finally"
  BY DEF Launches, Names, Steps, Inv
<1>1. Same /\ W \in Ids
  BY <1>0, AtWork DEF Same, known
<1>2. /\ Course' /\ h'.at = name /\ h'.on /\ h.on /\ ~h'.failed /\ ~h.failed /\ h' \in Handler
      /\ \A x : x \notin {name, "await"} => (Left(x) <=> Left(x)')
      /\ Left("await")' /\ ~Left("await") /\ item # NoItem
      /\ item.kind \in {"backup", "restore", "pitr", "import"}
      /\ W' = W /\ Target' = Target /\ Staging' = Staging
  BY <1>0, <1>1, LaunchCourse
<1>3. /\ task' \in [Ids -> [Names -> Task]] /\ \A m \in Names : m # name => task'[W][m] = task[W][m]
      /\ \A w \in Ids : w # W => task'[w] = task[w]
  <2>1. /\ TypeOK /\ W \in Ids /\ name \in Names /\ mounts \in SUBSET Volumes
        /\ stage \in BOOLEAN /\ result \in Content /\ Run(name, mounts, stage, result)
    BY <1>0, <1>1
  <2> QED BY ONLY <2>1, RunTask
<1>4. TypeOK'
  BY <1>0, <1>2, <1>3 DEF TypeOK, Handler, known
<1>5. Left("erase")' => Left("erase")
  BY <1>0, <1>2 DEF Launches
<1>6. Ground'
  BY <1>0, <1>1, <1>2, <1>3, <1>4, <1>5, GroundKept
<1>7. task'[W]["upload"] = task[W]["upload"] /\ task'[W]["load"] = task[W]["load"]
  BY <1>0, <1>3 DEF Names
<1>8. /\ Left("upload") <=> Left("upload")'
      /\ Left("load") <=> Left("load")'
      /\ Left("finally") <=> Left("finally")'
      /\ Good /\ Good'
  BY <1>0, <1>2 DEF Good
<1>9. Wiping' /\ Served'
  BY <1>2, CopyServed
<1>10. BackedUp'
  <2>1. Good /\ item.kind = "backup" /\ ~Left("upload") =>
          /\ task[W]["upload"].run = "none" /\ data[attached].is = "cluster"
          /\ bucket[W] = [is |-> "good", id |-> data[attached].id]
    BY <1>2 DEF Inv, BackedUp, Awaits
  <2> QED BY <1>0, <1>2, <1>7, <1>8, <2>1 DEF BackedUp, Awaits, known
<1>11. Restored'
  <2>1. Good /\ item.kind \in Writing /\ ~Left("load") /\ engine # "mysql" => data[Target] = Wanted
    BY <1>2 DEF Inv, Restored, Awaits
  <2>2. item.kind = "import" /\ (item.tries = 0 \/ Left("load")) => bucket[W].id = Foreign
    BY DEF Inv, Restored
  <2>3. Wanted' = Wanted
    BY DEF Wanted, Artifact
  <2> QED BY <1>0, <1>2, <1>8, <2>1, <2>2, <2>3 DEF Restored, Awaits
<1>12. Unstaged'
  BY <1>2, <1>8 DEF Inv, Unstaged
<1> QED BY <1>2, <1>6, <1>9, <1>10, <1>11, <1>12 DEF Inv, Ground

(* A dump starts.                                                           *)
LEMMA DumpInv == ASSUME Inv, Dump PROVE Inv'
<1>1. /\ Step("dump") /\ Run("dump", {}, TRUE, Live) /\ TypeOK
      /\ UNCHANGED <<engine, data, box, staged, bucket, receipt, item, known, born, faults>>
  BY DEF Dump, still, others, Inv
<1>2. attached \in Volumes
  <2>1. item.kind = "backup" /\ Itemised /\ Target \in Volumes
    BY <1>1, AtWork DEF Steps, Program
  <2> QED BY <2>1 DEF Itemised
<1> QED BY <1>1, <1>2, LiveType, LaunchInv

(* A fetch starts.                                                          *)
LEMMA FetchInv == ASSUME Inv, Fetch PROVE Inv'
<1> DEFINE mounts == IF item.kind = "backup" THEN {attached} ELSE {}
<1>1. /\ Step("fetch") /\ Run("fetch", mounts, ~(item.kind = "backup"), Absent) /\ TypeOK
      /\ UNCHANGED <<engine, data, box, staged, bucket, receipt, item, known, born, faults>>
  BY DEF Fetch, still, others, Inv
<1>2. mounts \in SUBSET Volumes /\ Absent \in Content
  <2>1. item.kind = "backup" => attached = Target /\ Target \in Volumes
    BY <1>1, AtWork DEF Itemised, Steps
  <2>2. Absent \in Content
    BY <1>1, Typed DEF Absent, Content, Clusters
  <2> QED BY <2>1, <2>2
<1> HIDE DEF mounts
<1> QED BY <1>1, <1>2, LaunchInv

(* An upload starts, of what the volume holds as it starts.                 *)
LEMMA UploadInv == ASSUME Inv, Upload PROVE Inv'
<1> DEFINE mounts == IF engine = "postgres" THEN {attached} ELSE {}
           stage == engine = "mysql"
<1>1. /\ Step("upload") /\ Run("upload", mounts, stage, Live) /\ TypeOK
      /\ UNCHANGED <<engine, data, box, staged, bucket, receipt, item, known, born, faults>>
  BY DEF Upload, still, others, Inv
<1>0. "upload" \in Launches /\ "upload" \in Names /\ "upload" \in Steps /\ "load" \in Names
  BY DEF Launches, Names, Steps
<1>2. Same /\ W \in Ids /\ Itemised /\ Target \in Volumes /\ "upload" \in Program
  BY <1>0, <1>1, AtWork DEF Same, known
<1>3. item.kind = "backup" /\ attached = Target
  BY <1>2 DEF Program, Itemised
<1>4. mounts \in SUBSET Volumes /\ stage \in BOOLEAN /\ Live \in Content
  BY <1>1, <1>2, <1>3, LiveType
<1> HIDE DEF mounts, stage
<1>5. /\ Course' /\ h'.at = "upload" /\ h'.on /\ h.on /\ ~h'.failed /\ ~h.failed /\ h' \in Handler
      /\ \A x : x \notin {"upload", "await"} => (Left(x) <=> Left(x)')
      /\ Left("await")' /\ item # NoItem
      /\ W' = W /\ Target' = Target /\ Staging' = Staging
  BY <1>0, <1>1, <1>2, LaunchCourse
<1>a. /\ task' \in [Ids -> [Names -> Task]] /\ \A m \in Names : m # "upload" => task'[W][m] = task[W][m]
      /\ \A w \in Ids : w # W => task'[w] = task[w]
      /\ task'[W]["upload"] = [run |-> "running", stage |-> stage, mounts |-> mounts, result |-> Live]
  <2>1. TypeOK /\ W \in Ids /\ "upload" \in Names /\ mounts \in SUBSET Volumes /\ stage \in BOOLEAN
        /\ Live \in Content /\ Run("upload", mounts, stage, Live)
    BY <1>0, <1>1, <1>2, <1>4
  <2> QED BY ONLY <2>1, RunTask
<1>6. /\ task' \in [Ids -> [Names -> Task]] /\ \A m \in Names : m # "upload" => task'[W][m] = task[W][m]
      /\ \A w \in Ids : w # W => task'[w] = task[w]
      /\ task'[W]["upload"].run = "running" /\ task'[W]["upload"].result = Live
  BY <1>a
<1>7. TypeOK'
  BY <1>1, <1>5, <1>6 DEF TypeOK, Handler, known
<1>8. Left("erase")' => Left("erase")
  BY <1>5
<1>9. Ground'
  BY <1>0, <1>1, <1>2, <1>3, <1>5, <1>6, <1>7, <1>8, GroundKept
<1>10. Wiping' /\ Served'
  BY <1>1, <1>3, <1>5, CopyServed
<1>11. BackedUp'
  <2>1. Awaits("upload")'
    BY <1>5 DEF Awaits
  <2>2. Live.is = "cluster" => Live = data[attached]
    BY DEF Live, Absent
  <2> QED BY <1>1, <1>3, <1>5, <1>6, <2>1, <2>2 DEF BackedUp, known
<1>12. Restored'
  BY <1>1, <1>3 DEF Restored, Writing
<1>13. Unstaged'
  <2>1. (Left("finally") <=> Left("finally")') /\ Good /\ Good'
    BY <1>5 DEF Good
  <2> QED BY <1>1, <1>5, <2>1 DEF Inv, Unstaged
<1> QED BY <1>5, <1>9, <1>10, <1>11, <1>12, <1>13 DEF Inv, Ground

(* The artifact a restore reads is one of those kept.                        *)
LEMMA LoadsType ==
    ASSUME Inv, item.kind \in Writing, item # NoItem
    PROVE  /\ Loads(Target) \in Content /\ Loads(Target).is \in {"torn", "cluster"}
           /\ engine # "mysql" => Loads(Target) = Artifact
           /\ Artifact \in Content /\ item.from \in Ids
<1>1. TypeOK /\ Itemised /\ Target \in Volumes /\ W \in Ids /\ saved \subseteq Ids
  BY Working DEF Inv, TypeOK
<1>2. item.from \in Ids
  BY <1>1 DEF Itemised
<1>3. bucket[item.from].id \in Clusters
  BY <1>1, <1>2, Typed
<1>4. Artifact \in Content /\ Artifact.is = "cluster"
  BY <1>3 DEF Artifact, Cluster, Content
<1>5. data[Target] \in Content
  BY <1>1, Typed
<1> QED BY <1>2, <1>4, <1>5 DEF Loads

(* Over a volume that is being written, the item at work writes alone.       *)
LEMMA GroundLoaded ==
    ASSUME Inv, Step("load"), TypeOK', h'.on, ~Left("erase")',
           UNCHANGED <<engine, staged, box, receipt, bucket, item, known, born>>,
           data' = [data EXCEPT ![Target] = IF Loads(Target) = @ THEN @ ELSE Torn],
           \A m \in Names : m # "load" => task'[W][m] = task[W][m],
           \A w \in Ids : w # W => task'[w] = task[w],
           task'[W]["load"].mounts = {Target}, task'[W]["load"].result = Loads(Target)
    PROVE  Ground'
<1>0. /\ TypeOK /\ Itemised /\ Traces /\ Stored /\ Wiped /\ Receipted /\ Counted /\ item # NoItem
      /\ Target \in Volumes /\ W \in Ids /\ W = issued /\ item.kind \in Writing /\ h.on
      /\ item.kind \notin {"wipe", "backup"} /\ item.gen = 0
  <2>1. /\ TypeOK /\ Itemised /\ item # NoItem /\ Target \in Volumes /\ W \in Ids /\ "load" \in Program
        /\ h.on
    BY AtWork DEF Steps
  <2>2. item.kind \in Writing
    BY <2>1 DEF Program, Writing
  <2> QED BY <2>1, <2>2, Working DEF Inv, Writing, Itemised
<1>1. Same /\ W' = W /\ Target' = Target
  BY DEF Same, known, W, Target
<1>2. /\ data'[Target] \in {Loads(Target), Torn} /\ data'[Target].is \in {"torn", "cluster"}
      /\ Loads(Target).is \in {"torn", "cluster"}
      /\ \A v \in Volumes : v # Target => data'[v] = data[v]
  BY <1>0, LoadsType, Typed DEF Torn
<1>3. Itemised'
  BY <1>0, <1>1 DEF Itemised, known
<1>4. Traces'
  <2>1. "upload" \in Names /\ task'[W]["upload"] = task[W]["upload"]
    BY DEF Names
  <2>2. \A w \in Ids : w > issued => w \notin saved' \cup staged' /\ \A n \in Names : task'[w][n] = NoTask
    <3> SUFFICES ASSUME NEW w \in Ids, w > issued
                 PROVE  w \notin saved' \cup staged' /\ \A n \in Names : task'[w][n] = NoTask
      OBVIOUS
    <3>1. w # W
      <4>1. issued \in 0 .. MaxWork /\ w \in 1 .. MaxWork /\ MaxWork \in Nat
        BY <1>0, Typed DEF Ids
      <4>2. ~(w = issued)
        BY <4>1
      <4> QED BY <1>0, <4>2
    <3> QED BY <1>0, <3>1 DEF Traces, known
  <2>3. \A w \in saved : task'[w]["upload"].run = "none"
    <3> SUFFICES ASSUME NEW w \in saved PROVE task'[w]["upload"].run = "none"
      OBVIOUS
    <3>1. w \in Ids /\ task[w]["upload"].run = "none" /\ w # W
      BY <1>0 DEF Traces, TypeOK
    <3> QED BY <3>1
  <2>4. task'[W]["upload"].run = "none"
    BY <1>0, <2>1 DEF Traces
  <2> QED BY <1>0, <1>1, <2>2, <2>3, <2>4 DEF Traces, known
<1>5. Stored'
  <2>1. \A w \in Ids : w # W => Target \notin task[w]["load"].mounts
    <3> SUFFICES ASSUME NEW w \in Ids, w # W PROVE Target \notin task[w]["load"].mounts
      OBVIOUS
    <3>1. LoadedAt(w, Target)
      BY <1>0 DEF Stored
    <3> QED BY <1>0, <3>1 DEF LoadedAt
  <2>2. ASSUME NEW w \in Ids, NEW v \in Volumes PROVE LoadedAt(w, v)'
    <3>1. CASE w = W /\ v = Target
      <4>1. \A x \in Ids : Target \in task'[x]["load"].mounts => x = W
        BY <2>1
      <4> QED BY <1>1, <1>2, <3>1, <4>1 DEF LoadedAt
    <3>2. CASE w = W /\ v # Target
      BY <3>2 DEF LoadedAt
    <3>3. CASE w # W
      <4>1. v \in task'[w]["load"].mounts => v # Target /\ data'[v] = data[v] /\ LoadedAt(w, v)
        BY <1>0, <1>2, <2>1, <3>3 DEF Stored
      <4>2. \A x \in Ids : v # Target /\ v \in task'[x]["load"].mounts => v \in task[x]["load"].mounts
        <5> SUFFICES ASSUME NEW x \in Ids, v # Target, v \in task'[x]["load"].mounts
                     PROVE  v \in task[x]["load"].mounts
          OBVIOUS
        <5>1. x # W
          OBVIOUS
        <5> QED BY <5>1
      <4>3. task'[w] = task[w]
        BY <3>3
      <4> QED BY <1>1, <4>1, <4>2, <4>3 DEF LoadedAt
    <3> QED BY <3>1, <3>2, <3>3
  <2>3. \A v \in Volumes : data'[v].is = "absent" => data'[v] = Absent
    BY <1>0, <1>2 DEF Stored
  <2>4. box # NoVolume => data'[box].is # "absent"
    BY <1>0, <1>2 DEF Stored, TypeOK
  <2> QED BY <2>2, <2>3, <2>4 DEF Stored
<1>6. Wiped' /\ Receipted'
  BY <1>0 DEF Wiped, Receipted
<1>7. Counted'
  <2>1. Empties' \subseteq Empties
    BY <1>2 DEF Empties
  <2>2. /\ IsFiniteSet(Empties') /\ Cardinality(Empties') <= Cardinality(Empties)
        /\ Cardinality(Empties) \in Nat /\ Cardinality(Empties') \in Nat
    BY <1>0, <2>1, FS_Subset, FS_CardinalityType DEF Counted
  <2>3. Credit' = 0 /\ Credit \in {0, 1}
    BY <1>1, <1>2 DEF Credit
  <2>4. Leases' = Leases /\ Leases \in Int /\ born \in Nat
    <3>1. issued \in Nat /\ item.tries \in Nat /\ born \in Nat
      BY <1>0, Typed DEF Item
    <3> QED BY <3>1 DEF Leases, known
  <2> QED BY <1>0, <2>2, <2>3, <2>4 DEF Counted
<1> QED BY <1>3, <1>4, <1>5, <1>6, <1>7 DEF Ground

(* A load starts: the volume is torn until it ends.                         *)
LEMMA LoadInv == ASSUME Inv, Load PROVE Inv'
<1> DEFINE stage == engine = "mysql" \/ item.kind = "import"
<1>1. /\ Step("load") /\ Run("load", {Target}, stage, Loads(Target)) /\ TypeOK
      /\ data' = [data EXCEPT ![Target] = IF Loads(Target) = @ THEN @ ELSE Torn]
      /\ UNCHANGED <<engine, box, staged, bucket, receipt, item, known, born, faults>>
  BY DEF Load, others, Inv
<1>0. "load" \in Launches /\ "load" \in Names /\ "load" \in Steps
  BY DEF Launches, Names, Steps
<1>2. /\ Same /\ W \in Ids /\ Itemised /\ Target \in Volumes /\ "load" \in Program
      /\ Left("load") /\ item # NoItem
  BY <1>0, <1>1, AtWork DEF Same, known
<1>3. item.kind \in Writing
  BY <1>2 DEF Program, Writing
<1>4. {Target} \in SUBSET Volumes /\ stage \in BOOLEAN /\ Loads(Target) \in Content
  BY <1>2, <1>3, LoadsType
<1> HIDE DEF stage
<1>5. /\ Course' /\ h'.at = "load" /\ h'.on /\ h.on /\ ~h'.failed /\ ~h.failed /\ h' \in Handler
      /\ \A x : x \notin {"load", "await"} => (Left(x) <=> Left(x)')
      /\ \A x : Left(x)' /\ x # "await" => Follows("load", x)
      /\ Left("await")' /\ item.tries > 0 /\ item.kind \in {"backup", "restore", "pitr", "import"}
      /\ W' = W /\ Target' = Target /\ Staging' = Staging
  BY <1>0, <1>1, <1>2, LaunchCourse
<1>6. /\ task' \in [Ids -> [Names -> Task]] /\ \A m \in Names : m # "load" => task'[W][m] = task[W][m]
      /\ \A w \in Ids : w # W => task'[w] = task[w]
      /\ task'[W]["load"] = [run |-> "running", stage |-> stage, mounts |-> {Target}, result |-> Loads(Target)]
  <2>1. TypeOK /\ W \in Ids /\ "load" \in Names /\ {Target} \in SUBSET Volumes /\ stage \in BOOLEAN
        /\ Loads(Target) \in Content /\ Run("load", {Target}, stage, Loads(Target))
    BY <1>0, <1>1, <1>2, <1>4
  <2> QED BY ONLY <2>1, RunTask
<1>7. /\ task'[W]["load"].run = "running" /\ task'[W]["load"].mounts = {Target}
      /\ task'[W]["load"].result = Loads(Target)
  BY <1>6
<1>8. TypeOK'
  <2>1. Torn \in Content
    BY <1>1, Typed DEF Torn, Content, Clusters
  <2>2. data' \in [Volumes -> Content]
    BY <1>1, <2>1, Typed
  <2> QED BY <1>1, <1>5, <1>6, <2>2 DEF TypeOK, Handler, known
<1>9. ~Left("erase")' /\ ~Left("load")'
  <2>1. ~Follows("load", "erase") /\ ~Follows("load", "load")
    BY DEF Follows, Rank
  <2> QED BY <1>5, <2>1
<1>10. Ground'
  BY <1>1, <1>5, <1>6, <1>7, <1>8, <1>9, GroundLoaded
<1>11. Wiping' /\ Served'
  BY <1>1, <1>2, <1>5, CopyServed
<1>12. BackedUp'
  BY <1>1, <1>3 DEF BackedUp, Writing
<1>13. Restored'
  <2>1. Awaits("load")' /\ item.tries # 0
    BY <1>1, <1>5, Typed DEF Awaits, Item
  <2>2. Wanted' = Wanted
    BY <1>1 DEF Wanted, Artifact
  <2>3. engine # "mysql" => Loads(Target) = Wanted
    <3>1. item.kind = "import" => bucket[W].id = Foreign /\ item.from = W
      BY <1>2, <1>3 DEF Inv, Restored, Itemised
    <3>2. engine # "mysql" => Loads(Target) = Artifact
      BY <1>2, <1>3, LoadsType
    <3> QED BY <3>1, <3>2 DEF Wanted, Artifact
  <2> QED BY <1>1, <1>5, <1>7, <1>9, <2>1, <2>2, <2>3 DEF Restored
<1>14. Unstaged'
  <2>1. (Left("finally") <=> Left("finally")') /\ Good /\ Good'
    BY <1>5 DEF Good
  <2> QED BY <1>1, <1>5, <2>1 DEF Inv, Unstaged
<1> QED BY <1>5, <1>10, <1>11, <1>12, <1>13, <1>14 DEF Inv, Ground

(* What an upload that is cut short leaves is still an object.               *)
LEMMA CutShortType ==
    ASSUME TypeOK, NEW w \in Ids, NEW name \in Names, NEW b \in CutShort(w, name)
    PROVE  /\ b \in [Ids -> [is: {"none", "unchecked", "good"}, id: Clusters]]
           /\ \A x \in Ids : x # w => b[x] = bucket[x]
           /\ b # bucket => name = "upload" /\ task[w][name].run = "running"
           /\ \A x \in Ids : b[x].id = bucket[x].id
<1>1. bucket \in [Ids -> [is: {"none", "unchecked", "good"}, id: Clusters]]
  BY Typed
<1>2. CASE b = bucket
  BY <1>1, <1>2
<1>3. CASE /\ b = [bucket EXCEPT ![w].is = "unchecked"]
           /\ name = "upload" /\ task[w][name].run = "running"
  BY <1>1, <1>3
<1> QED BY <1>2, <1>3 DEF CutShort

(* The task awaited is gone.                                                 *)
LEMMA Removed ==
    ASSUME TypeOK, W \in Ids, task' = [task EXCEPT ![W][h.at] = NoTask]
    PROVE  /\ task' \in [Ids -> [Names -> Task]] /\ h.at \in Names
           /\ task'[W][h.at] = NoTask
           /\ \A m \in Names : m # h.at => task'[W][m] = task[W][m]
           /\ \A w \in Ids : w # W => task'[w] = task[w]
<1>1. NoTask \in Task
  BY Typed DEF NoTask, Task, Content, Absent, Clusters
<1>2. h.at \in Names /\ task \in [Ids -> [Names -> Task]]
  BY Typed DEF Handler
<1> QED BY <1>1, <1>2

(* The handler goes on when its task has ended, and throws when it failed.  *)
LEMMA AwaitInv == ASSUME Inv, Await PROVE Inv'
<1> DEFINE t == task[W][h.at]
<1>1. /\ Step("await") /\ "await" \in Steps /\ TypeOK /\ (Fault \/ NoFault)
      /\ UNCHANGED <<engine, data, box, staged, receipt, item, known, born>>
      /\ \/ t.run = "ok" /\ Went /\ task' = [task EXCEPT ![W][h.at] = NoTask] /\ UNCHANGED bucket
         \/ /\ Threw
            /\ (task' = task \/ task' = [task EXCEPT ![W][h.at] = NoTask])
            /\ (bucket' = bucket \/ bucket' \in CutShort(W, h.at))
  BY DEF Await, Inv, Steps
<1>2. /\ faults' \in 0 .. MaxFaults /\ h.on /\ item # NoItem /\ W \in Ids /\ Target \in Volumes
      /\ "await" \in Program /\ ~h.failed /\ item.tries > 0 /\ Left("await") /\ Itemised /\ h.at \in Names
  BY <1>1, Faulted, AtWork, Typed DEF Handler
<1>3. Same /\ W' = W /\ Target' = Target /\ Staging' = Staging
  BY <1>1 DEF Same, known, W, Target, Staging
<1>4. item.kind \in {"backup", "restore", "pitr", "import"}
  BY <1>1, <1>2 DEF Program, TypeOK, Item
<1>5. /\ task' \in [Ids -> [Names -> Task]] /\ \A w \in Ids : w # W => task'[w] = task[w]
      /\ \A m \in Names : task'[W][m] \in {task[W][m], NoTask}
  <2>1. CASE task' = task
    BY <1>1, <2>1, Typed
  <2>2. CASE task' = [task EXCEPT ![W][h.at] = NoTask]
    BY <1>1, <1>2, <2>2, Removed
  <2> QED BY <1>1, <2>1, <2>2
<1>6. bucket' \in [Ids -> [is: {"none", "unchecked", "good"}, id: Clusters]]
  BY <1>1, <1>2, CutShortType, Typed
<1>7. h' \in Handler /\ (Left("erase")' => Left("erase"))
  BY <1>1, <1>3, AtWork, WentCourse, FailedCourse
<1>8. TypeOK'
  BY <1>1, <1>2, <1>5, <1>6, <1>7 DEF TypeOK, Handler, known
<1>9. Ground'
  <2>1. \A n \in Names : n = "load" => task'[W][n] = task[W][n] \/ task'[W][n].mounts = {}
    BY <1>5 DEF NoTask
  <2> QED BY <1>1, <1>2, <1>5, <1>7, <1>8, <2>1, GroundKept
<1>10. CASE Threw
  BY <1>1, <1>2, <1>3, <1>9, <1>10, FailedInv
<1>11. CASE t.run = "ok" /\ Went /\ task' = [task EXCEPT ![W][h.at] = NoTask] /\ UNCHANGED bucket
  <2>1. /\ Course' /\ h'.at = h.at /\ h'.on /\ h.on /\ h'.failed = h.failed
        /\ \A x : x # "await" => (Left(x) <=> Left(x)')
        /\ \A x : Left(x)' => Follows("await", x)
    BY <1>1, <1>3, <1>11, WentCourse
  <2>2. ~Left("await")' /\ Good /\ Good'
    <3>1. ~Follows("await", "await")
      BY DEF Follows, Rank
    <3> QED BY <1>2, <2>1, <3>1 DEF Good
  <2>3. /\ Left("upload") <=> Left("upload")'
        /\ Left("load") <=> Left("load")'
        /\ Left("finally") <=> Left("finally")'
    BY <2>1
  <2>4. /\ task'[W][h.at] = NoTask /\ task[W][h.at].run = "ok"
        /\ \A m \in Names : m # h.at => task'[W][m] = task[W][m]
    BY <1>1, <1>2, <1>11, Removed
  <2>5. Wiping' /\ Served'
    BY <1>1, <1>2, <1>4, CopyServed
  <2>6. BackedUp'
    <3> SUFFICES ASSUME item.kind = "backup", ~Left("upload")
                 PROVE  /\ task'[W]["upload"].run = "none"
                        /\ data[attached].is = "cluster"
                        /\ bucket[W] = [is |-> "good", id |-> data[attached].id]
      BY <1>1, <1>3, <1>11, <2>2, <2>3 DEF BackedUp, Awaits, known
    <3>1. CASE h.at = "upload"
      <4>1. Awaits("upload")
        BY <1>2, <3>1 DEF Awaits
      <4>2. /\ task[W]["upload"].result.is = "cluster" => data[attached] = task[W]["upload"].result
            /\ task[W]["upload"].run = "ok" =>
                 /\ task[W]["upload"].result.is = "cluster"
                 /\ bucket[W] = [is |-> "good", id |-> task[W]["upload"].result.id]
        BY <2>2, <4>1 DEF Inv, BackedUp
      <4> QED BY <2>4, <3>1, <4>2 DEF NoTask
    <3>2. CASE h.at # "upload"
      <4>1. ~Awaits("upload") /\ "upload" \in Names
        BY <3>2 DEF Awaits, Names
      <4>2. /\ task[W]["upload"].run = "none" /\ data[attached].is = "cluster"
            /\ bucket[W] = [is |-> "good", id |-> data[attached].id]
        BY <2>2, <4>1 DEF Inv, BackedUp
      <4> QED BY <2>4, <3>2, <4>1, <4>2
    <3> QED BY <3>1, <3>2
  <2>7. Restored'
    <3>1. item.kind = "import" /\ (item.tries = 0 \/ Left("load")) => bucket[W].id = Foreign
      BY DEF Inv, Restored
    <3>2. ASSUME item.kind \in Writing, ~Left("load"), engine # "mysql" PROVE data[Target] = Wanted
      <4>1. CASE h.at = "load"
        <5>1. Awaits("load")
          BY <1>2, <4>1 DEF Awaits
        <5>2. task[W]["load"].run = "ok" => data[Target] = Wanted
          BY <2>2, <3>2, <5>1 DEF Inv, Restored
        <5> QED BY <2>4, <4>1, <5>2
      <4>2. CASE h.at # "load"
        BY <2>2, <3>2, <4>2 DEF Inv, Restored, Awaits
      <4> QED BY <4>1, <4>2
    <3>3. Wanted' = Wanted
      BY <1>1, <1>11 DEF Wanted, Artifact
    <3> QED BY <1>1, <1>3, <1>11, <2>2, <2>3, <3>1, <3>2, <3>3 DEF Restored, Awaits
  <2>8. Unstaged'
    BY <1>1, <1>3, <2>2, <2>3 DEF Inv, Unstaged
  <2> QED BY <1>9, <2>1, <2>5, <2>6, <2>7, <2>8 DEF Inv, Ground
<1> QED BY <1>1, <1>10, <1>11

----------------------------------------------------------------------------
(* What goes on in Docker behind the handler's back.                         *)

(* A volume that is empty or torn comes to hold something.                   *)
Ripens == \A v \in Volumes : \/ data'[v] = data[v]
                             \/ data[v].is \in {"empty", "torn"} /\ data'[v].is \in {"torn", "cluster"}

(* What that leaves of the handler and of what it owes.                     *)
LEMMA Settled ==
    ASSUME Inv, Ripens, UNCHANGED <<engine, box, staged, receipt, item, h, known>>
    PROVE  /\ Course' /\ Wiping' /\ Served' /\ Unstaged' /\ Good' = Good /\ W' = W /\ Target' = Target
           /\ \A x : Left(x)' <=> Left(x)
           /\ \A x : Awaits(x)' <=> Awaits(x)
           /\ item # NoItem => Target \in Volumes /\ W \in Ids
           /\ item.kind = "backup" => Target = attached
<1>0. TypeOK /\ Itemised /\ Course
  BY DEF Inv
<1>1. /\ Good' = Good /\ W' = W /\ Target' = Target /\ Staging' = Staging /\ Program' = Program
      /\ \A x : Left(x)' <=> Left(x)
      /\ \A x : Awaits(x)' <=> Awaits(x)
  BY DEF Good, W, Target, Staging, Left, Awaits, known, Program
<1>2. item # NoItem => Target \in Volumes /\ W \in Ids
  BY <1>0, Working
<1>3. Course'
  BY <1>0, <1>1 DEF Course
<1>4. Wiping' /\ Unstaged'
  BY <1>1 DEF Inv, Wiping, Unstaged
<1>5. \A v \in Volumes : /\ data[v].is = "cluster" => data'[v] = data[v]
                         /\ data[v].is = "absent" => data'[v] = data[v]
                         /\ data[v].is # "absent" => data'[v].is # "absent"
  BY DEF Ripens
<1>6. Good => item # NoItem
  BY <1>0 DEF Good, Course
<1>7. Served'
  <2>1. Serves => Serves'
    BY <1>0, <1>5 DEF Serves, TypeOK
  <2>2. /\ Good /\ data[Target].is = "cluster" => data'[Target].is = "cluster"
        /\ Good /\ data[Target].is # "absent" => data'[Target].is # "absent"
        /\ Good /\ data[Target].is = "absent" => data'[Target].is = "absent"
    BY <1>2, <1>5, <1>6
  <2> QED BY <1>1, <2>1, <2>2 DEF Inv, Served, known
<1> QED BY <1>0, <1>1, <1>2, <1>3, <1>4, <1>7 DEF Itemised

(* The container initialises an empty volume: a cluster is born, which some *)
(* lease paid for.                                                          *)
LEMMA InitialiseInv == ASSUME Inv, Initialise PROVE Inv'
<1>1. /\ box \in Volumes /\ data[box].is = "empty" /\ born' = born + 1
      /\ data' = [data EXCEPT ![box] = Cluster(born + 1)]
      /\ UNCHANGED <<engine, box, task, staged, bucket, receipt, item, h, known, faults>>
      /\ TypeOK /\ Itemised /\ Course /\ Traces /\ Stored /\ Wiped /\ Receipted /\ Counted
  BY DEF Initialise, Inv, TypeOK
<1>2. born \in Nat /\ born < Foreign /\ IsFiniteSet(Empties) /\ Foreign \in Nat
  BY <1>1, BornSmall, Typed DEF Counted
<1>3. born + 1 \in Clusters
  BY <1>2 DEF Clusters
<1>4. /\ data'[box] = Cluster(born + 1) /\ data'[box].is = "cluster" /\ data'[box].id = born + 1
      /\ \A v \in Volumes : v # box => data'[v] = data[v]
      /\ Cluster(born + 1) \in Content
  BY <1>1, <1>3, Typed DEF Cluster, Content
<1>5. Ripens
  BY <1>1, <1>4 DEF Ripens
<1>6. /\ Course' /\ Wiping' /\ Served' /\ Unstaged' /\ Good' = Good /\ W' = W /\ Target' = Target
      /\ \A x : Left(x)' <=> Left(x)
      /\ \A x : Awaits(x)' <=> Awaits(x)
      /\ item # NoItem => Target \in Volumes /\ W \in Ids
      /\ item.kind = "backup" => Target = attached
  BY <1>1, <1>5, Settled
<1>7. TypeOK'
  <2>1. data' \in [Volumes -> Content]
    BY <1>1, <1>4, Typed
  <2>2. born' \in Clusters
    BY <1>1, <1>3
  <2> QED BY <1>1, <2>1, <2>2 DEF TypeOK, known
<1>8. Itemised' /\ Traces'
  BY <1>1, <1>6 DEF Itemised, Traces, known
<1>9. \A w \in Ids, v \in Volumes : v \in task[w]["load"].mounts => v # box
  <2> SUFFICES ASSUME NEW w \in Ids, NEW v \in Volumes, v \in task[w]["load"].mounts PROVE v # box
    OBVIOUS
  <2>1. LoadedAt(w, v)
    BY <1>1 DEF Stored
  <2> QED BY <1>1, <2>1 DEF LoadedAt
<1>10. Stored'
  <2>1. ASSUME NEW w \in Ids, NEW v \in Volumes PROVE LoadedAt(w, v)'
    <3>1. LoadedAt(w, v) /\ (v \in task[w]["load"].mounts => data'[v] = data[v])
      BY <1>1, <1>4, <1>9 DEF Stored
    <3> QED BY <1>1, <1>6, <3>1 DEF LoadedAt
  <2>2. \A v \in Volumes : data'[v].is = "absent" => data'[v] = Absent
    BY <1>1, <1>4 DEF Stored
  <2> QED BY <1>1, <1>4, <2>1, <2>2 DEF Stored
<1>11. item # NoItem \/ (item.kind = "none" /\ item.gen = 0)
  BY DEF NoItem
<1>12. item.emptied \in Nat
  BY <1>1, Typed DEF Item
<1>13. Wiped' /\ Receipted'
  <2>1. CASE item = NoItem
    BY <1>1, <1>11, <2>1 DEF Wiped, Receipted, NoItem
  <2>2. CASE item # NoItem
    <3>1. data'[Target] = data[Target] \/ (Target = box /\ data'[Target].is = "cluster" /\ data'[Target].id = born + 1)
      BY <1>4, <1>6, <2>2
    <3>2. Wiped'
      BY <1>1, <1>2, <1>6, <1>12, <3>1 DEF Wiped
    <3>3. Receipted'
      BY <1>1, <1>6, <3>1 DEF Receipted
    <3> QED BY <3>2, <3>3
  <2> QED BY <2>1, <2>2
<1>14. Counted'
  <2>1. Empties' = Empties \ {box} /\ box \in Empties
    BY <1>1, <1>4 DEF Empties
  <2>2. /\ IsFiniteSet(Empties') /\ Cardinality(Empties') = Cardinality(Empties) - 1
        /\ Cardinality(Empties) \in Nat /\ Cardinality(Empties') \in Nat
    BY <1>2, <2>1, FS_RemoveElement, FS_CardinalityType
  <2>3. Credit' = Credit
    <3>1. h.on => (data'[Target].is = "absent" <=> data[Target].is = "absent")
      <4>1. h.on => Target \in Volumes
        BY <1>1, <1>6 DEF Course
      <4> QED BY <1>1, <1>4, <4>1
    <3>2. h' = h
      BY <1>1
    <3> QED BY <1>6, <3>1, <3>2 DEF Credit
  <2>4. Leases' = Leases /\ Leases \in Int /\ Credit \in {0, 1}
    <3>1. issued \in Nat /\ item.tries \in Nat
      BY <1>1, Typed DEF Item
    <3> QED BY <1>1, <3>1 DEF Leases, known, Credit
  <2> QED BY <1>1, <1>2, <2>2, <2>3, <2>4 DEF Counted
<1>15. BackedUp'
  <2>1. Good => item # NoItem
    BY <1>1 DEF Good, Course
  <2>2. Good /\ item.kind = "backup" /\ data[attached].is = "cluster" => data'[attached] = data[attached]
    BY <1>1, <1>4, <1>6, <2>1
  <2>3. UNCHANGED <<task, bucket, attached, item>>
    BY <1>1 DEF known
  <2> QED BY <1>6, <2>2, <2>3 DEF Inv, BackedUp
<1>16. Restored'
  <2>1. Good => item # NoItem
    BY <1>1 DEF Good, Course
  <2>2. Wanted' = Wanted /\ Wanted.is = "cluster"
    BY <1>1 DEF Wanted, Artifact, Cluster
  <2>3. Good /\ data[Target] = Wanted => data'[Target] = Wanted
    BY <1>1, <1>4, <1>6, <2>1, <2>2
  <2>4. UNCHANGED <<task, bucket, engine, item>>
    BY <1>1
  <2> QED BY <1>6, <2>2, <2>3, <2>4 DEF Inv, Restored
<1> QED BY <1>6, <1>7, <1>8, <1>10, <1>13, <1>14, <1>15, <1>16 DEF Inv

(* A task that ends well leaves what it loaded; no other touches the volumes. *)
LEMMA EndedData ==
    ASSUME Inv, NEW w \in Ids, NEW name \in Names, task[w][name].run = "running",
           \/ UNCHANGED data
           \/ data' = [v \in Volumes |-> IF name = "load" /\ v \in task[w][name].mounts
                                         THEN task[w][name].result ELSE data[v]]
    PROVE  /\ \A v \in Volumes : data'[v] # data[v] =>
                /\ data[v] = Torn /\ data'[v].is \in {"torn", "cluster"}
                /\ name = "load" /\ v \in task[w]["load"].mounts
           /\ Ripens /\ data' \in [Volumes -> Content]
<1>1. TypeOK /\ Stored /\ data \in [Volumes -> Content] /\ task[w][name].result \in Content
  BY Typed DEF Inv, Task
<1>2. ASSUME NEW v \in Volumes, data'[v] # data[v]
      PROVE  /\ data[v] = Torn /\ data'[v].is \in {"torn", "cluster"}
             /\ name = "load" /\ v \in task[w]["load"].mounts
  <2>1. name = "load" /\ v \in task[w]["load"].mounts /\ data'[v] = task[w]["load"].result
    BY <1>2
  <2>2. LoadedAt(w, v)
    BY <1>1 DEF Stored
  <2>3. /\ data[v] \in {Torn, task[w]["load"].result}
        /\ task[w]["load"].result.is \in {"torn", "cluster"}
    BY <2>1, <2>2 DEF LoadedAt
  <2> QED BY <1>2, <2>1, <2>3
<1>3. data' \in [Volumes -> Content]
  BY <1>1
<1>4. Ripens
  BY <1>2 DEF Ripens, Torn
<1> QED BY <1>2, <1>3, <1>4

(* What a task that ends leaves of the volumes and of its own outcome.       *)
LEMMA GroundEnded ==
    ASSUME Inv, NEW w \in Ids, NEW name \in Names, task[w][name].run = "running", TypeOK',
           UNCHANGED <<engine, box, staged, receipt, item, h, known, born>>,
           NEW outcome \in {"ok", "failed"}, task' = [task EXCEPT ![w][name].run = outcome],
           \A v \in Volumes : data'[v] # data[v] =>
                /\ data[v] = Torn /\ data'[v].is \in {"torn", "cluster"}
                /\ name = "load" /\ v \in task[w]["load"].mounts
    PROVE  Ground'
<1>0. /\ TypeOK /\ Itemised /\ Traces /\ Stored /\ Wiped /\ Receipted /\ Counted /\ Course
      /\ W' = W /\ Target' = Target
  BY DEF Inv, W, Target
<1>1. /\ \A x \in Ids, m \in Names : (x # w \/ m # name) => task'[x][m] = task[x][m]
      /\ \A x \in Ids, m \in Names : task'[x][m].mounts = task[x][m].mounts /\ task'[x][m].result = task[x][m].result
      /\ task'[w][name].run = outcome
  BY <1>0, Typed DEF Task
<1>2. "upload" \in Names /\ "load" \in Names
  BY DEF Names
<1>3. Itemised'
  BY <1>0 DEF Itemised, known
<1>4. \A x \in Ids : task[x]["upload"].run = "none" => task'[x]["upload"].run = "none"
  BY <1>1, <1>2
<1>5. \A x \in Ids : x > issued => \A n \in Names : task'[x][n] = NoTask
  <2> SUFFICES ASSUME NEW x \in Ids, x > issued, NEW n \in Names PROVE task'[x][n] = NoTask
    OBVIOUS
  <2>1. task[x][n] = NoTask
    BY <1>0 DEF Traces
  <2>2. x # w \/ n # name
    BY <2>1 DEF NoTask
  <2> QED BY <1>1, <2>1, <2>2
<1>6. Traces'
  <2>1. saved \subseteq Ids /\ (item # NoItem => W \in Ids)
    BY <1>0, Working DEF TypeOK
  <2> QED BY <1>0, <1>4, <1>5, <2>1 DEF Traces, known
<1>7. Stored'
  <2>1. ASSUME NEW x \in Ids, NEW v \in Volumes PROVE LoadedAt(x, v)'
    <3> SUFFICES ASSUME v \in task'[x]["load"].mounts
                 PROVE  /\ data'[v].is \in {"torn", "cluster"}
                        /\ task'[x]["load"].result.is \in {"torn", "cluster"}
                        /\ task'[x]["load"].run = "running" => data'[v] \in {Torn, task'[x]["load"].result}
                        /\ item'.kind \in Writing /\ v = Target' => x = W'
                        /\ \A y \in Ids : v \in task'[y]["load"].mounts => y = x
      BY DEF LoadedAt
    <3>1. LoadedAt(x, v) /\ v \in task[x]["load"].mounts
      BY <1>0, <1>1, <1>2 DEF Stored
    <3>2. /\ data[v].is \in {"torn", "cluster"} /\ task[x]["load"].result.is \in {"torn", "cluster"}
          /\ task[x]["load"].run = "running" => data[v] \in {Torn, task[x]["load"].result}
          /\ item.kind \in Writing /\ v = Target => x = W
          /\ \A y \in Ids : v \in task[y]["load"].mounts => y = x
      BY <3>1 DEF LoadedAt
    <3>3. data'[v].is \in {"torn", "cluster"}
      BY <3>2
    <3>4. task'[x]["load"].run = "running" => data'[v] \in {Torn, task'[x]["load"].result}
      <4> HAVE task'[x]["load"].run = "running"
      <4>1. x # w \/ name # "load"
        BY <1>1
      <4>2. task'[x]["load"] = task[x]["load"]
        BY <1>1, <1>2, <4>1
      <4>3. data'[v] = data[v]
        BY <3>2, <4>1
      <4> QED BY <3>2, <4>2, <4>3
    <3>5. \A y \in Ids : v \in task'[y]["load"].mounts => y = x
      BY <1>1, <1>2, <3>2
    <3>6. task'[x]["load"].result.is \in {"torn", "cluster"}
      BY <1>1, <1>2, <3>2
    <3> QED BY <1>0, <3>2, <3>3, <3>4, <3>5, <3>6
  <2>2. \A v \in Volumes : data'[v].is = "absent" => data'[v] = Absent
    BY <1>0 DEF Stored
  <2>3. box # NoVolume => data'[box].is # "absent"
    BY <1>0 DEF Stored, TypeOK
  <2> QED BY <2>1, <2>2, <2>3 DEF Stored
<1>8. item # NoItem => Target \in Volumes
  BY <1>0, Working
<1>9. Wiped'
  <2>1. \A x \in Ids : task'[x]["load"].mounts = task[x]["load"].mounts
    BY <1>1, <1>2
  <2>2. item.kind = "wipe" /\ item.emptied # Foreign => data'[Target] = data[Target]
    <3> HAVE item.kind = "wipe" /\ item.emptied # Foreign
    <3>1. Target \in Volumes /\ Target \notin task[w]["load"].mounts
      BY <1>0, <1>8 DEF Wiped, NoItem
    <3> QED BY <3>1
  <2> QED BY <1>0, <2>1, <2>2 DEF Wiped
<1>10. Receipted'
  <2>1. item.gen # 0 /\ data[Target].is \in {"absent", "empty"} => data'[Target] = data[Target]
    <3> HAVE item.gen # 0 /\ data[Target].is \in {"absent", "empty"}
    <3>1. Target \in Volumes
      BY <1>8 DEF NoItem
    <3> QED BY <3>1 DEF Torn
  <2> QED BY <1>0, <2>1 DEF Receipted
<1>11. Counted'
  <2>1. Empties' = Empties
    BY DEF Empties, Torn
  <2>2. h.on => (data'[Target].is = "absent" <=> data[Target].is = "absent")
    <3>1. h.on => Target \in Volumes
      BY <1>0, <1>8 DEF Course
    <3> QED BY <3>1 DEF Torn
  <2>3. Credit' = Credit
    <3>1. Left("erase")' <=> Left("erase")
      BY DEF Left
    <3> QED BY <1>0, <2>2, <3>1 DEF Credit
  <2>4. Leases' = Leases
    BY DEF Leases, known
  <2> QED BY <1>0, <2>1, <2>3, <2>4 DEF Counted
<1> QED BY <1>0, <1>3, <1>6, <1>7, <1>9, <1>10, <1>11 DEF Ground

(* A task ends, of this item or of an earlier one, well or not.             *)
LEMMA TaskEndsInv == ASSUME Inv, NEW w \in Ids, NEW name \in Names, TaskEnds(w, name) PROVE Inv'
<1> DEFINE t == task[w][name]
           result == t.result
<1>1. /\ UNCHANGED <<engine, box, staged, receipt, item, h, known, born>> /\ t.run = "running"
      /\ TypeOK /\ (Fault \/ NoFault) /\ Traces /\ Stored
      /\ \/ /\ name \in {"dump", "upload"} => result.is = "cluster"
            /\ task' = [task EXCEPT ![w][name].run = "ok"]
            /\ data' = [v \in Volumes |-> IF name = "load" /\ v \in t.mounts THEN result ELSE data[v]]
            /\ bucket' = IF name = "upload"
                         THEN [bucket EXCEPT ![w] = [is |-> "good", id |-> result.id]] ELSE bucket
         \/ /\ task' = [task EXCEPT ![w][name].run = "failed"]
            /\ bucket' \in CutShort(w, name)
            /\ UNCHANGED data
  BY DEF TaskEnds, Inv
<1>2. PICK outcome \in {"ok", "failed"} : task' = [task EXCEPT ![w][name].run = outcome]
  BY <1>1
<1>3. UNCHANGED data \/ data' = [v \in Volumes |-> IF name = "load" /\ v \in t.mounts THEN result ELSE data[v]]
  BY <1>1
<1>4. /\ \A v \in Volumes : data'[v] # data[v] =>
           /\ data[v] = Torn /\ data'[v].is \in {"torn", "cluster"}
           /\ name = "load" /\ v \in task[w]["load"].mounts
      /\ Ripens /\ data' \in [Volumes -> Content]
  BY <1>1, <1>3, EndedData
<1>5. /\ Course' /\ Wiping' /\ Served' /\ Unstaged' /\ Good' = Good /\ W' = W /\ Target' = Target
      /\ \A x : Left(x)' <=> Left(x)
      /\ \A x : Awaits(x)' <=> Awaits(x)
      /\ item # NoItem => Target \in Volumes /\ W \in Ids
      /\ item.kind = "backup" => Target = attached
  BY <1>1, <1>4, Settled
<1>6. /\ task \in [Ids -> [Names -> Task]]
      /\ bucket \in [Ids -> [is: {"none", "unchecked", "good"}, id: Clusters]]
      /\ t \in Task
  BY <1>1, Typed
<1>7. task' \in [Ids -> [Names -> Task]]
  BY <1>2, <1>6 DEF Task
<1>8. /\ \A x \in Ids, m \in Names : (x # w \/ m # name) => task'[x][m] = task[x][m]
      /\ \A x \in Ids, m \in Names : task'[x][m].mounts = task[x][m].mounts /\ task'[x][m].result = task[x][m].result
      /\ task'[w][name].run = outcome
  BY <1>2, <1>6 DEF Task
<1>9. /\ bucket' \in [Ids -> [is: {"none", "unchecked", "good"}, id: Clusters]]
      /\ \A x \in Ids : x # w \/ name # "upload" => bucket'[x] = bucket[x]
  <2>1. CASE bucket' \in CutShort(w, name)
    BY <1>1, <1>6, <2>1, CutShortType
  <2>2. CASE bucket' = IF name = "upload"
                       THEN [bucket EXCEPT ![w] = [is |-> "good", id |-> result.id]] ELSE bucket
    <3>1. result.id \in Clusters
      BY <1>6 DEF Task, Content
    <3> QED BY <1>6, <2>2, <3>1
  <2> QED BY <1>1, <2>1, <2>2
<1>10. TypeOK'
  <2>1. faults' \in 0 .. MaxFaults
    BY <1>1, Faulted
  <2> QED BY <1>1, <1>4, <1>7, <1>9, <2>1 DEF TypeOK, known
<1>11. Ground'
  BY <1>1, <1>2, <1>4, <1>10, GroundEnded
<1>12. Good => item # NoItem
  BY DEF Inv, Good, Course
<1>13. BackedUp'
  <2> SUFFICES ASSUME Good, item.kind = "backup", ~Left("upload")
               PROVE  IF Awaits("upload")
                      THEN /\ task'[W]["upload"].result.is = "cluster" => data'[attached] = task'[W]["upload"].result
                           /\ task'[W]["upload"].run = "ok" =>
                                /\ task'[W]["upload"].result.is = "cluster"
                                /\ bucket'[W] = [is |-> "good", id |-> task'[W]["upload"].result.id]
                      ELSE /\ task'[W]["upload"].run = "none"
                           /\ data'[attached].is = "cluster"
                           /\ bucket'[W] = [is |-> "good", id |-> data'[attached].id]
    BY <1>1, <1>5 DEF BackedUp, known
  <2>1. W \in Ids /\ attached \in Volumes /\ "upload" \in Names
    BY <1>5, <1>12 DEF Names
  <2>2. data[attached].is = "cluster" => data'[attached] = data[attached]
    BY <1>4, <2>1 DEF Torn
  <2>3. CASE Awaits("upload")
    <3>1. /\ task[W]["upload"].result.is = "cluster" => data[attached] = task[W]["upload"].result
          /\ task[W]["upload"].run = "ok" =>
               /\ task[W]["upload"].result.is = "cluster"
               /\ bucket[W] = [is |-> "good", id |-> task[W]["upload"].result.id]
      BY <2>3 DEF Inv, BackedUp
    <3>2. task'[W]["upload"].result = task[W]["upload"].result
      BY <1>8, <2>1
    <3>3. task'[W]["upload"].run = "ok" =>
               /\ task[W]["upload"].result.is = "cluster"
               /\ bucket'[W] = [is |-> "good", id |-> task[W]["upload"].result.id]
      <4>1. CASE w = W /\ name = "upload"
        <5> HAVE task'[W]["upload"].run = "ok"
        <5>1. outcome = "ok"
          BY <1>8, <4>1
        <5>2. task' = [task EXCEPT ![w][name].run = "ok"]
          BY <1>2, <5>1
        <5>3. task' # [task EXCEPT ![w][name].run = "failed"]
          BY <1>6, <5>2 DEF Task
        <5>4. /\ result.is = "cluster"
              /\ bucket' = [bucket EXCEPT ![w] = [is |-> "good", id |-> result.id]]
          BY <1>1, <4>1, <5>3
        <5> QED BY <1>6, <4>1, <5>4
      <4>2. CASE w # W \/ name # "upload"
        BY <1>8, <1>9, <2>1, <3>1, <4>2
      <4> QED BY <4>1, <4>2
    <3>4. task[W]["upload"].result.is = "cluster" => data'[attached] = task[W]["upload"].result
      BY <2>2, <3>1
    <3> QED BY <2>3, <3>2, <3>3, <3>4
  <2>4. CASE ~Awaits("upload")
    <3>1. /\ task[W]["upload"].run = "none" /\ data[attached].is = "cluster"
          /\ bucket[W] = [is |-> "good", id |-> data[attached].id]
      BY <2>4 DEF Inv, BackedUp
    <3>2. w # W \/ name # "upload"
      BY <1>1, <3>1
    <3> QED BY <1>8, <1>9, <2>1, <2>2, <2>4, <3>1, <3>2
  <2> QED BY <2>3, <2>4
<1>14. Restored'
  <2>1. item # NoItem /\ item.kind # "backup" => bucket'[W] = bucket[W]
    <3> HAVE item # NoItem /\ item.kind # "backup"
    <3>1. task[W]["upload"].run = "none" /\ W \in Ids
      BY <1>1, <1>5 DEF Traces
    <3> QED BY <1>1, <1>9, <3>1
  <2>2. Good /\ item.kind \in Writing => Wanted' = Wanted
    <3> HAVE Good /\ item.kind \in Writing
    <3>1. CASE item.kind = "import"
      BY <1>1, <3>1 DEF Wanted
    <3>2. CASE item.kind # "import"
      <4>1. item.from \in saved /\ item.from \in Ids
        BY <1>1, <3>2 DEF Inv, Itemised, TypeOK
      <4>2. task[item.from]["upload"].run = "none"
        BY <1>1, <4>1 DEF Traces
      <4>3. bucket'[item.from] = bucket[item.from]
        BY <1>1, <1>9, <4>1, <4>2
      <4> QED BY <1>1, <3>2, <4>3 DEF Wanted, Artifact
    <3> QED BY <3>1, <3>2
  <2>3. item.kind = "import" /\ (item.tries = 0 \/ Left("load")) => bucket'[W].id = Foreign
    <3>1. item.kind = "import" => item # NoItem /\ item.kind # "backup"
      BY DEF NoItem
    <3> QED BY <2>1, <3>1 DEF Inv, Restored
  <2>4. ASSUME Good, item.kind \in Writing, ~Left("load"), engine # "mysql"
        PROVE  IF Awaits("load")
               THEN /\ task'[W]["load"].run # "none" =>
                         task'[W]["load"].result = Wanted /\ task'[W]["load"].mounts = {Target}
                    /\ task'[W]["load"].run = "ok" => data'[Target] = Wanted
               ELSE data'[Target] = Wanted
    <3>1. W \in Ids /\ Target \in Volumes /\ "load" \in Names
      BY <1>5, <1>12, <2>4 DEF Names
    <3>2. Wanted.is = "cluster"
      BY DEF Wanted, Artifact, Cluster
    <3>3. data[Target] = Wanted => data'[Target] = Wanted
      BY <1>4, <3>1, <3>2 DEF Torn
    <3>4. CASE ~Awaits("load")
      BY <2>4, <3>3, <3>4 DEF Inv, Restored
    <3>5. CASE Awaits("load")
      <4>1. /\ task[W]["load"].run # "none" =>
                 task[W]["load"].result = Wanted /\ task[W]["load"].mounts = {Target}
            /\ task[W]["load"].run = "ok" => data[Target] = Wanted
        BY <2>4, <3>5 DEF Inv, Restored
      <4>2. CASE w = W /\ name = "load"
        <5>1. result = Wanted /\ t.mounts = {Target}
          BY <1>1, <4>1, <4>2
        <5>2. task'[W]["load"].result = Wanted /\ task'[W]["load"].mounts = {Target}
          BY <1>8, <3>1, <4>2, <5>1
        <5>3. task'[W]["load"].run = "ok" => data'[Target] = Wanted
          <6> HAVE task'[W]["load"].run = "ok"
          <6>1. outcome = "ok"
            BY <1>8, <4>2
          <6>2. task' = [task EXCEPT ![w][name].run = "ok"]
            BY <1>2, <6>1
          <6>3. task' # [task EXCEPT ![w][name].run = "failed"]
            BY <1>6, <6>2 DEF Task
          <6>4. data' = [v \in Volumes |-> IF name = "load" /\ v \in t.mounts THEN result ELSE data[v]]
            BY <1>1, <6>3
          <6> QED BY <3>1, <4>2, <5>1, <6>4
        <5> QED BY <3>5, <5>2, <5>3
      <4>3. CASE w # W \/ name # "load"
        <5>1. task'[W]["load"] = task[W]["load"]
          BY <1>8, <3>1, <4>3
        <5> QED BY <3>3, <3>5, <4>1, <5>1
      <4> QED BY <4>2, <4>3
    <3> QED BY <3>4, <3>5
  <2> QED BY <1>1, <1>5, <2>2, <2>3, <2>4 DEF Restored
<1> QED BY <1>5, <1>11, <1>13, <1>14 DEF Inv, Ground

----------------------------------------------------------------------------
(* The control plane, and what kills a handler.                              *)

(* A handler that is gone left nothing but what is in Docker.                *)
LEMMA AtRest ==
    ASSUME TypeOK, NEW x
    PROVE  Idle \in Handler /\ (h' = Idle => ~Left(x)' /\ ~Good' /\ ~h'.on /\ Ordered(h'.todo) /\ ~Awaits(x)')
<1>1. <<>> \in Seq(Steps)
  OBVIOUS
<1>2. Idle \in Handler /\ Idle.todo = <<>> /\ ~Idle.on
  BY <1>1 DEF Idle, Handler, Names
<1>3. h' = Idle => h'.todo = <<>> /\ ~h'.on
  BY <1>2
<1> QED BY <1>2, <1>3 DEF Left, Good, Ordered, Awaits

(* The agent, or its whole host, is gone; or a failure was reported.         *)
LEMMA RestInv ==
    ASSUME Inv, Ground', h' = Idle, h.on \/ ~Left("load"),
           UNCHANGED <<engine, item, bucket, staged, known>>
    PROVE  Inv'
<1>0. TypeOK /\ Itemised /\ Course
  BY DEF Inv
<1>1. \A x : ~Left(x)'
  BY <1>0, AtRest
<1>2. ~Good' /\ ~h'.on /\ Ordered(h'.todo)
  BY <1>0, AtRest
<1>3. W' = W /\ Target' = Target /\ Staging' = Staging
  BY DEF W, Target, Staging, known
<1>4. h'.failed = FALSE
  BY DEF Idle
<1>5. Course'
  BY <1>1, <1>2, <1>4 DEF Course
<1>6. Wiping' /\ Served' /\ BackedUp'
  BY <1>1, <1>2 DEF Wiping, Served, BackedUp
<1>7. Restored'
  BY <1>1, <1>2, <1>3 DEF Inv, Restored
<1>8. Unstaged'
  BY <1>2, <1>3 DEF Inv, Unstaged
<1> QED BY <1>5, <1>6, <1>7, <1>8 DEF Inv, Ground

(* Nothing of the ground moves when a handler stops.                         *)
LEMMA GroundRests ==
    ASSUME Inv, h' = Idle, faults' \in 0 .. MaxFaults,
           UNCHANGED <<engine, data, box, task, staged, bucket, receipt, item, born, known>>
    PROVE  Ground'
<1>0. TypeOK /\ Itemised /\ Course /\ Counted /\ W' = W /\ Target' = Target
  BY DEF Inv, W, Target
<1>1. TypeOK'
  <2>1. h' \in Handler
    BY <1>0, AtRest
  <2> QED BY <1>0, <2>1 DEF TypeOK, Handler, known
<1>2. Itemised' /\ Traces' /\ Wiped' /\ Receipted'
  BY <1>0 DEF Inv, Itemised, Traces, Wiped, Receipted, known
<1>3. Stored'
  <2>1. \A w \in Ids, v \in Volumes : LoadedAt(w, v)'
    BY <1>0 DEF Inv, Stored, LoadedAt
  <2> QED BY <2>1 DEF Inv, Stored
<1>4. Counted'
  <2>1. Empties' = Empties /\ Leases' = Leases
    BY DEF Empties, Leases, known
  <2>2. Credit' = 0 /\ Credit \in {0, 1}
    <3>1. ~h'.on
      BY <1>0, AtRest
    <3> QED BY <3>1 DEF Credit
  <2>3. born \in Nat /\ Cardinality(Empties) \in Nat /\ Leases \in Int
    <3>1. issued \in Nat /\ item.tries \in Nat /\ born \in Nat
      BY <1>0, Typed DEF Item
    <3> QED BY <1>0, <3>1, BornSmall DEF Leases
  <2> QED BY <1>0, <2>1, <2>2, <2>3 DEF Counted
<1> QED BY <1>1, <1>2, <1>3, <1>4 DEF Ground

(* The agent dies: the tasks go on.                                         *)
LEMMA AgentDiesInv == ASSUME Inv, AgentDies PROVE Inv'
<1>1. /\ h.on /\ h' = Idle /\ TypeOK /\ (Fault \/ NoFault)
      /\ UNCHANGED <<engine, data, box, task, staged, bucket, receipt, item, born, known>>
  BY DEF AgentDies, Inv, docker
<1>2. faults' \in 0 .. MaxFaults
  BY <1>1, Faulted
<1> QED BY <1>1, <1>2, GroundRests, RestInv

(* The host dies: every running task fails.                                 *)
LEMMA HostDiesInv == ASSUME Inv, HostDies PROVE Inv'
<1>1. /\ h' = Idle /\ TypeOK /\ (Fault \/ NoFault) /\ Itemised /\ Traces /\ Stored /\ Course
      /\ UNCHANGED <<engine, data, box, staged, bucket, receipt, item, born, known>>
      /\ task' = [w \in Ids |-> [n \in Names |-> IF task[w][n].run = "running"
                    THEN [task[w][n] EXCEPT !.run = "failed"] ELSE task[w][n]]]
  BY DEF HostDies, Inv
<1>2. faults' \in 0 .. MaxFaults
  BY <1>1, Faulted
<1>3. /\ task' \in [Ids -> [Names -> Task]]
      /\ \A w \in Ids, n \in Names :
           /\ task'[w][n].mounts = task[w][n].mounts /\ task'[w][n].result = task[w][n].result
           /\ task'[w][n].run # "running"
           /\ task[w][n].run = "none" => task'[w][n] = task[w][n]
  <2>1. \A w \in Ids, n \in Names : task[w][n] \in Task
    BY <1>1, Typed
  <2>2. \A w \in Ids, n \in Names :
          /\ task'[w][n] \in Task
          /\ task'[w][n].mounts = task[w][n].mounts /\ task'[w][n].result = task[w][n].result
          /\ task'[w][n].run # "running"
          /\ task[w][n].run = "none" => task'[w][n] = task[w][n]
    <3> TAKE w \in Ids, n \in Names
    <3> DEFINE t == task[w][n]
    <3>1. t \in Task /\ task'[w][n] = IF t.run = "running" THEN [t EXCEPT !.run = "failed"] ELSE t
      BY <1>1, <2>1
    <3> HIDE DEF t
    <3>2. CASE t.run = "running"
      <4>1. /\ [t EXCEPT !.run = "failed"] \in Task
            /\ [t EXCEPT !.run = "failed"].mounts = t.mounts
            /\ [t EXCEPT !.run = "failed"].result = t.result
            /\ [t EXCEPT !.run = "failed"].run = "failed"
        BY <3>1 DEF Task
      <4> QED BY <3>1, <3>2, <4>1 DEF t
    <3>3. CASE t.run # "running"
      BY <3>1, <3>3 DEF t
    <3> QED BY <3>2, <3>3
  <2> QED BY <1>1, <2>2
<1>4. "load" \in Names /\ "upload" \in Names /\ W' = W /\ Target' = Target
  BY <1>1 DEF Names, W, Target
<1>5. TypeOK'
  <2>1. h' \in Handler
    BY <1>1, AtRest
  <2> QED BY <1>1, <1>2, <1>3, <2>1 DEF TypeOK, Handler, known
<1>6. Itemised' /\ Receipted'
  BY <1>1, <1>4 DEF Inv, Itemised, Receipted, known
<1>7. Traces'
  <2>1. \A w \in Ids : w > issued => \A n \in Names : task'[w][n] = NoTask
    <3> SUFFICES ASSUME NEW w \in Ids, w > issued, NEW n \in Names PROVE task'[w][n] = NoTask
      OBVIOUS
    <3>1. task[w][n] = NoTask /\ NoTask.run = "none"
      BY <1>1 DEF Traces, NoTask
    <3> QED BY <1>3, <3>1
  <2>2. \A w \in Ids : task[w]["upload"].run = "none" => task'[w]["upload"].run = "none"
    BY <1>3, <1>4
  <2>3. saved \subseteq Ids /\ (item # NoItem => W \in Ids)
    BY <1>1, Working DEF TypeOK
  <2> QED BY <1>1, <1>4, <2>1, <2>2, <2>3 DEF Traces, known
<1>8. Stored'
  <2>1. \A w \in Ids : /\ task'[w]["load"].mounts = task[w]["load"].mounts
                       /\ task'[w]["load"].result = task[w]["load"].result
                       /\ task'[w]["load"].run # "running"
    BY <1>3, <1>4
  <2>2. \A w \in Ids, v \in Volumes : LoadedAt(w, v)'
    BY <1>1, <1>4, <2>1 DEF Stored, LoadedAt
  <2> QED BY <1>1, <2>2 DEF Stored
<1>9. Wiped'
  <2>1. \A w \in Ids : task'[w]["load"].mounts = task[w]["load"].mounts
    BY <1>3, <1>4
  <2> QED BY <1>1, <1>4, <2>1 DEF Inv, Wiped
<1>10. Counted'
  <2>1. Empties' = Empties /\ Leases' = Leases
    BY <1>1 DEF Empties, Leases, known
  <2>2. Credit' = 0 /\ Credit \in {0, 1}
    <3>1. ~h'.on
      BY <1>1, AtRest
    <3> QED BY <3>1 DEF Credit
  <2>3. born \in Nat /\ Cardinality(Empties) \in Nat /\ Leases \in Int /\ Counted
    <3>1. issued \in Nat /\ item.tries \in Nat /\ born \in Nat /\ Counted
      BY <1>1, Typed DEF Item, Inv
    <3> QED BY <1>1, <3>1, BornSmall DEF Leases
  <2> QED BY <1>1, <2>1, <2>2, <2>3 DEF Counted
<1>11. h.on \/ ~Left("load")
  BY <1>1 DEF Course, Idle, Left
<1> QED BY <1>1, <1>5, <1>6, <1>7, <1>8, <1>9, <1>10, <1>11, RestInv DEF Ground

(* An item, dropped or done, is followed by the next.                        *)
LEMMA LeasesUp ==
    ASSUME TypeOK, Itemised, item # NoItem
    PROVE  /\ Leases \in Int /\ issued * MaxTries \in Int /\ Leases <= issued * MaxTries
           /\ (issued - 1) * MaxTries + item.tries + 1 = Leases + 1
<1>1. issued \in Nat /\ item.tries \in Nat /\ item.tries <= MaxTries /\ MaxTries \in Nat
  BY Typed DEF Item
<1>2. (issued - 1) * MaxTries = issued * MaxTries - MaxTries /\ issued * MaxTries \in Int
  BY <1>1
<1> QED BY <1>1, <1>2 DEF Leases

(* No item is at work.                                                       *)
LEMMA NoneInv ==
    ASSUME Inv, item # NoItem, item' = NoItem, h' = Idle,
           UNCHANGED <<engine, data, box, task, staged, bucket, receipt, issued, born, faults>>,
           attached' \in Volumes \cup {NoVolume}, restored' \subseteq Volumes,
           saved' = saved \/ (saved' = saved \cup {W} /\ task[W]["upload"].run = "none")
    PROVE  Inv'
<1>0. /\ TypeOK /\ Itemised /\ Course /\ Counted /\ Traces /\ W \in Ids /\ W = issued
      /\ NoItem.kind = "none" /\ NoItem.gen = 0 /\ NoItem.id = 0
  BY Working DEF Inv, NoItem
<1>1. \A x : ~Left(x)' /\ ~Good' /\ ~h'.on /\ Ordered(h'.todo)
  BY <1>0, AtRest
<1>2. ~h'.failed /\ h' \in Handler
  BY <1>0, AtRest DEF Idle
<1>3. NoItem \in Item
  BY <1>0, Typed DEF NoItem, Item, Clusters
<1>4. TypeOK'
  BY <1>0, <1>2, <1>3 DEF TypeOK, Handler
<1>5. Itemised'
  BY <1>0 DEF Itemised, Writing
<1>6. Course'
  BY <1>1, <1>2 DEF Course
<1>7. Traces'
  <2>1. issued \in 0 .. MaxWork /\ \A w \in Ids : w > issued => w # W
    <3>1. issued \in Nat /\ \A w \in Ids : w \in Nat
      BY <1>0, Typed DEF Ids
    <3>2. \A w \in Ids : w > issued => ~(w = issued)
      BY <3>1
    <3> QED BY <1>0, <3>2, Typed
  <2>2. \A w \in Ids : w > issued => w \notin saved' \cup staged' /\ \A n \in Names : task'[w][n] = NoTask
    BY <1>0, <2>1 DEF Traces
  <2>3. \A w \in saved' : task[w]["upload"].run = "none"
    BY <1>0 DEF Traces
  <2> QED BY <1>0, <2>2, <2>3 DEF Traces
<1>8. Stored'
  <2>1. \A w \in Ids, v \in Volumes : LoadedAt(w, v)'
    <3> SUFFICES ASSUME NEW w \in Ids, NEW v \in Volumes PROVE LoadedAt(w, v)'
      OBVIOUS
    <3>1. LoadedAt(w, v)
      BY DEF Inv, Stored
    <3>2. item'.kind \notin Writing
      BY <1>0 DEF Writing
    <3> QED BY <3>1, <3>2 DEF LoadedAt
  <2> QED BY <2>1 DEF Inv, Stored
<1>9. Wiped' /\ Receipted'
  BY <1>0 DEF Wiped, Receipted
<1>10. Wiping' /\ Served' /\ BackedUp'
  BY <1>0, <1>1 DEF Wiping, Served, BackedUp
<1>11. Restored' /\ Unstaged'
  BY <1>0, <1>1 DEF Restored, Unstaged
<1>12. Counted'
  <2>1. Empties' = Empties
    BY DEF Empties
  <2>2. Leases' = issued * MaxTries
    BY DEF Leases
  <2>3. Credit' = 0 /\ Credit \in {0, 1}
    BY <1>1 DEF Credit
  <2>4. born \in Nat /\ Cardinality(Empties) \in Nat
    BY <1>0, BornSmall, Typed
  <2> QED BY <1>0, <2>1, <2>2, <2>3, <2>4, LeasesUp DEF Counted
<1> QED BY <1>4, <1>5, <1>6, <1>7, <1>8, <1>9, <1>10, <1>11, <1>12 DEF Inv

(* The control plane gives an item up.                                      *)
LEMMA GiveUpInv == ASSUME Inv, GiveUp PROVE Inv'
<1>1. h' = Idle /\ attached \in Volumes \cup {NoVolume} /\ restored \subseteq Volumes
  BY DEF GiveUp, Inv, Course, TypeOK
<1> QED BY <1>1, NoneInv DEF GiveUp, docker, known

(* The report of an item ends it.                                           *)
LEMMA ReportInv == ASSUME Inv, Report PROVE Inv'
<1>1. /\ Finished /\ h' = Idle /\ TypeOK /\ Course /\ Itemised /\ h.on /\ item # NoItem
      /\ UNCHANGED <<engine, data, box, task, staged, bucket, receipt, issued, born>>
      /\ (Fault \/ NoFault)
  BY DEF Report, Inv, Finished, Course, docker
<1>2. \A x : ~Left(x)
  BY <1>1 DEF Finished, Left
<1>3. faults' \in 0 .. MaxFaults /\ Target \in Volumes
  BY <1>1, Faulted, Working
<1>4. CASE UNCHANGED <<item, attached, saved, restored>>
  <2>1. UNCHANGED known
    BY <1>1, <1>4 DEF known
  <2> QED BY <1>1, <1>3, <1>4, <2>1, GroundRests, RestInv
<1>5. CASE /\ ~h.failed /\ NoFault /\ item' = NoItem
           /\ attached' = CASE item.kind = "apply" -> Target
                            [] item.kind = "remove" -> NoVolume
                            [] OTHER -> attached
           /\ saved' = IF item.kind = "backup" THEN saved \cup {W} ELSE saved
           /\ restored' = CASE item.kind \in {"restore", "pitr", "import"} -> restored \cup {Target}
                            [] item.kind \in {"delete", "wipe"} -> restored \ {Target}
                            [] OTHER -> restored
  <2>1. attached \in Volumes \cup {NoVolume} /\ restored \subseteq Volumes
    BY <1>1 DEF TypeOK
  <2>2. attached' \in Volumes \cup {NoVolume}
    BY <1>3, <1>5, <2>1
  <2>3. restored' \subseteq Volumes
    <3>1. restored' \in {restored \cup {Target}, restored \ {Target}, restored}
      <4>1. CASE item.kind \in {"restore", "pitr", "import"}
        BY <1>5, <4>1
      <4>2. CASE item.kind \in {"delete", "wipe"}
        BY <1>5, <4>2
      <4>3. CASE item.kind \notin {"restore", "pitr", "import", "delete", "wipe"}
        BY <1>5, <4>3
      <4> QED BY <4>1, <4>2, <4>3
    <3> QED BY <1>3, <2>1, <3>1
  <2>4. item.kind = "backup" => task[W]["upload"].run = "none"
    BY <1>1, <1>2, <1>5 DEF Inv, BackedUp, Awaits, Good
  <2>5. saved' = saved \/ (saved' = saved \cup {W} /\ task[W]["upload"].run = "none")
    BY <1>5, <2>4
  <2>6. UNCHANGED faults
    BY <1>5 DEF NoFault
  <2> QED BY <1>1, <1>5, <2>2, <2>3, <2>5, <2>6, NoneInv
<1>6. \/ /\ ~h.failed /\ NoFault /\ item' = NoItem
         /\ attached' = CASE item.kind = "apply" -> Target
                          [] item.kind = "remove" -> NoVolume
                          [] OTHER -> attached
         /\ saved' = IF item.kind = "backup" THEN saved \cup {W} ELSE saved
         /\ restored' = CASE item.kind \in {"restore", "pitr", "import"} -> restored \cup {Target}
                          [] item.kind \in {"delete", "wipe"} -> restored \ {Target}
                          [] OTHER -> restored
      \/ UNCHANGED <<item, attached, saved, restored>>
  BY DEF Report
<1> QED BY <1>4, <1>5, <1>6

(* What the control plane may ask for.                                       *)
LEMMA Requested ==
    ASSUME Inv, NEW r \in Requests
    PROVE  /\ r.kind \in {"provision", "apply", "wipe", "delete", "backup", "restore", "pitr", "import",
                          "restart", "remove"}
           /\ r.vol \in Volumes
           /\ r.kind \in {"provision", "backup", "restart", "remove"} => r.vol = attached
           /\ r.kind \in Writing =>
                /\ r.vol # attached /\ data[r.vol].is = "absent"
                /\ r.from \in IF r.kind = "import" THEN {issued + 1} ELSE saved
           /\ r.from \in saved \cup {0, issued + 1}
           /\ r.from = issued + 1 => r.kind = "import"
           /\ r.kind = "import" => engine # "mysql"
<1>1. /\ attached \in Volumes \cup {NoVolume} /\ restored \subseteq Volumes /\ TypeOK
      /\ saved \subseteq Ids
  BY DEF Inv, TypeOK
<1>2. issued \in Nat /\ \A w \in saved : w # issued + 1
  <2>1. issued \in Nat
    BY <1>1, Typed
  <2>2. \A w \in saved : w \in Ids /\ w \in Nat /\ ~(w > issued)
    BY <1>1 DEF Inv, Traces, Ids
  <2> QED BY <2>1, <2>2
<1>3. CASE attached = NoVolume
  <2>1. r \in [kind: {"delete"}, vol: Kept, from: {0}]
    BY <1>3 DEF Requests
  <2> QED BY <1>2, <2>1 DEF Kept, Writing
<1>4. CASE attached # NoVolume
  <2>0. attached \in Volumes
    BY <1>1, <1>4
  <2>1. \/ r \in [kind: {"provision", "backup", "restart", "remove"}, vol: {attached}, from: {0}]
        \/ r \in [kind: {"apply"}, vol: restored \ {attached}, from: {0}]
        \/ r \in [kind: {"wipe"}, vol: Kept \cup {attached}, from: {0}]
        \/ r \in [kind: {"delete"}, vol: Kept, from: {0}]
        \/ r \in [kind: {"restore", "pitr"}, vol: Fresh, from: saved]
        \/ r \in [kind: {"import"}, vol: Fresh, from: {issued + 1}] /\ engine # "mysql"
    BY <1>4 DEF Requests
  <2>2. CASE \/ r \in [kind: {"provision", "backup", "restart", "remove"}, vol: {attached}, from: {0}]
             \/ r \in [kind: {"apply"}, vol: restored \ {attached}, from: {0}]
    BY <1>1, <1>2, <2>0, <2>2 DEF Writing
  <2>3. CASE \/ r \in [kind: {"wipe"}, vol: Kept \cup {attached}, from: {0}]
             \/ r \in [kind: {"delete"}, vol: Kept, from: {0}]
    BY <1>2, <2>0, <2>3 DEF Writing, Kept
  <2>4. CASE r \in [kind: {"restore", "pitr"}, vol: Fresh, from: saved]
    BY <1>2, <2>4 DEF Writing, Fresh
  <2>5. CASE r \in [kind: {"import"}, vol: Fresh, from: {issued + 1}] /\ engine # "mysql"
    BY <2>5 DEF Writing, Fresh
  <2> QED BY <2>1, <2>2, <2>3, <2>4, <2>5
<1> QED BY <1>3, <1>4

(* The control plane issues an item.                                        *)
LEMMA IssueInv == ASSUME Inv, Issue PROVE Inv'
<1>1. /\ item = NoItem /\ issued < MaxWork /\ issued' = issued + 1
      /\ UNCHANGED <<engine, data, box, task, staged, receipt, h, attached, saved, restored, born, faults>>
      /\ TypeOK /\ Itemised /\ Course /\ Traces /\ Stored /\ Counted
  BY DEF Issue, Inv, docker
<1>2. PICK r \in Requests :
        item' = [id |-> issued', kind |-> r.kind, vol |-> r.vol, from |-> r.from,
                 gen |-> IF r.kind = "wipe" /\ engine = "postgres" THEN issued' ELSE 0,
                 emptied |-> Foreign, tries |-> 0]
  BY DEF Issue
<1>3. /\ r.kind \in {"provision", "apply", "wipe", "delete", "backup", "restore", "pitr", "import",
                          "restart", "remove"}
      /\ r.vol \in Volumes
      /\ r.kind \in {"provision", "backup", "restart", "remove"} => r.vol = attached
      /\ r.kind \in Writing =>
           /\ r.vol # attached /\ data[r.vol].is = "absent"
           /\ r.from \in IF r.kind = "import" THEN {issued + 1} ELSE saved
      /\ r.from \in saved \cup {0, issued + 1}
      /\ r.from = issued + 1 => r.kind = "import"
      /\ r.kind = "import" => engine # "mysql"
  BY Requested
<1>4. /\ item'.id = issued' /\ item'.kind = r.kind /\ item'.vol = r.vol /\ item'.from = r.from
      /\ item'.gen = (IF r.kind = "wipe" /\ engine = "postgres" THEN issued' ELSE 0)
      /\ item'.emptied = Foreign /\ item'.tries = 0
  BY <1>2
<1>5. W' = issued' /\ Target' = r.vol
  BY <1>4 DEF W, Target
<1>6. /\ issued \in Nat /\ MaxWork \in Nat /\ issued' \in 1 .. MaxWork /\ issued' \in Ids /\ issued' > issued
      /\ Foreign \in Clusters /\ saved \subseteq Ids
  BY <1>1, Typed DEF Ids, Clusters, TypeOK
<1>7. item' # NoItem /\ item' \in Item
  <2>1. r.from \in 0 .. MaxWork /\ MaxTries \in Nat
    <3>1. \A w \in saved : w \in 0 .. MaxWork
      BY <1>6 DEF Ids
    <3>2. issued + 1 \in 0 .. MaxWork /\ 0 \in 0 .. MaxWork
      BY <1>1, <1>6
    <3> QED BY <1>3, <3>1, <3>2
  <2>2. (IF r.kind = "wipe" /\ engine = "postgres" THEN issued' ELSE 0) \in 0 .. MaxWork
    BY <1>6
  <2>3. 0 \in 0 .. MaxTries /\ issued' \in 0 .. MaxWork
    BY <1>6, <2>1
  <2>4. item' \in Item
    BY <1>2, <1>3, <1>6, <2>1, <2>2, <2>3 DEF Item
  <2>5. NoItem.kind = "none" /\ item'.kind # "none"
    BY <1>3, <1>4 DEF NoItem
  <2> QED BY <2>4, <2>5
<1>8. /\ bucket' \in [Ids -> [is: {"none", "unchecked", "good"}, id: Clusters]]
      /\ r.kind = "import" => bucket'[issued'].id = Foreign
  <2>1. bucket' = IF r.kind = "import"
                  THEN [bucket EXCEPT ![issued'] = [is |-> "good", id |-> Foreign]] ELSE bucket
    BY <1>4 DEF Issue
  <2>2. bucket \in [Ids -> [is: {"none", "unchecked", "good"}, id: Clusters]]
    BY <1>1, Typed
  <2> QED BY <1>6, <2>1, <2>2
<1>9. h = Idle /\ h' = Idle
  <2>1. ~h.on
    BY <1>1 DEF Course
  <2> QED BY <1>1, <2>1 DEF Course
<1>10. \A x : ~Left(x)' /\ ~Good' /\ ~h'.on /\ Ordered(h'.todo)
  BY <1>1, <1>9, AtRest
<1>11. TypeOK'
  <2>1. issued' \in 0 .. MaxWork
    BY <1>6
  <2> QED BY <1>1, <1>7, <1>8, <2>1 DEF TypeOK
<1>12. Itemised'
  <2>1. issued' > 0
    BY <1>6
  <2>2. item'.gen # 0 => item'.kind = "wipe" /\ item'.gen = W'
    BY <1>4, <1>5
  <2> QED BY <1>1, <1>3, <1>4, <1>5, <2>1, <2>2 DEF Itemised
<1>13. Course'
  BY <1>9, <1>10 DEF Course, Idle
<1>14. Traces'
  <2>1. \A w \in Ids : w > issued' => w > issued
    BY <1>6 DEF Ids
  <2>2. \A v \in Volumes : receipt[v] <= issued'
    <3> SUFFICES ASSUME NEW v \in Volumes PROVE receipt[v] <= issued'
      OBVIOUS
    <3>1. receipt[v] \in 0 .. MaxWork /\ receipt[v] <= issued
      BY <1>1, Typed DEF Traces
    <3> QED BY <1>1, <1>6, <3>1
  <2>3. W' \notin saved /\ task[W']["upload"].run = "none"
    <3>1. "upload" \in Names /\ NoTask.run = "none"
      BY DEF Names, NoTask
    <3>2. W' \in Ids /\ W' > issued
      BY <1>5, <1>6
    <3> QED BY <1>1, <3>1, <3>2 DEF Traces
  <2> QED BY <1>1, <2>1, <2>2, <2>3 DEF Traces
<1>15. Stored'
  <2>1. \A w \in Ids, v \in Volumes : LoadedAt(w, v)'
    <3> SUFFICES ASSUME NEW w \in Ids, NEW v \in Volumes PROVE LoadedAt(w, v)'
      OBVIOUS
    <3>1. LoadedAt(w, v)
      BY <1>1 DEF Stored
    <3>2. v \in task[w]["load"].mounts => ~(item'.kind \in Writing /\ v = Target')
      <4>1. v \in task[w]["load"].mounts => data[v].is \in {"torn", "cluster"}
        BY <3>1 DEF LoadedAt
      <4> QED BY <1>3, <1>4, <1>5, <4>1
    <3> QED BY <1>1, <3>1, <3>2 DEF LoadedAt
  <2> QED BY <1>1, <2>1 DEF Stored
<1>16. Wiped' /\ Receipted'
  <2>1. item'.gen # 0 => receipt[Target'] # item'.gen
    <3>1. receipt[Target'] \in 0 .. MaxWork /\ receipt[Target'] <= issued
      BY <1>1, <1>3, <1>5, Typed DEF Traces
    <3>2. receipt[Target'] # issued'
      BY <1>1, <1>6, <3>1
    <3> QED BY <1>4, <3>2
  <2> QED BY <1>1, <1>4, <2>1 DEF Wiped, Receipted
<1>17. Wiping' /\ Served' /\ BackedUp'
  BY <1>10 DEF Wiping, Served, BackedUp
<1>18. Restored'
  BY <1>4, <1>5, <1>8, <1>10 DEF Restored
<1>19. Unstaged'
  <2>1. W' \notin staged
    BY <1>1, <1>5, <1>6 DEF Traces
  <2> QED BY <1>1, <1>10, <2>1 DEF Unstaged
<1>20. Counted'
  <2>1. Empties' = Empties
    BY <1>1 DEF Empties
  <2>2. Leases' = Leases
    <3>1. Leases' = (issued' - 1) * MaxTries + 0
      BY <1>4, <1>7 DEF Leases
    <3>2. Leases = issued * MaxTries /\ issued' - 1 = issued
      BY <1>1, <1>6 DEF Leases
    <3>3. issued * MaxTries \in Nat
      BY <1>6
    <3> QED BY <3>1, <3>2, <3>3
  <2>3. Credit' = 0 /\ Credit = 0
    BY <1>1, <1>9, <1>10 DEF Credit, Idle
  <2> QED BY <1>1, <2>1, <2>2, <2>3 DEF Counted
<1> QED BY <1>11, <1>12, <1>13, <1>14, <1>15, <1>16, <1>17, <1>18, <1>19, <1>20 DEF Inv

(* An item is leased, again or for the first time: the handler starts over. *)
LEMMA LeaseInv == ASSUME Inv, Lease PROVE Inv'
<1> DEFINE steps == StepsOf(item.kind)
           S == Program \ {"await"}
<1>1. /\ item # NoItem /\ ~h.on /\ item' = [item EXCEPT !.tries = @ + 1]
      /\ item.tries < IF item.kind = "import" THEN 1 ELSE MaxTries
      /\ UNCHANGED <<engine, data, box, task, staged, bucket, receipt, known, born, faults>>
      /\ h' = [Idle EXCEPT !.on = TRUE, !.todo = steps]
      /\ TypeOK /\ Itemised /\ Course /\ Traces /\ Stored /\ Wiped /\ Receipted /\ Counted
  BY DEF Lease, Inv, docker
<1>2. /\ W \in Ids /\ Target \in Volumes /\ item.kind # "none" /\ item \in Item
      /\ item.tries \in Nat /\ MaxTries \in Nat /\ issued \in Nat
  BY <1>1, Working, Typed DEF Item
<1>3. /\ item'.tries = item.tries + 1 /\ item' \in Item /\ item'.kind = item.kind
      /\ item'.id = item.id /\ item'.vol = item.vol /\ item'.from = item.from
      /\ item'.gen = item.gen /\ item'.emptied = item.emptied
  <2>1. item.tries + 1 \in 0 .. MaxTries
    <3>1. item.tries < 1 \/ item.tries < MaxTries
      BY <1>1
    <3> QED BY <1>2, <3>1
  <2> QED BY <1>1, <1>2, <2>1 DEF Item
<1>4. /\ W' = W /\ Target' = Target /\ Program' = Program /\ Staging' = Staging
      /\ item' # NoItem /\ item'.tries > 0 /\ UNCHANGED attached
  <2>1. item' # NoItem /\ item'.tries > 0
    BY <1>2, <1>3 DEF NoItem
  <2>2. W' = W /\ Target' = Target /\ UNCHANGED <<attached, engine>>
    BY <1>1, <1>3 DEF W, Target, known
  <2>3. Program' = Program /\ Staging' = Staging
    BY <1>3, <2>2 DEF Program, Staging
  <2> QED BY <2>1, <2>2, <2>3
<1>5. IsList(steps, S)
  BY <1>1, <1>2, Programs
<1>6. steps \in Seq(Steps) /\ Ordered(steps) /\ \A x : In(x, steps) <=> x \in S
  BY <1>5 DEF IsList
<1> HIDE DEF steps
<1>7. h' \in Handler /\ h'.on /\ h'.todo = steps /\ ~h'.failed /\ Good'
  BY <1>1, <1>6 DEF Idle, Handler, Names, Good
<1>8. \A x : Left(x)' <=> x \in S
  BY <1>6, <1>7, LeftIn
<1>9. S = Program \ {"await"}
  OBVIOUS
<1> HIDE DEF S
<1>10. TypeOK'
  BY <1>1, <1>3, <1>7 DEF TypeOK, Handler, known
<1>11. Itemised' /\ Wiped' /\ Receipted'
  BY <1>1, <1>3, <1>4 DEF Itemised, Wiped, Receipted, known
<1>12. Traces'
  BY <1>1, <1>3, <1>4 DEF Traces, known
<1>13. Stored'
  <2>1. \A w \in Ids, v \in Volumes : LoadedAt(w, v)'
    BY <1>1, <1>3, <1>4 DEF Stored, LoadedAt
  <2> QED BY <1>1, <2>1 DEF Stored
<1>14. Course'
  <2>1. /\ "stage" \in S => "finally" \in S
        /\ "clear" \in S => "provision" \in S /\ "ready" \in S
        /\ "erase" \in S /\ item.kind = "wipe" => "check" \in S
    BY <1>9, <1>10, <1>3 DEF Program, TypeOK, Item
  <2> QED BY <1>3, <1>4, <1>6, <1>7, <1>8, <1>9, <2>1 DEF Course
<1>15. Wiping'
  <2>1. item.kind = "wipe" => "erase" \in S /\ "receipt" \in S /\ "look" \in S
    BY <1>9 DEF Program
  <2>2. item.gen # 0 => item.kind = "wipe"
    BY <1>1 DEF Itemised
  <2> QED BY <1>3, <1>8, <2>1, <2>2 DEF Wiping
<1>16. Served'
  <2>1. /\ item.kind \in Serving \/ (item.kind = "wipe" /\ Target = attached) =>
             "provision" \in S /\ "ready" \in S
        /\ item.kind = "wipe" => "check" \in S
        /\ item.kind = "delete" => "erase" \in S
        /\ item.kind = "restart" => "ready" \in S
        /\ item.kind = "remove" => "dispose" \in S
    BY <1>9 DEF Program, Serving
  <2> QED BY <1>3, <1>4, <1>8, <2>1 DEF Served
<1>17. BackedUp'
  <2>1. item.kind = "backup" => "upload" \in S
    BY <1>9 DEF Program
  <2> QED BY <1>3, <1>8, <2>1 DEF BackedUp
<1>18. Restored'
  <2>1. item.kind \in Writing => "load" \in S
    BY <1>9 DEF Program, Writing
  <2>2. item.kind = "import" => item.tries = 0
    BY <1>1, <1>2
  <2> QED BY <1>1, <1>3, <1>4, <1>8, <2>1, <2>2 DEF Restored, Inv
<1>19. Unstaged'
  <2>1. Staging => "finally" \in S
    BY <1>9 DEF Program, Staging
  <2> QED BY <1>1, <1>4, <1>7, <1>8, <2>1 DEF Unstaged, Inv
<1>20. Counted'
  <2>1. Empties' = Empties
    BY <1>1 DEF Empties
  <2>2. Leases' = Leases + 1 /\ Leases \in Int
    <3>1. Leases' = (issued - 1) * MaxTries + (item.tries + 1)
      BY <1>1, <1>3, <1>4 DEF Leases, known
    <3>2. (issued - 1) * MaxTries \in Int /\ Leases = (issued - 1) * MaxTries + item.tries
      BY <1>1, <1>2 DEF Leases
    <3> QED BY <1>2, <3>1, <3>2
  <2>3. Credit = 0 /\ Credit' \in {0, 1}
    BY <1>1 DEF Credit
  <2>4. born \in Nat /\ Cardinality(Empties) \in Nat
    BY <1>1, BornSmall, Typed
  <2> QED BY <1>1, <2>1, <2>2, <2>3, <2>4 DEF Counted
<1> QED BY <1>10, <1>11, <1>12, <1>13, <1>14, <1>15, <1>16, <1>17, <1>18, <1>19, <1>20 DEF Inv

----------------------------------------------------------------------------
(* The invariant holds.                                                      *)

(* Nothing has been issued, and the attached volume holds the first         *)
(* cluster.                                                                 *)
LEMMA InitInv == ASSUME Init PROVE Inv
<1>1. /\ engine \in Engines /\ attached \in Volumes /\ box = attached
      /\ data = [v \in Volumes |-> IF v = attached THEN Cluster(0) ELSE Absent]
      /\ task = [w \in Ids |-> [n \in Names |-> NoTask]]
      /\ staged = {} /\ bucket = [w \in Ids |-> NoObject]
      /\ receipt = [v \in Volumes |-> 0] /\ saved = {} /\ restored = {}
      /\ item = NoItem /\ h = Idle /\ issued = 0 /\ born = 0 /\ faults = 0
  BY DEF Init
<1>2. MaxWork * MaxTries \in Nat /\ MaxWork \in Nat /\ MaxFaults \in Nat /\ 0 \in 0 .. MaxWork
      /\ 0 \in 0 .. MaxTries /\ 0 \in 0 .. MaxFaults
  OBVIOUS
<1>3. Foreign \in Nat /\ 0 \in Clusters
  BY <1>2 DEF Foreign, Clusters
<1>4. /\ Cluster(0) \in Content /\ Absent \in Content /\ NoTask \in Task /\ NoItem \in Item
      /\ Idle \in Handler
      /\ NoObject \in [is: {"none", "unchecked", "good"}, id: Clusters]
  <2>1. Cluster(0) \in Content /\ Absent \in Content
    BY <1>3 DEF Cluster, Absent, Content
  <2>2. NoTask \in Task
    BY <2>1 DEF NoTask, Task
  <2>3. NoItem \in Item
    BY <1>2, <1>3 DEF NoItem, Item
  <2>4. <<>> \in Seq(Steps)
    OBVIOUS
  <2>5. Idle \in Handler
    BY <2>4 DEF Idle, Handler, Names
  <2>6. NoObject \in [is: {"none", "unchecked", "good"}, id: Clusters]
    BY <1>3 DEF NoObject
  <2> QED BY <2>1, <2>2, <2>3, <2>5, <2>6
<1>5. TypeOK
  <2>1. data \in [Volumes -> Content]
    BY <1>1, <1>4
  <2>2. task \in [Ids -> [Names -> Task]]
    BY <1>1, <1>4
  <2>3. bucket \in [Ids -> [is: {"none", "unchecked", "good"}, id: Clusters]]
    BY <1>1, <1>4
  <2>4. receipt \in [Volumes -> 0 .. MaxWork]
    BY <1>1, <1>2
  <2> QED BY <1>1, <1>2, <1>3, <1>4, <2>1, <2>2, <2>3, <2>4 DEF TypeOK, Handler
<1>6. \A x : ~Left(x)
  BY <1>1 DEF Left, Idle
<1>7. ~h.on /\ ~h.failed /\ Ordered(h.todo) /\ ~Good
  BY <1>1 DEF Idle, Ordered, Good
<1>8. NoItem.kind = "none" /\ NoItem.gen = 0 /\ W = 0
  BY <1>1 DEF NoItem, W
<1>9. Itemised
  BY <1>1, <1>8 DEF Itemised, Writing
<1>10. Course
  BY <1>1, <1>6, <1>7 DEF Course
<1>11. "upload" \in Names /\ "load" \in Names /\ NoTask.mounts = {}
  BY DEF Names, NoTask
<1>12. Traces
  BY <1>1, <1>2, <1>11 DEF Traces
<1>13. Stored
  <2>1. \A w \in Ids, v \in Volumes : LoadedAt(w, v)
    BY <1>1, <1>11 DEF LoadedAt
  <2>2. \A v \in Volumes : data[v] = Cluster(0) \/ data[v] = Absent
    BY <1>1
  <2>3. data[attached] = Cluster(0)
    BY <1>1
  <2> QED BY <1>1, <2>1, <2>2, <2>3 DEF Stored, Cluster
<1>14. Wiped /\ Receipted /\ Wiping /\ Served /\ BackedUp /\ Restored /\ Unstaged
  <2>1. Wiped /\ Receipted
    BY <1>1, <1>8 DEF Wiped, Receipted
  <2>2. Wiping /\ Served /\ BackedUp
    BY <1>6, <1>7 DEF Wiping, Served, BackedUp
  <2> QED BY <1>1, <1>7, <1>8, <2>1, <2>2 DEF Restored, Unstaged
<1>15. Counted
  <2>1. Empties = {}
    BY <1>1 DEF Empties, Cluster, Absent
  <2>2. IsFiniteSet(Empties) /\ Cardinality(Empties) = 0
    BY <2>1, FS_EmptySet
  <2>3. Leases = 0 /\ Credit = 0
    BY <1>1, <1>7 DEF Leases, Credit
  <2> QED BY <1>1, <2>2, <2>3 DEF Counted
<1> QED BY <1>5, <1>9, <1>10, <1>12, <1>13, <1>14, <1>15 DEF Inv

(* A step of something else.                                                *)
LEMMA StutterInv == ASSUME Inv, UNCHANGED vars PROVE Inv'
<1>1. UNCHANGED <<engine, box, staged, receipt, item, h, known, data, task, bucket, born, faults>>
  BY DEF vars, known
<1>2. Ripens
  BY <1>1 DEF Ripens
<1>3. /\ Course' /\ Wiping' /\ Served' /\ Unstaged' /\ Good' = Good /\ W' = W /\ Target' = Target
      /\ \A x : Left(x)' <=> Left(x)
      /\ \A x : Awaits(x)' <=> Awaits(x)
  BY <1>1, <1>2, Settled
<1>4. TypeOK' /\ Itemised' /\ Traces'
  BY <1>1, <1>3 DEF Inv, TypeOK, Itemised, Traces, known
<1>5. Stored'
  <2>1. \A w \in Ids, v \in Volumes : LoadedAt(w, v)'
    BY <1>1, <1>3 DEF Inv, Stored, LoadedAt
  <2> QED BY <1>1, <2>1 DEF Inv, Stored
<1>6. Wiped' /\ Receipted'
  BY <1>1, <1>3 DEF Inv, Wiped, Receipted
<1>7. BackedUp'
  <2>1. UNCHANGED <<task, bucket, data, attached, item>>
    BY <1>1 DEF known
  <2> QED BY <1>3, <2>1 DEF Inv, BackedUp
<1>8. Restored'
  <2>1. Wanted' = Wanted
    BY <1>1 DEF Wanted, Artifact
  <2>2. UNCHANGED <<task, bucket, data, engine, item>>
    BY <1>1
  <2> QED BY <1>3, <2>1, <2>2 DEF Inv, Restored
<1>9. Counted'
  <2>1. Empties' = Empties /\ Leases' = Leases
    BY <1>1 DEF Empties, Leases, known
  <2>2. Credit' = Credit
    <3>1. h' = h /\ data' = data
      BY <1>1
    <3> QED BY <1>3, <3>1 DEF Credit
  <2> QED BY <1>1, <2>1, <2>2 DEF Inv, Counted
<1> QED BY <1>3, <1>4, <1>5, <1>6, <1>7, <1>8, <1>9 DEF Inv

(* Every step of the control plane, the agent and Docker keeps the          *)
(* invariant.                                                               *)
LEMMA NextInv == ASSUME Inv, Next PROVE Inv'
<1>1. CASE ControlPlane
  BY <1>1, IssueInv, LeaseInv, GiveUpInv, ReportInv DEF ControlPlane
<1>2. CASE AgentDies \/ HostDies \/ Initialise
  BY <1>2, AgentDiesInv, HostDiesInv, InitialiseInv
<1>3. CASE Volume
  BY <1>3, RestartInv, DisposeInv, LookInv, ClearInv, EraseInv, MakeInv, WriteReceiptInv,
     ProvisionInv, ReadyInv, CheckInv DEF Volume
<1>4. CASE Copies
  BY <1>4, UnstageInv, StageInv, DumpInv, UploadInv, FetchInv, VerifyInv, LoadInv, FinallyInv,
     SweepInv, AwaitInv DEF Copies
<1>5. CASE \E w \in Ids, name \in Names : TaskEnds(w, name)
  BY <1>5, TaskEndsInv
<1> QED BY <1>1, <1>2, <1>3, <1>4, <1>5 DEF Next

(* For any volumes, items, leases and faults, in any order of crashes and   *)
(* late tasks: each handler has established by each step it has taken what  *)
(* the next ones rely on.                                                   *)
THEOREM StorageInvariant == Spec => []Inv
<1>1. Init => Inv
  BY InitInv
<1>2. Inv /\ [Next]_vars => Inv'
  BY NextInv, StutterInv
<1> QED BY <1>1, <1>2, PTL DEF Spec

(* What a handler that finished without a failure established.               *)
LEMMA Reported == ASSUME Inv PROVE ReportIsTrue
<1>0. TypeOK /\ Itemised /\ Course
  BY DEF Inv
<1>1. \A kinds : Succeeded(kinds) =>
        /\ Good /\ item # NoItem /\ Target \in Volumes /\ data[Target] \in Content /\ item.kind \in kinds
        /\ \A x : ~Left(x) /\ ~Awaits(x)
  <2> SUFFICES ASSUME NEW kinds, Succeeded(kinds)
               PROVE  /\ Good /\ item # NoItem /\ Target \in Volumes /\ data[Target] \in Content
                      /\ item.kind \in kinds
                      /\ \A x : ~Left(x) /\ ~Awaits(x)
    OBVIOUS
  <2>1. Good /\ h.todo = <<>> /\ item.kind \in kinds
    BY DEF Succeeded, Finished, Good
  <2>2. item # NoItem
    BY <1>0, <2>1 DEF Good, Course
  <2>3. Target \in Volumes /\ data[Target] \in Content
    BY <1>0, <2>2, Working, Typed
  <2> QED BY <2>1, <2>2, <2>3 DEF Left, Awaits
<1>2. Succeeded({"wipe"}) => \/ data[Target].is = "empty" /\ Target # attached
                             \/ data[Target].is = "cluster" /\ data[Target].id > item.emptied
  <2> HAVE Succeeded({"wipe"})
  <2>1. /\ Good /\ item.kind = "wipe" /\ data[Target] \in Content
        /\ \A x : ~Left(x)
    BY <1>1
  <2>2. item.emptied # Foreign
    BY <2>1 DEF Inv, Wiping
  <2>3. /\ data[Target].is # "torn"
        /\ data[Target].is = "cluster" => data[Target].id > item.emptied
    BY <2>1, <2>2 DEF Inv, Wiped
  <2>4. /\ data[Target].is # "absent"
        /\ Target = attached => data[Target].is = "cluster"
    BY <2>1 DEF Inv, Served
  <2> QED BY <2>1, <2>3, <2>4 DEF Content
<1>3. Succeeded({"delete"}) => data[Target].is = "absent"
  BY <1>1 DEF Inv, Served
<1>4. Succeeded({"provision", "apply"}) => box = Target /\ data[Target].is = "cluster"
  <2> HAVE Succeeded({"provision", "apply"})
  <2>1. Good /\ item.kind \in Serving /\ \A x : ~Left(x)
    BY <1>1 DEF Serving
  <2> QED BY <2>1 DEF Inv, Served
<1>5. Succeeded({"restart"}) => Serves
  BY <1>1 DEF Inv, Served
<1>6. Succeeded({"remove"}) => box = NoVolume
  BY <1>1 DEF Inv, Served
<1>7. Succeeded({"backup"}) => bucket[W] = [is |-> "good", id |-> data[attached].id]
  BY <1>1 DEF Inv, BackedUp
<1>8. Succeeded({"restore", "pitr"}) /\ engine # "mysql" => data[Target] = Artifact
  <2> HAVE Succeeded({"restore", "pitr"}) /\ engine # "mysql"
  <2>1. Good /\ item.kind \in Writing /\ item.kind # "import" /\ \A x : ~Left(x) /\ ~Awaits(x)
    BY <1>1 DEF Writing
  <2> QED BY <2>1 DEF Inv, Restored, Wanted
<1>9. Succeeded({"import"}) => data[Target] = Cluster(Foreign)
  <2> HAVE Succeeded({"import"})
  <2>1. Good /\ item.kind \in Writing /\ item.kind = "import" /\ \A x : ~Left(x) /\ ~Awaits(x)
    BY <1>1 DEF Writing
  <2>2. engine # "mysql"
    BY <1>0, <2>1 DEF Itemised
  <2> QED BY <2>1, <2>2 DEF Inv, Restored, Wanted
<1>10. Succeeded({item.kind}) => W \notin staged
  BY <1>1 DEF Inv, Unstaged
<1> QED BY <1>0, <1>2, <1>3, <1>4, <1>5, <1>6, <1>7, <1>8, <1>9, <1>10 DEF ReportIsTrue

(* For any volumes, items, leases and faults: what a handler reports as a   *)
(* success is true of Docker and of the bucket when it reports it, also     *)
(* when an earlier attempt crashed halfway or its task is still running     *)
(* (the handlers behind processDatabaseWorkItem).                           *)
THEOREM ReportsAreTrue == Spec => []ReportIsTrue
BY StorageInvariant, Reported, PTL

(* A wipe whose volume holds a new cluster has its receipt, or is past erasing. *)
LEMMA KeptOnce ==
    ASSUME Inv, Next, item.kind = "wipe", item.gen # 0, data[Target].is = "cluster",
           data[Target].id > item.emptied
    PROVE  data'[Target] = data[Target]
<1>0. TypeOK /\ Itemised /\ Course /\ Stored /\ Wiped /\ Receipted /\ Wiping
  BY DEF Inv
<1>1. item # NoItem /\ Target \in Volumes /\ W \in Ids
  <2>1. item # NoItem
    BY DEF NoItem
  <2> QED BY <1>0, <2>1, Working
<1>2. item.emptied # Foreign /\ item.emptied \in Nat
  <2>1. data[Target].id \in Clusters /\ item.emptied \in Clusters /\ Foreign \in Nat
    BY <1>0, <1>1, Typed DEF Content, Item
  <2> QED BY <2>1 DEF Clusters
<1>3. CASE UNCHANGED data
  BY <1>3
<1>4. CASE data' = Created
  BY <1>1, <1>4 DEF Created, Absent
<1>5. ~Erase \/ UNCHANGED data
  <2> SUFFICES ASSUME Erase PROVE UNCHANGED data
    OBVIOUS
  <2>1. Step("erase")
    BY DEF Erase
  <2>2. Left("erase") /\ ~Left("look")
    <3>1. "erase" \in Steps /\ ~Follows("erase", "look") /\ "erase" # "look"
      BY DEF Steps, Follows, Rank
    <3> QED BY <2>1, <3>1, AtWork, First
  <2>3. receipt[Target] # item.gen
    BY <1>0, <2>2 DEF Wiping
  <2>4. data[Target].is \in {"absent", "empty"}
    BY <1>0, <1>2, <2>3 DEF Receipted
  <2> QED BY <2>4
<1>6. CASE Initialise
  <2>1. box # Target /\ box \in Volumes
    BY <1>0, <1>6 DEF Initialise, TypeOK
  <2>2. data' = [data EXCEPT ![box] = Cluster(born')]
    BY <1>6 DEF Initialise
  <2> QED BY <1>0, <1>1, <2>1, <2>2, Typed
<1>7. ~Load
  <2> SUFFICES ASSUME Load PROVE FALSE
    OBVIOUS
  <2>1. Step("load") /\ "load" \in Steps
    BY DEF Load, Steps
  <2>2. "load" \in Program
    BY <2>1, AtWork
  <2> QED BY <2>2 DEF Program
<1>8. ASSUME NEW w \in Ids, NEW name \in Names, TaskEnds(w, name) PROVE data'[Target] = data[Target]
  <2>1. Target \notin task[w]["load"].mounts
    BY <1>0, <1>2 DEF Wiped
  <2> QED BY <1>1, <1>8, <2>1 DEF TaskEnds
<1>9. \/ UNCHANGED data \/ data' = Created \/ Erase \/ Initialise \/ Load
      \/ \E w \in Ids, name \in Names : TaskEnds(w, name)
  <2>1. CASE ControlPlane
    BY <2>1 DEF ControlPlane, Issue, Lease, GiveUp, Report, docker
  <2>2. CASE AgentDies \/ HostDies
    BY <2>2 DEF AgentDies, HostDies, docker
  <2>3. CASE Volume
    BY <2>3 DEF Volume, Restart, Dispose, Look, Clear, Make, WriteReceipt, Provision, Ready, Check
  <2>4. CASE Copies
    BY <2>4 DEF Copies, Unstage, Stage, Dump, Upload, Fetch, Verify, Finally, Sweep, Await, still
  <2> QED BY <2>1, <2>2, <2>3, <2>4 DEF Next
<1> QED BY <1>3, <1>4, <1>5, <1>6, <1>7, <1>8, <1>9

(* For any volumes, items, leases and faults: a wipe that is leased again   *)
(* does not erase the cluster that was created after it had emptied the     *)
(* volume (the receipt of handleWipeVolume).                                *)
THEOREM WipesOnce == Spec => WipedOnce
<1> DEFINE Keeps == item.kind = "wipe" /\ item.gen # 0 /\ data[Target].is = "cluster"
                        /\ data[Target].id > item.emptied
                    => data'[Target] = data[Target]
<1>1. Inv /\ [Next]_vars => [Keeps]_vars
  BY KeptOnce
<1> QED BY <1>1, StorageInvariant, PTL DEF Spec, WipedOnce
================================================================================
