-------------------------- MODULE SchedulingProofs --------------------------
(***************************************************************************)
(* Proofs about Scheduling, for any containers, hosts, demands, quotas,    *)
(* faults and bounds: hosts are in service when they are chosen, and the   *)
(* scheduling and deletion of containers implement Assignment.             *)
(***************************************************************************)
EXTENDS Scheduling, Sums

-----------------------------------------------------------------------------
(* The inductive invariant                                                  *)

\* Where a request has a row and nothing taken, and where it may have.
Asking == {"validate", "candidates", "filter", "next", "put"}

Taking == {"lost", "image", "cast"}

Fresh == [status |-> "Creating", host |-> NoHost]

Broken == [status |-> "Error", host |-> NoHost]

\* Nothing is there before the row.
Early(c) ==
    req[c].pc \in {"idle", "create"} =>
        /\ row[c] = NoRow /\ alloc[c].hosts = {}
        /\ mk[c].pc = "idle" /\ rm[c].pc = "idle"

\* Until the cast the row is as it was created, or was deleted without host.
Waiting(c) ==
    req[c].pc \in Asking \cup Taking =>
        /\ row[c] \in {NoRow, Fresh}
        /\ mk[c].pc = "idle" /\ rm[c].pc \in {"idle", "hostless"}

\* What Placement holds for a request is what the request claimed.
Claimed(c) ==
    /\ req[c].pc = "candidates" => req[c].want \in Hosts \cup {NoHost}
    /\ req[c].pc \in Asking => alloc[c].hosts = {}
    /\ req[c].pc \in {"put", "image", "cast"} => req[c].at \in Hosts
    /\ req[c].pc \in Taking => alloc[c].hosts \subseteq {req[c].at}
    /\ req[c].pc \in {"image", "cast"} /\ row[c] # NoRow
          => alloc[c].hosts = {req[c].at}

\* The thread that creates: with its claim until the host is saved.
Making(c) ==
    /\ mk[c].pc = "queued" =>
          /\ mk[c].at \in Hosts /\ rm[c].pc \in {"idle", "hostless"}
          /\ row[c] # NoRow => row[c] = Fresh /\ alloc[c].hosts = {mk[c].at}
    /\ mk[c].pc = "docker" =>
          /\ mk[c].at \in Hosts
          /\ row[c] # NoRow => row[c].host = mk[c].at
    /\ mk[c].pc \in {"get", "put"} => row[c] \in {NoRow, Broken}

\* The thread that deletes, of a container that once had a host.
Leaving(c) ==
    /\ rm[c].pc \in {"queued", "get", "put", "destroy"} =>
          /\ req[c].pc = "done"
          /\ row[c] = NoRow \/ row[c].host # NoHost \/ row[c].status = "Error"
    /\ rm[c].pc = "destroy" => alloc[c].hosts = {}

\* A container that is created has a host.
Whole(c) ==
    /\ row[c].status = "none" => row[c] = NoRow
    /\ row[c].status = "Created" => row[c].host # NoHost

\* Hosts pass from the candidates to the claim only when seen in service.
Seen(c) ==
    /\ req[c].pc \in {"candidates", "filter"} =>
          \A h \in Hosts : InService(svc[h]) => h \in req[c].open
    /\ req[c].pc \in {"next", "put"} => req[c].todo \subseteq req[c].open
    /\ req[c].pc \in {"put"} \cup Taking => req[c].at \in req[c].open

Own(c) ==
    /\ Early(c) /\ Waiting(c) /\ Claimed(c) /\ Making(c) /\ Leaving(c)
    /\ Whole(c) /\ Seen(c)

Inv == \A c \in Containers : Own(c)

IInv == TypeOK /\ Inv

-----------------------------------------------------------------------------
(* Types, and what the model's operators leave alone                        *)

\* A request moves on, and only that one.
LEMMA RequestType ==
    ASSUME req \in [Containers -> ReqType], NEW c \in Containers,
           NEW r \in ReqType, Request(c, r)
    PROVE  /\ req' \in [Containers -> ReqType] /\ req'[c] = r
           /\ \A d \in Containers : d # c => req'[d] = req[d]
BY DEF Request

\* A request is answered.
LEMMA AnswerType ==
    ASSUME req \in [Containers -> ReqType], NEW c \in Containers, Answer(c)
    PROVE  /\ req' \in [Containers -> ReqType] /\ req'[c].pc = "done"
           /\ \A d \in Containers : d # c => req'[d] = req[d]
<1> DEFINE r == [IdleReq EXCEPT !.pc = "done"]
<1>1. r \in ReqType /\ r.pc = "done"
  <2>1. 1 \in 1..MaxTries
    BY SchedulingAssumption
  <2> QED BY <2>1 DEF ReqType, IdleReq, Pcs
<1>2. Request(c, r)
  BY DEF Answer
<1> HIDE DEF r
<1> QED BY <1>1, <1>2, RequestType

\* The copy is saved where the row still is.
LEMMA SaveType ==
    ASSUME row \in [Containers -> RowType], NEW c \in Containers,
           NEW s \in {"Creating", "Created", "Error"},
           NEW h \in Hosts \cup {NoHost}, Save(c, s, h)
    PROVE  /\ row' \in [Containers -> RowType]
           /\ row[c] = NoRow => row'[c] = NoRow
           /\ row[c] # NoRow => row'[c] = [status |-> s, host |-> h]
           /\ \A d \in Containers : d # c => row'[d] = row[d]
<1>1. [status |-> s, host |-> h] \in RowType
  BY DEF RowType
<1> QED BY <1>1 DEF Save

\* A thread of zun-compute moves on, or ends.
LEMMA JobStep ==
    ASSUME NEW t \in [Containers -> JobType], NEW c \in Containers,
           NEW p \in JobPcs
    PROVE  /\ Job(t, c, p) \in [Containers -> JobType]
           /\ Job(t, c, p)[c].pc = p
           /\ p # "idle" => Job(t, c, p)[c].at = t[c].at
           /\ \A d \in Containers : d # c => Job(t, c, p)[d] = t[d]
<1> DEFINE j == IF p = "idle" THEN IdleJob ELSE [t[c] EXCEPT !.pc = p, !.gen = 0]
<1>1. /\ j \in JobType /\ j.pc = p
      /\ p # "idle" => j.at = t[c].at
  BY DEF JobType, IdleJob, JobPcs
<1>2. Job(t, c, p) = [t EXCEPT ![c] = j]
  BY DEF Job
<1> HIDE DEF j
<1> QED BY <1>1, <1>2

\* Placement writes the allocation of one consumer.
LEMMA WriteType ==
    ASSUME alloc \in [Containers -> AllocType], NEW c \in Containers,
           NEW hs \in SUBSET Hosts, Write(c, hs)
    PROVE  /\ alloc' \in [Containers -> AllocType] /\ alloc'[c].hosts = hs
           /\ \A d \in Containers : d # c => alloc'[d] = alloc[d]
<1> DEFINE a == [hosts |-> hs, gen |-> IF hs = {} THEN 0 ELSE alloc[c].gen + 1]
<1>1. a \in AllocType /\ a.hosts = hs
  BY DEF AllocType
<1>2. alloc' = [alloc EXCEPT ![c] = a]
  BY DEF Write
<1> HIDE DEF a
<1> QED BY <1>1, <1>2

\* A step of one container, seen from the others.
Alone(c) ==
    /\ \A d \in Containers : d # c =>
          /\ row'[d] = row[d] /\ req'[d] = req[d] /\ mk'[d] = mk[d]
          /\ rm'[d] = rm[d] /\ alloc'[d] = alloc[d]
    /\ UNCHANGED svc

LEMMA LocalStep ==
    ASSUME IInv, NEW c \in Containers, Alone(c), Own(c)'
    PROVE  Inv'
<1> SUFFICES ASSUME NEW d \in Containers, d # c PROVE Own(d)'
  BY DEF Inv
<1>1. /\ row'[d] = row[d] /\ req'[d] = req[d] /\ mk'[d] = mk[d]
      /\ rm'[d] = rm[d] /\ alloc'[d] = alloc[d] /\ svc' = svc
  BY DEF Alone
<1>2. Own(d)
  BY DEF IInv, Inv
<1> QED BY <1>1, <1>2 DEF Own, Early, Waiting, Claimed, Making, Leaving, Whole, Seen

-----------------------------------------------------------------------------
(* The abstract state                                                       *)

\* Stage as a function of what it looks at.
StageOf(r, p, q) ==
    CASE r = NoRow /\ p \in {"idle", "create"} -> "new"
      [] r = NoRow /\ p \notin {"idle", "create"} -> "gone"
      [] r # NoRow /\ q = "hostless" -> "leaving"
      [] r # NoRow /\ q # "hostless" /\ r.host # NoHost -> "placed"
      [] r # NoRow /\ q # "hostless" /\ r.host = NoHost /\ r.status = "Error"
            -> "failed"
      [] OTHER -> "waiting"

LEMMA StageIs ==
    ASSUME NEW r, NEW p, NEW q
    PROVE  /\ r = NoRow /\ p \in {"idle", "create"} => StageOf(r, p, q) = "new"
           /\ r = NoRow /\ p \notin {"idle", "create"} => StageOf(r, p, q) = "gone"
           /\ r # NoRow /\ q = "hostless" => StageOf(r, p, q) = "leaving"
           /\ r # NoRow /\ q # "hostless" /\ r.host # NoHost
                 => StageOf(r, p, q) = "placed"
           /\ r # NoRow /\ q # "hostless" /\ r.host = NoHost /\ r.status = "Error"
                 => StageOf(r, p, q) = "failed"
           /\ r # NoRow /\ q # "hostless" /\ r.host = NoHost /\ r.status # "Error"
                 => StageOf(r, p, q) = "waiting"
BY DEF StageOf

LEMMA StageNow ==
    ASSUME NEW c
    PROVE  /\ Stage(c) = StageOf(row[c], req[c].pc, rm[c].pc)
           /\ Stage(c)' = StageOf(row'[c], req'[c].pc, rm'[c].pc)
BY DEF Stage, StageOf

\* What the abstract specification sees of the other containers.
LEMMA OthersSame ==
    ASSUME NEW c \in Containers, Alone(c), NEW d \in Containers, d # c
    PROVE  /\ Stage(d)' = Stage(d) /\ row'[d].host = row[d].host
           /\ alloc'[d].hosts = alloc[d].hosts
<1>1. /\ row'[d] = row[d] /\ req'[d] = req[d] /\ rm'[d] = rm[d]
      /\ alloc'[d] = alloc[d]
  BY DEF Alone
<1> QED BY <1>1, StageNow

\* A step the abstract specification does not see.
LEMMA Unseen ==
    ASSUME NEW c \in Containers, Alone(c), Stage(c)' = Stage(c),
           row'[c].host = row[c].host, alloc'[c].hosts = alloc[c].hosts
    PROVE  UNCHANGED Promise!vars
<1>1. \A d \in Containers : /\ Stage(d)' = Stage(d) /\ row'[d].host = row[d].host
                            /\ alloc'[d].hosts = alloc[d].hosts
  BY OthersSame
<1> QED BY <1>1 DEF Promise!vars

LEMMA KeepStage ==
    ASSUME NEW c \in Containers, Alone(c), Stage(c)' = Stage(c)
    PROVE  [d \in Containers |-> Stage(d)]' = [d \in Containers |-> Stage(d)]
BY OthersSame

LEMMA KeepHost ==
    ASSUME NEW c \in Containers, Alone(c), row'[c].host = row[c].host
    PROVE  [d \in Containers |-> row[d].host]' = [d \in Containers |-> row[d].host]
BY OthersSame

LEMMA KeepHeld ==
    ASSUME NEW c \in Containers, Alone(c), alloc'[c].hosts = alloc[c].hosts
    PROVE  [d \in Containers |-> alloc[d].hosts]' = [d \in Containers |-> alloc[d].hosts]
BY OthersSame

LEMMA NewStage ==
    ASSUME NEW c \in Containers, Alone(c)
    PROVE  [d \in Containers |-> Stage(d)]' =
               [[d \in Containers |-> Stage(d)] EXCEPT ![c] = Stage(c)']
BY OthersSame

LEMMA NewHost ==
    ASSUME NEW c \in Containers, Alone(c)
    PROVE  [d \in Containers |-> row[d].host]' =
               [[d \in Containers |-> row[d].host] EXCEPT ![c] = row'[c].host]
BY OthersSame

LEMMA NewHeld ==
    ASSUME NEW c \in Containers, Alone(c)
    PROVE  [d \in Containers |-> alloc[d].hosts]' =
               [[d \in Containers |-> alloc[d].hosts] EXCEPT ![c] = alloc'[c].hosts]
BY OthersSame

LEMMA Admits ==
    ASSUME NEW c \in Containers, Alone(c), Stage(c) = "new", Stage(c)' = "waiting",
           row'[c].host = row[c].host, alloc'[c].hosts = alloc[c].hosts
    PROVE  Promise!Admit(c)
BY NewStage, KeepHost, KeepHeld DEF Promise!Admit, Promise!Become

\* Placement's account is the abstract load.
LEMMA LoadIs ==
    ASSUME NEW h
    PROVE  Promise!Load(h) = Allocated(h)
<1> DEFINE S == {c \in Containers : h \in [d \in Containers |-> alloc[d].hosts][c]}
           U == {c \in Containers : h \in alloc[c].hosts}
<1>1. S = U
  OBVIOUS
<1>2. Promise!Load(h) = MapThenSumSet(LAMBDA c : Ask[c], S)
  BY Zenon DEF Promise!Load, Promise!MapThenSumSet, MapThenSumSet,
               Promise!MapThenFoldSet, MapThenFoldSet
<1>3. Allocated(h) = MapThenSumSet(LAMBDA c : Ask[c], U)
  BY Zenon DEF Allocated
<1> HIDE DEF S, U
<1> QED BY <1>1, <1>2, <1>3, Zenon

LEMMA Takes ==
    ASSUME NEW c \in Containers, NEW h \in Hosts, Alone(c),
           Stage(c) \in {"waiting", "leaving", "gone"}, alloc[c].hosts = {},
           HasRoom(c, h), alloc'[c].hosts = {h},
           Stage(c)' = Stage(c), row'[c].host = row[c].host
    PROVE  Promise!Take(c, h)
<1>1. Promise!Load(h) + Ask[c] <= [x \in Hosts |-> Cpus[x] * Ratio][h]
  <2>1. Allocated(h) + Ask[c] <= Cpus[h] * Ratio
    BY DEF HasRoom
  <2>2. [x \in Hosts |-> Cpus[x] * Ratio][h] = Cpus[h] * Ratio
    OBVIOUS
  <2>3. Promise!Load(h) = Allocated(h)
    BY LoadIs
  <2> QED BY <2>1, <2>2, <2>3, Zenon
<1>2. [d \in Containers |-> Stage(d)][c] \in {"waiting", "leaving", "gone"}
  OBVIOUS
<1>3. [d \in Containers |-> alloc[d].hosts][c] = {}
  OBVIOUS
<1>4. [d \in Containers |-> alloc[d].hosts]' =
         [[d \in Containers |-> alloc[d].hosts] EXCEPT ![c] = {h}]
  BY NewHeld
<1>5. /\ [d \in Containers |-> Stage(d)]' = [d \in Containers |-> Stage(d)]
      /\ [d \in Containers |-> row[d].host]' = [d \in Containers |-> row[d].host]
  BY KeepStage, KeepHost
<1> QED BY <1>1, <1>2, <1>3, <1>4, <1>5, Zenon DEF Promise!Take

LEMMA Places ==
    ASSUME NEW c \in Containers, NEW h \in Hosts, Alone(c),
           Stage(c) \in {"waiting", "leaving"}, alloc[c].hosts = {h},
           row'[c].host = h, alloc'[c].hosts = alloc[c].hosts,
           Stage(c) = "waiting" => Stage(c)' = "placed",
           Stage(c) = "leaving" => Stage(c)' = "leaving"
    PROVE  Promise!Place(c, h)
BY NewStage, KeepStage, NewHost, KeepHeld DEF Promise!Place, Promise!Become

LEMMA Fails ==
    ASSUME NEW c \in Containers, Alone(c),
           Stage(c) \in {"waiting", "placed", "leaving"},
           row'[c].host \in {row[c].host, NoHost},
           alloc'[c].hosts = alloc[c].hosts,
           Stage(c)' = IF Stage(c) # "leaving" /\ row'[c].host = NoHost
                       THEN "failed" ELSE Stage(c)
    PROVE  Promise!Fail(c)
<1>1. [d \in Containers |-> row[d].host]' \in
         {[d \in Containers |-> row[d].host],
          [[d \in Containers |-> row[d].host] EXCEPT ![c] = NoHost]}
  BY NewHost, KeepHost
<1>2. [d \in Containers |-> row[d].host]'[c] = row'[c].host
  OBVIOUS
<1>3. [d \in Containers |-> Stage(d)][c] = Stage(c)
  OBVIOUS
<1>4. [d \in Containers |-> alloc[d].hosts]' = [d \in Containers |-> alloc[d].hosts]
  BY KeepHeld
<1>5. CASE Stage(c) = "leaving" \/ row'[c].host # NoHost
  <2>1. [d \in Containers |-> Stage(d)]' = [d \in Containers |-> Stage(d)]
    BY <1>5, KeepStage
  <2>2. \/ Stage(c) = "leaving"
        \/ Stage(c) # "leaving" /\ row'[c].host # NoHost
    BY <1>5
  <2> QED BY <1>1, <1>2, <1>3, <1>4, <2>1, <2>2, Zenon DEF Promise!Fail
<1>6. CASE Stage(c) # "leaving" /\ row'[c].host = NoHost
  <2>1. [d \in Containers |-> Stage(d)]' =
           [[d \in Containers |-> Stage(d)] EXCEPT ![c] = "failed"]
    BY <1>6, NewStage
  <2> QED BY <1>1, <1>2, <1>3, <1>4, <1>6, <2>1, Zenon
      DEF Promise!Fail, Promise!Become
<1> QED BY <1>5, <1>6

LEMMA Gives ==
    ASSUME NEW c \in Containers, Alone(c),
           Stage(c) \in {"failed", "placed", "leaving", "gone"},
           alloc[c].hosts # {}, alloc'[c].hosts = {},
           Stage(c)' = Stage(c), row'[c].host = row[c].host
    PROVE  Promise!Give(c)
BY KeepStage, KeepHost, NewHeld DEF Promise!Give

LEMMA AsksToLeave ==
    ASSUME NEW c \in Containers, Alone(c),
           Stage(c) \in {"waiting", "failed"}, Stage(c)' = "leaving",
           row'[c].host = row[c].host, alloc'[c].hosts = alloc[c].hosts
    PROVE  Promise!AskToLeave(c)
BY NewStage, KeepHost, KeepHeld DEF Promise!AskToLeave, Promise!Become

LEMMA Leaves ==
    ASSUME NEW c \in Containers, Alone(c),
           \/ Stage(c) \in {"new", "waiting", "leaving"}
           \/ Stage(c) \in {"placed", "failed"} /\ alloc[c].hosts = {},
           Stage(c)' = "gone", row'[c].host = NoHost,
           alloc'[c].hosts = alloc[c].hosts
    PROVE  Promise!Leave(c)
BY NewStage, NewHost, KeepHeld DEF Promise!Leave, Promise!Become

-----------------------------------------------------------------------------
(* The steps of a request                                                   *)

\* A step of c keeps the invariant and is a step of Assignment or none.
Good(c) == TypeOK' /\ Alone(c) /\ Own(c)' /\ [Promise!Next]_(Promise!vars)

LEMMA At ==
    ASSUME IInv, NEW c \in Containers
    PROVE  /\ Own(c) /\ row[c] \in RowType /\ req[c] \in ReqType
           /\ mk[c] \in JobType /\ rm[c] \in JobType /\ alloc[c] \in AllocType
BY DEF IInv, Inv, TypeOK

LEMMA StageBefore ==
    ASSUME NEW c
    PROVE  /\ row[c] = NoRow /\ req[c].pc \in {"idle", "create"} => Stage(c) = "new"
           /\ row[c] = NoRow /\ req[c].pc \notin {"idle", "create"} => Stage(c) = "gone"
           /\ row[c] # NoRow /\ rm[c].pc = "hostless" => Stage(c) = "leaving"
           /\ row[c] # NoRow /\ rm[c].pc # "hostless" /\ row[c].host # NoHost
                 => Stage(c) = "placed"
           /\ row[c] # NoRow /\ rm[c].pc # "hostless" /\ row[c].host = NoHost
              /\ row[c].status = "Error" => Stage(c) = "failed"
           /\ row[c] # NoRow /\ rm[c].pc # "hostless" /\ row[c].host = NoHost
              /\ row[c].status # "Error" => Stage(c) = "waiting"
BY StageNow, StageIs

LEMMA StageAfter ==
    ASSUME NEW c
    PROVE  /\ row'[c] = NoRow /\ req'[c].pc \in {"idle", "create"} => Stage(c)' = "new"
           /\ row'[c] = NoRow /\ req'[c].pc \notin {"idle", "create"} => Stage(c)' = "gone"
           /\ row'[c] # NoRow /\ rm'[c].pc = "hostless" => Stage(c)' = "leaving"
           /\ row'[c] # NoRow /\ rm'[c].pc # "hostless" /\ row'[c].host # NoHost
                 => Stage(c)' = "placed"
           /\ row'[c] # NoRow /\ rm'[c].pc # "hostless" /\ row'[c].host = NoHost
              /\ row'[c].status = "Error" => Stage(c)' = "failed"
           /\ row'[c] # NoRow /\ rm'[c].pc # "hostless" /\ row'[c].host = NoHost
              /\ row'[c].status # "Error" => Stage(c)' = "waiting"
BY StageNow, StageIs

LEMMA IsStep ==
    ASSUME NEW c \in Containers,
           \/ Promise!Admit(c) \/ Promise!Fail(c) \/ Promise!Give(c)
           \/ Promise!AskToLeave(c) \/ Promise!Leave(c)
           \/ \E h \in Hosts : Promise!Take(c, h) \/ Promise!Place(c, h)
    PROVE  [Promise!Next]_(Promise!vars)
BY DEF Promise!Next

\* The request alone moves on, and the abstract stage does not.
LEMMA RequestOnly ==
    ASSUME IInv, NEW c \in Containers, NEW r \in ReqType, Request(c, r),
           req[c].pc \in {"idle", "create"} <=> r.pc \in {"idle", "create"},
           UNCHANGED <<row, mk, rm, alloc, node, svc, trait, quota>>, Own(c)'
    PROVE  Good(c)
<1>1. /\ req' \in [Containers -> ReqType] /\ req'[c] = r
      /\ \A d \in Containers : d # c => req'[d] = req[d]
  BY RequestType DEF IInv, TypeOK
<1>2. TypeOK'
  BY <1>1 DEF IInv, TypeOK
<1>3. Alone(c)
  BY <1>1 DEF Alone
<1>4. Stage(c)' = Stage(c)
  BY <1>1, StageNow, StageIs DEF StageOf
<1> QED BY <1>2, <1>3, <1>4, Unseen DEF Good

\* A request is refused or fails before its row.
LEMMA CheckQuotaStep ==
    ASSUME IInv, NEW c \in Containers, CheckQuota(c)
    PROVE  Good(c)
<1>0. /\ Own(c) /\ row[c] \in RowType /\ req[c] \in ReqType
      /\ mk[c] \in JobType /\ rm[c] \in JobType /\ alloc[c] \in AllocType
  BY At
<1>1. PICK h \in Wanted[c] :
         \/ Answer(c)
         \/ Request(c, [req[c] EXCEPT !.pc = "create", !.want = h])
  BY DEF CheckQuota
<1>2. /\ req[c].pc = "idle"
      /\ UNCHANGED <<row, mk, rm, alloc, node, svc, trait, quota, used>>
  BY DEF CheckQuota
<1>3. /\ row[c] = NoRow /\ alloc[c].hosts = {}
      /\ mk[c].pc = "idle" /\ rm[c].pc = "idle"
  BY <1>0, <1>2 DEF Own, Early
<1>4. CASE Answer(c)
  <2>1. /\ req' \in [Containers -> ReqType] /\ req'[c].pc = "done"
        /\ \A d \in Containers : d # c => req'[d] = req[d]
    BY <1>4, AnswerType DEF IInv, TypeOK
  <2>2. TypeOK' /\ Alone(c)
    BY <1>2, <2>1 DEF IInv, TypeOK, Alone
  <2>3. Own(c)'
    BY <1>0, <1>2, <1>3, <2>1 DEF Own, Early, Waiting, Claimed, Making, Leaving,
       Whole, Seen, Asking, Taking
  <2>4. /\ Stage(c) = "new" /\ Stage(c)' = "gone" /\ row'[c].host = NoHost
        /\ alloc'[c].hosts = alloc[c].hosts
    BY <1>2, <1>3, <2>1, StageBefore, StageAfter DEF NoRow
  <2>5. Promise!Leave(c)
    BY <2>2, <2>4, Leaves
  <2> QED BY <2>2, <2>3, <2>5, IsStep DEF Good
<1>5. CASE Request(c, [req[c] EXCEPT !.pc = "create", !.want = h])
  <2> DEFINE r == [req[c] EXCEPT !.pc = "create", !.want = h]
  <2>1. r \in ReqType /\ r.pc = "create"
    BY <1>0 DEF ReqType, Pcs
  <2>2. Request(c, r)
    BY <1>5
  <2> HIDE DEF r
  <2>3. req'[c] = r
    BY <2>1, <2>2, RequestType DEF IInv, TypeOK
  <2>4. Own(c)'
    BY <1>0, <1>2, <1>3, <2>1, <2>3 DEF Own, Early, Waiting, Claimed, Making,
       Leaving, Whole, Seen, Asking, Taking
  <2> QED BY <1>2, <2>1, <2>2, <2>4, RequestOnly
<1> QED BY <1>1, <1>4, <1>5

LEMMA CreateRowStep ==
    ASSUME IInv, NEW c \in Containers, CreateRow(c)
    PROVE  Good(c)
<1>0. /\ Own(c) /\ row[c] \in RowType /\ req[c] \in ReqType
      /\ mk[c] \in JobType /\ rm[c] \in JobType /\ alloc[c] \in AllocType
  BY At
<1> DEFINE r == [req[c] EXCEPT !.pc = "validate"]
<1>1. /\ req[c].pc = "create" /\ row' = [row EXCEPT ![c] = Fresh] /\ Request(c, r)
      /\ UNCHANGED <<mk, rm, alloc, node, svc, trait, quota, used>>
  BY DEF CreateRow, Fresh
<1>2. r \in ReqType /\ r.pc = "validate"
  BY <1>0 DEF ReqType, Pcs
<1> HIDE DEF r
<1>3. Fresh \in RowType /\ Fresh # NoRow /\ Fresh.host = NoHost /\ Fresh.status = "Creating"
  BY DEF RowType, Fresh, NoRow
<1>4. /\ req' \in [Containers -> ReqType] /\ req'[c] = r
      /\ \A d \in Containers : d # c => req'[d] = req[d]
  BY <1>1, <1>2, RequestType DEF IInv, TypeOK
<1>5. TypeOK' /\ Alone(c) /\ row'[c] = Fresh
  BY <1>1, <1>3, <1>4 DEF IInv, TypeOK, Alone
<1>6. /\ row[c] = NoRow /\ alloc[c].hosts = {}
      /\ mk[c].pc = "idle" /\ rm[c].pc = "idle"
  BY <1>0, <1>1 DEF Own, Early
<1>7. Own(c)'
  BY <1>1, <1>2, <1>3, <1>4, <1>5, <1>6 DEF Own, Early, Waiting, Claimed, Making,
     Leaving, Whole, Seen, Asking, Taking
<1>8. /\ Stage(c) = "new" /\ Stage(c)' = "waiting" /\ row'[c].host = row[c].host
      /\ alloc'[c].hosts = alloc[c].hosts
  <2>1. NoRow.host = NoHost
    BY DEF NoRow
  <2> QED BY <1>1, <1>2, <1>3, <1>4, <1>5, <1>6, <2>1, StageBefore, StageAfter
<1>9. Promise!Admit(c)
  BY <1>5, <1>8, Admits
<1> QED BY <1>5, <1>7, <1>9, IsStep DEF Good

\* The request fails for want of a host, or with an error of the scheduler.
LEMMA UnscheduledStep ==
    ASSUME IInv, NEW c \in Containers, req[c].pc \in Asking \cup Taking,
           Unscheduled(c), UNCHANGED <<mk, rm, alloc, node, svc, trait, quota>>
    PROVE  Good(c)
<1>0. /\ Own(c) /\ row[c] \in RowType /\ req[c] \in ReqType
      /\ mk[c] \in JobType /\ rm[c] \in JobType /\ alloc[c] \in AllocType
  BY At
<1>1. /\ row[c] \in {NoRow, Fresh}
      /\ mk[c].pc = "idle" /\ rm[c].pc \in {"idle", "hostless"}
  BY <1>0 DEF Own, Waiting
<1>2. req[c].pc \notin {"idle", "create"}
  BY DEF Asking, Taking
<1>3. /\ req' \in [Containers -> ReqType] /\ req'[c].pc = "done"
      /\ \A d \in Containers : d # c => req'[d] = req[d]
  BY AnswerType DEF IInv, TypeOK, Unscheduled
<1>4. Fresh # NoRow /\ Fresh.host = NoHost /\ Fresh.status = "Creating" /\ NoRow.host = NoHost
  BY DEF Fresh, NoRow
<1>5. Broken # NoRow /\ Broken.host = NoHost /\ Broken.status = "Error"
  BY DEF Broken, NoRow
<1>6. /\ row' \in [Containers -> RowType]
      /\ row[c] = NoRow => row'[c] = NoRow
      /\ row[c] # NoRow => row'[c] = Broken
      /\ \A d \in Containers : d # c => row'[d] = row[d]
  <2>1. row[c].host = NoHost
    BY <1>1, <1>4
  <2>2. Save(c, "Error", row[c].host)
    BY DEF Unscheduled
  <2>3. Broken = [status |-> "Error", host |-> row[c].host]
    BY <2>1 DEF Broken
  <2>4. row \in [Containers -> RowType] /\ row[c].host \in Hosts \cup {NoHost}
    BY <2>1 DEF IInv, TypeOK
  <2> QED BY <2>2, <2>3, <2>4, SaveType
<1>7. TypeOK' /\ Alone(c)
  BY <1>3, <1>6 DEF IInv, TypeOK, Alone
<1>8. NoRow.status = "none"
  BY DEF NoRow
<1>9. Own(c)'
  BY <1>0, <1>1, <1>3, <1>4, <1>5, <1>6, <1>8 DEF Own, Early, Waiting, Claimed,
     Making, Leaving, Whole, Seen, Asking, Taking
<1>10. CASE row[c] = NoRow \/ rm[c].pc = "hostless"
  <2>1. /\ Stage(c)' = Stage(c) /\ row'[c].host = row[c].host
        /\ alloc'[c].hosts = alloc[c].hosts
    BY <1>10, <1>1, <1>2, <1>3, <1>4, <1>5, <1>6, StageBefore, StageAfter
  <2> QED BY <1>7, <1>9, <2>1, Unseen DEF Good
<1>11. CASE row[c] # NoRow /\ rm[c].pc # "hostless"
  <2>1. /\ Stage(c) = "waiting" /\ Stage(c)' = "failed" /\ row'[c].host = NoHost
        /\ alloc'[c].hosts = alloc[c].hosts
    BY <1>11, <1>1, <1>2, <1>3, <1>4, <1>5, <1>6, StageBefore, StageAfter
  <2>2. Promise!Fail(c)
    BY <1>7, <2>1, Fails
  <2> QED BY <1>7, <1>9, <2>2, IsStep DEF Good
<1> QED BY <1>10, <1>11

LEMMA ValidateHostStep ==
    ASSUME IInv, NEW c \in Containers, ValidateHost(c)
    PROVE  Good(c)
<1>0. /\ Own(c) /\ row[c] \in RowType /\ req[c] \in ReqType
      /\ mk[c] \in JobType /\ rm[c] \in JobType /\ alloc[c] \in AllocType
  BY At
<1>1. /\ req[c].pc = "validate"
      /\ UNCHANGED <<mk, rm, alloc, node, svc, trait, quota, used>>
  BY DEF ValidateHost
<1>2. /\ row[c] \in {NoRow, Fresh} /\ alloc[c].hosts = {}
      /\ mk[c].pc = "idle" /\ rm[c].pc \in {"idle", "hostless"}
  BY <1>0, <1>1 DEF Own, Waiting, Claimed, Asking
<1>3. CASE req[c].want \in Hosts \cup {NoHost}
  <2> DEFINE r == [req[c] EXCEPT !.pc = "candidates",
                                 !.open = {h \in Hosts : InService(svc[h])}]
  <2>1. /\ r \in ReqType /\ r.pc = "candidates" /\ r.want = req[c].want
        /\ r.open = {h \in Hosts : InService(svc[h])}
    BY <1>0 DEF ReqType, Pcs
  <2>2. Request(c, r) /\ UNCHANGED row
    BY <1>3 DEF ValidateHost
  <2> HIDE DEF r
  <2>3. req'[c] = r
    BY <2>1, <2>2, RequestType DEF IInv, TypeOK
  <2>4. \A h \in Hosts : InService(svc'[h]) => h \in r.open
    BY <1>1, <2>1
  <2>5. Own(c)'
    BY <1>0, <1>1, <1>2, <1>3, <2>1, <2>2, <2>3, <2>4 DEF Own, Early, Waiting,
       Claimed, Making, Leaving, Whole, Seen, Asking, Taking
  <2> QED BY <1>1, <2>1, <2>2, <2>5, RequestOnly
<1>4. CASE req[c].want \notin Hosts \cup {NoHost}
  <2>1. row' = [row EXCEPT ![c] = NoRow] /\ Answer(c)
    BY <1>4 DEF ValidateHost
  <2>2. /\ req' \in [Containers -> ReqType] /\ req'[c].pc = "done"
        /\ \A d \in Containers : d # c => req'[d] = req[d]
    BY <2>1, AnswerType DEF IInv, TypeOK
  <2>3. NoRow \in RowType /\ NoRow.host = NoHost /\ NoRow.status = "none"
    BY DEF RowType, NoRow
  <2>4. TypeOK' /\ Alone(c) /\ row'[c] = NoRow
    BY <1>1, <2>1, <2>2, <2>3 DEF IInv, TypeOK, Alone
  <2>5. Own(c)'
    BY <1>1, <1>2, <2>2, <2>3, <2>4 DEF Own, Early, Waiting, Claimed, Making,
       Leaving, Whole, Seen, Asking, Taking
  <2>6. Stage(c)' = "gone" /\ row'[c].host = NoHost /\ alloc'[c].hosts = alloc[c].hosts
    BY <1>1, <2>2, <2>3, <2>4, StageAfter
  <2>7. CASE row[c] = NoRow
    <3>1. Stage(c) = "gone"
      BY <1>1, <2>7, StageBefore
    <3> QED BY <2>3, <2>4, <2>5, <2>6, <2>7, <3>1, Unseen DEF Good
  <2>8. CASE row[c] = Fresh
    <3>1. Fresh # NoRow /\ Fresh.host = NoHost /\ Fresh.status = "Creating"
      BY DEF Fresh, NoRow
    <3>2. Stage(c) \in {"waiting", "leaving"}
      BY <1>1, <2>8, <3>1, StageBefore
    <3>3. Promise!Leave(c)
      BY <2>4, <2>6, <3>2, Leaves
    <3> QED BY <2>4, <2>5, <3>3, IsStep DEF Good
  <2> QED BY <1>2, <2>7, <2>8
<1> QED BY <1>3, <1>4

LEMMA GetAllocationCandidatesStep ==
    ASSUME IInv, NEW c \in Containers, GetAllocationCandidates(c)
    PROVE  Good(c)
<1>0. /\ Own(c) /\ row[c] \in RowType /\ req[c] \in ReqType
      /\ mk[c] \in JobType /\ rm[c] \in JobType /\ alloc[c] \in AllocType
  BY At
<1>1. /\ req[c].pc = "candidates"
      /\ UNCHANGED <<mk, rm, alloc, node, svc, trait, quota>>
  BY DEF GetAllocationCandidates
<1>2. req[c].pc \in Asking
  BY <1>1 DEF Asking
<1>3. CASE Unscheduled(c)
  BY <1>1, <1>2, <1>3, UnscheduledStep
<1>4. CASE /\ Request(c, [req[c] EXCEPT !.pc = "filter", !.todo = Candidates(c)])
           /\ UNCHANGED row
  <2> DEFINE r == [req[c] EXCEPT !.pc = "filter", !.todo = Candidates(c)]
  <2>1. req[c].want \in Hosts \cup {NoHost}
    BY <1>0, <1>1 DEF Own, Claimed
  <2>2. Candidates(c) \subseteq Hosts
    BY <2>1, Zenon DEF Candidates, RequestGroup
  <2>3. r \in ReqType /\ r.pc = "filter" /\ r.open = req[c].open
    BY <1>0, <2>2 DEF ReqType, Pcs
  <2>4. Request(c, r) /\ UNCHANGED row
    BY <1>4
  <2> HIDE DEF r
  <2>5. req'[c] = r
    BY <2>3, <2>4, RequestType DEF IInv, TypeOK
  <2>6. Own(c)'
    BY <1>0, <1>1, <2>3, <2>4, <2>5 DEF Own, Early, Waiting, Claimed, Making,
       Leaving, Whole, Seen, Asking, Taking
  <2> QED BY <1>1, <2>3, <2>4, <2>6, RequestOnly
<1> QED BY <1>3, <1>4 DEF GetAllocationCandidates

LEMMA GetFilteredHostsStep ==
    ASSUME IInv, NEW c \in Containers, GetFilteredHosts(c)
    PROVE  Good(c)
<1>0. /\ Own(c) /\ row[c] \in RowType /\ req[c] \in ReqType
      /\ mk[c] \in JobType /\ rm[c] \in JobType /\ alloc[c] \in AllocType
  BY At
<1> DEFINE hosts == {h \in req[c].todo : HostPasses(c, h)}
           r == [req[c] EXCEPT !.pc = "next", !.todo = hosts]
<1>1. /\ req[c].pc = "filter"
      /\ Unscheduled(c) \/ (Request(c, r) /\ UNCHANGED row)
      /\ UNCHANGED <<mk, rm, alloc, node, svc, trait, quota, used>>
  BY DEF GetFilteredHosts
<1>2. req[c].pc \in Asking
  BY <1>1 DEF Asking
<1>3. CASE Unscheduled(c)
  BY <1>1, <1>2, <1>3, UnscheduledStep
<1>4. CASE Request(c, r) /\ UNCHANGED row
  <2>1. req[c].todo \subseteq Hosts
    BY <1>0 DEF ReqType
  <2>2. hosts \subseteq Hosts
    BY <2>1
  <2>3. hosts \subseteq req[c].open
    BY <1>0, <1>1, <2>1 DEF HostPasses, Own, Seen
  <2> HIDE DEF hosts
  <2>4. r \in ReqType /\ r.pc = "next" /\ r.todo = hosts /\ r.open = req[c].open
    BY <1>0, <2>2 DEF ReqType, Pcs
  <2> HIDE DEF r
  <2>5. req'[c] = r
    BY <1>4, <2>4, RequestType DEF IInv, TypeOK
  <2>6. Own(c)'
    BY <1>0, <1>1, <1>4, <2>3, <2>4, <2>5 DEF Own, Early, Waiting, Claimed, Making,
       Leaving, Whole, Seen, Asking, Taking
  <2> QED BY <1>1, <1>4, <2>4, <2>6, RequestOnly
<1> QED BY <1>1, <1>3, <1>4

LEMMA NextHostStep ==
    ASSUME IInv, NEW c \in Containers, NextHost(c)
    PROVE  Good(c)
<1>0. /\ Own(c) /\ row[c] \in RowType /\ req[c] \in ReqType
      /\ mk[c] \in JobType /\ rm[c] \in JobType /\ alloc[c] \in AllocType
  BY At
<1>1. /\ req[c].pc = "next"
      /\ UNCHANGED <<mk, rm, alloc, node, svc, trait, quota, used>>
  BY DEF NextHost
<1>2. req[c].pc \in Asking
  BY <1>1 DEF Asking
<1>3. CASE Unscheduled(c)
  BY <1>1, <1>2, <1>3, UnscheduledStep
<1>4. ASSUME NEW h \in req[c].todo, UNCHANGED row,
             Request(c, [req[c] EXCEPT !.pc = "put", !.at = h,
                                       !.todo = @ \ {h}, !.try = 1])
      PROVE  Good(c)
  <2> DEFINE r == [req[c] EXCEPT !.pc = "put", !.at = h, !.todo = @ \ {h}, !.try = 1]
  <2>1. req[c].todo \subseteq Hosts /\ req[c].todo \subseteq req[c].open
    BY <1>0, <1>1 DEF ReqType, Own, Seen
  <2>2. 1 \in 1..MaxTries
    BY SchedulingAssumption
  <2>3. /\ r \in ReqType /\ r.pc = "put" /\ r.at = h /\ r.open = req[c].open
        /\ r.todo \subseteq req[c].todo
    BY <1>0, <2>1, <2>2 DEF ReqType, Pcs
  <2>4. Request(c, r)
    BY <1>4
  <2> HIDE DEF r
  <2>5. req'[c] = r
    BY <2>3, <2>4, RequestType DEF IInv, TypeOK
  <2>6. Own(c)'
    BY <1>0, <1>1, <1>4, <2>1, <2>3, <2>5 DEF Own, Early, Waiting, Claimed, Making,
       Leaving, Whole, Seen, Asking, Taking
  <2> QED BY <1>1, <1>4, <2>3, <2>4, <2>6, RequestOnly
<1> QED BY <1>3, <1>4 DEF NextHost

\* Placement gives the request what it claims.
LEMMA GrantedStep ==
    ASSUME IInv, NEW c \in Containers, NEW p \in {"image", "lost"},
           req[c].pc = "put", HasRoom(c, req[c].at), Write(c, {req[c].at}),
           Request(c, [req[c] EXCEPT !.pc = p]),
           UNCHANGED <<row, mk, rm, node, svc, trait, quota>>
    PROVE  Good(c)
<1>0. /\ Own(c) /\ row[c] \in RowType /\ req[c] \in ReqType
      /\ mk[c] \in JobType /\ rm[c] \in JobType /\ alloc[c] \in AllocType
  BY At
<1> DEFINE r == [req[c] EXCEPT !.pc = p]
<1>h. req[c].at \in Hosts
  BY <1>0 DEF Own, Claimed
<1> PICK h \in Hosts : h = req[c].at
  BY <1>h
<1>1. h \in req[c].open /\ alloc[c].hosts = {}
  BY <1>0 DEF Own, Claimed, Seen, Asking
<1>2. /\ row[c] \in {NoRow, Fresh}
      /\ mk[c].pc = "idle" /\ rm[c].pc \in {"idle", "hostless"}
  BY <1>0 DEF Own, Waiting, Asking
<1>3. r \in ReqType /\ r.pc = p /\ r.at = h /\ r.open = req[c].open
  BY <1>0 DEF ReqType, Pcs
<1>4. Request(c, r)
  OBVIOUS
<1> HIDE DEF r
<1>5. /\ req' \in [Containers -> ReqType] /\ req'[c] = r
      /\ \A d \in Containers : d # c => req'[d] = req[d]
  BY <1>3, <1>4, RequestType DEF IInv, TypeOK
<1>6. /\ alloc' \in [Containers -> AllocType] /\ alloc'[c].hosts = {h}
      /\ \A d \in Containers : d # c => alloc'[d] = alloc[d]
  <2>1. Write(c, {h}) /\ {h} \in SUBSET Hosts
    OBVIOUS
  <2> QED BY <2>1, WriteType DEF IInv, TypeOK
<1>7. TypeOK' /\ Alone(c)
  BY <1>5, <1>6 DEF IInv, TypeOK, Alone
<1>8. Own(c)'
  BY <1>0, <1>1, <1>2, <1>3, <1>5, <1>6 DEF Own, Early, Waiting, Claimed, Making,
     Leaving, Whole, Seen, Asking, Taking
<1>9. /\ Stage(c) \in {"waiting", "leaving", "gone"} /\ Stage(c)' = Stage(c)
      /\ row'[c].host = row[c].host
  <2>1. Fresh # NoRow /\ Fresh.host = NoHost /\ Fresh.status = "Creating"
    BY DEF Fresh, NoRow
  <2>2. Stage(c)' = Stage(c)
    BY <1>2, <1>3, <1>5, <2>1, StageBefore, StageAfter
  <2>3. Stage(c) \in {"waiting", "leaving", "gone"}
    BY <1>2, <2>1, StageBefore
  <2> QED BY <2>2, <2>3
<1>10. Promise!Take(c, h)
  <2>1. HasRoom(c, h)
    OBVIOUS
  <2>2. h \in Hosts /\ alloc[c].hosts = {} /\ alloc'[c].hosts = {h}
    BY <1>1, <1>6
  <2> QED BY <1>7, <1>9, <2>1, <2>2, Takes
<1>11. \E x \in Hosts : Promise!Take(c, x) \/ Promise!Place(c, x)
  BY <1>10
<1> QED BY <1>7, <1>8, <1>11, IsStep DEF Good

\* The claim goes on without having changed anything.
LEMMA UnclaimedStep ==
    ASSUME IInv, NEW c \in Containers, NEW r \in ReqType, req[c].pc = "put",
           Request(c, r), r.pc \in {"next", "put", "lost"},
           r.at = req[c].at, r.todo = req[c].todo, r.open = req[c].open,
           UNCHANGED <<row, mk, rm, alloc, node, svc, trait, quota>>
    PROVE  Good(c)
<1>0. /\ Own(c) /\ row[c] \in RowType /\ req[c] \in ReqType
      /\ mk[c] \in JobType /\ rm[c] \in JobType /\ alloc[c] \in AllocType
  BY At
<1>1. req'[c] = r
  BY RequestType DEF IInv, TypeOK
<1>2. /\ req[c].at \in Hosts /\ req[c].at \in req[c].open /\ alloc[c].hosts = {}
      /\ req[c].todo \subseteq req[c].open
  BY <1>0 DEF Own, Claimed, Seen, Asking
<1>3. Own(c)'
  BY <1>0, <1>1, <1>2 DEF Own, Early, Waiting, Claimed, Making,
     Leaving, Whole, Seen, Asking, Taking
<1> QED BY <1>3, RequestOnly

LEMMA ClaimResourcesStep ==
    ASSUME IInv, NEW c \in Containers, ClaimResources(c)
    PROVE  Good(c)
<1>0. req[c] \in ReqType
  BY At
<1>1. /\ req[c].pc = "put" /\ UNCHANGED <<mk, rm, node, svc, trait, quota>>
  BY DEF ClaimResources
<1>2. CASE /\ HasRoom(c, req[c].at) /\ Write(c, {req[c].at})
           /\ Request(c, [req[c] EXCEPT !.pc = "image"]) /\ UNCHANGED <<row, used>>
  BY <1>1, <1>2, GrantedStep
<1>3. CASE /\ Request(c, [req[c] EXCEPT !.pc = "next"])
           /\ UNCHANGED <<row, alloc, used>>
  <2> DEFINE r == [req[c] EXCEPT !.pc = "next"]
  <2>1. /\ r \in ReqType /\ r.pc = "next" /\ r.at = req[c].at
        /\ r.todo = req[c].todo /\ r.open = req[c].open
    BY <1>0 DEF ReqType, Pcs
  <2>2. Request(c, r)
    BY <1>3
  <2> HIDE DEF r
  <2> QED BY <1>1, <1>3, <2>1, <2>2, UnclaimedStep
<1>4. CASE Retry(c) /\ UNCHANGED <<row, alloc, used>>
  <2> DEFINE r == IF req[c].try < MaxTries THEN [req[c] EXCEPT !.try = @ + 1]
                  ELSE [req[c] EXCEPT !.pc = "next"]
  <2>1. /\ r \in ReqType /\ r.pc \in {"next", "put"} /\ r.at = req[c].at
        /\ r.todo = req[c].todo /\ r.open = req[c].open
    <3>1. MaxTries \in Nat /\ req[c].try \in 1..MaxTries
      BY <1>0, SchedulingAssumption DEF ReqType
    <3>2. req[c].try < MaxTries => req[c].try + 1 \in 1..MaxTries
      BY <3>1
    <3> QED BY <1>0, <1>1, <3>2 DEF ReqType, Pcs
  <2>2. Request(c, r)
    BY <1>4 DEF Retry
  <2> HIDE DEF r
  <2> QED BY <1>1, <1>4, <2>1, <2>2, UnclaimedStep
<1>5. CASE /\ Request(c, [req[c] EXCEPT !.pc = "lost"]) /\ UNCHANGED row
           /\ UNCHANGED alloc \/ (HasRoom(c, req[c].at) /\ Write(c, {req[c].at}))
  <2>1. CASE UNCHANGED alloc
    <3> DEFINE r == [req[c] EXCEPT !.pc = "lost"]
    <3>1. /\ r \in ReqType /\ r.pc = "lost" /\ r.at = req[c].at
          /\ r.todo = req[c].todo /\ r.open = req[c].open
      BY <1>0 DEF ReqType, Pcs
    <3>2. Request(c, r)
      BY <1>5
    <3> HIDE DEF r
    <3> QED BY <1>1, <1>5, <2>1, <3>1, <3>2, UnclaimedStep
  <2>2. CASE HasRoom(c, req[c].at) /\ Write(c, {req[c].at})
    BY <1>1, <1>5, <2>2, GrantedStep
  <2> QED BY <1>5, <2>1, <2>2
<1> QED BY <1>2, <1>3, <1>4, <1>5 DEF ClaimResources

LEMMA ClaimLostStep ==
    ASSUME IInv, NEW c \in Containers, ClaimLost(c)
    PROVE  Good(c)
BY UnscheduledStep DEF ClaimLost, Taking

\* The request ends, as far as Placement and zun-compute see it.
LEMMA AnswerStep ==
    ASSUME IInv, NEW c \in Containers, req[c].pc = "image", Answer(c),
           UNCHANGED <<row, mk, rm, alloc, node, svc, trait, quota>>
    PROVE  Good(c)
<1>0. /\ Own(c) /\ row[c] \in RowType /\ req[c] \in ReqType
      /\ mk[c] \in JobType /\ rm[c] \in JobType /\ alloc[c] \in AllocType
  BY At
<1>1. /\ req' \in [Containers -> ReqType] /\ req'[c].pc = "done"
      /\ \A d \in Containers : d # c => req'[d] = req[d]
  BY AnswerType DEF IInv, TypeOK
<1>2. TypeOK' /\ Alone(c)
  BY <1>1 DEF IInv, TypeOK, Alone
<1>3. Own(c)'
  BY <1>0, <1>1 DEF Own, Early, Waiting, Claimed, Making,
     Leaving, Whole, Seen, Asking, Taking
<1>4. Stage(c)' = Stage(c)
  BY <1>1, StageNow, StageIs DEF StageOf
<1> QED BY <1>2, <1>3, <1>4, Unseen DEF Good

LEMMA ValidateImageStep ==
    ASSUME IInv, NEW c \in Containers, ValidateImage(c)
    PROVE  Good(c)
<1>0. /\ Own(c) /\ row[c] \in RowType /\ req[c] \in ReqType
      /\ mk[c] \in JobType /\ rm[c] \in JobType /\ alloc[c] \in AllocType
  BY At
<1>1. /\ req[c].pc = "image"
      /\ UNCHANGED <<row, mk, rm, alloc, node, svc, trait, quota>>
  BY DEF ValidateImage
<1>2. CASE Answer(c)
  BY <1>1, <1>2, AnswerStep
<1>3. CASE Request(c, [req[c] EXCEPT !.pc = "cast"])
  <2> DEFINE r == [req[c] EXCEPT !.pc = "cast"]
  <2>1. r \in ReqType /\ r.pc = "cast" /\ r.at = req[c].at /\ r.open = req[c].open
    BY <1>0 DEF ReqType, Pcs
  <2>2. Request(c, r)
    BY <1>3
  <2> HIDE DEF r
  <2>3. req'[c] = r
    BY <2>1, <2>2, RequestType DEF IInv, TypeOK
  <2>4. Own(c)'
    BY <1>0, <1>1, <2>1, <2>3 DEF Own, Early, Waiting, Claimed, Making,
       Leaving, Whole, Seen, Asking, Taking
  <2> QED BY <1>1, <2>1, <2>2, <2>4, RequestOnly
<1> QED BY <1>2, <1>3 DEF ValidateImage

LEMMA CastCreateStep ==
    ASSUME IInv, NEW c \in Containers, CastCreate(c)
    PROVE  Good(c)
<1>0. /\ Own(c) /\ row[c] \in RowType /\ req[c] \in ReqType
      /\ mk[c] \in JobType /\ rm[c] \in JobType /\ alloc[c] \in AllocType
  BY At
<1> DEFINE j == [IdleJob EXCEPT !.pc = "queued", !.at = req[c].at]
<1>1. /\ req[c].pc = "cast" /\ Answer(c) /\ mk' = [mk EXCEPT ![c] = j]
      /\ UNCHANGED <<row, rm, alloc, node, svc, trait, quota, used>>
  BY DEF CastCreate
<1>2. j \in JobType /\ j.pc = "queued" /\ j.at = req[c].at
  BY <1>0 DEF JobType, JobPcs, IdleJob, ReqType
<1> HIDE DEF j
<1>3. /\ req' \in [Containers -> ReqType] /\ req'[c].pc = "done"
      /\ \A d \in Containers : d # c => req'[d] = req[d]
  BY <1>1, AnswerType DEF IInv, TypeOK
<1>4. TypeOK' /\ Alone(c) /\ mk'[c] = j
  BY <1>1, <1>2, <1>3 DEF IInv, TypeOK, Alone
<1>5. /\ row[c] \in {NoRow, Fresh} /\ rm[c].pc \in {"idle", "hostless"}
      /\ req[c].at \in Hosts /\ row[c] # NoRow => alloc[c].hosts = {req[c].at}
  BY <1>0, <1>1 DEF Own, Waiting, Claimed, Taking
<1>6. Own(c)'
  BY <1>0, <1>1, <1>2, <1>3, <1>4, <1>5 DEF Own, Early, Waiting, Claimed, Making,
     Leaving, Whole, Seen, Asking, Taking
<1>7. Stage(c)' = Stage(c)
  BY <1>1, <1>3, StageNow, StageIs DEF StageOf
<1> QED BY <1>1, <1>4, <1>6, <1>7, Unseen DEF Good

-----------------------------------------------------------------------------
(* The steps of zun-compute                                                 *)

\* Threads of zun-compute run for requests that have been answered.
LEMMA Answered ==
    ASSUME IInv, NEW c \in Containers,
           \/ mk[c].pc # "idle"
           \/ rm[c].pc \notin {"idle", "hostless"}
    PROVE  req[c].pc = "done"
<1>1. Own(c) /\ req[c] \in ReqType
  BY At
<1>2. req[c].pc \in Pcs
  BY <1>1 DEF ReqType
<1> QED BY <1>1, <1>2 DEF Own, Early, Waiting, Pcs, Asking, Taking

LEMMA Constants ==
    /\ NoRow \in RowType /\ NoRow.host = NoHost /\ NoRow.status = "none"
    /\ Fresh # NoRow /\ Fresh.host = NoHost /\ Fresh.status = "Creating"
    /\ Broken # NoRow /\ Broken.host = NoHost /\ Broken.status = "Error"
    /\ NoHost \notin Hosts
BY SchedulingAssumption DEF NoRow, Fresh, Broken, RowType

\* The creation fails before the host is saved.
LEMMA FailedStep ==
    ASSUME IInv, NEW c \in Containers, NEW p \in {"idle", "get"},
           mk[c].pc = "queued", Save(c, "Error", NoHost), mk' = Job(mk, c, p),
           UNCHANGED <<req, rm, alloc, node, svc, trait, quota>>
    PROVE  Good(c)
<1>0. /\ Own(c) /\ row[c] \in RowType /\ req[c] \in ReqType
      /\ mk[c] \in JobType /\ rm[c] \in JobType /\ alloc[c] \in AllocType
  BY At
<1>1. /\ mk[c].at \in Hosts /\ rm[c].pc \in {"idle", "hostless"}
      /\ row[c] # NoRow => row[c] = Fresh /\ alloc[c].hosts = {mk[c].at}
  BY <1>0 DEF Own, Making
<1>2. req[c].pc = "done"
  BY Answered
<1>3. /\ row' \in [Containers -> RowType]
      /\ row[c] = NoRow => row'[c] = NoRow
      /\ row[c] # NoRow => row'[c] = Broken
      /\ \A d \in Containers : d # c => row'[d] = row[d]
  BY SaveType DEF IInv, TypeOK, Broken
<1>4. /\ mk' \in [Containers -> JobType] /\ mk'[c].pc = p
      /\ \A d \in Containers : d # c => mk'[d] = mk[d]
  BY JobStep DEF IInv, TypeOK, JobPcs
<1>5. TypeOK' /\ Alone(c)
  BY <1>3, <1>4 DEF IInv, TypeOK, Alone
<1>6. Own(c)'
  BY <1>0, <1>1, <1>2, <1>3, <1>4, Constants DEF Own, Early, Waiting, Claimed,
     Making, Leaving, Whole, Seen, Asking, Taking
<1>7. CASE row[c] = NoRow \/ rm[c].pc = "hostless"
  <2>1. /\ Stage(c)' = Stage(c) /\ row'[c].host = row[c].host
        /\ alloc'[c].hosts = alloc[c].hosts
    BY <1>7, <1>1, <1>2, <1>3, Constants, StageBefore, StageAfter
  <2> QED BY <1>5, <1>6, <2>1, Unseen DEF Good
<1>8. CASE row[c] # NoRow /\ rm[c].pc # "hostless"
  <2>1. /\ Stage(c) = "waiting" /\ Stage(c)' = "failed" /\ row'[c].host = NoHost
        /\ alloc'[c].hosts = alloc[c].hosts
    BY <1>8, <1>1, <1>2, <1>3, Constants, StageBefore, StageAfter
  <2>2. Promise!Fail(c)
    BY <1>5, <2>1, Fails
  <2> QED BY <1>5, <1>6, <2>2, IsStep DEF Good
<1> QED BY <1>7, <1>8

LEMMA PrepareFailsStep ==
    ASSUME IInv, NEW c \in Containers, PrepareFails(c)
    PROVE  Good(c)
BY FailedStep DEF PrepareFails

LEMMA ContainerClaimStep ==
    ASSUME IInv, NEW c \in Containers, ContainerClaim(c)
    PROVE  Good(c)
<1>0. /\ Own(c) /\ row[c] \in RowType /\ req[c] \in ReqType
      /\ mk[c] \in JobType /\ rm[c] \in JobType /\ alloc[c] \in AllocType
  BY At
<1>h. mk[c].pc = "queued" /\ mk[c].at \in Hosts
  BY <1>0 DEF ContainerClaim, Own, Making
<1> PICK h \in Hosts : h = mk[c].at
  BY <1>h
<1>1. UNCHANGED <<req, rm, alloc, svc, trait, quota>>
  BY DEF ContainerClaim
<1>2. /\ rm[c].pc \in {"idle", "hostless"}
      /\ row[c] # NoRow => row[c] = Fresh /\ alloc[c].hosts = {h}
  BY <1>0, <1>h DEF Own, Making
<1>3. req[c].pc = "done"
  BY <1>h, Answered
<1>4. CASE /\ Save(c, "Error", NoHost)
           /\ mk' = Job(mk, c, IF row[c] = NoRow THEN "idle" ELSE "get")
           /\ UNCHANGED node
  BY <1>1, <1>4, <1>h, FailedStep
<1>5. CASE row[c] = NoRow /\ mk' = Job(mk, c, "idle") /\ UNCHANGED <<row, node>>
  <2>1. /\ mk' \in [Containers -> JobType] /\ mk'[c].pc = "idle"
        /\ \A d \in Containers : d # c => mk'[d] = mk[d]
    BY <1>5, JobStep DEF IInv, TypeOK, JobPcs
  <2>2. TypeOK' /\ Alone(c)
    BY <1>1, <1>5, <2>1 DEF IInv, TypeOK, Alone
  <2>3. Own(c)'
    BY <1>0, <1>1, <1>2, <1>3, <1>5, <2>1 DEF Own, Early, Waiting, Claimed,
       Making, Leaving, Whole, Seen, Asking, Taking
  <2>4. Stage(c)' = Stage(c)
    BY <1>1, <1>5, StageNow
  <2> QED BY <1>1, <1>5, <2>2, <2>3, <2>4, Unseen DEF Good
<1>6. CASE /\ row[c] # NoRow /\ Save(c, row[c].status, h)
           /\ mk' = Job(mk, c, "docker") /\ node' = [node EXCEPT ![c] = h]
  <2>1. row[c] = Fresh /\ alloc[c].hosts = {h} /\ row[c].status = "Creating"
    BY <1>2, <1>6, Constants
  <2>2. /\ row' \in [Containers -> RowType]
        /\ row'[c] = [status |-> "Creating", host |-> h]
        /\ \A d \in Containers : d # c => row'[d] = row[d]
    BY <1>6, <2>1, SaveType DEF IInv, TypeOK
  <2>3. row'[c].status = "Creating" /\ row'[c].host = h /\ row'[c] # NoRow
    BY <2>2, Constants
  <2>4. /\ mk' \in [Containers -> JobType] /\ mk'[c].pc = "docker"
        /\ mk'[c].at = h
        /\ \A d \in Containers : d # c => mk'[d] = mk[d]
    BY <1>6, JobStep DEF IInv, TypeOK, JobPcs
  <2>5. node' \in [Containers -> Hosts \cup {NoHost}]
    BY <1>6 DEF IInv, TypeOK
  <2>6. TypeOK' /\ Alone(c)
    BY <1>1, <2>2, <2>4, <2>5 DEF IInv, TypeOK, Alone
  <2>7. Own(c)'
    BY <1>0, <1>1, <1>2, <1>3, <2>3, <2>4 DEF Own, Early, Waiting, Claimed,
       Making, Leaving, Whole, Seen, Asking, Taking
  <2>8. /\ Stage(c) \in {"waiting", "leaving"}
        /\ Stage(c) = "waiting" => Stage(c)' = "placed"
        /\ Stage(c) = "leaving" => Stage(c)' = "leaving"
    BY <1>1, <1>2, <2>1, <2>3, Constants, StageBefore, StageAfter
  <2>9. Promise!Place(c, h)
    BY <1>1, <2>1, <2>3, <2>6, <2>8, Places
  <2> QED BY <2>6, <2>7, <2>9, IsStep DEF Good
<1> QED BY <1>4, <1>5, <1>6 DEF ContainerClaim

\* What the creation in Docker comes to.
LEMMA DockerSaved ==
    ASSUME IInv, NEW c \in Containers, mk[c].pc = "docker",
           mk' = Job(mk, c, "idle"), node' \in [Containers -> Hosts \cup {NoHost}],
           NEW s \in {"Created", "Error"}, NEW h \in Hosts \cup {NoHost},
           h = mk[c].at \/ (s = "Error" /\ h = NoHost), Save(c, s, h),
           UNCHANGED <<req, rm, alloc, svc, trait, quota>>
    PROVE  Good(c)
<1>0. /\ Own(c) /\ row[c] \in RowType /\ req[c] \in ReqType
      /\ mk[c] \in JobType /\ rm[c] \in JobType /\ alloc[c] \in AllocType
  BY At
<1>1. mk[c].at \in Hosts /\ (row[c] # NoRow => row[c].host = mk[c].at)
  BY <1>0 DEF Own, Making
<1>2. req[c].pc = "done"
  BY Answered
<1>3. /\ row' \in [Containers -> RowType]
      /\ row[c] = NoRow => row'[c] = NoRow
      /\ row[c] # NoRow => row'[c] = [status |-> s, host |-> h]
      /\ \A d \in Containers : d # c => row'[d] = row[d]
  BY SaveType DEF IInv, TypeOK
<1>4. row[c] # NoRow => row'[c].status = s /\ row'[c].host = h /\ row'[c] # NoRow
  BY <1>3, Constants
<1>5. /\ mk' \in [Containers -> JobType] /\ mk'[c].pc = "idle"
      /\ \A d \in Containers : d # c => mk'[d] = mk[d]
  BY JobStep, SMTT(30) DEF IInv, TypeOK, JobPcs
<1>6. TypeOK' /\ Alone(c)
  BY <1>3, <1>5 DEF IInv, TypeOK, Alone
<1>7. Own(c)'
  BY <1>0, <1>1, <1>2, <1>3, <1>4, <1>5, Constants DEF Own, Early, Waiting,
     Claimed, Making, Leaving, Whole, Seen, Asking, Taking
<1>8. CASE row[c] = NoRow \/ h = mk[c].at
  <2>1. Stage(c)' = Stage(c) /\ row'[c].host = row[c].host
    BY <1>8, <1>1, <1>2, <1>3, <1>4, Constants, StageBefore, StageAfter
  <2> QED BY <1>6, <1>7, <2>1, Unseen DEF Good
<1>9. CASE row[c] # NoRow /\ h = NoHost /\ s = "Error"
  <2>1. /\ Stage(c) \in {"placed", "leaving"} /\ row'[c].host = NoHost
        /\ Stage(c)' = IF Stage(c) # "leaving" THEN "failed" ELSE Stage(c)
    BY <1>9, <1>1, <1>2, <1>4, Constants, StageBefore, StageAfter
  <2>2. Promise!Fail(c)
    BY <1>6, <2>1, Fails
  <2> QED BY <1>6, <1>7, <2>2, IsStep DEF Good
<1> QED BY <1>8, <1>9

LEMMA DockerCreateStep ==
    ASSUME IInv, NEW c \in Containers, DockerCreate(c)
    PROVE  Good(c)
<1>0. Own(c) /\ mk[c] \in JobType /\ mk[c].at \in Hosts \cup {NoHost}
  BY At DEF JobType
<1>1. /\ mk[c].pc = "docker" /\ mk' = Job(mk, c, "idle")
      /\ UNCHANGED <<req, rm, alloc, svc, trait, quota>>
  BY DEF DockerCreate
<1>2. node' \in [Containers -> Hosts \cup {NoHost}]
  BY DEF DockerCreate, IInv, TypeOK
<1>3. CASE Save(c, "Created", mk[c].at)
  <2> PICK h \in Hosts \cup {NoHost} : h = mk[c].at
    BY <1>0
  <2>1. Save(c, "Created", h)
    BY <1>3
  <2> QED BY <1>1, <1>2, <2>1, DockerSaved
<1>4. ASSUME NEW h \in {mk[c].at, NoHost}, Save(c, "Error", h)
      PROVE  Good(c)
  <2>1. h \in Hosts \cup {NoHost}
    BY <1>0
  <2> QED BY <1>1, <1>2, <1>4, <2>1, DockerSaved
<1> QED BY <1>3, <1>4 DEF DockerCreate

LEMMA DeleteContainerStep ==
    ASSUME IInv, NEW c \in Containers, DeleteContainer(c)
    PROVE  Good(c)
<1>0. /\ Own(c) /\ row[c] \in RowType /\ req[c] \in ReqType
      /\ mk[c] \in JobType /\ rm[c] \in JobType /\ alloc[c] \in AllocType
  BY At
<1> DEFINE j == [IdleJob EXCEPT !.pc = IF row[c].host = NoHost THEN "hostless"
                                       ELSE "queued",
                                !.at = row[c].host]
<1>1. /\ row[c] # NoRow /\ rm[c].pc = "idle" /\ rm' = [rm EXCEPT ![c] = j]
      /\ UNCHANGED <<row, req, mk, alloc, node, svc, trait, quota, used>>
  BY DEF DeleteContainer
<1>2. /\ j \in JobType
      /\ row[c].host = NoHost => j.pc = "hostless"
      /\ row[c].host # NoHost => j.pc = "queued"
  BY <1>0 DEF JobType, JobPcs, IdleJob, RowType
<1> HIDE DEF j
<1>3. TypeOK' /\ Alone(c) /\ rm'[c] = j
  BY <1>1, <1>2 DEF IInv, TypeOK, Alone
<1>4. req[c].pc \in Pcs /\ row[c].status \in {"none", "Creating", "Created", "Error"}
  BY <1>0 DEF ReqType, RowType
<1>5. row[c].host # NoHost => req[c].pc = "done" /\ mk[c].pc # "queued"
  BY <1>0, <1>1, <1>4, Constants DEF Own, Early, Waiting, Making, Pcs, Asking, Taking
<1>6. Own(c)'
  BY <1>0, <1>1, <1>2, <1>3, <1>5 DEF Own, Early, Waiting, Claimed, Making,
     Leaving, Whole, Seen, Asking, Taking
<1>7. CASE row[c].host = NoHost
  <2>1. Stage(c) \in {"waiting", "failed"} /\ Stage(c)' = "leaving"
    BY <1>7, <1>1, <1>2, <1>3, StageBefore, StageAfter
  <2>2. Promise!AskToLeave(c)
    BY <1>1, <1>3, <2>1, AsksToLeave
  <2> QED BY <1>3, <1>6, <2>2, IsStep DEF Good
<1>8. CASE row[c].host # NoHost
  <2>1. Stage(c)' = Stage(c)
    BY <1>8, <1>1, <1>2, <1>3, StageBefore, StageAfter
  <2> QED BY <1>1, <1>3, <1>6, <2>1, Unseen DEF Good
<1> QED BY <1>7, <1>8

\* The row goes, by the thread that deletes.
LEMMA DestroyStep ==
    ASSUME IInv, NEW c \in Containers, rm[c].pc \in {"hostless", "destroy"},
           rm' = Job(rm, c, "idle"), row' = [row EXCEPT ![c] = NoRow],
           UNCHANGED <<req, mk, alloc, node, svc, trait, quota, used>>
    PROVE  Good(c)
<1>0. /\ Own(c) /\ row[c] \in RowType /\ req[c] \in ReqType
      /\ mk[c] \in JobType /\ rm[c] \in JobType /\ alloc[c] \in AllocType
  BY At
<1>1. /\ rm' \in [Containers -> JobType] /\ rm'[c].pc = "idle"
      /\ \A d \in Containers : d # c => rm'[d] = rm[d]
  BY JobStep DEF IInv, TypeOK, JobPcs
<1>2. TypeOK' /\ Alone(c) /\ row'[c] = NoRow
  BY <1>1, Constants DEF IInv, TypeOK, Alone
<1>3. req[c].pc \notin {"idle", "create"}
  BY <1>0 DEF Own, Early
<1>4. Own(c)'
  BY <1>0, <1>1, <1>2, <1>3, Constants DEF Own, Early, Waiting, Claimed, Making,
     Leaving, Whole, Seen, Asking, Taking
<1>5. Stage(c)' = "gone" /\ row'[c].host = NoHost
  BY <1>2, <1>3, Constants, StageAfter
<1>6. CASE row[c] = NoRow
  <2>1. Stage(c) = "gone" /\ row[c].host = NoHost
    BY <1>3, <1>6, Constants, StageBefore
  <2> QED BY <1>2, <1>4, <1>5, <2>1, Unseen DEF Good
<1>7. CASE row[c] # NoRow
  <2>1. \/ Stage(c) \in {"new", "waiting", "leaving"}
        \/ Stage(c) \in {"placed", "failed"} /\ alloc[c].hosts = {}
    BY <1>0, <1>7, StageBefore DEF Own, Leaving
  <2>2. Promise!Leave(c)
    BY <1>2, <1>5, <2>1, Leaves
  <2> QED BY <1>2, <1>4, <2>2, IsStep DEF Good
<1> QED BY <1>6, <1>7

LEMMA DestroyHostlessStep ==
    ASSUME IInv, NEW c \in Containers, DestroyHostless(c)
    PROVE  Good(c)
BY DestroyStep DEF DestroyHostless

LEMMA DestroyRowStep ==
    ASSUME IInv, NEW c \in Containers, DestroyRow(c)
    PROVE  Good(c)
BY DestroyStep DEF DestroyRow

LEMMA DoContainerDeleteStep ==
    ASSUME IInv, NEW c \in Containers, DoContainerDelete(c)
    PROVE  Good(c)
<1>0. /\ Own(c) /\ row[c] \in RowType /\ req[c] \in ReqType
      /\ mk[c] \in JobType /\ rm[c] \in JobType /\ alloc[c] \in AllocType
  BY At
<1>1. /\ rm[c].pc = "queued" /\ mk[c].pc \in {"idle", "queued", "hostless"}
      /\ UNCHANGED <<req, mk, alloc, svc, trait, quota>>
  BY DEF DoContainerDelete, Free
<1>2. /\ req[c].pc = "done" /\ mk[c].pc # "queued"
      /\ row[c] = NoRow \/ row[c].host # NoHost \/ row[c].status = "Error"
  BY <1>0, <1>1 DEF Own, Leaving, Making
<1>3. CASE /\ rm' = Job(rm, c, "get") /\ node' = [node EXCEPT ![c] = NoHost]
           /\ UNCHANGED <<row, used>>
  <2>1. /\ rm' \in [Containers -> JobType] /\ rm'[c].pc = "get"
        /\ \A d \in Containers : d # c => rm'[d] = rm[d]
    <3>1. rm \in [Containers -> JobType] /\ "get" \in JobPcs
      BY DEF IInv, TypeOK, JobPcs
    <3>2. rm' = Job(rm, c, "get")
      BY <1>3
    <3> QED BY <3>1, <3>2, JobStep
  <2>2. node' \in [Containers -> Hosts \cup {NoHost}]
    BY <1>3 DEF IInv, TypeOK
  <2>3. TypeOK' /\ Alone(c)
    BY <1>1, <1>3, <2>1, <2>2 DEF IInv, TypeOK, Alone
  <2>4. Own(c)'
    BY <1>0, <1>1, <1>2, <1>3, <2>1 DEF Own, Early, Waiting, Claimed, Making,
       Leaving, Whole, Seen, Asking, Taking
  <2>5. Stage(c)' = Stage(c)
    BY <1>1, <1>3, <2>1, StageNow, StageIs DEF StageOf
  <2> QED BY <1>1, <1>3, <2>3, <2>4, <2>5, Unseen DEF Good
<1>4. CASE /\ Save(c, "Error", row[c].host) /\ rm' = Job(rm, c, "idle")
           /\ UNCHANGED node
  <2> PICK h \in Hosts \cup {NoHost} : h = row[c].host
    BY <1>0 DEF RowType
  <2>1. /\ row' \in [Containers -> RowType]
        /\ row[c] = NoRow => row'[c] = NoRow
        /\ row[c] # NoRow => row'[c] = [status |-> "Error", host |-> h]
        /\ \A d \in Containers : d # c => row'[d] = row[d]
    BY <1>4, SaveType DEF IInv, TypeOK
  <2>2. row[c] # NoRow => /\ row'[c].status = "Error" /\ row'[c].host = row[c].host
                          /\ row'[c] # NoRow
    BY <2>1, Constants
  <2>3. /\ rm' \in [Containers -> JobType] /\ rm'[c].pc = "idle"
        /\ \A d \in Containers : d # c => rm'[d] = rm[d]
    BY <1>4, JobStep, SMTT(30) DEF IInv, TypeOK, JobPcs
  <2>4. TypeOK' /\ Alone(c)
    BY <1>1, <1>4, <2>1, <2>3 DEF IInv, TypeOK, Alone
  <2>5. Own(c)'
    BY <1>0, <1>1, <1>2, <2>1, <2>2, <2>3, Constants DEF Own, Early, Waiting,
       Claimed, Making, Leaving, Whole, Seen, Asking, Taking
  <2>6. Stage(c)' = Stage(c) /\ row'[c].host = row[c].host
    BY <1>1, <1>2, <2>1, <2>2, <2>3, StageBefore, StageAfter
  <2> QED BY <1>1, <2>4, <2>5, <2>6, Unseen DEF Good
<1> QED BY <1>3, <1>4 DEF DoContainerDelete

-----------------------------------------------------------------------------
(* The release of an allocation                                             *)

\* The allocation of a container that waits for nothing is given back.
LEMMA ReleasedStep ==
    ASSUME IInv, NEW c \in Containers, Write(c, {}), TypeOK', Alone(c), Own(c)',
           UNCHANGED <<row, req>>, rm'[c].pc = "hostless" <=> rm[c].pc = "hostless",
           \/ row[c] = NoRow /\ req[c].pc \notin {"idle", "create"}
           \/ row[c] # NoRow /\ row[c].host # NoHost
           \/ row[c] # NoRow /\ row[c].status = "Error"
    PROVE  Good(c)
<1>1. alloc'[c].hosts = {}
  BY WriteType DEF IInv, TypeOK
<1>2. Stage(c)' = Stage(c)
  BY StageNow, StageIs DEF StageOf
<1>3. Stage(c) \in {"failed", "placed", "leaving", "gone"}
  BY StageBefore
<1>4. CASE alloc[c].hosts = {}
  BY <1>1, <1>2, <1>4, Unseen DEF Good
<1>5. CASE alloc[c].hosts # {}
  <2>1. Promise!Give(c)
    BY <1>1, <1>2, <1>3, <1>5, Gives
  <2> QED BY <2>1, IsStep DEF Good
<1> QED BY <1>4, <1>5

LEMMA ReleaseFailedClaimStep ==
    ASSUME IInv, NEW c \in Containers, ReleaseFailedClaim(c)
    PROVE  Good(c)
<1>0. /\ Own(c) /\ row[c] \in RowType /\ req[c] \in ReqType
      /\ mk[c] \in JobType /\ rm[c] \in JobType /\ alloc[c] \in AllocType
  BY At
<1>1. mk[c].pc \in {"get", "put"} /\ UNCHANGED <<row, req, rm, node, svc, trait, quota>>
  BY DEF ReleaseFailedClaim, ReadAllocation, DeleteAllocation
<1>2. req[c].pc = "done" /\ row[c] \in {NoRow, Broken}
  BY <1>0, <1>1, Answered DEF Own, Making
<1>3. /\ mk' \in [Containers -> JobType] /\ mk'[c].pc \in {"idle", "put"}
      /\ \A d \in Containers : d # c => mk'[d] = mk[d]
  <2>1. CASE mk' = Job(mk, c, "idle")
    BY <2>1, JobStep DEF IInv, TypeOK, JobPcs
  <2>2. CASE mk' = [mk EXCEPT ![c] = [mk[c] EXCEPT !.pc = "put", !.gen = alloc[c].gen]]
    <3> DEFINE j == [mk[c] EXCEPT !.pc = "put", !.gen = alloc[c].gen]
    <3>1. j \in JobType /\ j.pc = "put"
      BY <1>0 DEF JobType, JobPcs, AllocType
    <3>2. mk' = [mk EXCEPT ![c] = j]
      BY <2>2
    <3> HIDE DEF j
    <3> QED BY <3>1, <3>2 DEF IInv, TypeOK
  <2> QED BY <2>1, <2>2 DEF ReleaseFailedClaim, ReadAllocation, DeleteAllocation
<1>4. UNCHANGED alloc \/ Write(c, {})
  BY DEF ReleaseFailedClaim, ReadAllocation, DeleteAllocation
<1>5. /\ alloc' \in [Containers -> AllocType]
      /\ \A d \in Containers : d # c => alloc'[d] = alloc[d]
      /\ alloc'[c].hosts \in {alloc[c].hosts, {}}
  BY <1>4, WriteType DEF IInv, TypeOK
<1>6. TypeOK' /\ Alone(c)
  BY <1>1, <1>3, <1>5 DEF IInv, TypeOK, Alone
<1>7. Own(c)'
  BY <1>0, <1>1, <1>2, <1>3, <1>5 DEF Own, Early, Waiting, Claimed, Making,
     Leaving, Whole, Seen, Asking, Taking
<1>8. CASE UNCHANGED alloc
  <2>1. Stage(c)' = Stage(c)
    BY <1>1, StageNow
  <2> QED BY <1>1, <1>6, <1>7, <1>8, <2>1, Unseen DEF Good
<1>9. CASE Write(c, {})
  BY <1>1, <1>2, <1>6, <1>7, <1>9, Constants, ReleasedStep
<1> QED BY <1>4, <1>8, <1>9

LEMMA ReleaseDeletedStep ==
    ASSUME IInv, NEW c \in Containers, ReleaseDeleted(c)
    PROVE  Good(c)
<1>0. /\ Own(c) /\ row[c] \in RowType /\ req[c] \in ReqType
      /\ mk[c] \in JobType /\ rm[c] \in JobType /\ alloc[c] \in AllocType
  BY At
<1>1. rm[c].pc \in {"get", "put"} /\ UNCHANGED <<row, req, mk, node, svc, trait, quota>>
  BY DEF ReleaseDeleted, ReadAllocation, DeleteAllocation
<1>2. /\ req[c].pc = "done" /\ mk[c].pc # "queued"
      /\ row[c] = NoRow \/ row[c].host # NoHost \/ row[c].status = "Error"
  BY <1>0, <1>1 DEF Own, Leaving, Making
<1>3. UNCHANGED alloc \/ Write(c, {})
  BY DEF ReleaseDeleted, ReadAllocation, DeleteAllocation
<1>4. /\ alloc' \in [Containers -> AllocType]
      /\ \A d \in Containers : d # c => alloc'[d] = alloc[d]
      /\ Write(c, {}) => alloc'[c].hosts = {}
  BY <1>3, WriteType DEF IInv, TypeOK
<1>5. /\ rm' \in [Containers -> JobType] /\ rm'[c].pc \in {"idle", "put", "destroy"}
      /\ rm'[c].pc = "destroy" => alloc'[c].hosts = {}
      /\ \A d \in Containers : d # c => rm'[d] = rm[d]
  <2>1. CASE rm' = Job(rm, c, "idle")
    BY <2>1, JobStep DEF IInv, TypeOK, JobPcs
  <2>2. CASE rm' = Job(rm, c, "destroy") /\ alloc'[c].hosts = {}
    BY <2>2, JobStep DEF IInv, TypeOK, JobPcs
  <2>3. CASE rm' = [rm EXCEPT ![c] = [rm[c] EXCEPT !.pc = "put", !.gen = alloc[c].gen]]
    <3> DEFINE j == [rm[c] EXCEPT !.pc = "put", !.gen = alloc[c].gen]
    <3>1. j \in JobType /\ j.pc = "put"
      BY <1>0 DEF JobType, JobPcs, AllocType
    <3>2. rm' = [rm EXCEPT ![c] = j]
      BY <2>3
    <3> HIDE DEF j
    <3> QED BY <3>1, <3>2 DEF IInv, TypeOK
  <2> QED BY <1>4, <2>1, <2>2, <2>3 DEF ReleaseDeleted, ReadAllocation, DeleteAllocation
<1>6. TypeOK' /\ Alone(c)
  BY <1>1, <1>4, <1>5 DEF IInv, TypeOK, Alone
<1>7. Own(c)'
  BY <1>0, <1>1, <1>2, <1>5 DEF Own, Early, Waiting, Claimed, Making,
     Leaving, Whole, Seen, Asking, Taking
<1>8. CASE UNCHANGED alloc
  <2>1. Stage(c)' = Stage(c)
    BY <1>1, <1>5, StageNow, StageIs DEF StageOf
  <2> QED BY <1>1, <1>6, <1>7, <1>8, <2>1, Unseen DEF Good
<1>9. CASE Write(c, {})
  <2>1. rm'[c].pc = "hostless" <=> rm[c].pc = "hostless"
    BY <1>1, <1>5
  <2> QED BY <1>1, <1>2, <1>6, <1>7, <1>9, <2>1, ReleasedStep
<1> QED BY <1>3, <1>8, <1>9

LEMMA OperatorReleasesStep ==
    ASSUME IInv, NEW c \in Containers, OperatorReleases(c)
    PROVE  Good(c)
<1>0. /\ Own(c) /\ row[c] \in RowType /\ req[c] \in ReqType
      /\ mk[c] \in JobType /\ rm[c] \in JobType /\ alloc[c] \in AllocType
  BY At
<1>1. /\ alloc[c].hosts # {} /\ row[c].status # "Creating" /\ Write(c, {})
      /\ UNCHANGED <<row, req, mk, rm, node, svc, trait, quota>>
  BY DEF OperatorReleases
<1>2. /\ alloc' \in [Containers -> AllocType] /\ alloc'[c].hosts = {}
      /\ \A d \in Containers : d # c => alloc'[d] = alloc[d]
  BY <1>1, WriteType DEF IInv, TypeOK
<1>3. TypeOK' /\ Alone(c)
  BY <1>1, <1>2 DEF IInv, TypeOK, Alone
<1>4. row[c].status \in {"none", "Creating", "Created", "Error"}
  BY <1>0 DEF RowType
<1>5. row[c] # Fresh
  BY <1>1, Constants
<1>6. Own(c)'
  BY <1>0, <1>1, <1>2, <1>5 DEF Own, Early, Waiting, Claimed, Making,
     Leaving, Whole, Seen, Asking, Taking
<1>7. \/ row[c] = NoRow /\ req[c].pc \notin {"idle", "create"}
      \/ row[c] # NoRow /\ row[c].host # NoHost
      \/ row[c] # NoRow /\ row[c].status = "Error"
  BY <1>0, <1>1, <1>4 DEF Own, Early, Whole
<1> QED BY <1>1, <1>3, <1>6, <1>7, ReleasedStep

-----------------------------------------------------------------------------
(* Services, traits and quotas                                              *)

\* The history of who was in service grows with the service's row.
LEMMA ServeStep ==
    ASSUME IInv, NEW h \in Hosts, NEW s, Serve(h, s)
    PROVE  TypeOK' /\ Inv' /\ UNCHANGED Promise!vars
<1>1. UNCHANGED <<row, mk, rm, alloc, node, trait, quota>>
  BY DEF Serve
<1> DEFINE new(c) == IF InService(s) /\ Active(c)
                     THEN [req[c] EXCEPT !.open = @ \cup {h}] ELSE req[c]
<1>2. \A c \in Containers :
         /\ new(c) \in ReqType /\ new(c).pc = req[c].pc /\ new(c).want = req[c].want
         /\ new(c).at = req[c].at /\ new(c).todo = req[c].todo
         /\ req[c].open \subseteq new(c).open
         /\ InService(s) /\ Active(c) => h \in new(c).open
  <2> SUFFICES ASSUME NEW c \in Containers
               PROVE  /\ new(c) \in ReqType /\ new(c).pc = req[c].pc
                      /\ new(c).want = req[c].want
                      /\ new(c).at = req[c].at /\ new(c).todo = req[c].todo
                      /\ req[c].open \subseteq new(c).open
                      /\ InService(s) /\ Active(c) => h \in new(c).open
    OBVIOUS
  <2>1. req[c] \in ReqType
    BY At
  <2> QED BY <2>1 DEF ReqType
<1>3. req' = [c \in Containers |-> new(c)]
  BY DEF Serve
<1> HIDE DEF new
<1>4. TypeOK'
  BY <1>1, <1>2, <1>3 DEF IInv, TypeOK
<1>5. \A g \in Hosts : g # h => svc'[g] = svc[g]
  BY DEF Serve
<1>6. ASSUME NEW c \in Containers PROVE Own(c)'
  <2>1. Own(c)
    BY At
  <2>2. /\ req'[c].pc = req[c].pc /\ req'[c].want = req[c].want
        /\ req'[c].at = req[c].at /\ req'[c].todo = req[c].todo
        /\ req[c].open \subseteq req'[c].open
        /\ InService(s) /\ Active(c) => h \in req'[c].open
    BY <1>2, <1>3
  <2>3. Seen(c)'
    <3>1. ASSUME req[c].pc \in {"candidates", "filter"}, NEW g \in Hosts,
                 InService(svc'[g])
          PROVE  g \in req'[c].open
      <4>1. CASE g # h
        BY <1>5, <2>1, <2>2, <3>1, <4>1 DEF Own, Seen
      <4>2. CASE g = h
        <5>1. Active(c)
          BY <3>1 DEF Active
        <5>2. CASE svc'[g] = s
          BY <2>2, <3>1, <4>2, <5>1, <5>2
        <5>3. svc'[h] = s \/ svc'[h] = svc[h]
          BY DEF Serve
        <5>4. CASE svc'[h] = svc[h]
          BY <2>1, <2>2, <3>1, <4>2, <5>4 DEF Own, Seen
        <5> QED BY <4>2, <5>2, <5>3, <5>4
      <4> QED BY <4>1, <4>2
    <3>2. req'[c].pc \in {"next", "put"} => req'[c].todo \subseteq req'[c].open
      BY <2>1, <2>2 DEF Own, Seen
    <3>3. req'[c].pc \in {"put"} \cup Taking => req'[c].at \in req'[c].open
      BY <2>1, <2>2 DEF Own, Seen
    <3> QED BY <2>2, <3>1, <3>2, <3>3 DEF Seen
  <2>4. (Early(c) /\ Waiting(c) /\ Claimed(c) /\ Making(c) /\ Leaving(c) /\ Whole(c))'
    BY <1>1, <2>1, <2>2 DEF Own, Early, Waiting, Claimed, Making, Leaving, Whole
  <2> QED BY <2>3, <2>4 DEF Own
<1>7. UNCHANGED Promise!vars
  <2>1. \A d \in Containers : Stage(d)' = Stage(d)
    BY <1>1, <1>2, <1>3, StageNow
  <2> QED BY <1>1, <2>1 DEF Promise!vars
<1> QED BY <1>4, <1>6, <1>7 DEF Inv

\* Steps that change the trait or the quotas alone.
LEMMA BesideStep ==
    ASSUME IInv, trait' \in SUBSET Hosts, quota' \in QuotaType,
           UNCHANGED <<row, req, mk, rm, alloc, node, svc>>
    PROVE  TypeOK' /\ Inv' /\ UNCHANGED Promise!vars
<1>1. TypeOK'
  BY DEF IInv, TypeOK
<1>2. ASSUME NEW c \in Containers PROVE Own(c)'
  <2>1. Own(c)
    BY At
  <2> QED BY <2>1 DEF Own, Early, Waiting, Claimed, Making, Leaving, Whole, Seen
<1>3. UNCHANGED Promise!vars
  <2>1. \A d \in Containers : Stage(d)' = Stage(d)
    BY StageNow
  <2> QED BY <2>1 DEF Promise!vars
<1> QED BY <1>1, <1>2, <1>3 DEF Inv

LEMMA ServiceStep ==
    ASSUME IInv, NEW h \in Hosts,
           \/ Heartbeat(h) \/ HeartbeatLost(h) \/ Process(h) \/ DeleteService(h)
           \/ \E b \in BOOLEAN : EnableOrDisable(h, b) \/ UpdateForcedDown(h, b)
    PROVE  TypeOK' /\ Inv' /\ UNCHANGED Promise!vars
<1>1. \E s : Serve(h, s)
  BY DEF Heartbeat, HeartbeatLost, Process, DeleteService, EnableOrDisable,
         UpdateForcedDown
<1> QED BY <1>1, ServeStep

LEMMA ReportTraitStep ==
    ASSUME IInv, NEW h \in Hosts, ReportTrait(h)
    PROVE  TypeOK' /\ Inv' /\ UNCHANGED Promise!vars
<1>1. trait' \in SUBSET Hosts /\ quota' \in QuotaType
  BY DEF ReportTrait, IInv, TypeOK
<1> QED BY <1>1, BesideStep DEF ReportTrait

LEMMA QuotaStep ==
    ASSUME IInv,
           \/ \E r \in Resources, v \in Limits : PutQuota(r, v) \/ PutQuotaClass(r, v)
           \/ DeleteQuotas
    PROVE  TypeOK' /\ Inv' /\ UNCHANGED Promise!vars
<1>1. UNCHANGED <<row, req, mk, rm, alloc, node, svc, trait>>
  BY DEF PutQuota, PutQuotaClass, DeleteQuotas
<1>2. quota \in QuotaType /\ trait' \in SUBSET Hosts
  BY <1>1 DEF IInv, TypeOK
<1>3. quota' \in QuotaType
  <2>1. CASE DeleteQuotas
    BY <1>2, <2>1 DEF DeleteQuotas, SetProjectQuota, QuotaType, Quotas
  <2>2. ASSUME NEW r \in Resources, NEW v \in Limits, PutQuota(r, v)
        PROVE  quota' \in QuotaType
    <3>1. [quota.project EXCEPT ![r] = v] \in Quotas
      BY <1>2 DEF QuotaType, Quotas
    <3>2. quota' = [quota EXCEPT !.project = [quota.project EXCEPT ![r] = v]]
      BY <2>2 DEF PutQuota, SetProjectQuota
    <3> QED BY <1>2, <3>1, <3>2 DEF QuotaType
  <2>3. ASSUME NEW r \in Resources, NEW v \in Limits, PutQuotaClass(r, v)
        PROVE  quota' \in QuotaType
    <3>1. [quota.class EXCEPT ![r] = v] \in Quotas
      BY <1>2 DEF QuotaType, Quotas
    <3>2. quota' = [quota EXCEPT !.class = [quota.class EXCEPT ![r] = v]]
      BY <2>3 DEF PutQuotaClass, SetClassQuota
    <3> QED BY <1>2, <3>1, <3>2 DEF QuotaType
  <2> QED BY <2>1, <2>2, <2>3
<1> QED BY <1>1, <1>2, <1>3, BesideStep

-----------------------------------------------------------------------------
(* The theorems                                                             *)

LEMMA InitHolds ==
    ASSUME Init
    PROVE  IInv /\ Promise!Init
<1>1. TypeOK
  <2>1. NoRow \in RowType
    BY Constants
  <2>2. IdleReq \in ReqType
    <3>1. 1 \in 1..MaxTries
      BY SchedulingAssumption
    <3> QED BY <3>1 DEF IdleReq, ReqType, Pcs
  <2>3. IdleJob \in JobType /\ [hosts |-> {}, gen |-> 0] \in AllocType
    BY DEF IdleJob, JobType, JobPcs, AllocType
  <2>4. quota \in QuotaType
    BY DEF Init, QuotaType, Quotas
  <2> QED BY <2>1, <2>2, <2>3, <2>4 DEF Init, TypeOK
<1>2. ASSUME NEW c \in Containers
      PROVE  Own(c) /\ Stage(c) = "new" /\ row[c].host = NoHost /\ alloc[c].hosts = {}
  <2>1. /\ row[c] = NoRow /\ req[c].pc = "idle" /\ mk[c].pc = "idle"
        /\ rm[c].pc = "idle" /\ alloc[c].hosts = {}
    BY DEF Init, IdleReq, IdleJob
  <2>2. Own(c)
    BY <2>1, Constants DEF Own, Early, Waiting, Claimed, Making, Leaving, Whole,
       Seen, Asking, Taking
  <2> QED BY <2>1, <2>2, Constants, StageBefore
<1>3. Inv
  BY <1>2 DEF Inv
<1>4. Promise!Init
  BY <1>2 DEF Promise!Init
<1> QED BY <1>1, <1>3, <1>4 DEF IInv

LEMMA GoodStep ==
    ASSUME IInv, NEW c \in Containers, Good(c)
    PROVE  TypeOK' /\ Inv' /\ [Promise!Next]_(Promise!vars)
BY LocalStep DEF Good

LEMMA NextHolds ==
    ASSUME IInv, [Next]_vars
    PROVE  IInv' /\ [Promise!Next]_(Promise!vars)
<1> SUFFICES TypeOK' /\ Inv' /\ [Promise!Next]_(Promise!vars)
  BY DEF IInv
<1>1. CASE UNCHANGED vars
  <2>1. trait' \in SUBSET Hosts /\ quota' \in QuotaType
    BY <1>1 DEF vars, IInv, TypeOK
  <2> QED BY <1>1, <2>1, BesideStep DEF vars
<1>2. ASSUME NEW c \in Containers,
             CheckQuota(c) \/ Serving(c) \/ Computing(c) \/ DeleteContainer(c)
             \/ OperatorReleases(c)
      PROVE  TypeOK' /\ Inv' /\ [Promise!Next]_(Promise!vars)
  <2>1. CASE CheckQuota(c)
    BY <2>1, CheckQuotaStep, GoodStep
  <2>2. CASE Serving(c)
    <3>1. Good(c)
      BY <2>2, CreateRowStep, ValidateHostStep, GetAllocationCandidatesStep,
         GetFilteredHostsStep, NextHostStep, ClaimResourcesStep, ClaimLostStep,
         ValidateImageStep, CastCreateStep DEF Serving
    <3> QED BY <3>1, GoodStep
  <2>3. CASE Computing(c)
    <3>1. Good(c)
      BY <2>3, PrepareFailsStep, ContainerClaimStep, DockerCreateStep,
         ReleaseFailedClaimStep, DoContainerDeleteStep, ReleaseDeletedStep,
         DestroyRowStep, DestroyHostlessStep DEF Computing
    <3> QED BY <3>1, GoodStep
  <2>4. CASE DeleteContainer(c)
    BY <2>4, DeleteContainerStep, GoodStep
  <2>5. CASE OperatorReleases(c)
    BY <2>5, OperatorReleasesStep, GoodStep
  <2> QED BY <1>2, <2>1, <2>2, <2>3, <2>4, <2>5
<1>3. ASSUME NEW h \in Hosts,
             \/ Heartbeat(h) \/ HeartbeatLost(h) \/ Process(h) \/ DeleteService(h)
             \/ ReportTrait(h)
             \/ \E b \in BOOLEAN : EnableOrDisable(h, b) \/ UpdateForcedDown(h, b)
      PROVE  TypeOK' /\ Inv' /\ UNCHANGED Promise!vars
  BY <1>3, ServiceStep, ReportTraitStep
<1>4. CASE \/ \E r \in Resources, v \in Limits : PutQuota(r, v) \/ PutQuotaClass(r, v)
           \/ DeleteQuotas
  BY <1>4, QuotaStep
<1> QED BY <1>1, <1>2, <1>3, <1>4 DEF Next

LEMMA Inductive == Spec => []IInv
<1>1. Init => IInv
  BY InitHolds
<1>2. IInv /\ [Next]_vars => IInv'
  BY NextHolds
<1> QED BY <1>1, <1>2, PTL DEF Spec

\* Rows, requests, threads, allocations and quotas keep their types, and what
\* the requests and threads of a container know agrees with its row and with
\* what Placement holds for it.
THEOREM SchedulingTyped == Spec => [](TypeOK /\ Inv)
BY Inductive, PTL DEF IInv

\* A host that scheduling gives an allocation on was in service at some moment
\* of the scheduling (FilterScheduler._schedule, ComputeFilter).
THEOREM ChosenInService == Spec => []InServiceWhenChosen
<1>1. IInv => InServiceWhenChosen
  <2> SUFFICES ASSUME IInv, NEW c \in Containers, Active(c)
               PROVE  alloc[c].hosts \subseteq req[c].open
    BY DEF InServiceWhenChosen
  <2>1. Own(c) /\ req[c] \in ReqType
    BY At
  <2>2. req[c].pc \in Pcs
    BY <2>1 DEF ReqType
  <2>3. CASE req[c].pc \in {"create"} \cup Asking
    BY <2>1, <2>3 DEF Own, Early, Claimed
  <2>4. CASE req[c].pc \in Taking
    BY <2>1, <2>4 DEF Own, Claimed, Seen
  <2> QED BY <2>2, <2>3, <2>4 DEF Active, Pcs, Asking, Taking
<1> QED BY <1>1, Inductive, PTL

\* Scheduling, creation and deletion implement Assignment: every step is one of
\* its steps or changes nothing it sees.
THEOREM ImplementsAssignment == Spec => KeepsPromise
<1>1. Init => Promise!Init
  BY InitHolds
<1>2. IInv /\ [Next]_vars => [Promise!Next]_(Promise!vars)
  BY NextHolds
<1> QED BY <1>1, <1>2, Inductive, PTL DEF Spec, KeepsPromise, Promise!Spec

-----------------------------------------------------------------------------
(* The quota                                                                *)

\* The containers that passed the check of the quota: with a row, or about to
\* create it.
Admitted == {c \in Containers : row[c] # NoRow \/ req[c].pc = "create"}

Admitting == {c \in Containers : req[c].pc = "create"}

Size(r) == [c \in Containers |-> Delta(c, r)]

Largest(r) == Max({Delta(c, r) : c \in Containers})

Highest(r) == Max(Limits \cup {ConfLimit[r]})

Limited(r) == Limits \cup {ConfLimit[r]} \subseteq Nat

\* The inductive invariant: whoever passed the check is counted already.
QuotaInv ==
    \A r \in Resources : Limited(r) =>
        Total(Size(r), Admitted) <= Highest(r) + (Workers - 1) * Largest(r)

\* The size of a container is a number, and the largest is the largest.
LEMMA SizeFact ==
    ASSUME NEW r \in Resources
    PROVE  /\ IsFiniteSet(Containers) /\ Largest(r) \in Nat
           /\ \A c \in Containers : /\ Size(r)[c] = Delta(c, r) /\ Delta(c, r) \in Nat
                                    /\ Size(r)[c] \in Nat /\ Size(r)[c] <= Largest(r)
<1>1. IsFiniteSet(Containers) /\ Containers # {} BY SchedulingAssumption
<1>2. \A c \in Containers : Size(r)[c] = Delta(c, r) BY DEF Size
<1>3. \A c \in Containers : Delta(c, r) \in Nat BY SchedulingAssumption DEF Delta
<1>4. PICK S : S = {Delta(c, r) : c \in Containers} OBVIOUS
<1>5. IsFiniteSet(S)
  <2>1. PICK f : f = [c \in Containers |-> Delta(c, r)] OBVIOUS
  <2>2. f \in Surjection(Containers, S) BY <1>4, <2>1 DEF Surjection
  <2> QED BY <1>1, <2>2, FS_Surjection
<1>6. S \subseteq Nat /\ S \subseteq Int /\ S # {} /\ \A c \in Containers : Delta(c, r) \in S
  BY <1>1, <1>3, <1>4
<1>7. Max(S) \in S /\ \A y \in S : Max(S) >= y BY <1>5, <1>6, MaxIs
<1>8. Largest(r) = Max(S) BY <1>4 DEF Largest
<1> QED BY <1>1, <1>2, <1>3, <1>6, <1>7, <1>8

\* A limit in force is at most the highest.
LEMMA LimitFact ==
    ASSUME IInv, NEW r \in Resources, Limited(r)
    PROVE  Limit(r) \in Nat /\ Highest(r) \in Nat /\ Limit(r) <= Highest(r)
<1>1. PICK S : S = Limits \cup {ConfLimit[r]} OBVIOUS
<1>2. IsFiniteSet(S) BY <1>1, SchedulingAssumption, FS_AddElement
<1>3. S \subseteq Nat /\ S \subseteq Int /\ S # {} BY <1>1 DEF Limited
<1>4. Max(S) \in S /\ \A y \in S : Max(S) >= y BY <1>2, <1>3, MaxIs
<1>5. quota.project[r] \in Limits \cup {Unset} /\ quota.class[r] \in Limits \cup {Unset}
  BY DEF IInv, TypeOK, QuotaType, Quotas
<1>6. Limit(r) \in S BY <1>1, <1>5 DEF Limit
<1> QED BY <1>1, <1>3, <1>4, <1>6 DEF Highest

\* The usage that count_usage finds is the sum over the rows.
LEMMA CountIs ==
    ASSUME NEW r \in Resources
    PROVE  CountUsage(r) = Total(Size(r), Rows)
<1>1. PICK R \in SUBSET Containers : R = Rows BY DEF Rows
<1>2. IsFiniteSet(R) BY <1>1, FS_Subset, SizeFact
<1>3. CASE r = "containers"
  <2>1. \A c \in R : Size(r)[c] = 1 BY <1>3 DEF Size, Delta
  <2>2. Total(Size(r), R) = Cardinality(R) BY <1>2, <2>1, TotalOnes
  <2> QED BY <1>1, <1>3, <2>2 DEF CountUsage
<1>4. CASE r # "containers"
  <2>1. \A c \in R : Cpu[c] = Size(r)[c] /\ Size(r)[c] \in Nat
    BY <1>4, SizeFact DEF Size, Delta
  <2>2. Total(Cpu, R) = Total(Size(r), R) BY <1>2, <2>1, TotalSame
  <2>3. CountUsage(r) = Total(Cpu, R) BY <1>1, <1>4 DEF CountUsage, Total
  <2> QED BY <1>1, <2>2, <2>3
<1> QED BY <1>3, <1>4

\* While no one passes the check, what is counted does not grow.
LEMMA FewerAdmitted ==
    ASSUME QuotaInv, Admitted' \subseteq Admitted
    PROVE  QuotaInv'
<1> SUFFICES ASSUME NEW r \in Resources, Limited(r)
             PROVE  Total(Size(r), Admitted') <= Highest(r) + (Workers - 1) * Largest(r)
  BY DEF QuotaInv, Limited, Highest, Largest, Size, Delta
<1>1. PICK A \in SUBSET Containers : A = Admitted BY DEF Admitted
<1>2. PICK B \in SUBSET A : B = Admitted' BY <1>1
<1>3. IsFiniteSet(A) /\ IsFiniteSet(B) BY FS_Subset, SizeFact
<1>4. \A c \in A : Size(r)[c] \in Nat BY SizeFact
<1>5. Total(Size(r), B) <= Total(Size(r), A) BY <1>3, <1>4, TotalLess
<1>6. PICK a \in Nat : a = Total(Size(r), A) BY <1>3, <1>4, TotalNat
<1>7. PICK b \in Nat : b = Total(Size(r), B) BY <1>3, <1>4, TotalNat
<1>8. Highest(r) \in Nat
  <2>1. PICK S : S = Limits \cup {ConfLimit[r]} OBVIOUS
  <2>2. IsFiniteSet(S) BY <2>1, SchedulingAssumption, FS_AddElement
  <2>3. S \subseteq Nat /\ S \subseteq Int /\ S # {} BY <2>1 DEF Limited
  <2>4. Max(S) \in S BY <2>2, <2>3, MaxIs
  <2> QED BY <2>1, <2>3, <2>4 DEF Highest
<1>9. PICK k \in Int : k = Highest(r) + (Workers - 1) * Largest(r)
  <2>1. Workers - 1 \in Int /\ Largest(r) \in Int BY SchedulingAssumption, SizeFact
  <2>2. (Workers - 1) * Largest(r) \in Int BY <2>1
  <2> QED BY <1>8, <2>2
<1>10. a <= k BY <1>1, <1>6, <1>9 DEF QuotaInv
<1>11. b <= k BY <1>5, <1>6, <1>7, <1>10
<1> QED BY <1>2, <1>7, <1>9, <1>11

\* The check of the quota counts the rows; whoever else passed it before has no
\* more than the other requests of the API.
LEMMA CheckAdmits ==
    ASSUME IInv, QuotaInv, NEW c \in Containers, CheckQuota(c)
    PROVE  QuotaInv'
<1>1. PICK h \in Wanted[c] :
        IF OverQuota(c) THEN Answer(c) ELSE Request(c, [req[c] EXCEPT !.pc = "create", !.want = h])
  BY DEF CheckQuota
<1>2. /\ req[c].pc = "idle" /\ row' = row
      /\ Cardinality({x \in Containers : Active(x)}) < Workers
  BY DEF CheckQuota
<1>3. CASE OverQuota(c)
  <2>1. Answer(c) BY <1>1, <1>3
  <2>2. req'[c].pc = "done" /\ \A d \in Containers : d # c => req'[d] = req[d]
    BY <2>1, AnswerType DEF IInv, TypeOK
  <2>3. Admitted' \subseteq Admitted BY <1>2, <2>2 DEF Admitted
  <2> QED BY <2>3, FewerAdmitted
<1>4. CASE ~OverQuota(c)
  <2> SUFFICES ASSUME NEW r \in Resources, Limited(r)
               PROVE  Total(Size(r), Admitted') <= Highest(r) + (Workers - 1) * Largest(r)
    BY DEF QuotaInv, Limited, Highest, Largest, Size, Delta
  <2>1. /\ \A d \in Containers : d # c => req'[d] = req[d]
        /\ req'[c].pc = "create"
    BY <1>1, <1>4, At DEF Request, IInv, TypeOK, ReqType
  <2>2. PICK R \in SUBSET Containers : R = Rows BY DEF Rows
  <2>3. PICK P \in SUBSET Containers : P = Admitting BY DEF Admitting
  <2>4. Admitted' = (R \cup P) \cup {c} BY <1>2, <2>1, <2>2, <2>3 DEF Admitted, Admitting, Rows
  <2>5. row[c] = NoRow BY <1>2, At DEF Own, Early
  <2>6. c \notin R \cup P BY <1>2, <2>2, <2>3, <2>5 DEF Rows, Admitting
  <2>7. PICK U \in SUBSET Containers : U = R \cup P OBVIOUS
  <2>8. IsFiniteSet(R) /\ IsFiniteSet(P) /\ IsFiniteSet(U) BY FS_Subset, SizeFact
  <2>9. \A x \in Containers : Size(r)[x] \in Nat /\ Size(r)[x] <= Largest(r) BY SizeFact
  <2>10. PICK n \in Nat : n = Largest(r) BY SizeFact
  <2>11. PICK k \in Nat : k = Cardinality(P) BY <2>8, FS_CardinalityType
  <2>12. k <= Workers - 1
    <3>1. PICK Q \in SUBSET Containers : Q = {x \in Containers : Active(x)} OBVIOUS
    <3>2. P \subseteq Q BY <2>3, <3>1 DEF Admitting, Active
    <3>3. IsFiniteSet(Q) BY FS_Subset, SizeFact
    <3>4. Cardinality(P) <= Cardinality(Q) /\ Cardinality(Q) \in Nat
      BY <3>2, <3>3, FS_Subset, FS_CardinalityType
    <3> QED BY <1>2, <2>11, <3>1, <3>4, SchedulingAssumption
  <2>13. k * n <= (Workers - 1) * n
    <3>1. PICK j \in Nat : Workers - 1 = k + j
      <4>1. Workers - 1 - k \in Nat BY <2>12, SchedulingAssumption
      <4> QED BY <4>1, SchedulingAssumption
    <3>2. (k + j) * n = k * n + j * n /\ j * n \in Nat /\ k * n \in Nat OBVIOUS
    <3> QED BY <3>1, <3>2
  <2>14. Total(Size(r), U) <= Total(Size(r), R) + k * n
    BY <2>7, <2>9, <2>10, <2>11, SizeFact, TotalOver
  <2>15. PICK u \in Nat : u = Total(Size(r), U) BY <2>8, <2>9, TotalNat
  <2>16. PICK t \in Nat : t = Total(Size(r), R) BY <2>8, <2>9, TotalNat
  <2>17. PICK s \in Nat : s = Size(r)[c] /\ s = Delta(c, r) BY SizeFact
  <2>18. Total(Size(r), U \cup {c}) = s + u
    BY <2>6, <2>7, <2>8, <2>9, <2>15, <2>17, TotalPuts
  <2>19. PICK m \in Nat : m = Limit(r) /\ m <= Highest(r) /\ Highest(r) \in Nat BY LimitFact
  <2>20. t + s <= m
    <3>1. CountUsage(r) = t BY <2>2, <2>16, CountIs
    <3>2. ~(Limit(r) < CountUsage(r) + Delta(c, r)) BY <1>4, <2>19 DEF OverQuota
    <3> QED BY <2>17, <2>19, <3>1, <3>2
  <2>21. k * n \in Nat /\ (Workers - 1) * n \in Int BY SchedulingAssumption
  <2>22. PICK p \in Nat : p = k * n BY <2>21
  <2>23. PICK w \in Int : w = (Workers - 1) * n BY <2>21
  <2>24. p <= w /\ u <= t + p BY <2>13, <2>14, <2>15, <2>16, <2>22, <2>23
  <2>25. s + u <= Highest(r) + w BY <2>19, <2>20, <2>24
  <2> QED BY <2>4, <2>7, <2>10, <2>18, <2>23, <2>25
<1> QED BY <1>3, <1>4

\* No other step of a request lets anyone pass the check.
LEMMA ServingAdmits ==
    ASSUME IInv, NEW c \in Containers, Alone(c), Serving(c)
    PROVE  Admitted' \subseteq Admitted
<1>0. req[c] \in ReqType /\ req \in [Containers -> ReqType] BY At DEF IInv, TypeOK
<1>1. Answer(c) => req'[c].pc = "done" BY <1>0, AnswerType
<1>2. Unscheduled(c) => (row[c] = NoRow => row'[c] = NoRow) BY DEF Unscheduled, Save
<1>3. Unscheduled(c) => req'[c].pc = "done" BY <1>1 DEF Unscheduled
<1>4. req[c].pc = "create" \/ (row[c] = NoRow => row'[c] = NoRow)
  BY <1>2 DEF Serving, CreateRow, ValidateHost, GetAllocationCandidates, GetFilteredHosts,
              NextHost, ClaimResources, ClaimLost, ValidateImage, CastCreate, Alone, IInv, TypeOK
<1>5. req'[c].pc # "create"
  <2>1. ASSUME NEW p \in Pcs PROVE [req[c] EXCEPT !.pc = p].pc = p
    BY <1>0 DEF ReqType
  <2>2. ASSUME NEW r, Request(c, r) PROVE req'[c] = r BY <1>0, <2>2 DEF Request
  <2>3. {"validate", "candidates", "filter", "next", "image", "lost", "cast"} \subseteq Pcs
    BY DEF Pcs
  <2>4. CASE CreateRow(c)
    BY <2>1, <2>2, <2>3, <2>4 DEF CreateRow
  <2>5. CASE ValidateHost(c)
    <3>1. PICK r : r = [req[c] EXCEPT !.pc = "candidates", !.open = {h \in Hosts : InService(svc[h])}]
      OBVIOUS
    <3>2. r.pc = "candidates" BY <1>0, <3>1 DEF ReqType
    <3>3. Answer(c) \/ Request(c, r) BY <2>5, <3>1 DEF ValidateHost
    <3> QED BY <1>1, <2>2, <3>2, <3>3
  <2>6. CASE ClaimLost(c) \/ ValidateImage(c) \/ CastCreate(c)
    BY <1>1, <1>3, <2>1, <2>2, <2>3, <2>6 DEF ClaimLost, ValidateImage, CastCreate
  <2>7. CASE GetAllocationCandidates(c)
    <3>1. PICK r : r = [req[c] EXCEPT !.pc = "filter", !.todo = Candidates(c)] OBVIOUS
    <3>2. r.pc = "filter" BY <1>0, <3>1 DEF ReqType
    <3>3. Unscheduled(c) \/ Request(c, r) BY <2>7, <3>1 DEF GetAllocationCandidates
    <3> QED BY <1>3, <2>2, <3>2, <3>3
  <2>8. CASE GetFilteredHosts(c)
    <3>1. PICK r : r = [req[c] EXCEPT !.pc = "next",
                                      !.todo = {h \in req[c].todo : HostPasses(c, h)}]
      OBVIOUS
    <3>2. r.pc = "next" BY <1>0, <3>1 DEF ReqType
    <3>3. Unscheduled(c) \/ Request(c, r) BY <2>8, <3>1 DEF GetFilteredHosts
    <3> QED BY <1>3, <2>2, <3>2, <3>3
  <2>9. CASE NextHost(c)
    <3>1. ASSUME NEW h, Request(c, [req[c] EXCEPT !.pc = "put", !.at = h, !.todo = @ \ {h},
                                                  !.try = 1])
          PROVE  req'[c].pc = "put"
      BY <1>0, <2>2, <3>1 DEF ReqType
    <3> QED BY <1>3, <2>9, <3>1 DEF NextHost
  <2>10. CASE ClaimResources(c)
    <3>1. Retry(c) => req'[c].pc # "create"
      <4>1. [req[c] EXCEPT !.try = @ + 1].pc = req[c].pc BY <1>0 DEF ReqType
      <4> QED BY <2>1, <2>2, <2>3, <2>10, <4>1 DEF Retry, ClaimResources
    <3> QED BY <2>1, <2>2, <2>3, <2>10, <3>1 DEF ClaimResources
  <2> QED BY <2>4, <2>5, <2>6, <2>7, <2>8, <2>9, <2>10 DEF Serving
<1> QED BY <1>4, <1>5 DEF Alone, Admitted

\* Nor does a step of zun-compute, or a deletion.
LEMMA ComputingAdmits ==
    ASSUME IInv, NEW c \in Containers, Alone(c),
           Computing(c) \/ DeleteContainer(c) \/ OperatorReleases(c)
    PROVE  Admitted' \subseteq Admitted
<1>1. req' = req
  BY DEF Computing, PrepareFails, ContainerClaim, DockerCreate, ReleaseFailedClaim,
         DoContainerDelete, ReleaseDeleted, DestroyRow, DestroyHostless, DeleteContainer,
         OperatorReleases
<1>2. row[c] = NoRow => row'[c] = NoRow
  BY DEF Computing, PrepareFails, ContainerClaim, DockerCreate, ReleaseFailedClaim,
         DoContainerDelete, ReleaseDeleted, DestroyRow, DestroyHostless, DeleteContainer,
         OperatorReleases, Save, IInv, TypeOK
<1> QED BY <1>1, <1>2 DEF Alone, Admitted

\* The quota is kept by every step.
LEMMA QuotaKept == IInv /\ QuotaInv /\ [Next]_vars => QuotaInv'
<1> SUFFICES ASSUME IInv, QuotaInv, [Next]_vars PROVE QuotaInv' OBVIOUS
<1>1. ASSUME NEW c \in Containers, CheckQuota(c) PROVE QuotaInv'
  BY <1>1, CheckAdmits
<1>2. ASSUME NEW c \in Containers,
             Serving(c) \/ Computing(c) \/ DeleteContainer(c) \/ OperatorReleases(c)
      PROVE  QuotaInv'
  <2>1. Good(c)
    BY <1>2, CreateRowStep, ValidateHostStep, GetAllocationCandidatesStep,
       GetFilteredHostsStep, NextHostStep, ClaimResourcesStep, ClaimLostStep,
       ValidateImageStep, CastCreateStep, PrepareFailsStep, ContainerClaimStep,
       DockerCreateStep, ReleaseFailedClaimStep, DoContainerDeleteStep, ReleaseDeletedStep,
       DestroyRowStep, DestroyHostlessStep, DeleteContainerStep, OperatorReleasesStep
       DEF Serving, Computing
  <2>2. Alone(c) BY <2>1 DEF Good
  <2> QED BY <1>2, <2>2, ServingAdmits, ComputingAdmits, FewerAdmitted
<1>3. ASSUME row' = row, \A c \in Containers : req'[c].pc = req[c].pc PROVE QuotaInv'
  <2>1. Admitted' \subseteq Admitted BY <1>3 DEF Admitted
  <2> QED BY <2>1, FewerAdmitted
<1>4. ASSUME NEW h \in Hosts, NEW s, Serve(h, s) PROVE QuotaInv'
  <2>1. row' = row BY <1>4 DEF Serve
  <2>2. ASSUME NEW c \in Containers PROVE req'[c].pc = req[c].pc
    <3>1. req[c] \in ReqType BY At
    <3>2. [req[c] EXCEPT !.open = @ \cup {h}].pc = req[c].pc BY <3>1 DEF ReqType
    <3> QED BY <1>4, <3>2 DEF Serve
  <2> QED BY <1>3, <2>1, <2>2
<1>5. ASSUME NEW h \in Hosts,
             \/ Heartbeat(h) \/ HeartbeatLost(h) \/ Process(h) \/ DeleteService(h)
             \/ ReportTrait(h)
             \/ \E b \in BOOLEAN : EnableOrDisable(h, b) \/ UpdateForcedDown(h, b)
      PROVE  QuotaInv'
  <2>1. (row' = row /\ req' = req) \/ \E s : Serve(h, s)
    BY <1>5 DEF Heartbeat, HeartbeatLost, Process, DeleteService, EnableOrDisable,
                UpdateForcedDown, ReportTrait
  <2> QED BY <1>3, <1>4, <2>1
<1>6. CASE \/ \E r \in Resources, v \in Limits : PutQuota(r, v) \/ PutQuotaClass(r, v)
           \/ DeleteQuotas
  <2>1. row' = row /\ req' = req BY <1>6 DEF PutQuota, PutQuotaClass, DeleteQuotas
  <2> QED BY <1>3, <2>1
<1>7. CASE UNCHANGED vars
  <2>1. row' = row /\ req' = req BY <1>7 DEF vars
  <2> QED BY <1>3, <2>1
<1> QED BY <1>1, <1>2, <1>5, <1>6, <1>7 DEF Next

\* However requests race between the count of the quota and the creation of
\* their rows (check_quota, count_usage), and whatever administrators set, the
\* usage exceeds the highest limit by less than the API's requests at a time.
THEOREM QuotaBounded == Spec => []QuotaOverrun
<1>1. Init => QuotaInv
  <2> SUFFICES ASSUME Init, NEW r \in Resources, Limited(r)
               PROVE  Total(Size(r), Admitted) <= Highest(r) + (Workers - 1) * Largest(r)
    BY DEF QuotaInv
  <2>1. Admitted = {} BY DEF Init, Admitted, IdleReq
  <2>2. Total(Size(r), {}) = 0 BY TotalEmpty
  <2>3. Highest(r) \in Nat BY InitHolds, LimitFact
  <2>4. PICK n \in Nat : n = Largest(r) BY SizeFact
  <2>5. Workers - 1 \in Nat BY SchedulingAssumption
  <2>6. (Workers - 1) * n \in Nat BY <2>5
  <2>7. 0 <= Highest(r) + (Workers - 1) * n BY <2>3, <2>6
  <2> QED BY <2>1, <2>2, <2>4, <2>7
<1>2. IInv /\ QuotaInv => QuotaOverrun
  <2> SUFFICES ASSUME IInv, QuotaInv, NEW r \in Resources, Limited(r)
               PROVE  CountUsage(r) <= Highest(r) + (Workers - 1) * Largest(r)
    BY DEF QuotaOverrun, Limited, Highest, Largest
  <2>1. PICK A \in SUBSET Containers : A = Admitted BY DEF Admitted
  <2>2. PICK R \in SUBSET A : R = Rows BY <2>1 DEF Rows, Admitted
  <2>3. IsFiniteSet(A) /\ IsFiniteSet(R) BY FS_Subset, SizeFact
  <2>4. \A c \in A : Size(r)[c] \in Nat BY SizeFact
  <2>5. PICK a \in Nat : a = Total(Size(r), A) BY <2>3, <2>4, TotalNat
  <2>6. PICK b \in Nat : b = Total(Size(r), R) BY <2>3, <2>4, TotalNat
  <2>7. b <= a BY <2>3, <2>4, <2>5, <2>6, TotalLess
  <2>8. CountUsage(r) = b BY <2>2, <2>6, CountIs
  <2>9. PICK n \in Nat : n = Largest(r) BY SizeFact
  <2>10. PICK w \in Int : w = (Workers - 1) * n BY SchedulingAssumption
  <2>11. PICK m \in Nat : m = Highest(r) BY LimitFact
  <2>12. a <= m + w BY <2>1, <2>5, <2>9, <2>10, <2>11 DEF QuotaInv
  <2>13. b <= m + w BY <2>7, <2>12
  <2> QED BY <2>8, <2>9, <2>10, <2>11, <2>13
<1> QED BY <1>1, <1>2, Inductive, QuotaKept, PTL DEF Spec

=============================================================================
