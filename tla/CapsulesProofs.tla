--------------------------- MODULE CapsulesProofs ---------------------------
(***************************************************************************)
(* Proofs about capsules, for any uuids, templates, faults and bounds: a   *)
(* sandbox is lost only in the ways PodAccounted names, init containers    *)
(* run first, what runs at one time was claimed for, and a container's     *)
(* network is the one its record and the CNI daemon's registry say.        *)
(*                                                                         *)
(* The invariant is one of each uuid, and a step is of one uuid: after the *)
(* lemmas about templates and about what the steps share there is one      *)
(* lemma for each action, which shows the types and the invariant of its   *)
(* own uuid.  The daemon's steps and the loss of zun-compute come last.    *)
(* The invariant of the network, in the second half, is laid out the same  *)
(* way.                                                                    *)
(***************************************************************************)
EXTENDS Capsules, Sums

-----------------------------------------------------------------------------
(* The inductive invariant                                                  *)

\* Where the thread of a capsule is: in the API, before there is a sandbox,
\* with a sandbox that is empty, and with the containers in it.
Api == {"networks", "volumes", "schedule"}

Before == {"attach", "pull", "create", "sandbox"}

Making == {"plug", "teardown", "start", "inspect", "unplug", "touch", "cleanup"}

Filling == {"inner", "init"}

Pcs == {"idle", "stopsandbox", "stopping"} \cup Api \cup Before \cup Making \cup Filling

RowType == [exists : BOOLEAN, host : BOOLEAN, status : Statuses, cid : Nat,
            pid : Nat, vif : Vifs, tpl : Templates \cup {NoTemplate},
            cpu : Nat, ids : SUBSET Nat]

ThreadType == [pc : Pcs, op : {"none", "start", "reboot"}, i : Nat, ns : Nat]

CopyType == [cid : Int, ids : SUBSET Nat]

UsedType == [requests : Nat, faults : Nat, ns : [Uuids -> Nat], cid : [Uuids -> Nat]]

Phases == {"none", "running", "exited"}

\* The types the proofs need.
Types ==
    /\ rows \in [Uuids -> RowType]
    /\ pods \in [Uuids -> Nat]
    /\ netns \in [Uuids -> Nat]
    /\ inner \in [Uuids -> [1..MaxInner -> Phases]]
    /\ thr \in [Uuids -> ThreadType]
    /\ todo \in [Uuids -> CopyType]
    /\ used \in UsedType
    /\ spoilt \in SUBSET Uuids
    /\ driver \in {"cri", "docker"}

\* Nothing is in the capsule, and there is no sandbox either.
Blank(u) == \A i \in 1..MaxInner : inner[u][i] = "none"

Bare(u) == pods[u] = 0 /\ Blank(u)

\* A container's row goes with Docker's container, while no thread works on it.
BoxOk(u) ==
    /\ Blank(u)
    /\ thr[u].pc \in {"idle", "pull", "create", "stopping"} \cup Making
    /\ thr[u].pc # "idle" => rows[u].exists
    /\ ~rows[u].exists => pods[u] = 0

\* What the thread of a capsule may count on, at its place.
Placed(u) ==
    /\ thr[u].pc # "stopping" /\ thr[u].op # "reboot"
    /\ ~rows[u].exists => ~rows[u].host /\ rows[u].tpl = NoTemplate
    /\ rows[u].status = "none" =>
          ~rows[u].exists /\ thr[u].pc = "idle" /\ Bare(u) /\ todo[u] = NoCopy
    /\ thr[u].pc \in Api => ~rows[u].host /\ todo[u] = NoCopy
    /\ thr[u].pc \in Before \cup Making \cup Filling => rows[u].host
    /\ thr[u].pc = "stopsandbox" => todo[u] # NoCopy
    /\ todo[u] # NoCopy => rows[u].exists
    /\ thr[u].pc \in Api \cup Before => Bare(u) /\ rows[u].cid = 0
    /\ thr[u].pc \in Making => pods[u] # 0 /\ Blank(u)
    /\ thr[u].pc \in Filling => pods[u] # 0

\* A capsule that met no loss: its row knows the sandbox and what is in it, and
\* so does the copy that a DELETE carries.
Sound(u) ==
    /\ ~rows[u].host => Bare(u)
    /\ thr[u].pc \in {"idle", "stopsandbox"} /\ rows[u].exists => rows[u].cid = pods[u]
    /\ ~Blank(u) => pods[u] # 0
    /\ \A i \in 1..MaxInner : inner[u][i] # "none" => i \in rows[u].ids
    /\ todo[u] # NoCopy =>
          /\ thr[u].pc \in {"idle", "stopsandbox"}
          /\ todo[u].cid = rows[u].cid /\ todo[u].ids = rows[u].ids

\* The init containers before n have ended.
EndedBefore(u, n) ==
    \A i \in 1..MaxInner : i < n /\ IsInit(rows[u].tpl, i) => inner[u][i] = "exited"

\* Containers are started in their order, one init container after the other.
Ordered(u) ==
    /\ rows[u].exists =>
          \A j \in 1..MaxInner : inner[u][j] # "none" => EndedBefore(u, j)
    /\ thr[u].pc \in Filling =>
          thr[u].i > 0 /\ EndedBefore(u, thr[u].i)
    /\ thr[u].pc = "inner" =>
          \A j \in 1..MaxInner : j >= thr[u].i => inner[u][j] = "none"
    /\ thr[u].pc = "init" =>
          /\ thr[u].i <= MaxInner
          /\ \A j \in 1..MaxInner : j > thr[u].i => inner[u][j] = "none"

\* What runs was claimed for.
Claimed(u) ==
    rows[u].exists /\ (thr[u].pc \in {"schedule"} \cup Before \cup Making \cup Filling \/ ~Blank(u))
        => rows[u].cpu = capsule_need_cpu(rows[u].tpl)

CapsuleOk(u) ==
    /\ Placed(u) /\ Ordered(u) /\ Claimed(u)
    /\ u \notin spoilt => Sound(u)

Own(u) == (u \in Boxes => BoxOk(u)) /\ (u \in Capsules => CapsuleOk(u))

Inv == \A u \in Uuids : Own(u)

IInv == Types /\ Inv

-----------------------------------------------------------------------------
(* Templates *)

InnerSpec == [image : BOOLEAN, cpu : Nat]

\* What the containers of a sequence need, by their number.
Cpus(q) == [i \in 1..Len(q) |-> q[i].cpu]

\* The templates users post, and the one of a row without any.
LEMMA TemplateFact ==
    ASSUME NEW t \in Templates \cup {NoTemplate}
    PROVE  /\ t.initContainers \in Seq(InnerSpec) /\ t.containers \in Seq(InnerSpec)
           /\ Merged(t) \in Seq(InnerSpec)
           /\ Len(t.initContainers) \in Nat /\ Len(t.containers) \in Nat
           /\ Len(Merged(t)) = Len(t.initContainers) + Len(t.containers)
           /\ \A i \in 1..Len(t.initContainers) : Merged(t)[i] = t.initContainers[i]
           /\ \A i \in 1..Len(t.containers) :
                 Merged(t)[Len(t.initContainers) + i] = t.containers[i]
<1>1. t.initContainers \in Seq(InnerSpec) /\ t.containers \in Seq(InnerSpec)
  <2>1. CASE t \in Templates BY <2>1, CapsulesAssumption DEF InnerSpec
  <2>2. CASE t = NoTemplate BY <2>2 DEF NoTemplate
  <2> QED BY <2>1, <2>2
<1>2. PICK a, b : a = t.initContainers /\ b = t.containers OBVIOUS
<1>3. a \in Seq(InnerSpec) /\ b \in Seq(InnerSpec) /\ Merged(t) = a \o b BY <1>1, <1>2 DEF Merged
<1>4. a \o b \in Seq(InnerSpec) /\ Len(a) \in Nat /\ Len(b) \in Nat /\ Len(a \o b) = Len(a) + Len(b)
  BY <1>3
<1>5. \A i \in 1..Len(a) : (a \o b)[i] = a[i] BY <1>3, <1>4
<1>6. \A i \in 1..Len(b) : (a \o b)[Len(a) + i] = b[i] BY <1>3, <1>4
<1> QED BY <1>2, <1>3, <1>4, <1>5, <1>6

\* No template has more containers than MaxInner.
LEMMA MaxInnerFact ==
    MaxInner \in Nat /\ \A t \in Templates \cup {NoTemplate} : Len(Merged(t)) <= MaxInner
<1>1. PICK S : S = {Len(Merged(t)) : t \in Templates} OBVIOUS
<1>2. S \subseteq Nat BY <1>1, TemplateFact
<1>3. IsFiniteSet(S) /\ S # {}
  <2>1. IsFiniteSet(Templates) /\ Templates # {} BY CapsulesAssumption
  <2>2. PICK f : f = [t \in Templates |-> Len(Merged(t))] OBVIOUS
  <2>3. f \in Surjection(Templates, S) BY <1>1, <2>2 DEF Surjection
  <2>4. S # {} BY <1>1, <2>1
  <2> QED BY <2>1, <2>3, <2>4, FS_Surjection
<1>4. S \subseteq Int BY <1>2
<1>5. Max(S) \in S /\ \A y \in S : Max(S) >= y BY <1>3, <1>4, MaxIs
<1>6. MaxInner = Max(S) BY <1>1 DEF MaxInner
<1>7. MaxInner \in Nat BY <1>2, <1>5, <1>6
<1>8. ASSUME NEW t \in Templates PROVE Len(Merged(t)) <= MaxInner
  <2>1. Len(Merged(t)) \in S BY <1>1
  <2> QED BY <1>2, <1>5, <1>6, <1>7, <2>1
<1>9. Len(Merged(NoTemplate)) = 0 BY DEF Merged, NoTemplate
<1> QED BY <1>7, <1>8, <1>9

\* The need of one container.
LEMMA CpuFact ==
    ASSUME NEW q \in Seq(InnerSpec), NEW i \in 1..Len(q)
    PROVE  q[i].cpu \in Nat /\ Cpus(q)[i] = q[i].cpu
<1>1. q[i] \in InnerSpec OBVIOUS
<1>2. q[i].cpu \in Nat BY <1>1 DEF InnerSpec
<1>3. Cpus(q)[i] = q[i].cpu BY DEF Cpus
<1> QED BY <1>2, <1>3

\* A fold that adds from left to right is the sum.
LEMMA FoldIsTotal ==
    ASSUME NEW q \in Seq(InnerSpec)
    PROVE  FoldLeft(LAMBDA a, c : a + c.cpu, 0, q) = Total(Cpus(q), 1..Len(q))
<1>1. PICK S : S = 1..Len(q) OBVIOUS
<1>2. PICK F : F = Cpus(q) OBVIOUS
<1>3. Len(q) \in Nat /\ DOMAIN q = S /\ IsFiniteSet(S) /\ S \subseteq Int
  BY <1>1, FS_Interval
<1>4. \A x \in S : F[x] = q[x].cpu /\ F[x] \in Nat
  BY <1>1, <1>2, CpuFact
<1>5. PICK g : Adds(g, F, SUBSET S) BY <1>3, <1>4, SumExists
<1>6. Total(F, S) = g[S] BY <1>3, <1>4, <1>5, TotalIs
<1> DEFINE iter[s \in SUBSET S] ==
             IF s = {} THEN 0 ELSE LET x == Max(s) IN iter[s \ {x}] + q[x].cpu
<1>7. FoldLeft(LAMBDA a, c : a + c.cpu, 0, q) = iter[S]
  BY <1>3 DEF FoldLeft, MapThenFoldSet
<1>8. ASSUME NEW s \in SUBSET S, s # {}
      PROVE  /\ Max(s) \in s /\ s \ {Max(s)} \in SUBSET S
             /\ g[s] = g[s \ {Max(s)}] + q[Max(s)].cpu
  <2>1. IsFiniteSet(s) /\ s \subseteq Int BY <1>3, FS_Subset
  <2>2. Max(s) \in s BY <1>8, <2>1, MaxIs
  <2>3. PICK m : m = Max(s) OBVIOUS
  <2>4. g[s] = F[m] + g[s \ {m}] /\ g[s \ {m}] \in Nat
    <3>1. m \in s /\ \A x \in S : F[x] \in Nat BY <1>4, <2>2, <2>3
    <3>2. IsFiniteSet(S) /\ s \in SUBSET S BY <1>3
    <3>3. Adds(g, F, SUBSET S) BY <1>5
    <3> QED BY <3>1, <3>2, <3>3, SumTakes
  <2>5. F[m] = q[m].cpu /\ F[m] \in Nat BY <1>4, <2>2, <2>3
  <2>6. g[s] = g[s \ {m}] + q[m].cpu BY <2>4, <2>5
  <2> QED BY <2>2, <2>3, <2>6
<1>9. PICK h : h = [s \in SUBSET S |-> g[s]] OBVIOUS
<1>10. h = [s \in SUBSET S |->
              IF s = {} THEN 0 ELSE LET x == Max(s) IN h[s \ {x}] + q[x].cpu]
  <2>1. g[{}] = 0 BY <1>5 DEF Adds, Solves
  <2>2. ASSUME NEW s \in SUBSET S
        PROVE  h[s] = IF s = {} THEN 0 ELSE h[s \ {Max(s)}] + q[Max(s)].cpu
    BY <1>8, <1>9, <2>1
  <2> QED BY <1>9, <2>2
<1>11. iter = [s \in SUBSET S |->
                 IF s = {} THEN 0 ELSE LET x == Max(s) IN iter[s \ {x}] + q[x].cpu]
  BY <1>10
<1>12. PICK k : k = iter OBVIOUS
<1> HIDE DEF iter
<1>13. k = [s \in SUBSET S |-> IF s = {} THEN 0 ELSE k[s \ {Max(s)}] + q[Max(s)].cpu]
  BY <1>11, <1>12
<1> DEFINE Bad == {n \in Nat : \E s \in SUBSET S : Cardinality(s) = n /\ k[s] # g[s]}
<1>14. ASSUME k[S] # g[S] PROVE FALSE
  <2>1. Cardinality(S) \in Nat BY <1>3, FS_CardinalityType
  <2>2. Cardinality(S) \in Bad BY <1>14, <2>1
  <2>3. PICK n \in Bad : \A o \in Bad : n <= o
    <3>1. Bad \subseteq Nat OBVIOUS
    <3> HIDE DEF Bad
    <3> QED BY <2>2, <3>1, LeastNumber
  <2>4. PICK s \in SUBSET S : Cardinality(s) = n /\ k[s] # g[s] BY <2>3
  <2>5. s # {} BY <1>5, <1>13, <2>4 DEF Adds, Solves
  <2>6. PICK m : m = Max(s) OBVIOUS
  <2>7. m \in s /\ s \ {m} \in SUBSET S /\ g[s] = g[s \ {m}] + q[m].cpu
    BY <1>8, <2>5, <2>6
  <2>8. Cardinality(s) \in Nat /\ Cardinality(s \ {m}) = Cardinality(s) - 1 /\ Cardinality(s) > 0
    BY <1>3, <2>7, Smaller
  <2>9. Cardinality(s \ {m}) \in Nat /\ Cardinality(s \ {m}) < n BY <2>4, <2>8
  <2>10. Cardinality(s \ {m}) \notin Bad
    <3>1. PICK c : c = Cardinality(s \ {m}) OBVIOUS
    <3>2. n \in Nat /\ c \in Nat /\ c < n BY <2>3, <2>9, <3>1
    <3> HIDE DEF Bad
    <3>3. c \notin Bad BY <2>3, <3>2
    <3> QED BY <3>1, <3>3
  <2>11. k[s \ {m}] = g[s \ {m}] BY <2>7, <2>9, <2>10
  <2>12. k[s] = k[s \ {m}] + q[m].cpu BY <1>13, <2>5, <2>6
  <2> QED BY <2>4, <2>7, <2>11, <2>12
<1> QED BY <1>1, <1>2, <1>6, <1>7, <1>12, <1>14

\* What a capsule is claimed with covers its containers together, and each of
\* its init containers.
LEMMA NeedFact ==
    ASSUME NEW t \in Templates \cup {NoTemplate}
    PROVE  /\ capsule_need_cpu(t) \in Nat
           /\ Total(Cpus(t.containers), 1..Len(t.containers)) <= capsule_need_cpu(t)
           /\ \A i \in 1..Len(t.initContainers) :
                 t.initContainers[i].cpu <= capsule_need_cpu(t)
<1>1. PICK a, b : a = t.initContainers /\ b = t.containers OBVIOUS
<1>2. a \in Seq(InnerSpec) /\ b \in Seq(InnerSpec) /\ Len(a) \in Nat /\ Len(b) \in Nat BY <1>1, TemplateFact
<1>3. PICK d : d = Total(Cpus(b), 1..Len(b)) OBVIOUS
<1>4. d \in Nat
  <2>1. IsFiniteSet(1..Len(b)) BY <1>2, FS_Interval
  <2>2. \A x \in 1..Len(b) : Cpus(b)[x] \in Nat BY <1>2, CpuFact
  <2> QED BY <1>3, <2>1, <2>2, TotalNat
<1>5. PICK S : S = {d} \cup {c.cpu : c \in ToSet(a)} OBVIOUS
<1>6. capsule_need_cpu(t) = Max(S)
  <2>1. FoldLeft(LAMBDA x, c : x + c.cpu, 0, b) = d BY <1>2, <1>3, FoldIsTotal
  <2> QED BY <1>1, <1>5, <2>1 DEF capsule_need_cpu
<1>7. ToSet(a) = {a[i] : i \in 1..Len(a)} BY <1>2 DEF ToSet
<1>8. S \subseteq Nat BY <1>2, <1>4, <1>5, <1>7, CpuFact
<1>9. IsFiniteSet(S) /\ S # {}
  <2>1. PICK f : f = [i \in 1..Len(a) |-> a[i].cpu] OBVIOUS
  <2>2. PICK R : R = {c.cpu : c \in ToSet(a)} OBVIOUS
  <2>3. f \in Surjection(1..Len(a), R) BY <1>7, <2>1, <2>2 DEF Surjection
  <2>4. IsFiniteSet(1..Len(a)) BY <1>2, FS_Interval
  <2>5. IsFiniteSet(R) BY <2>3, <2>4, FS_Surjection
  <2>6. S = R \cup {d} BY <1>5, <2>2
  <2> QED BY <2>5, <2>6, FS_AddElement
<1>10. S \subseteq Int BY <1>8
<1>11. Max(S) \in S /\ \A y \in S : Max(S) >= y BY <1>9, <1>10, MaxIs
<1>12. PICK m : m = Max(S) OBVIOUS
<1>13. m \in Nat /\ \A y \in S : y <= m BY <1>8, <1>11, <1>12
<1>14. d \in S /\ \A i \in 1..Len(a) : a[i].cpu \in S BY <1>5, <1>7
<1> QED BY <1>1, <1>3, <1>6, <1>12, <1>13, <1>14

-----------------------------------------------------------------------------
(* What the steps share *)

\* A step at u leaves the others alone.
Alone(u) ==
    \A d \in Uuids \ {u} :
        /\ rows'[d] = rows[d] /\ pods'[d] = pods[d] /\ inner'[d] = inner[d]
        /\ thr'[d] = thr[d] /\ todo'[d] = todo[d]
        /\ d \in spoilt' <=> d \in spoilt

Good(u) == Types' /\ Alone(u) /\ Own(u)'

\* Then it keeps the invariant.
LEMMA Keeps ==
    ASSUME IInv, NEW u \in Uuids, Good(u)
    PROVE  IInv'
<1>1. ASSUME NEW d \in Uuids PROVE Own(d)'
  <2>1. CASE d = u BY <2>1 DEF Good
  <2>2. CASE d # u
    <3>1. /\ rows'[d] = rows[d] /\ pods'[d] = pods[d] /\ inner'[d] = inner[d]
          /\ thr'[d] = thr[d] /\ todo'[d] = todo[d]
          /\ d \in spoilt' <=> d \in spoilt
      BY <2>2 DEF Good, Alone
    <3>2. Own(d) BY DEF IInv, Inv
    <3>3. Blank(d)' <=> Blank(d) BY <3>1 DEF Blank
    <3>4. d \in Boxes => BoxOk(d)' BY <3>1, <3>2, <3>3 DEF Own, BoxOk
    <3>5. ASSUME d \in Capsules PROVE CapsuleOk(d)'
      <4>1. CapsuleOk(d) BY <3>2, <3>5 DEF Own
      <4>2. Placed(d)' BY <3>1, <3>3, <4>1 DEF CapsuleOk, Placed, Bare
      <4>3. Ordered(d)' BY <3>1, <4>1 DEF CapsuleOk, Ordered, EndedBefore
      <4>4. Claimed(d)' BY <3>1, <3>3, <4>1 DEF CapsuleOk, Claimed
      <4>5. d \notin spoilt' => Sound(d)' BY <3>1, <3>3, <4>1 DEF CapsuleOk, Sound, Bare
      <4> QED BY <4>2, <4>3, <4>4, <4>5 DEF CapsuleOk
    <3> QED BY <3>4, <3>5 DEF Own
  <2> QED BY <2>1, <2>2
<1>2. Types' BY DEF Good
<1> QED BY <1>1, <1>2 DEF IInv, Inv

\* A uuid is of a capsule or of a container.
LEMMA Sorts == ASSUME NEW u \in Uuids
               PROVE  (u \in Capsules /\ u \notin Boxes) \/ (u \in Boxes /\ u \notin Capsules)
BY CapsulesAssumption

\* Who is no capsule is a container of the Docker driver.
LEMMA KindFact == ASSUME Types, NEW u \in Uuids
                  PROVE  Kind(u) = "container" <=> u \in Boxes
<1>1. driver # "container" BY DEF Types
<1> QED BY <1>1, Sorts DEF Kind

\* The fields of a row, a thread and a copy.
LEMMA Fields ==
    ASSUME Types, NEW u \in Uuids
    PROVE  /\ rows[u] \in RowType /\ thr[u] \in ThreadType /\ todo[u] \in CopyType
           /\ pods[u] \in Nat /\ inner[u] \in [1..MaxInner -> Phases]
           /\ used.ns \in [Uuids -> Nat] /\ used.cid \in [Uuids -> Nat]
           /\ thr[u].pc \in Pcs /\ thr[u].i \in Nat /\ thr[u].ns \in Nat
           /\ rows[u].exists \in BOOLEAN /\ rows[u].host \in BOOLEAN
           /\ rows[u].tpl \in Templates \cup {NoTemplate}
           /\ rows[u].cid \in Nat /\ rows[u].pid \in Nat /\ rows[u].ids \in SUBSET Nat
BY DEF Types, RowType, ThreadType, CopyType, UsedType

\* Counters.
LEMMA Counting ==
    ASSUME Types
    PROVE  /\ Fault => used' \in UsedType /\ used'.ns = used.ns /\ used'.cid = used.cid
           /\ Request => used' \in UsedType /\ used'.ns = used.ns /\ used'.cid = used.cid
           /\ (used' = used) => used' \in UsedType
<1>1. used \in UsedType BY DEF Types
<1> QED BY <1>1 DEF UsedType, Fault, Request

\* The thread goes on to another place ...
LEMMA Going ==
    ASSUME Types, NEW u \in Uuids, NEW p \in Pcs, Goto(u, p)
    PROVE  /\ thr' \in [Uuids -> ThreadType]
           /\ \A d \in Uuids \ {u} : thr'[d] = thr[d]
           /\ thr'[u].pc = p /\ thr'[u].op = thr[u].op /\ thr'[u].i = thr[u].i
           /\ thr'[u].ns = thr[u].ns
BY DEF Types, ThreadType, Goto

\* ... or has come to its end.
LEMMA Ending ==
    ASSUME Types, NEW u \in Uuids, End(u)
    PROVE  /\ thr' \in [Uuids -> ThreadType]
           /\ \A d \in Uuids \ {u} : thr'[d] = thr[d]
           /\ thr'[u] = Idle /\ thr'[u].pc = "idle" /\ thr'[u].op = "none"
BY DEF Types, ThreadType, Pcs, Idle, End

\* A row gets new values: the others keep theirs.
RowNow(u, r) == rows' = [rows EXCEPT ![u] = r]

\* A row that is written is the only one.
LEMMA Writing ==
    ASSUME Types, NEW u \in Uuids, NEW r \in RowType, RowNow(u, r)
    PROVE  /\ rows' \in [Uuids -> RowType]
           /\ \A d \in Uuids \ {u} : rows'[d] = rows[d]
           /\ rows'[u] = r
BY DEF Types, RowNow

\* A destroyed row.
LEMMA Destroying ==
    ASSUME Types, NEW u \in Uuids, rows' = destroy(u)
    PROVE  /\ rows' \in [Uuids -> RowType]
           /\ \A d \in Uuids \ {u} : rows'[d] = rows[d]
           /\ ~rows'[u].exists /\ ~rows'[u].host /\ rows'[u].status = "Deleted"
           /\ rows'[u].tpl = NoTemplate /\ rows'[u].cid = 0 /\ rows'[u].ids = {}
<1>1. PICK r : r = [NoRow EXCEPT !.status = "Deleted"] OBVIOUS
<1>2. r = [exists |-> FALSE, host |-> FALSE, status |-> "Deleted", cid |-> 0,
           pid |-> 0, vif |-> "none", tpl |-> NoTemplate, cpu |-> 0, ids |-> {}]
  BY <1>1 DEF NoRow
<1>3. r \in RowType BY <1>2 DEF RowType, Statuses, Vifs
<1>4. RowNow(u, r) BY <1>1 DEF destroy, RowNow
<1> QED BY <1>2, <1>3, <1>4, Writing

\* _fail_container.
LEMMA Failing ==
    ASSUME Types, NEW u \in Uuids, NEW ids \in SUBSET Nat, FailWith(u, ids)
    PROVE  /\ rows' \in [Uuids -> RowType]
           /\ \A d \in Uuids \ {u} : rows'[d] = rows[d]
           /\ rows'[u].exists = rows[u].exists /\ ~rows'[u].host /\ rows'[u].status = "Error"
           /\ rows'[u].tpl = rows[u].tpl /\ rows'[u].cpu = rows[u].cpu
           /\ spoilt' = spoilt \cup {u} /\ spoilt' \in SUBSET Uuids
           /\ End(u)
<1>1. rows \in [Uuids -> RowType] /\ rows[u] \in RowType /\ pods[u] \in Nat BY Fields DEF Types
<1>2. rows' = [rows EXCEPT ![u].status = "Error", ![u].host = FALSE,
                           ![u].cid = pods[u], ![u].ids = ids]
  BY DEF FailWith
<1>3. PICK r : r = [rows[u] EXCEPT !.status = "Error", !.host = FALSE, !.cid = pods[u], !.ids = ids]
  OBVIOUS
<1>4. /\ r \in RowType /\ r.exists = rows[u].exists /\ ~r.host /\ r.status = "Error"
      /\ r.tpl = rows[u].tpl /\ r.cpu = rows[u].cpu
  BY <1>1, <1>3 DEF RowType, Statuses
<1>5. RowNow(u, r) BY <1>1, <1>2, <1>3 DEF RowNow
<1>6. spoilt' = spoilt \cup {u} /\ End(u) BY DEF FailWith
<1>7. spoilt' \in SUBSET Uuids BY <1>6 DEF Types
<1> QED BY <1>4, <1>5, <1>6, <1>7, Writing

\* The status is written ...
LEMMA Stating ==
    ASSUME Types, NEW u \in Uuids, NEW s \in Statuses, rows' = [rows EXCEPT ![u].status = s]
    PROVE  /\ rows' \in [Uuids -> RowType]
           /\ \A d \in Uuids \ {u} : rows'[d] = rows[d]
           /\ rows'[u] = [rows[u] EXCEPT !.status = s] /\ rows'[u].status = s
           /\ rows'[u].exists = rows[u].exists /\ rows'[u].host = rows[u].host
           /\ rows'[u].tpl = rows[u].tpl /\ rows'[u].cpu = rows[u].cpu
           /\ rows'[u].cid = rows[u].cid /\ rows'[u].ids = rows[u].ids
<1>1. rows \in [Uuids -> RowType] /\ rows[u] \in RowType BY Fields DEF Types
<1>2. PICK r : r = [rows[u] EXCEPT !.status = s] OBVIOUS
<1>3. /\ r \in RowType /\ r.status = s /\ r.exists = rows[u].exists /\ r.host = rows[u].host
      /\ r.tpl = rows[u].tpl /\ r.cpu = rows[u].cpu /\ r.cid = rows[u].cid /\ r.ids = rows[u].ids
  BY <1>1, <1>2 DEF RowType
<1>4. RowNow(u, r) BY <1>1, <1>2 DEF RowNow
<1> QED BY <1>2, <1>3, <1>4, Writing

\* ... or the recorded pid.
LEMMA Recording ==
    ASSUME Types, NEW u \in Uuids, NEW p \in Nat, rows' = [rows EXCEPT ![u].pid = p]
    PROVE  /\ rows' \in [Uuids -> RowType]
           /\ \A d \in Uuids \ {u} : rows'[d] = rows[d]
           /\ rows'[u].status = rows[u].status
           /\ rows'[u].exists = rows[u].exists /\ rows'[u].host = rows[u].host
           /\ rows'[u].tpl = rows[u].tpl /\ rows'[u].cpu = rows[u].cpu
           /\ rows'[u].cid = rows[u].cid /\ rows'[u].ids = rows[u].ids
<1>1. rows \in [Uuids -> RowType] /\ rows[u] \in RowType BY Fields DEF Types
<1>2. PICK r : r = [rows[u] EXCEPT !.pid = p] OBVIOUS
<1>3. /\ r \in RowType /\ r.status = rows[u].status /\ r.exists = rows[u].exists
      /\ r.host = rows[u].host /\ r.tpl = rows[u].tpl /\ r.cpu = rows[u].cpu
      /\ r.cid = rows[u].cid /\ r.ids = rows[u].ids
  BY <1>1, <1>2 DEF RowType
<1>4. RowNow(u, r) BY <1>1, <1>2 DEF RowNow
<1> QED BY <1>3, <1>4, Writing

\* A thread that ends and leaves a spoilt capsule.
LEMMA Ends ==
    ASSUME IInv, NEW u \in Uuids,
           thr'[u].pc = "idle", thr'[u].op = "none",
           rows'[u].exists = rows[u].exists, rows'[u].tpl = rows[u].tpl,
           rows'[u].cpu = rows[u].cpu, rows'[u].status # "none",
           rows'[u].host => rows[u].host,
           inner'[u] = inner[u], todo'[u] = todo[u], pods'[u] \in {0, pods[u]},
           u \in Capsules => u \in spoilt'
    PROVE  Own(u)'
<1>1. Own(u) BY DEF IInv, Inv
<1>2. Blank(u)' <=> Blank(u) BY DEF Blank
<1>3. u \in Boxes => BoxOk(u)' BY <1>1, <1>2 DEF Own, BoxOk
<1>4. ASSUME u \in Capsules PROVE CapsuleOk(u)'
  <2>1. CapsuleOk(u) BY <1>1, <1>4 DEF Own
  <2>2. Placed(u)' BY <2>1 DEF CapsuleOk, Placed, Api, Before, Making, Filling
  <2>3. Ordered(u)' BY <2>1 DEF CapsuleOk, Ordered, EndedBefore, Filling
  <2>4. Claimed(u)' BY <1>2, <2>1 DEF CapsuleOk, Claimed, Before, Making, Filling
  <2> QED BY <1>4, <2>2, <2>3, <2>4 DEF CapsuleOk
<1> QED BY <1>3, <1>4 DEF Own

\* A thread with an empty sandbox goes on: with the network, to the first
\* container of a capsule, or to its end with a container.
LEMMA Goes ==
    ASSUME IInv, NEW u \in Uuids, thr[u].pc \in Making,
           thr'[u].op \in {"none", thr[u].op},
           \/ thr'[u].pc \in Making
           \/ u \in Boxes /\ thr'[u].pc = "idle"
           \/ u \in Capsules /\ thr'[u].pc = "inner" /\ thr'[u].i = 1,
           rows'[u].exists = rows[u].exists, rows'[u].host = rows[u].host,
           rows'[u].tpl = rows[u].tpl, rows'[u].cpu = rows[u].cpu,
           rows'[u].cid = rows[u].cid, rows'[u].ids = rows[u].ids,
           rows'[u].status \in {rows[u].status, "Running", "Stopped", "Error"},
           inner'[u] = inner[u], todo'[u] = todo[u], pods'[u] = pods[u],
           u \in spoilt' <=> u \in spoilt
    PROVE  Own(u)'
<1>1. Own(u) BY DEF IInv, Inv
<1>2. Blank(u)' <=> Blank(u) BY DEF Blank
<1>3. u \in Boxes => BoxOk(u)' BY <1>1, <1>2, Sorts DEF Own, BoxOk, Making
<1>4. ASSUME u \in Capsules PROVE CapsuleOk(u)'
  <2>1. CapsuleOk(u) BY <1>1, <1>4 DEF Own
  <2>2. \/ thr'[u].pc \in Making
        \/ thr'[u].pc = "inner" /\ thr'[u].i = 1
    BY <1>4, Sorts
  <2>3. Blank(u) /\ rows[u].status # "none" /\ rows[u].host /\ pods[u] # 0
    BY <2>1 DEF CapsuleOk, Placed, Making
  <2>4. Placed(u)'
    BY <1>2, <2>1, <2>2, <2>3 DEF CapsuleOk, Placed, Bare, Api, Before, Making, Filling
  <2>5. Ordered(u)'
    <3>1. \A j \in 1..MaxInner : inner'[u][j] = "none" BY <2>3 DEF Blank
    <3>2. \A i \in 1..MaxInner : ~(i < 1) BY MaxInnerFact
    <3> QED BY <2>2, <3>1, <3>2 DEF Ordered, EndedBefore, Making, Filling
  <2>6. Claimed(u)' BY <2>1, <2>2 DEF CapsuleOk, Claimed, Making, Filling
  <2>7. u \notin spoilt' => Sound(u)'
    BY <1>2, <2>1, <2>2, <2>3 DEF CapsuleOk, Sound, Bare, Making
  <2> QED BY <2>4, <2>5, <2>6, <2>7 DEF CapsuleOk
<1> QED BY <1>3, <1>4 DEF Own

-----------------------------------------------------------------------------
(* The API *)

\* A POST makes a row without host, and nothing runs for it.
LEMMA PostCapsuleOk ==
    ASSUME IInv, NEW u \in Capsules, NEW t \in Templates, PostCapsule(u, t)
    PROVE  u \in Uuids /\ Good(u)
<1>1. u \in Uuids BY CapsulesAssumption
<1>2. Types /\ Own(u) BY <1>1 DEF IInv, Inv
<1>3. /\ rows[u].status = "none" /\ thr[u].pc = "idle"
      /\ rows' = [rows EXCEPT ![u] = [NoRow EXCEPT !.exists = TRUE, !.status = "Creating", !.tpl = t]]
      /\ Goto(u, "networks") /\ Request
      /\ UNCHANGED <<netns, driver, pods, inner, todo, spoilt>>
  BY DEF PostCapsule, netQuiet, At
<1>4. PICK r : r = [NoRow EXCEPT !.exists = TRUE, !.status = "Creating", !.tpl = t] OBVIOUS
<1>5. r = [exists |-> TRUE, host |-> FALSE, status |-> "Creating", cid |-> 0,
           pid |-> 0, vif |-> "none", tpl |-> t, cpu |-> 0, ids |-> {}]
  BY <1>4 DEF NoRow
<1>6. r \in RowType BY <1>5 DEF RowType, Statuses, Vifs
<1>7. RowNow(u, r) BY <1>3, <1>4 DEF RowNow
<1>8. /\ rows' \in [Uuids -> RowType] /\ \A d \in Uuids \ {u} : rows'[d] = rows[d]
      /\ rows'[u] = r
  BY <1>1, <1>2, <1>6, <1>7, Writing
<1>9. "networks" \in Pcs BY DEF Pcs, Api
<1>10. /\ thr' \in [Uuids -> ThreadType] /\ \A d \in Uuids \ {u} : thr'[d] = thr[d]
       /\ thr'[u].pc = "networks" /\ thr'[u].op = thr[u].op
  BY <1>1, <1>2, <1>3, <1>9, Going
<1>11. used' \in UsedType BY <1>2, <1>3, Counting
<1>12. Types' BY <1>2, <1>3, <1>8, <1>10, <1>11 DEF Types
<1>13. Alone(u) BY <1>3, <1>8, <1>10 DEF Alone
<1>14. CapsuleOk(u)'
  <2>1. CapsuleOk(u) BY <1>2 DEF Own
  <2>2. Bare(u) /\ todo[u] = NoCopy BY <1>3, <2>1 DEF CapsuleOk, Placed
  <2>3. Bare(u)' BY <1>3, <2>2 DEF Bare, Blank
  <2>4. Placed(u)'
    <3>1. rows'[u].exists /\ ~rows'[u].host /\ rows'[u].status = "Creating" /\ rows'[u].cid = 0
      BY <1>5, <1>8
    <3>2. thr[u].op # "reboot" BY <2>1 DEF CapsuleOk, Placed
    <3> QED BY <1>3, <1>10, <2>2, <2>3, <3>1, <3>2 DEF Placed, Api, Before, Making, Filling
  <2>5. Ordered(u)' BY <1>10, <2>3 DEF Ordered, Bare, Blank, Filling
  <2>6. Claimed(u)' BY <1>10, <2>3 DEF Claimed, Bare, Before, Making, Filling
  <2>7. Sound(u)'
    BY <1>3, <1>5, <1>8, <1>10, <2>2, <2>3 DEF Sound, Bare, Blank
  <2> QED BY <2>4, <2>5, <2>6, <2>7 DEF CapsuleOk
<1>15. u \notin Boxes BY <1>1, Sorts
<1> QED BY <1>1, <1>12, <1>13, <1>14, <1>15 DEF Good, Own

\* The networks found or not: the row stays as it is.
LEMMA PostNetworksOk ==
    ASSUME IInv, NEW u \in Uuids, PostNetworks(u)
    PROVE  Good(u)
<1>1. Types /\ Own(u) BY DEF IInv, Inv
<1>2. rows' = rows /\ pods' = pods /\ inner' = inner /\ todo' = todo /\ spoilt' = spoilt
      /\ driver' = driver /\ netns' = netns
  BY DEF PostNetworks, netQuiet
<1>3. /\ thr[u].pc = "networks"
      /\ (Goto(u, "volumes") /\ used' = used) \/ (End(u) /\ Fault)
  BY DEF PostNetworks, At
<1>4. "volumes" \in Pcs BY DEF Pcs, Api
<1>5. /\ thr' \in [Uuids -> ThreadType] /\ \A d \in Uuids \ {u} : thr'[d] = thr[d]
      /\ thr'[u].pc \in {"idle", "volumes"} /\ thr'[u].op \in {"none", thr[u].op}
  BY <1>1, <1>3, <1>4, Going, Ending
<1>6. used' \in UsedType BY <1>1, <1>3, Counting
<1>7. Types' BY <1>1, <1>2, <1>5, <1>6 DEF Types
<1>8. Alone(u) BY <1>2, <1>5 DEF Alone
<1>9. u \in Boxes => BoxOk(u)'
  BY <1>1, <1>3 DEF Own, BoxOk, Making
<1>10. ASSUME u \in Capsules PROVE CapsuleOk(u)'
  <2>1. CapsuleOk(u) BY <1>1, <1>10 DEF Own
  <2>2. Placed(u)'
    BY <1>2, <1>3, <1>5, <2>1 DEF CapsuleOk, Placed, Blank, Bare, Api, Before, Making, Filling
  <2>3. Ordered(u)' BY <1>2, <1>3, <1>5, <2>1 DEF CapsuleOk, Ordered, EndedBefore, Filling
  <2>4. Claimed(u)'
    BY <1>2, <1>3, <1>5, <2>1 DEF CapsuleOk, Claimed, Blank, Api, Before, Making, Filling
  <2>5. u \notin spoilt' => Sound(u)'
    BY <1>2, <1>3, <1>5, <2>1 DEF CapsuleOk, Placed, Sound, Blank, Bare, Api
  <2> QED BY <2>2, <2>3, <2>4, <2>5 DEF CapsuleOk
<1> QED BY <1>7, <1>8, <1>9, <1>10 DEF Good, Own

\* What is left of a capsule without a sandbox when its row is destroyed, or
\* was, while its thread ends.
LEMMA Vanishes ==
    ASSUME IInv, NEW u \in Capsules, NEW v \in Uuids, u = v, Bare(u), todo[u] = NoCopy,
           ~rows'[u].exists, ~rows'[u].host, rows'[u].tpl = NoTemplate, rows'[u].status # "none",
           thr'[u].pc = "idle", thr'[u].op = "none",
           inner'[u] = inner[u], todo'[u] = todo[u], pods'[u] = pods[u]
    PROVE  Own(u)'
<1>1. Bare(u)' BY DEF Bare, Blank
<1>2. Placed(u)' BY DEF Placed, Api, Before, Making, Filling
<1>3. Ordered(u)' BY DEF Ordered, Filling
<1>4. Claimed(u)' BY DEF Claimed
<1>5. Sound(u)' BY <1>1 DEF Sound, Bare, Blank
<1>6. u \notin Boxes BY Sorts
<1> QED BY <1>2, <1>3, <1>4, <1>5, <1>6 DEF Own, CapsuleOk

\* The claim is made here, or the row goes with nothing behind it.
LEMMA BuildVolumesOk ==
    ASSUME IInv, NEW u \in Uuids, _build_requested_volumes(u)
    PROVE  Good(u)
<1>1. Types /\ Own(u) BY DEF IInv, Inv
<1>2. pods' = pods /\ inner' = inner /\ todo' = todo /\ spoilt' = spoilt
      /\ driver' = driver /\ netns' = netns /\ thr[u].pc = "volumes"
  BY DEF _build_requested_volumes, netQuiet, At
<1>3. u \in Capsules BY <1>1, <1>2, Sorts DEF Own, BoxOk, Making
<1>4. CapsuleOk(u) /\ u \notin Boxes BY <1>1, <1>3, Sorts DEF Own
<1>5. /\ Bare(u) /\ todo[u] = NoCopy /\ rows[u].cid = 0 /\ ~rows[u].host
      /\ rows[u].status # "none" /\ (~rows[u].exists => rows[u].tpl = NoTemplate)
      /\ thr[u].op # "reboot"
  BY <1>2, <1>4 DEF CapsuleOk, Placed, Api
<1>6. CASE /\ rows' = [rows EXCEPT ![u].cpu = capsule_need_cpu(rows[u].tpl)]
           /\ Goto(u, "schedule") /\ used' = used /\ rows[u].exists
  <2>1. "schedule" \in Pcs BY DEF Pcs, Api
  <2>2. /\ thr' \in [Uuids -> ThreadType] /\ \A d \in Uuids \ {u} : thr'[d] = thr[d]
        /\ thr'[u].pc = "schedule" /\ thr'[u].op = thr[u].op
    BY <1>1, <1>6, <2>1, Going
  <2>3. PICK n : n = capsule_need_cpu(rows[u].tpl) OBVIOUS
  <2>4. n \in Nat BY <1>1, <2>3, Fields, NeedFact
  <2>5. PICK r : r = [rows[u] EXCEPT !.cpu = n] OBVIOUS
  <2>6. rows \in [Uuids -> RowType] /\ rows[u] \in RowType BY <1>1, Fields DEF Types
  <2>7. /\ r \in RowType /\ r.exists = rows[u].exists /\ r.host = rows[u].host
        /\ r.tpl = rows[u].tpl /\ r.cpu = n /\ r.cid = rows[u].cid
        /\ r.status = rows[u].status /\ r.ids = rows[u].ids
    BY <2>4, <2>5, <2>6 DEF RowType
  <2>8. RowNow(u, r) BY <1>6, <2>3, <2>5, <2>6 DEF RowNow
  <2>9. /\ rows' \in [Uuids -> RowType] /\ \A d \in Uuids \ {u} : rows'[d] = rows[d]
        /\ rows'[u] = r
    BY <1>1, <2>7, <2>8, Writing
  <2>10. Types' BY <1>1, <1>2, <1>6, <2>2, <2>9 DEF Types
  <2>11. Alone(u) BY <1>2, <2>2, <2>9 DEF Alone
  <2>12. Bare(u)' BY <1>2, <1>5 DEF Bare, Blank
  <2>13. Placed(u)'
    BY <1>2, <1>5, <1>6, <2>2, <2>7, <2>9, <2>12 DEF Placed, Api, Before, Making, Filling
  <2>14. Ordered(u)' BY <2>2, <2>12 DEF Ordered, Bare, Blank, Filling
  <2>15. Claimed(u)' BY <2>3, <2>7, <2>9 DEF Claimed
  <2>16. Sound(u)' BY <1>2, <1>5, <2>2, <2>7, <2>9, <2>12 DEF Sound, Bare, Blank
  <2> QED BY <1>4, <2>10, <2>11, <2>13, <2>14, <2>15, <2>16 DEF Good, Own, CapsuleOk
<1>7. CASE /\ End(u) /\ (used' = used \/ Fault)
           /\ (~rows[u].exists /\ rows' = rows) \/ rows' = destroy(u)
  <2>1. /\ thr' \in [Uuids -> ThreadType] /\ \A d \in Uuids \ {u} : thr'[d] = thr[d]
        /\ thr'[u].pc = "idle" /\ thr'[u].op = "none"
    BY <1>1, <1>7, Ending
  <2>2. used' \in UsedType BY <1>1, <1>7, Counting
  <2>3. /\ rows' \in [Uuids -> RowType] /\ \A d \in Uuids \ {u} : rows'[d] = rows[d]
        /\ ~rows'[u].exists /\ ~rows'[u].host /\ rows'[u].status # "none"
        /\ rows'[u].tpl = NoTemplate
    BY <1>1, <1>5, <1>7, Destroying DEF Types
  <2>4. Types' BY <1>1, <1>2, <2>1, <2>2, <2>3 DEF Types
  <2>5. Alone(u) BY <1>2, <2>1, <2>3 DEF Alone
  <2>6. Own(u)' BY <1>2, <1>3, <1>5, <2>1, <2>3, Vanishes
  <2> QED BY <2>4, <2>5, <2>6 DEF Good
<1> QED BY <1>6, <1>7 DEF _build_requested_volumes

\* The row gets its host before anything is made on it.
LEMMA ScheduleOk ==
    ASSUME IInv, NEW u \in Uuids, Schedule(u)
    PROVE  Good(u)
<1>1. Types /\ Own(u) BY DEF IInv, Inv
<1>2. pods' = pods /\ inner' = inner /\ todo' = todo /\ spoilt' = spoilt
      /\ driver' = driver /\ netns' = netns /\ thr[u].pc = "schedule"
  BY DEF Schedule, netQuiet, At
<1>3. u \in Capsules BY <1>1, <1>2, Sorts DEF Own, BoxOk, Making
<1>4. CapsuleOk(u) /\ u \notin Boxes BY <1>1, <1>3, Sorts DEF Own
<1>5. /\ Bare(u) /\ todo[u] = NoCopy /\ rows[u].cid = 0 /\ ~rows[u].host
      /\ rows[u].status # "none" /\ (~rows[u].exists => rows[u].tpl = NoTemplate)
      /\ thr[u].op # "reboot"
  BY <1>2, <1>4 DEF CapsuleOk, Placed, Api
<1>6. Bare(u)' BY <1>2, <1>5 DEF Bare, Blank
<1>7. CASE /\ rows' = [rows EXCEPT ![u].host = TRUE] /\ Goto(u, "attach") /\ used' = used
           /\ rows[u].exists
  <2>1. "attach" \in Pcs BY DEF Pcs, Before
  <2>2. /\ thr' \in [Uuids -> ThreadType] /\ \A d \in Uuids \ {u} : thr'[d] = thr[d]
        /\ thr'[u].pc = "attach" /\ thr'[u].op = thr[u].op
    BY <1>1, <1>7, <2>1, Going
  <2>3. PICK r : r = [rows[u] EXCEPT !.host = TRUE] OBVIOUS
  <2>4. rows \in [Uuids -> RowType] /\ rows[u] \in RowType BY <1>1, Fields DEF Types
  <2>5. /\ r \in RowType /\ r.exists = rows[u].exists /\ r.host
        /\ r.tpl = rows[u].tpl /\ r.cpu = rows[u].cpu /\ r.cid = rows[u].cid
        /\ r.status = rows[u].status /\ r.ids = rows[u].ids
    BY <2>3, <2>4 DEF RowType
  <2>6. RowNow(u, r) BY <1>7, <2>3, <2>4 DEF RowNow
  <2>7. /\ rows' \in [Uuids -> RowType] /\ \A d \in Uuids \ {u} : rows'[d] = rows[d]
        /\ rows'[u] = r
    BY <1>1, <2>5, <2>6, Writing
  <2>8. Types' BY <1>1, <1>2, <1>7, <2>2, <2>7 DEF Types
  <2>9. Alone(u) BY <1>2, <2>2, <2>7 DEF Alone
  <2>10. Placed(u)'
    BY <1>2, <1>5, <1>6, <1>7, <2>2, <2>5, <2>7 DEF Placed, Api, Before, Making, Filling
  <2>11. Ordered(u)' BY <1>6, <2>2 DEF Ordered, Bare, Blank, Filling
  <2>12. Claimed(u)'
    BY <1>2, <1>4, <2>5, <2>7 DEF CapsuleOk, Claimed
  <2>13. Sound(u)' BY <1>2, <1>5, <1>6, <2>2, <2>5, <2>7 DEF Sound, Bare, Blank
  <2> QED BY <1>4, <2>8, <2>9, <2>10, <2>11, <2>12, <2>13 DEF Good, Own, CapsuleOk
<1>8. CASE ~rows[u].exists /\ rows' = rows /\ End(u) /\ used' = used
  <2>1. /\ thr' \in [Uuids -> ThreadType] /\ \A d \in Uuids \ {u} : thr'[d] = thr[d]
        /\ thr'[u].pc = "idle" /\ thr'[u].op = "none"
    BY <1>1, <1>8, Ending
  <2>2. Types' BY <1>1, <1>2, <1>8, <2>1 DEF Types
  <2>3. Alone(u) BY <1>2, <1>8, <2>1 DEF Alone
  <2>4. Own(u)' BY <1>2, <1>3, <1>5, <1>8, <2>1, Vanishes
  <2> QED BY <2>2, <2>3, <2>4 DEF Good
<1>9. CASE Fault /\ rows' = [rows EXCEPT ![u].status = "Error"] /\ End(u) /\ rows[u].exists
  <2>1. /\ thr' \in [Uuids -> ThreadType] /\ \A d \in Uuids \ {u} : thr'[d] = thr[d]
        /\ thr'[u].pc = "idle" /\ thr'[u].op = "none"
    BY <1>1, <1>9, Ending
  <2>2. "Error" \in Statuses BY DEF Statuses
  <2>3. /\ rows' \in [Uuids -> RowType] /\ \A d \in Uuids \ {u} : rows'[d] = rows[d]
        /\ rows'[u].status = "Error" /\ rows'[u].exists /\ ~rows'[u].host
        /\ rows'[u].cid = 0
    BY <1>1, <1>5, <1>9, <2>2, Stating
  <2>4. used' \in UsedType BY <1>1, <1>9, Counting
  <2>5. Types' BY <1>1, <1>2, <2>1, <2>3, <2>4 DEF Types
  <2>6. Alone(u) BY <1>2, <2>1, <2>3 DEF Alone
  <2>7. Placed(u)' BY <1>2, <1>5, <2>1, <2>3 DEF Placed, Api, Before, Making, Filling
  <2>8. Ordered(u)' BY <1>6, <2>1 DEF Ordered, Bare, Blank, Filling
  <2>9. Claimed(u)' BY <1>6, <2>1 DEF Claimed, Bare, Before, Making, Filling
  <2>10. Sound(u)' BY <1>2, <1>5, <1>6, <2>1, <2>3 DEF Sound, Bare, Blank
  <2> QED BY <1>4, <2>5, <2>6, <2>7, <2>8, <2>9, <2>10 DEF Good, Own, CapsuleOk
<1> QED BY <1>7, <1>8, <1>9 DEF Schedule

\* A DELETE copies what the row knows now; a row that goes has no host.
LEMMA DeleteCapsuleOk ==
    ASSUME IInv, NEW u \in Capsules, DeleteCapsule(u)
    PROVE  u \in Uuids /\ Good(u)
<1>1. u \in Uuids BY CapsulesAssumption
<1>2. Types /\ Own(u) /\ u \notin Boxes BY <1>1, Sorts DEF IInv, Inv
<1>3. /\ Request /\ rows[u].exists /\ todo[u] = NoCopy
      /\ spoilt' = IF thr[u].pc = "idle" THEN spoilt ELSE spoilt \cup {u}
      /\ UNCHANGED <<netns, driver, pods, inner, thr>>
  BY DEF DeleteCapsule, netQuiet, At
<1>4. CapsuleOk(u) BY <1>2 DEF Own
<1>5. thr[u].pc # "stopsandbox" BY <1>3, <1>4 DEF CapsuleOk, Placed
<1>6. used' \in UsedType BY <1>2, <1>3, Counting
<1>7. spoilt' \in SUBSET Uuids BY <1>1, <1>2, <1>3 DEF Types
<1>8. u \notin spoilt' => u \notin spoilt /\ thr[u].pc = "idle" BY <1>3
<1>9. Blank(u)' <=> Blank(u) BY <1>3 DEF Blank
<1>10. CASE rows[u].host /\ todo' = [todo EXCEPT ![u] = [cid |-> rows[u].cid, ids |-> rows[u].ids]]
            /\ rows' = rows
  <2>1. PICK c : c = [cid |-> rows[u].cid, ids |-> rows[u].ids] OBVIOUS
  <2>2. c \in CopyType /\ c.cid = rows[u].cid /\ c.ids = rows[u].ids
    BY <1>1, <1>2, <2>1, Fields DEF CopyType
  <2>3. /\ todo' \in [Uuids -> CopyType] /\ \A d \in Uuids \ {u} : todo'[d] = todo[d]
        /\ todo'[u] = c
    BY <1>1, <1>2, <1>10, <2>1, <2>2 DEF Types
  <2>4. Types' BY <1>2, <1>3, <1>6, <1>7, <1>10, <2>3 DEF Types
  <2>5. Alone(u) BY <1>3, <1>10, <2>3 DEF Alone
  <2>6. Placed(u)'
    <3>1. Placed(u) BY <1>4 DEF CapsuleOk
    <3>2. thr[u].pc \notin Api BY <1>10, <3>1 DEF Placed
    <3>3. rows[u].status # "none" BY <1>3, <3>1 DEF Placed
    <3> QED BY <1>3, <1>5, <1>9, <1>10, <3>1, <3>2, <3>3 DEF Placed, Bare
  <2>7. Ordered(u)' BY <1>3, <1>4, <1>10 DEF CapsuleOk, Ordered, EndedBefore
  <2>8. Claimed(u)' BY <1>3, <1>4, <1>9, <1>10 DEF CapsuleOk, Claimed
  <2>9. u \notin spoilt' => Sound(u)'
    BY <1>3, <1>4, <1>8, <1>9, <1>10, <2>2, <2>3 DEF CapsuleOk, Sound, Bare
  <2> QED BY <1>1, <1>2, <2>4, <2>5, <2>6, <2>7, <2>8, <2>9 DEF Good, Own, CapsuleOk
<1>11. CASE ~rows[u].host /\ rows' = destroy(u) /\ todo' = todo
  <2>1. /\ rows' \in [Uuids -> RowType] /\ \A d \in Uuids \ {u} : rows'[d] = rows[d]
        /\ ~rows'[u].exists /\ ~rows'[u].host /\ rows'[u].status = "Deleted"
        /\ rows'[u].tpl = NoTemplate /\ rows'[u].cid = 0 /\ rows'[u].ids = {}
    BY <1>1, <1>2, <1>11, Destroying
  <2>2. thr[u].pc \notin Before \cup Making \cup Filling BY <1>4, <1>11 DEF CapsuleOk, Placed
  <2>3. Types' BY <1>2, <1>3, <1>6, <1>7, <1>11, <2>1 DEF Types
  <2>4. Alone(u) BY <1>3, <1>11, <2>1 DEF Alone
  <2>5. Placed(u)'
    BY <1>3, <1>4, <1>5, <1>9, <1>11, <2>1, <2>2 DEF CapsuleOk, Placed, Bare
  <2>6. Ordered(u)' BY <1>3, <2>1, <2>2 DEF Ordered, Filling
  <2>7. Claimed(u)' BY <2>1 DEF Claimed
  <2>8. u \notin spoilt' => Sound(u)'
    BY <1>3, <1>4, <1>8, <1>9, <1>11, <2>1 DEF CapsuleOk, Sound, Bare, Blank
  <2> QED BY <1>1, <1>2, <2>3, <2>4, <2>5, <2>6, <2>7, <2>8 DEF Good, Own, CapsuleOk
<1> QED BY <1>10, <1>11 DEF DeleteCapsule

-----------------------------------------------------------------------------
(* The manager and the drivers *)

\* A failed attach leaves a row that nothing was made for.
LEMMA AttachOk ==
    ASSUME IInv, NEW u \in Uuids, _attach_volumes_for_capsule(u)
    PROVE  Good(u)
<1>1. Types /\ Own(u) BY DEF IInv, Inv
<1>2. rows' = rows /\ pods' = pods /\ inner' = inner /\ todo' = todo
      /\ driver' = driver /\ netns' = netns /\ thr[u].pc = "attach"
  BY DEF _attach_volumes_for_capsule, netQuiet, At
<1>3. u \in Capsules /\ u \notin Boxes BY <1>1, <1>2, Sorts DEF Own, BoxOk, Making
<1>4. CapsuleOk(u) BY <1>1, <1>3 DEF Own
<1>5. /\ Bare(u) /\ rows[u].status # "none" /\ rows[u].host /\ rows[u].cid = 0
  BY <1>2, <1>4 DEF CapsuleOk, Placed, Before
<1>6. CASE thr' = [thr EXCEPT ![u].pc = "pull", ![u].op = "start"] /\ used' = used /\ spoilt' = spoilt
  <2>1. /\ thr' \in [Uuids -> ThreadType] /\ \A d \in Uuids \ {u} : thr'[d] = thr[d]
        /\ thr'[u].pc = "pull" /\ thr'[u].op = "start"
    BY <1>1, <1>6 DEF Types, ThreadType, Pcs, Before
  <2>2. Types' BY <1>1, <1>2, <1>6, <2>1 DEF Types
  <2>3. Alone(u) BY <1>2, <1>6, <2>1 DEF Alone
  <2>4. Bare(u)' BY <1>2, <1>5 DEF Bare, Blank
  <2>5. Placed(u)'
    BY <1>2, <1>4, <1>5, <2>1, <2>4 DEF CapsuleOk, Placed, Api, Before, Making, Filling
  <2>6. Ordered(u)' BY <2>1, <2>4 DEF Ordered, Bare, Blank, Filling
  <2>7. Claimed(u)' BY <1>2, <1>4, <2>1 DEF CapsuleOk, Claimed, Before
  <2>8. u \notin spoilt' => Sound(u)'
    BY <1>2, <1>4, <1>5, <1>6, <2>1, <2>4 DEF CapsuleOk, Sound, Bare, Blank
  <2> QED BY <1>3, <2>2, <2>3, <2>5, <2>6, <2>7, <2>8 DEF Good, Own, CapsuleOk
<1>7. CASE Fault /\ spoilt' = spoilt \cup {u} /\ End(u)
  <2>1. /\ thr' \in [Uuids -> ThreadType] /\ \A d \in Uuids \ {u} : thr'[d] = thr[d]
        /\ thr'[u].pc = "idle" /\ thr'[u].op = "none"
    BY <1>1, <1>7, Ending
  <2>2. used' \in UsedType BY <1>1, <1>7, Counting
  <2>3. Types' BY <1>1, <1>2, <1>7, <2>1, <2>2 DEF Types
  <2>4. Alone(u) BY <1>2, <1>7, <2>1 DEF Alone
  <2>5. Own(u)' BY <1>2, <1>5, <1>7, <2>1, Ends
  <2> QED BY <2>3, <2>4, <2>5 DEF Good
<1> QED BY <1>6, <1>7 DEF _attach_volumes_for_capsule

\* A failed pull keeps the host.
LEMMA PullImageOk ==
    ASSUME IInv, NEW u \in Uuids, PullImage(u)
    PROVE  Good(u)
<1>1. Types /\ Own(u) BY DEF IInv, Inv
<1>2. pods' = pods /\ inner' = inner /\ todo' = todo /\ spoilt' = spoilt
      /\ driver' = driver /\ netns' = netns /\ thr[u].pc = "pull"
  BY DEF PullImage, netQuiet, At
<1>3. Blank(u)' <=> Blank(u) BY <1>2 DEF Blank
<1>4. "create" \in Pcs /\ "Error" \in Statuses BY DEF Pcs, Before, Statuses
<1>5. (Goto(u, "create") /\ rows' = rows /\ used' = used)
      \/ (Fault /\ rows' = [rows EXCEPT ![u].status = "Error"] /\ End(u))
  BY DEF PullImage
<1>6. /\ thr' \in [Uuids -> ThreadType] /\ \A d \in Uuids \ {u} : thr'[d] = thr[d]
      /\ thr'[u].pc \in {"create", "idle"} /\ thr'[u].op \in {"none", thr[u].op}
  BY <1>1, <1>4, <1>5, Going, Ending
<1>7. /\ rows' \in [Uuids -> RowType] /\ \A d \in Uuids \ {u} : rows'[d] = rows[d]
      /\ rows'[u].status \in {rows[u].status, "Error"}
      /\ rows'[u].exists = rows[u].exists /\ rows'[u].host = rows[u].host
      /\ rows'[u].tpl = rows[u].tpl /\ rows'[u].cpu = rows[u].cpu
      /\ rows'[u].cid = rows[u].cid /\ rows'[u].ids = rows[u].ids
  <2>1. CASE rows' = rows BY <1>1, <2>1 DEF Types
  <2>2. CASE rows' = [rows EXCEPT ![u].status = "Error"] BY <1>1, <1>4, <2>2, Stating
  <2> QED BY <1>5, <2>1, <2>2
<1>8. used' \in UsedType BY <1>1, <1>5, Counting
<1>9. Types' BY <1>1, <1>2, <1>6, <1>7, <1>8 DEF Types
<1>10. Alone(u) BY <1>2, <1>6, <1>7 DEF Alone
<1>11. u \in Boxes => BoxOk(u)' BY <1>1, <1>2, <1>3, <1>6, <1>7 DEF Own, BoxOk
<1>12. ASSUME u \in Capsules PROVE CapsuleOk(u)'
  <2>1. CapsuleOk(u) BY <1>1, <1>12 DEF Own
  <2>2. /\ Bare(u) /\ rows[u].status # "none" /\ rows[u].host /\ rows[u].cid = 0
    BY <1>2, <2>1 DEF CapsuleOk, Placed, Before
  <2>3. Bare(u)' BY <1>2, <1>3, <2>2 DEF Bare
  <2>4. Placed(u)'
    BY <1>2, <1>6, <1>7, <2>1, <2>2, <2>3 DEF CapsuleOk, Placed, Api, Before, Making, Filling
  <2>5. Ordered(u)' BY <1>6, <2>3 DEF Ordered, Bare, Blank, Filling
  <2>6. Claimed(u)'
    BY <1>2, <1>6, <1>7, <2>1, <2>3 DEF CapsuleOk, Claimed, Before, Bare, Making, Filling
  <2>7. u \notin spoilt' => Sound(u)'
    BY <1>2, <1>6, <1>7, <2>1, <2>2, <2>3 DEF CapsuleOk, Sound, Bare, Blank
  <2> QED BY <2>4, <2>5, <2>6, <2>7 DEF CapsuleOk
<1> QED BY <1>9, <1>10, <1>11, <1>12 DEF Good, Own

\* A step that fails a creation.
LEMMA FailWithOk ==
    ASSUME IInv, NEW u \in Uuids, NEW ids \in SUBSET Nat, FailWith(u, ids),
           pods' = pods, inner' = inner, todo' = todo, driver' = driver, netns' = netns,
           used' \in UsedType
    PROVE  Good(u)
<1>1. Types BY DEF IInv
<1>2. /\ rows' \in [Uuids -> RowType] /\ \A d \in Uuids \ {u} : rows'[d] = rows[d]
      /\ rows'[u].exists = rows[u].exists /\ ~rows'[u].host /\ rows'[u].status = "Error"
      /\ rows'[u].tpl = rows[u].tpl /\ rows'[u].cpu = rows[u].cpu
      /\ spoilt' = spoilt \cup {u} /\ spoilt' \in SUBSET Uuids /\ End(u)
  BY <1>1, Failing
<1>3. /\ thr' \in [Uuids -> ThreadType] /\ \A d \in Uuids \ {u} : thr'[d] = thr[d]
      /\ thr'[u].pc = "idle" /\ thr'[u].op = "none"
  BY <1>1, <1>2, Ending
<1>4. Types' BY <1>1, <1>2, <1>3 DEF Types
<1>5. Alone(u) BY <1>2, <1>3 DEF Alone
<1>6. Own(u)' BY <1>2, <1>3, Ends
<1> QED BY <1>4, <1>5, <1>6 DEF Good

\* Before containerd is asked there is no sandbox.
LEMMA WriteMetadataOk ==
    ASSUME IInv, NEW u \in Uuids, _write_cni_metadata(u)
    PROVE  Good(u)
<1>1. Types /\ Own(u) BY DEF IInv, Inv
<1>2. pods' = pods /\ inner' = inner /\ todo' = todo
      /\ driver' = driver /\ netns' = netns /\ thr[u].pc = "create" /\ Kind(u) = "cri"
  BY DEF _write_cni_metadata, At
<1>3. u \in Capsules /\ u \notin Boxes BY <1>1, <1>2, KindFact, Sorts
<1>4. CapsuleOk(u) BY <1>1, <1>3 DEF Own
<1>5. /\ Bare(u) /\ rows[u].status # "none" /\ rows[u].host /\ rows[u].cid = 0
  BY <1>2, <1>4 DEF CapsuleOk, Placed, Before
<1>6. CASE rows' = [rows EXCEPT ![u].vif = Vif(u)] /\ Goto(u, "sandbox") /\ used' = used
           /\ spoilt' = spoilt
  <2>1. "sandbox" \in Pcs BY DEF Pcs, Before
  <2>2. /\ thr' \in [Uuids -> ThreadType] /\ \A d \in Uuids \ {u} : thr'[d] = thr[d]
        /\ thr'[u].pc = "sandbox" /\ thr'[u].op = thr[u].op
    BY <1>1, <1>6, <2>1, Going
  <2>3. PICK r : r = [rows[u] EXCEPT !.vif = Vif(u)] OBVIOUS
  <2>4. rows \in [Uuids -> RowType] /\ rows[u] \in RowType BY <1>1, Fields DEF Types
  <2>5. Vif(u) \in Vifs BY DEF Vif, Vifs
  <2>6. /\ r \in RowType /\ r.exists = rows[u].exists /\ r.host = rows[u].host
        /\ r.tpl = rows[u].tpl /\ r.cpu = rows[u].cpu /\ r.cid = rows[u].cid
        /\ r.status = rows[u].status /\ r.ids = rows[u].ids
    BY <2>3, <2>4, <2>5 DEF RowType
  <2>7. RowNow(u, r) BY <1>6, <2>3, <2>4 DEF RowNow
  <2>8. /\ rows' \in [Uuids -> RowType] /\ \A d \in Uuids \ {u} : rows'[d] = rows[d]
        /\ rows'[u] = r
    BY <1>1, <2>6, <2>7, Writing
  <2>9. Types' BY <1>1, <1>2, <1>6, <2>2, <2>8 DEF Types
  <2>10. Alone(u) BY <1>2, <1>6, <2>2, <2>8 DEF Alone
  <2>11. Bare(u)' BY <1>2, <1>5 DEF Bare, Blank
  <2>12. Placed(u)'
    BY <1>2, <1>4, <1>5, <2>2, <2>6, <2>8, <2>11 DEF CapsuleOk, Placed, Api, Before, Making, Filling
  <2>13. Ordered(u)' BY <2>2, <2>11 DEF Ordered, Bare, Blank, Filling
  <2>14. Claimed(u)' BY <1>2, <1>4, <2>2, <2>6, <2>8 DEF CapsuleOk, Claimed, Before
  <2>15. u \notin spoilt' => Sound(u)'
    BY <1>2, <1>4, <1>5, <1>6, <2>2, <2>6, <2>8, <2>11 DEF CapsuleOk, Sound, Bare, Blank
  <2> QED BY <1>3, <2>9, <2>10, <2>12, <2>13, <2>14, <2>15 DEF Good, Own, CapsuleOk
<1>7. CASE Fault /\ FailCreate(u)
  <2>1. FailWith(u, rows[u].ids) /\ rows[u].ids \in SUBSET Nat
    BY <1>1, <1>7, Fields DEF FailCreate
  <2>2. used' \in UsedType BY <1>1, <1>7, Counting
  <2> QED BY <1>2, <2>1, <2>2, FailWithOk
<1> QED BY <1>6, <1>7 DEF _write_cni_metadata

\* A sandbox or a container is made.
LEMMA Makes ==
    ASSUME IInv, NEW u \in Uuids, thr[u].pc \in {"create", "sandbox"},
           thr'[u].op = thr[u].op, thr'[u].pc \in Making,
           rows'[u].exists = rows[u].exists, rows'[u].host = rows[u].host,
           rows'[u].tpl = rows[u].tpl, rows'[u].cpu = rows[u].cpu,
           rows'[u].status \in {rows[u].status, "Created"},
           inner'[u] = inner[u], todo'[u] = todo[u], pods'[u] # 0,
           u \in spoilt' <=> u \in spoilt
    PROVE  Own(u)'
<1>1. Own(u) BY DEF IInv, Inv
<1>2. Blank(u)' <=> Blank(u) BY DEF Blank
<1>3. u \in Boxes => BoxOk(u)' BY <1>1, <1>2 DEF Own, BoxOk, Making
<1>4. ASSUME u \in Capsules PROVE CapsuleOk(u)'
  <2>1. CapsuleOk(u) BY <1>1, <1>4 DEF Own
  <2>2. Blank(u) /\ rows[u].status # "none" /\ rows[u].host
    BY <2>1 DEF CapsuleOk, Placed, Before, Bare
  <2>3. Placed(u)'
    BY <1>2, <2>1, <2>2 DEF CapsuleOk, Placed, Api, Before, Making, Filling
  <2>4. Ordered(u)' BY <1>2, <2>2 DEF Ordered, Blank, Making, Filling
  <2>5. Claimed(u)' BY <2>1 DEF CapsuleOk, Claimed, Before
  <2>6. u \notin spoilt' => Sound(u)'
    BY <1>2, <2>1, <2>2 DEF CapsuleOk, Sound, Blank, Making
  <2> QED BY <2>3, <2>4, <2>5, <2>6 DEF CapsuleOk
<1> QED BY <1>3, <1>4 DEF Own

\* A sandbox is made empty.
LEMMA RunPodSandboxOk ==
    ASSUME IInv, NEW u \in Uuids, RunPodSandbox(u)
    PROVE  Good(u)
<1>1. Types /\ used \in UsedType /\ used.ns \in [Uuids -> Nat] /\ used.cid \in [Uuids -> Nat]
  BY Fields DEF IInv, Types
<1>2. /\ rows' = rows /\ inner' = inner /\ todo' = todo /\ spoilt' = spoilt /\ driver' = driver
      /\ thr[u].pc = "sandbox"
      /\ used' = [used EXCEPT !.ns[u] = @ + 1, !.cid[u] = @ + 1]
      /\ netns' = [netns EXCEPT ![u] = used.ns[u] + 1]
      /\ pods' = [pods EXCEPT ![u] = used.cid[u] + 1]
      /\ thr' = [thr EXCEPT ![u].pc = "plug", ![u].ns = used.ns[u] + 1]
  BY DEF RunPodSandbox, At
<1>3. PICK a, b : a = used.ns[u] + 1 /\ b = used.cid[u] + 1 OBVIOUS
<1>4. a \in Nat /\ b \in Nat /\ b # 0 BY <1>1, <1>3
<1>5. used' \in UsedType
  <2>1. PICK f, g : f = [used.ns EXCEPT ![u] = used.ns[u] + 1] /\ g = [used.cid EXCEPT ![u] = used.cid[u] + 1]
    OBVIOUS
  <2>2. f \in [Uuids -> Nat] /\ g \in [Uuids -> Nat] BY <1>1, <2>1
  <2>3. used' = [used EXCEPT !.ns = f, !.cid = g] BY <1>1, <1>2, <2>1 DEF UsedType
  <2> QED BY <1>1, <2>2, <2>3 DEF UsedType
<1>6. netns' \in [Uuids -> Nat] /\ pods' \in [Uuids -> Nat] /\ pods'[u] = b
      /\ \A d \in Uuids \ {u} : pods'[d] = pods[d]
  BY <1>1, <1>2, <1>3, <1>4 DEF Types
<1>7. /\ thr' \in [Uuids -> ThreadType] /\ \A d \in Uuids \ {u} : thr'[d] = thr[d]
      /\ thr'[u].pc = "plug" /\ thr'[u].op = thr[u].op
  BY <1>1, <1>2, <1>3, <1>4, ZenonT(30) DEF Types, ThreadType, Pcs, Making
<1>8. Types' BY <1>1, <1>2, <1>5, <1>6, <1>7 DEF Types
<1>9. Alone(u) BY <1>2, <1>6, <1>7 DEF Alone
<1>10. thr'[u].pc \in Making BY <1>7 DEF Making
<1>11. Own(u)' BY <1>2, <1>4, <1>6, <1>7, <1>10, Makes
<1> QED BY <1>8, <1>9, <1>11 DEF Good

\* Docker's container is made, and the row knows its id at once.
LEMMA DockerCreateOk ==
    ASSUME IInv, NEW u \in Uuids, DockerCreate(u)
    PROVE  Good(u)
<1>1. Types /\ used \in UsedType /\ used.ns \in [Uuids -> Nat] /\ used.cid \in [Uuids -> Nat]
  BY Fields DEF IInv, Types
<1>2. inner' = inner /\ todo' = todo /\ driver' = driver /\ netns' = netns /\ thr[u].pc = "create"
  BY DEF DockerCreate, At
<1>3. CASE /\ used' = [used EXCEPT !.cid[u] = @ + 1]
           /\ pods' = [pods EXCEPT ![u] = used.cid[u] + 1]
           /\ rows' = [rows EXCEPT ![u].vif = Vif(u), ![u].pid = 0,
                                   ![u].cid = used.cid[u] + 1, ![u].status = "Created"]
           /\ Goto(u, "start") /\ spoilt' = spoilt
  <2>1. "start" \in Pcs /\ "start" \in Making BY DEF Pcs, Making
  <2>2. /\ thr' \in [Uuids -> ThreadType] /\ \A d \in Uuids \ {u} : thr'[d] = thr[d]
        /\ thr'[u].pc = "start" /\ thr'[u].op = thr[u].op
    BY <1>1, <1>3, <2>1, Going
  <2>3. PICK b : b = used.cid[u] + 1 OBVIOUS
  <2>4. b \in Nat /\ b # 0 BY <1>1, <2>3
  <2>5. used' \in UsedType BY <1>1, <1>3 DEF UsedType
  <2>6. pods' \in [Uuids -> Nat] /\ pods'[u] = b /\ \A d \in Uuids \ {u} : pods'[d] = pods[d]
    BY <1>1, <1>3, <2>3, <2>4 DEF Types
  <2>7. PICK v : v = Vif(u) OBVIOUS
  <2>8. v \in Vifs BY <2>7 DEF Vif, Vifs
  <2>9. PICK r : r = [rows[u] EXCEPT !.vif = v, !.pid = 0, !.cid = b, !.status = "Created"] OBVIOUS
  <2>10. rows \in [Uuids -> RowType] /\ rows[u] \in RowType BY <1>1, Fields DEF Types
  <2>11. /\ r \in RowType /\ r.exists = rows[u].exists /\ r.host = rows[u].host
         /\ r.tpl = rows[u].tpl /\ r.cpu = rows[u].cpu /\ r.status = "Created"
    BY <2>4, <2>8, <2>9, <2>10 DEF RowType, Statuses
  <2>12. RowNow(u, r) BY <1>3, <2>3, <2>7, <2>9, <2>10 DEF RowNow
  <2>13. /\ rows' \in [Uuids -> RowType] /\ \A d \in Uuids \ {u} : rows'[d] = rows[d]
         /\ rows'[u] = r
    BY <1>1, <2>11, <2>12, Writing
  <2>14. Types' BY <1>1, <1>2, <1>3, <2>2, <2>5, <2>6, <2>13 DEF Types
  <2>15. Alone(u) BY <1>2, <1>3, <2>2, <2>6, <2>13 DEF Alone
  <2>16. Own(u)' BY <1>2, <1>3, <2>1, <2>2, <2>4, <2>6, <2>11, <2>13, Makes
  <2> QED BY <2>14, <2>15, <2>16 DEF Good
<1>4. CASE Fault /\ FailCreate(u) /\ pods' = pods
  <2>1. FailWith(u, rows[u].ids) /\ rows[u].ids \in SUBSET Nat
    BY <1>1, <1>4, Fields DEF FailCreate
  <2>2. used' \in UsedType BY <1>1, <1>4, Counting
  <2> QED BY <1>2, <1>4, <2>1, <2>2, FailWithOk
<1> QED BY <1>3, <1>4 DEF DockerCreate

\* Containers come only after the network's answer.
LEMMA SandboxPluggedOk ==
    ASSUME IInv, NEW u \in Uuids, SandboxPlugged(u)
    PROVE  Good(u)
<1>1. Types BY DEF IInv
<1>2. /\ UNCHANGED <<rows, netns, driver, pods, inner, todo, spoilt, used>>
      /\ thr[u].pc = "plug" /\ Kind(u) = "cri"
  BY DEF SandboxPlugged, At
<1>3. u \in Capsules BY <1>1, <1>2, KindFact, Sorts
<1>4. thr' = [thr EXCEPT ![u].pc = "inner", ![u].i = 1] \/ Goto(u, "teardown")
  BY DEF SandboxPlugged
<1>5. "teardown" \in Pcs /\ "inner" \in Pcs BY DEF Pcs, Making, Filling
<1>6. /\ thr' \in [Uuids -> ThreadType] /\ \A d \in Uuids \ {u} : thr'[d] = thr[d]
      /\ thr'[u].op = thr[u].op
      /\ (thr'[u].pc = "inner" /\ thr'[u].i = 1) \/ thr'[u].pc = "teardown"
  <2>1. CASE Goto(u, "teardown") BY <1>1, <1>5, <2>1, Going
  <2>2. CASE thr' = [thr EXCEPT ![u].pc = "inner", ![u].i = 1]
    BY <1>1, <1>5, <2>2 DEF Types, ThreadType
  <2> QED BY <1>4, <2>1, <2>2
<1>7. Types' BY <1>1, <1>2, <1>6 DEF Types
<1>8. Alone(u) BY <1>2, <1>6 DEF Alone
<1>9. "plug" \in Making /\ "teardown" \in Making BY DEF Making
<1>10. Own(u)' BY <1>2, <1>3, <1>6, <1>9, Goes
<1> QED BY <1>7, <1>8, <1>10 DEF Good

\* A sandbox without network is taken away, with the row's host.
LEMMA SandboxFailsOk ==
    ASSUME IInv, NEW u \in Uuids, SandboxFails(u)
    PROVE  Good(u)
<1>1. Types BY DEF IInv
<1>2. /\ UNCHANGED <<driver, inner, todo, used>>
      /\ netns' = [netns EXCEPT ![u] = 0] /\ pods' = [pods EXCEPT ![u] = 0]
      /\ rows' = [rows EXCEPT ![u].status = "Error", ![u].host = FALSE]
      /\ spoilt' = spoilt \cup {u} /\ End(u)
  BY DEF SandboxFails
<1>3. /\ thr' \in [Uuids -> ThreadType] /\ \A d \in Uuids \ {u} : thr'[d] = thr[d]
      /\ thr'[u].pc = "idle" /\ thr'[u].op = "none"
  BY <1>1, <1>2, Ending
<1>4. PICK r : r = [rows[u] EXCEPT !.status = "Error", !.host = FALSE] OBVIOUS
<1>5. rows \in [Uuids -> RowType] /\ rows[u] \in RowType BY <1>1, Fields DEF Types
<1>6. /\ r \in RowType /\ r.exists = rows[u].exists /\ ~r.host
      /\ r.tpl = rows[u].tpl /\ r.cpu = rows[u].cpu /\ r.status = "Error"
  BY <1>4, <1>5 DEF RowType, Statuses
<1>7. RowNow(u, r) BY <1>2, <1>4, <1>5 DEF RowNow
<1>8. /\ rows' \in [Uuids -> RowType] /\ \A d \in Uuids \ {u} : rows'[d] = rows[d]
      /\ rows'[u] = r
  BY <1>1, <1>6, <1>7, Writing
<1>9. /\ netns' \in [Uuids -> Nat] /\ pods' \in [Uuids -> Nat] /\ pods'[u] = 0
      /\ \A d \in Uuids \ {u} : pods'[d] = pods[d]
  BY <1>1, <1>2 DEF Types
<1>10. Types' BY <1>1, <1>2, <1>3, <1>8, <1>9 DEF Types
<1>11. Alone(u) BY <1>2, <1>3, <1>8, <1>9 DEF Alone
<1>12. Own(u)' BY <1>2, <1>3, <1>6, <1>8, <1>9, Ends
<1> QED BY <1>10, <1>11, <1>12 DEF Good

\* A start changes the namespace, not who is there.
LEMMA DockerStartOk ==
    ASSUME IInv, NEW u \in Uuids, DockerStart(u)
    PROVE  Good(u)
<1>1. Types /\ used \in UsedType /\ used.ns \in [Uuids -> Nat] BY Fields DEF IInv, Types
<1>2. /\ UNCHANGED <<rows, driver, pods, inner, todo, spoilt>> /\ thr[u].pc = "start"
      /\ used' = [used EXCEPT !.ns[u] = @ + 1]
      /\ netns' = [netns EXCEPT ![u] = used.ns[u] + 1] /\ Goto(u, "inspect")
  BY DEF DockerStart, At
<1>3. "inspect" \in Pcs /\ "inspect" \in Making /\ "start" \in Making BY DEF Pcs, Making
<1>4. /\ thr' \in [Uuids -> ThreadType] /\ \A d \in Uuids \ {u} : thr'[d] = thr[d]
      /\ thr'[u].pc = "inspect" /\ thr'[u].op = thr[u].op
  BY <1>1, <1>2, <1>3, Going
<1>5. used' \in UsedType BY <1>1, <1>2 DEF UsedType
<1>6. netns' \in [Uuids -> Nat]
  <2>1. used.ns[u] + 1 \in Nat BY <1>1
  <2> QED BY <1>1, <1>2, <2>1 DEF Types
<1>7. Types' BY <1>1, <1>2, <1>4, <1>5, <1>6 DEF Types
<1>8. Alone(u) BY <1>2, <1>4 DEF Alone
<1>9. Own(u)' BY <1>2, <1>3, <1>4, Goes
<1> QED BY <1>7, <1>8, <1>9 DEF Good

\* A start that came to its end.
LEMMA StartedFact ==
    ASSUME Types, NEW u \in Uuids, NEW s \in {"Running", "Stopped"}, Started(u, s)
    PROVE  /\ rows' \in [Uuids -> RowType] /\ \A d \in Uuids \ {u} : rows'[d] = rows[d]
           /\ rows'[u].status = s
           /\ rows'[u].exists = rows[u].exists /\ rows'[u].host = rows[u].host
           /\ rows'[u].tpl = rows[u].tpl /\ rows'[u].cpu = rows[u].cpu
           /\ rows'[u].cid = rows[u].cid /\ rows'[u].ids = rows[u].ids
           /\ thr' \in [Uuids -> ThreadType] /\ \A d \in Uuids \ {u} : thr'[d] = thr[d]
           /\ thr'[u].op \in {"none", thr[u].op}
           /\ \/ u \in Boxes /\ thr'[u].pc = "idle"
              \/ u \in Capsules /\ thr'[u].pc = "inner" /\ thr'[u].i = 1
<1>1. s \in Statuses /\ rows' = [rows EXCEPT ![u].status = s] BY DEF Statuses, Started
<1>2. PICK t : t = IF Kind(u) = "container" THEN Idle ELSE [thr[u] EXCEPT !.pc = "inner", !.i = 1]
  OBVIOUS
<1>3. thr[u] \in ThreadType /\ thr \in [Uuids -> ThreadType] BY Fields DEF Types
<1>4. thr' = [thr EXCEPT ![u] = t] BY <1>2, <1>3 DEF Started
<1>5. /\ t \in ThreadType /\ t.op \in {"none", thr[u].op}
      /\ \/ u \in Boxes /\ t.pc = "idle"
         \/ u \in Capsules /\ t.pc = "inner" /\ t.i = 1
  <2>1. CASE u \in Boxes
    <3>1. t = Idle BY <1>2, <2>1, KindFact
    <3> QED BY <2>1, <3>1 DEF Idle, ThreadType, Pcs
  <2>2. CASE u \in Capsules
    <3>1. t = [thr[u] EXCEPT !.pc = "inner", !.i = 1] BY <1>2, <2>2, KindFact, Sorts
    <3> QED BY <1>3, <2>2, <3>1 DEF ThreadType, Pcs, Filling
  <2> QED BY <2>1, <2>2, Sorts
<1>6. /\ thr' \in [Uuids -> ThreadType] /\ \A d \in Uuids \ {u} : thr'[d] = thr[d]
  /\ thr'[u] = t
  BY <1>3, <1>4, <1>5
<1>7. /\ rows' \in [Uuids -> RowType] /\ \A d \in Uuids \ {u} : rows'[d] = rows[d]
      /\ rows'[u].status = s
      /\ rows'[u].exists = rows[u].exists /\ rows'[u].host = rows[u].host
      /\ rows'[u].tpl = rows[u].tpl /\ rows'[u].cpu = rows[u].cpu
      /\ rows'[u].cid = rows[u].cid /\ rows'[u].ids = rows[u].ids
  BY <1>1, Stating
<1>8. /\ thr'[u].op \in {"none", thr[u].op}
      /\ \/ u \in Boxes /\ thr'[u].pc = "idle"
         \/ u \in Capsules /\ thr'[u].pc = "inner" /\ thr'[u].i = 1
  BY <1>5, <1>6
<1> QED BY <1>6, <1>7, <1>8

\* A network that could not be had.
LEMMA NetworkFailedOk ==
    ASSUME IInv, NEW u \in Uuids, NetworkFailed(u), thr[u].pc \in Making,
           pods' = pods, inner' = inner, todo' = todo, spoilt' = spoilt, driver' = driver, used' = used
    PROVE  Good(u)
<1>1. Types /\ Own(u) BY DEF IInv, Inv
<1>2. CASE /\ thr[u].op = "reboot" /\ rows' = [rows EXCEPT ![u].status = "Error"]
           /\ End(u) /\ netns' = netns
  <2>1. u \in Boxes BY <1>1, <1>2, Sorts DEF Own, CapsuleOk, Placed
  <2>2. "Error" \in Statuses BY DEF Statuses
  <2>3. /\ rows' \in [Uuids -> RowType] /\ \A d \in Uuids \ {u} : rows'[d] = rows[d]
        /\ rows'[u].status = "Error"
        /\ rows'[u].exists = rows[u].exists /\ rows'[u].host = rows[u].host
        /\ rows'[u].tpl = rows[u].tpl /\ rows'[u].cpu = rows[u].cpu
        /\ rows'[u].cid = rows[u].cid /\ rows'[u].ids = rows[u].ids
    BY <1>1, <1>2, <2>2, Stating
  <2>4. /\ thr' \in [Uuids -> ThreadType] /\ \A d \in Uuids \ {u} : thr'[d] = thr[d]
        /\ thr'[u].pc = "idle" /\ thr'[u].op = "none"
    BY <1>1, <1>2, Ending
  <2>5. Types' BY <1>1, <1>2, <2>3, <2>4 DEF Types
  <2>6. Alone(u) BY <2>3, <2>4 DEF Alone
  <2>7. Own(u)' BY <2>1, <2>3, <2>4, Goes
  <2> QED BY <2>5, <2>6, <2>7 DEF Good
<1>3. CASE netns' = [netns EXCEPT ![u] = 0] /\ Started(u, "Stopped")
  <2>1. /\ rows' \in [Uuids -> RowType] /\ \A d \in Uuids \ {u} : rows'[d] = rows[d]
        /\ rows'[u].status = "Stopped"
        /\ rows'[u].exists = rows[u].exists /\ rows'[u].host = rows[u].host
        /\ rows'[u].tpl = rows[u].tpl /\ rows'[u].cpu = rows[u].cpu
        /\ rows'[u].cid = rows[u].cid /\ rows'[u].ids = rows[u].ids
        /\ thr' \in [Uuids -> ThreadType] /\ \A d \in Uuids \ {u} : thr'[d] = thr[d]
        /\ thr'[u].op \in {"none", thr[u].op}
        /\ \/ u \in Boxes /\ thr'[u].pc = "idle"
           \/ u \in Capsules /\ thr'[u].pc = "inner" /\ thr'[u].i = 1
    BY <1>1, <1>3, StartedFact
  <2>2. Types' BY <1>1, <1>3, <2>1 DEF Types
  <2>3. Alone(u) BY <2>1 DEF Alone
  <2>4. Own(u)' BY <2>1, Goes
  <2> QED BY <2>2, <2>3, <2>4 DEF Good
<1> QED BY <1>2, <1>3 DEF NetworkFailed

\* A start that worked.
LEMMA RunningOk ==
    ASSUME IInv, NEW u \in Uuids, Started(u, "Running"), thr[u].pc \in Making,
           pods' = pods, inner' = inner, todo' = todo, spoilt' = spoilt, driver' = driver, used' = used,
           netns' = netns
    PROVE  Good(u)
<1>1. Types BY DEF IInv
<1>2. /\ rows' \in [Uuids -> RowType] /\ \A d \in Uuids \ {u} : rows'[d] = rows[d]
      /\ rows'[u].status = "Running"
      /\ rows'[u].exists = rows[u].exists /\ rows'[u].host = rows[u].host
      /\ rows'[u].tpl = rows[u].tpl /\ rows'[u].cpu = rows[u].cpu
      /\ rows'[u].cid = rows[u].cid /\ rows'[u].ids = rows[u].ids
      /\ thr' \in [Uuids -> ThreadType] /\ \A d \in Uuids \ {u} : thr'[d] = thr[d]
      /\ thr'[u].op \in {"none", thr[u].op}
      /\ \/ u \in Boxes /\ thr'[u].pc = "idle"
         \/ u \in Capsules /\ thr'[u].pc = "inner" /\ thr'[u].i = 1
  BY <1>1, StartedFact
<1>3. Types' BY <1>1, <1>2 DEF Types
<1>4. Alone(u) BY <1>2 DEF Alone
<1>5. Own(u)' BY <1>2, Goes
<1> QED BY <1>3, <1>4, <1>5 DEF Good

\* The same process, or a call of the daemon.
LEMMA OnStartedOk ==
    ASSUME IInv, NEW u \in Uuids, on_container_started(u)
    PROVE  Good(u)
<1>1. Types BY DEF IInv
<1>2. /\ UNCHANGED <<netns, driver, pods, inner, todo, spoilt, used>> /\ thr[u].pc = "inspect"
  BY DEF on_container_started, At
<1>3. "inspect" \in Making BY DEF Making
<1>4. CASE Started(u, "Running") BY <1>2, <1>3, <1>4, RunningOk
<1>5. CASE /\ rows' = rows
           /\ thr' = [thr EXCEPT ![u].pc = IF rows[u].pid # 0 THEN "unplug" ELSE "plug",
                                 ![u].ns = netns[u]]
  <2>1. PICK p : p = IF rows[u].pid # 0 THEN "unplug" ELSE "plug" OBVIOUS
  <2>2. p \in {"unplug", "plug"} /\ p \in Pcs /\ p \in Making BY <2>1 DEF Pcs, Making
  <2>3. netns[u] \in Nat BY <1>1 DEF Types
  <2>4. /\ thr' \in [Uuids -> ThreadType] /\ \A d \in Uuids \ {u} : thr'[d] = thr[d]
        /\ thr'[u].pc = p /\ thr'[u].op = thr[u].op
    BY <1>1, <1>5, <2>1, <2>2, <2>3, ZenonT(30) DEF Types, ThreadType
  <2>5. Types' BY <1>1, <1>2, <1>5, <2>4 DEF Types
  <2>6. Alone(u) BY <1>2, <1>5, <2>4 DEF Alone
  <2>7. Own(u)' BY <1>2, <1>3, <1>5, <2>2, <2>4, Goes
  <2> QED BY <2>5, <2>6, <2>7 DEF Good
<1> QED BY <1>4, <1>5 DEF on_container_started

\* After the DEL of the old namespace comes the ADD of the new one.
LEMMA OldUnpluggedOk ==
    ASSUME IInv, NEW u \in Uuids, OldUnplugged(u)
    PROVE  Good(u)
<1>1. Types BY DEF IInv
<1>2. /\ UNCHANGED <<driver, pods, inner, todo, spoilt, used>> /\ thr[u].pc = "unplug"
  BY DEF OldUnplugged, At
<1>3. "unplug" \in Making /\ "plug" \in Making /\ "plug" \in Pcs BY DEF Making, Pcs
<1>4. CASE NetworkFailed(u) BY <1>2, <1>3, <1>4, NetworkFailedOk
<1>5. CASE rows' = [rows EXCEPT ![u].pid = 0] /\ Goto(u, "plug") /\ netns' = netns
  <2>1. 0 \in Nat OBVIOUS
  <2>2. /\ rows' \in [Uuids -> RowType] /\ \A d \in Uuids \ {u} : rows'[d] = rows[d]
        /\ rows'[u].status = rows[u].status
        /\ rows'[u].exists = rows[u].exists /\ rows'[u].host = rows[u].host
        /\ rows'[u].tpl = rows[u].tpl /\ rows'[u].cpu = rows[u].cpu
        /\ rows'[u].cid = rows[u].cid /\ rows'[u].ids = rows[u].ids
    BY <1>1, <1>5, <2>1, Recording
  <2>3. /\ thr' \in [Uuids -> ThreadType] /\ \A d \in Uuids \ {u} : thr'[d] = thr[d]
        /\ thr'[u].pc = "plug" /\ thr'[u].op = thr[u].op
    BY <1>1, <1>3, <1>5, Going
  <2>4. Types' BY <1>1, <1>2, <1>5, <2>2, <2>3 DEF Types
  <2>5. Alone(u) BY <1>2, <2>2, <2>3 DEF Alone
  <2>6. Own(u)' BY <1>2, <1>3, <2>2, <2>3, Goes
  <2> QED BY <2>4, <2>5, <2>6 DEF Good
<1> QED BY <1>4, <1>5 DEF OldUnplugged

\* The daemon's answer to an ADD.
LEMMA ContainerPluggedOk ==
    ASSUME IInv, NEW u \in Uuids, ContainerPlugged(u)
    PROVE  Good(u)
<1>1. Types BY DEF IInv
<1>2. /\ UNCHANGED <<driver, pods, inner, todo, spoilt, used>> /\ thr[u].pc = "plug"
  BY DEF ContainerPlugged, At
<1>3. "plug" \in Making /\ "touch" \in Making /\ "touch" \in Pcs BY DEF Making, Pcs
<1>4. CASE NetworkFailed(u) BY <1>2, <1>3, <1>4, NetworkFailedOk
<1>5. CASE rows' = [rows EXCEPT ![u].pid = thr[u].ns] /\ Goto(u, "touch") /\ netns' = netns
  <2>1. thr[u].ns \in Nat BY <1>1, Fields
  <2>2. /\ rows' \in [Uuids -> RowType] /\ \A d \in Uuids \ {u} : rows'[d] = rows[d]
        /\ rows'[u].status = rows[u].status
        /\ rows'[u].exists = rows[u].exists /\ rows'[u].host = rows[u].host
        /\ rows'[u].tpl = rows[u].tpl /\ rows'[u].cpu = rows[u].cpu
        /\ rows'[u].cid = rows[u].cid /\ rows'[u].ids = rows[u].ids
    BY <1>1, <1>5, <2>1, Recording
  <2>3. /\ thr' \in [Uuids -> ThreadType] /\ \A d \in Uuids \ {u} : thr'[d] = thr[d]
        /\ thr'[u].pc = "touch" /\ thr'[u].op = thr[u].op
    BY <1>1, <1>3, <1>5, Going
  <2>4. Types' BY <1>1, <1>2, <1>5, <2>2, <2>3 DEF Types
  <2>5. Alone(u) BY <1>2, <2>2, <2>3 DEF Alone
  <2>6. Own(u)' BY <1>2, <1>3, <2>2, <2>3, Goes
  <2> QED BY <2>4, <2>5, <2>6 DEF Good
<1> QED BY <1>4, <1>5 DEF ContainerPlugged

\* The ready file, which a container that is down does not get.
LEMMA TouchReadyOk ==
    ASSUME IInv, NEW u \in Uuids, TouchReady(u)
    PROVE  Good(u)
<1>1. Types /\ Own(u) BY DEF IInv, Inv
<1>2. /\ UNCHANGED <<driver, pods, inner, todo, spoilt, used>> /\ thr[u].pc = "touch"
  BY DEF TouchReady, At
<1>3. "touch" \in Making /\ "cleanup" \in Making /\ "cleanup" \in Pcs BY DEF Making, Pcs
<1>4. CASE Started(u, "Running") /\ netns' = netns BY <1>2, <1>3, <1>4, RunningOk
<1>5. CASE Goto(u, "cleanup") /\ rows' = rows /\ netns' = netns
  <2>1. /\ thr' \in [Uuids -> ThreadType] /\ \A d \in Uuids \ {u} : thr'[d] = thr[d]
        /\ thr'[u].pc = "cleanup" /\ thr'[u].op = thr[u].op
    BY <1>1, <1>3, <1>5, Going
  <2>2. Types' BY <1>1, <1>2, <1>5, <2>1 DEF Types
  <2>3. Alone(u) BY <1>2, <1>5, <2>1 DEF Alone
  <2>4. Own(u)' BY <1>2, <1>3, <1>5, <2>1, Goes
  <2> QED BY <2>2, <2>3, <2>4 DEF Good
<1>6. CASE /\ thr[u].op = "reboot" /\ rows' = [rows EXCEPT ![u].status = "Error"]
           /\ End(u) /\ netns' = netns
  <2>1. NetworkFailed(u) BY <1>6 DEF NetworkFailed
  <2> QED BY <1>2, <1>3, <2>1, NetworkFailedOk
<1> QED BY <1>4, <1>5, <1>6 DEF TouchReady

\* The DEL of a stop, or of a start without ready file, was answered.
LEMMA UnpluggedOk ==
    ASSUME IInv, NEW u \in Uuids, Unplugged(u)
    PROVE  Good(u)
<1>1. Types /\ Own(u) BY DEF IInv, Inv
<1>2. /\ UNCHANGED <<netns, driver, pods, inner, todo, spoilt, used>>
      /\ thr[u].pc \in {"cleanup", "stopping"}
  BY DEF Unplugged
<1>3. PICK p : p = IF answer[u] = "ok" THEN 0 ELSE rows[u].pid OBVIOUS
<1>4. rows \in [Uuids -> RowType] /\ rows[u] \in RowType /\ thr \in [Uuids -> ThreadType]
      /\ thr[u] \in ThreadType
  BY <1>1, Fields DEF Types
<1>5. p \in Nat BY <1>3, <1>4 DEF RowType
<1>6. PICK r : r = [rows[u] EXCEPT !.pid = p, !.status = "Stopped"] OBVIOUS
<1>7. /\ r \in RowType /\ r.exists = rows[u].exists /\ r.host = rows[u].host
      /\ r.tpl = rows[u].tpl /\ r.cpu = rows[u].cpu /\ r.cid = rows[u].cid
      /\ r.status = "Stopped" /\ r.ids = rows[u].ids
  BY <1>4, <1>5, <1>6 DEF RowType, Statuses
<1>8. RowNow(u, r) BY <1>3, <1>4, <1>6 DEF RowNow, Unplugged
<1>9. /\ rows' \in [Uuids -> RowType] /\ \A d \in Uuids \ {u} : rows'[d] = rows[d]
      /\ rows'[u] = r
  BY <1>1, <1>7, <1>8, Writing
<1>10. PICK t : t = IF thr[u].pc = "stopping" \/ Kind(u) = "container"
                    THEN Idle ELSE [thr[u] EXCEPT !.pc = "inner", !.i = 1]
  OBVIOUS
<1>11. thr' = [thr EXCEPT ![u] = t] BY <1>4, <1>10 DEF Unplugged, At
<1>12. u \in Capsules => thr[u].pc = "cleanup" BY <1>1, <1>2 DEF Own, CapsuleOk, Placed
<1>13. /\ t \in ThreadType /\ t.op \in {"none", thr[u].op}
       /\ \/ u \in Boxes /\ t.pc = "idle"
          \/ u \in Capsules /\ t.pc = "inner" /\ t.i = 1
  <2>1. CASE u \in Boxes
    <3>1. t = Idle BY <1>1, <1>10, <2>1, KindFact
    <3> QED BY <2>1, <3>1 DEF Idle, ThreadType, Pcs
  <2>2. CASE u \in Capsules
    <3>1. t = [thr[u] EXCEPT !.pc = "inner", !.i = 1] BY <1>1, <1>10, <1>12, <2>2, KindFact, Sorts
    <3> QED BY <1>4, <2>2, <3>1 DEF ThreadType, Pcs, Filling
  <2> QED BY <2>1, <2>2, Sorts
<1>14. /\ thr' \in [Uuids -> ThreadType] /\ \A d \in Uuids \ {u} : thr'[d] = thr[d]
  /\ thr'[u] = t
  BY <1>4, <1>11, <1>13
<1>15. Types' BY <1>1, <1>2, <1>9, <1>14 DEF Types
<1>16. Alone(u) BY <1>2, <1>9, <1>14 DEF Alone
<1>17. CASE thr[u].pc = "cleanup"
  <2>1. thr[u].pc \in Making BY <1>17 DEF Making
  <2>2. /\ thr'[u].op \in {"none", thr[u].op}
        /\ \/ u \in Boxes /\ thr'[u].pc = "idle"
           \/ u \in Capsules /\ thr'[u].pc = "inner" /\ thr'[u].i = 1
    BY <1>13, <1>14
  <2>3. Own(u)' BY <1>2, <1>7, <1>9, <2>1, <2>2, Goes
  <2> QED BY <1>15, <1>16, <2>3 DEF Good
<1>18. CASE thr[u].pc = "stopping"
  <2>1. u \in Boxes /\ u \notin Capsules BY <1>12, <1>18, Sorts
  <2>2. Blank(u)' <=> Blank(u) BY <1>2 DEF Blank
  <2>3. thr'[u].pc = "idle" BY <1>13, <1>14, <2>1
  <2>4. BoxOk(u) /\ rows[u].exists BY <1>1, <1>18, <2>1 DEF Own, BoxOk
  <2>5. rows'[u].exists /\ pods'[u] = pods[u] BY <1>2, <1>7, <1>9, <2>4
  <2>6. BoxOk(u)' BY <2>2, <2>3, <2>4, <2>5 DEF BoxOk
  <2> QED BY <1>15, <1>16, <2>1, <2>6 DEF Good, Own
<1> QED BY <1>2, <1>17, <1>18

-----------------------------------------------------------------------------
(* The containers in a capsule *)

\* The next container in the capsule of u is running.
Fills(u) ==
    /\ thr[u].pc = "inner" /\ thr[u].i <= Len(Merged(rows[u].tpl))
    /\ inner' = [inner EXCEPT ![u][thr[u].i] = "running"]

\* Whatever becomes of the thread, containers are still in their order.
LEMMA FillsInOrder ==
    ASSUME IInv, NEW u \in Uuids, NEW i, i = thr[u].i, Fills(u), rows'[u].tpl = rows[u].tpl
    PROVE  /\ u \in Capsules /\ u \notin Boxes
           /\ i \in 1..MaxInner
           /\ inner' \in [Uuids -> [1..MaxInner -> Phases]]
           /\ \A d \in Uuids \ {u} : inner'[d] = inner[d]
           /\ inner'[u][i] = "running"
           /\ \A j \in 1..MaxInner : j # i => inner'[u][j] = inner[u][j]
           /\ \A j \in 1..MaxInner : j > i => inner'[u][j] = "none"
           /\ EndedBefore(u, i)'
           /\ \A j \in 1..MaxInner : inner'[u][j] # "none" => EndedBefore(u, j)'
<1>1. Types /\ Own(u) BY DEF IInv, Inv
<1>2. u \in Capsules /\ u \notin Boxes BY <1>1, Sorts DEF Own, BoxOk, Making, Fills
<1>3. CapsuleOk(u) BY <1>1, <1>2 DEF Own
<1>4. i = thr[u].i OBVIOUS
<1>5. /\ i \in Nat /\ i > 0 /\ EndedBefore(u, i) /\ \A j \in 1..MaxInner : j >= i => inner[u][j] = "none"
  BY <1>1, <1>3, <1>4, Fields DEF CapsuleOk, Ordered, Fills, Filling
<1>6. PICK t : t = rows[u].tpl OBVIOUS
<1>7. i \in 1..MaxInner
  <2>1. t \in Templates \cup {NoTemplate} BY <1>1, <1>6, Fields
  <2>2. Len(Merged(t)) <= MaxInner /\ MaxInner \in Nat /\ Len(Merged(t)) \in Nat
    BY <2>1, MaxInnerFact, TemplateFact
  <2>3. i <= Len(Merged(t)) BY <1>4, <1>6 DEF Fills
  <2> QED BY <1>5, <2>2, <2>3
<1>8. inner \in [Uuids -> [1..MaxInner -> Phases]] BY <1>1 DEF Types
<1>9. inner' = [inner EXCEPT ![u][i] = "running"] BY <1>4 DEF Fills
<1>10. /\ inner' \in [Uuids -> [1..MaxInner -> Phases]]
       /\ \A d \in Uuids \ {u} : inner'[d] = inner[d]
       /\ inner'[u][i] = "running"
       /\ \A j \in 1..MaxInner : j # i => inner'[u][j] = inner[u][j]
  BY <1>7, <1>8, <1>9 DEF Phases
<1>11. MaxInner \in Nat BY MaxInnerFact
<1>12. \A j \in 1..MaxInner : j > i => inner'[u][j] = "none" BY <1>5, <1>10, <1>11
<1>13. ASSUME NEW j \in 1..MaxInner, j <= i, EndedBefore(u, j) PROVE EndedBefore(u, j)'
  <2>1. ASSUME NEW k \in 1..MaxInner, k < j, IsInit(rows'[u].tpl, k) PROVE inner'[u][k] = "exited"
    <3>1. k # i BY <1>5, <1>11, <1>13, <2>1
    <3>2. inner[u][k] = "exited" BY <1>13, <2>1 DEF EndedBefore
    <3> QED BY <1>10, <3>1, <3>2
  <2> QED BY <2>1 DEF EndedBefore
<1>14. EndedBefore(u, i)' BY <1>5, <1>7, <1>13
<1>15. ASSUME NEW j \in 1..MaxInner, inner'[u][j] # "none" PROVE EndedBefore(u, j)'
  <2>1. j <= i BY <1>5, <1>11, <1>12, <1>15
  <2>2. CASE j = i BY <1>14, <2>2
  <2>3. CASE j # i
    <3>1. inner[u][j] # "none" BY <1>10, <1>15, <2>3
    <3>2. rows[u].exists
      BY <1>3 DEF CapsuleOk, Placed, Fills, Filling
    <3>3. EndedBefore(u, j) BY <1>3, <3>1, <3>2 DEF CapsuleOk, Ordered
    <3> QED BY <1>13, <2>1, <3>3
  <2> QED BY <2>2, <2>3
<1> QED BY <1>2, <1>4, <1>7, <1>10, <1>12, <1>14, <1>15

\* A container that was started and recorded.
LEMMA FilledOk ==
    ASSUME IInv, NEW u \in Uuids, Fills(u),
           rows' = [rows EXCEPT ![u].ids = @ \cup {thr[u].i}],
           NextInner(u),
           pods' = pods, todo' = todo, spoilt' = spoilt, driver' = driver, netns' = netns, used' = used
    PROVE  Good(u)
<1>1. Types /\ Own(u) BY DEF IInv, Inv
<1>2. PICK i : i = thr[u].i OBVIOUS
<1>3. rows \in [Uuids -> RowType] /\ rows[u] \in RowType /\ thr \in [Uuids -> ThreadType]
      /\ thr[u] \in ThreadType /\ i \in Nat /\ rows[u].ids \in SUBSET Nat
  BY <1>1, <1>2, Fields DEF Types
<1>4. PICK r : r = [rows[u] EXCEPT !.ids = rows[u].ids \cup {i}] OBVIOUS
<1>5. /\ r \in RowType /\ r.exists = rows[u].exists /\ r.host = rows[u].host
      /\ r.tpl = rows[u].tpl /\ r.cpu = rows[u].cpu /\ r.cid = rows[u].cid
      /\ r.status = rows[u].status /\ r.ids = rows[u].ids \cup {i}
  BY <1>3, <1>4 DEF RowType
<1>6. RowNow(u, r) BY <1>2, <1>3, <1>4 DEF RowNow
<1>7. /\ rows' \in [Uuids -> RowType] /\ \A d \in Uuids \ {u} : rows'[d] = rows[d]
      /\ rows'[u] = r
  BY <1>1, <1>5, <1>6, Writing
<1>8. /\ u \in Capsules /\ u \notin Boxes
      /\ i \in 1..MaxInner
      /\ inner' \in [Uuids -> [1..MaxInner -> Phases]]
      /\ \A d \in Uuids \ {u} : inner'[d] = inner[d]
      /\ inner'[u][i] = "running"
      /\ \A j \in 1..MaxInner : j # i => inner'[u][j] = inner[u][j]
      /\ \A j \in 1..MaxInner : j > i => inner'[u][j] = "none"
      /\ EndedBefore(u, i)'
      /\ \A j \in 1..MaxInner : inner'[u][j] # "none" => EndedBefore(u, j)'
  BY <1>2, <1>5, <1>7, FillsInOrder
<1>9. PICK b : b = IsInit(rows[u].tpl, i) OBVIOUS
<1>10. PICK t : t = [thr[u] EXCEPT !.pc = IF b THEN "init" ELSE "inner", !.i = IF b THEN i ELSE i + 1]
  OBVIOUS
<1>11. thr' = [thr EXCEPT ![u] = t] BY <1>2, <1>3, <1>9, <1>10 DEF NextInner
<1>12. /\ t \in ThreadType /\ t.op = thr[u].op
       /\ \/ b /\ t.pc = "init" /\ t.i = i
          \/ ~b /\ t.pc = "inner" /\ t.i = i + 1
  <2>1. b \in BOOLEAN BY <1>9 DEF IsInit
  <2>2. CASE b BY <1>3, <1>10, <2>2 DEF ThreadType, Pcs, Filling
  <2>3. CASE ~b
    <3>1. PICK k : k = i + 1 OBVIOUS
    <3>2. k \in Nat BY <1>3, <3>1
    <3>3. t = [thr[u] EXCEPT !.pc = "inner", !.i = k] BY <1>10, <2>3, <3>1
    <3>4. t \in ThreadType /\ t.op = thr[u].op /\ t.pc = "inner" /\ t.i = k
      BY <1>3, <3>2, <3>3 DEF ThreadType, Pcs, Filling
    <3> QED BY <2>3, <3>1, <3>4
  <2> QED BY <2>1, <2>2, <2>3
<1>13. /\ thr' \in [Uuids -> ThreadType] /\ \A d \in Uuids \ {u} : thr'[d] = thr[d]
       /\ thr'[u] = t
  BY <1>3, <1>11, <1>12
<1>14. Types' BY <1>1, <1>7, <1>8, <1>13 DEF Types
<1>15. Alone(u) BY <1>7, <1>8, <1>13 DEF Alone
<1>16. CapsuleOk(u) BY <1>1, <1>8 DEF Own
<1>17. thr[u].pc = "inner" BY DEF Fills
<1>18. thr'[u].pc \in Filling BY <1>12, <1>13 DEF Filling
<1>19. /\ rows[u].host /\ rows[u].exists /\ pods[u] # 0 /\ rows[u].status # "none" /\ thr[u].op # "reboot"
  BY <1>16, <1>17 DEF CapsuleOk, Placed, Filling
<1>20. Placed(u)'
  BY <1>5, <1>7, <1>12, <1>13, <1>18, <1>19 DEF Placed, Api, Before, Making, Filling
<1>21. Ordered(u)'
  <2>1. CASE b /\ thr'[u].pc = "init" /\ thr'[u].i = i
    BY <1>3, <1>8, <2>1, MaxInnerFact DEF Ordered
  <2>2. CASE ~b /\ thr'[u].pc = "inner" /\ thr'[u].i = i + 1
    <3>1. EndedBefore(u, i + 1)'
      <4>1. ASSUME NEW k \in 1..MaxInner, k < i + 1, IsInit(rows'[u].tpl, k)
            PROVE  inner'[u][k] = "exited"
        <5>1. k # i BY <1>5, <1>7, <1>9, <2>2, <4>1
        <5>2. k < i BY <1>3, <4>1, <5>1, MaxInnerFact
        <5> QED BY <1>8, <4>1, <5>2 DEF EndedBefore
      <4> QED BY <4>1 DEF EndedBefore
    <3>2. \A j \in 1..MaxInner : j >= i + 1 => inner'[u][j] = "none" BY <1>3, <1>8, MaxInnerFact
    <3>3. i + 1 > 0 BY <1>3
    <3> QED BY <1>8, <2>2, <3>1, <3>2, <3>3 DEF Ordered
  <2> QED BY <1>12, <1>13, <2>1, <2>2
<1>22. Claimed(u)' BY <1>5, <1>7, <1>16, <1>17, <1>19 DEF CapsuleOk, Claimed, Filling
<1>23. u \notin spoilt' => Sound(u)'
  <2>1. \A j \in 1..MaxInner : inner'[u][j] # "none" => inner[u][j] # "none" \/ j = i BY <1>8
  <2> QED BY <1>5, <1>7, <1>16, <1>17, <1>18, <1>19, <2>1 DEF CapsuleOk, Sound, Filling, Blank
<1> QED BY <1>8, <1>14, <1>15, <1>20, <1>21, <1>22, <1>23 DEF Good, Own, CapsuleOk

\* The CRI driver fills the sandbox.
LEMMA CreateContainerOk ==
    ASSUME IInv, NEW u \in Uuids, _create_container(u)
    PROVE  Good(u)
<1>1. Types BY DEF IInv
<1>2. /\ thr[u].pc = "inner" /\ thr[u].i <= Len(Merged(rows[u].tpl))
      /\ UNCHANGED <<netns, driver, pods, todo>>
  BY DEF _create_container, At, netQuiet
<1>3. thr[u].i \in Nat /\ rows[u].ids \in SUBSET Nat BY <1>1, Fields
<1>4. CASE /\ inner' = [inner EXCEPT ![u][thr[u].i] = "running"]
           /\ rows' = [rows EXCEPT ![u].ids = @ \cup {thr[u].i}]
           /\ NextInner(u) /\ UNCHANGED <<used, spoilt>>
  BY <1>2, <1>4, FilledOk DEF Fills
<1>5. CASE /\ Fault \/ used' = used
           /\ \E ids \in {{}, {thr[u].i}} : FailWith(u, rows[u].ids \cup ids)
           /\ inner' = inner
  <2>1. PICK ids \in {{}, {thr[u].i}} : FailWith(u, rows[u].ids \cup ids) BY <1>5
  <2>2. rows[u].ids \cup ids \in SUBSET Nat BY <1>3, <2>1
  <2>3. used' \in UsedType BY <1>1, <1>5, Counting
  <2> QED BY <1>2, <1>5, <2>1, <2>2, <2>3, FailWithOk
<1> QED BY <1>4, <1>5 DEF _create_container

\* The Docker driver fills the sandbox.
LEMMA CreateInCapsuleOk ==
    ASSUME IInv, NEW u \in Uuids, _create_container_in_capsule(u)
    PROVE  Good(u)
<1>1. Types BY DEF IInv
<1>2. /\ thr[u].pc = "inner" /\ thr[u].i <= Len(Merged(rows[u].tpl))
      /\ UNCHANGED <<netns, driver, pods, todo>>
  BY DEF _create_container_in_capsule, At, netQuiet
<1>3. rows[u].ids \in SUBSET Nat BY <1>1, Fields
<1>4. CASE /\ inner' = [inner EXCEPT ![u][thr[u].i] = "running"]
           /\ rows' = [rows EXCEPT ![u].ids = @ \cup {thr[u].i}]
           /\ NextInner(u) /\ UNCHANGED <<used, spoilt>>
  BY <1>2, <1>4, FilledOk DEF Fills
<1>5. CASE /\ Fault /\ FailCreate(u)
           /\ inner' = [inner EXCEPT ![u][thr[u].i] = "running"]
  <2>1. FailWith(u, rows[u].ids) BY <1>5 DEF FailCreate
  <2>2. /\ rows' \in [Uuids -> RowType] /\ \A d \in Uuids \ {u} : rows'[d] = rows[d]
        /\ rows'[u].exists = rows[u].exists /\ ~rows'[u].host /\ rows'[u].status = "Error"
        /\ rows'[u].tpl = rows[u].tpl /\ rows'[u].cpu = rows[u].cpu
        /\ spoilt' = spoilt \cup {u} /\ spoilt' \in SUBSET Uuids /\ End(u)
    BY <1>1, <1>3, <2>1, Failing
  <2>3. /\ thr' \in [Uuids -> ThreadType] /\ \A d \in Uuids \ {u} : thr'[d] = thr[d]
        /\ thr'[u].pc = "idle" /\ thr'[u].op = "none"
    BY <1>1, <2>2, Ending
  <2>4. used' \in UsedType BY <1>1, <1>5, Counting
  <2>5. /\ u \in Capsules /\ u \notin Boxes
        /\ inner' \in [Uuids -> [1..MaxInner -> Phases]]
        /\ \A d \in Uuids \ {u} : inner'[d] = inner[d]
        /\ \A j \in 1..MaxInner : inner'[u][j] # "none" => EndedBefore(u, j)'
    <3>1. PICK i : i = thr[u].i OBVIOUS
    <3> QED BY <1>2, <1>5, <2>2, <3>1, FillsInOrder, ZenonT(30) DEF Fills
  <2>6. Types' BY <1>1, <1>2, <2>2, <2>3, <2>4, <2>5 DEF Types
  <2>7. Alone(u) BY <1>2, <2>2, <2>3, <2>5 DEF Alone
  <2>8. CapsuleOk(u) BY <2>5 DEF IInv, Inv, Own
  <2>9. Placed(u)'
    BY <1>2, <2>2, <2>3, <2>8 DEF CapsuleOk, Placed, Api, Before, Making, Filling
  <2>10. Ordered(u)' BY <2>3, <2>5 DEF Ordered, Filling
  <2>11. Claimed(u)' BY <1>2, <2>2, <2>3, <2>8 DEF CapsuleOk, Claimed, Filling
  <2> QED BY <2>2, <2>5, <2>6, <2>7, <2>9, <2>10, <2>11 DEF Good, Own, CapsuleOk
<1>6. CASE (Fault \/ used' = used) /\ FailCreate(u) /\ inner' = inner
  <2>1. FailWith(u, rows[u].ids) BY <1>6 DEF FailCreate
  <2>2. used' \in UsedType BY <1>1, <1>6, Counting
  <2> QED BY <1>2, <1>3, <1>6, <2>1, <2>2, FailWithOk
<1> QED BY <1>4, <1>5, <1>6 DEF _create_container_in_capsule

\* The thread goes on when its init container has ended.
LEMMA WaitForInitOk ==
    ASSUME IInv, NEW u \in Uuids, _wait_for_init_container(u)
    PROVE  Good(u)
<1>1. Types /\ Own(u) BY DEF IInv, Inv
<1>2. thr[u].pc = "init" /\ UNCHANGED <<netns, driver, pods, inner, todo, used>>
  BY DEF _wait_for_init_container, At, netQuiet
<1>3. u \in Capsules /\ u \notin Boxes BY <1>1, <1>2, Sorts DEF Own, BoxOk, Making
<1>4. CapsuleOk(u) BY <1>1, <1>3 DEF Own
<1>5. PICK i : i = thr[u].i OBVIOUS
<1>6. /\ i \in Nat /\ i > 0 /\ i <= MaxInner /\ EndedBefore(u, i) /\ MaxInner \in Nat
      /\ \A j \in 1..MaxInner : j > i => inner[u][j] = "none"
  BY <1>1, <1>2, <1>4, <1>5, Fields, MaxInnerFact DEF CapsuleOk, Ordered, Filling
<1>7. CASE /\ _show_container(u, thr[u].i) = "Stopped"
           /\ thr' = [thr EXCEPT ![u].pc = "inner", ![u].i = @ + 1]
           /\ rows' = rows /\ spoilt' = spoilt
  <2>1. inner[u][i] = "exited"
    BY <1>5, <1>7 DEF _show_container
  <2>2. PICK k : k = i + 1 OBVIOUS
  <2>3. k \in Nat /\ k > 0 BY <1>6, <2>2
  <2>4. thr' = [thr EXCEPT ![u].pc = "inner", ![u].i = k] BY <1>5, <1>7, <2>2
  <2>5. /\ thr' \in [Uuids -> ThreadType] /\ \A d \in Uuids \ {u} : thr'[d] = thr[d]
        /\ thr'[u].pc = "inner" /\ thr'[u].i = k /\ thr'[u].op = thr[u].op
    BY <1>1, <2>3, <2>4 DEF Types, ThreadType, Pcs, Filling
  <2>6. Types' BY <1>1, <1>2, <1>7, <2>5 DEF Types
  <2>7. Alone(u) BY <1>2, <1>7, <2>5 DEF Alone
  <2>8. Placed(u)'
    BY <1>2, <1>4, <1>7, <2>5 DEF CapsuleOk, Placed, Api, Before, Making, Filling
  <2>9. Ordered(u)'
    <3>1. EndedBefore(u, k)'
      <4>1. ASSUME NEW j \in 1..MaxInner, j < k, IsInit(rows[u].tpl, j) PROVE inner[u][j] = "exited"
        <5>1. j = i \/ j < i BY <1>6, <2>2, <4>1
        <5> QED BY <1>6, <2>1, <4>1, <5>1 DEF EndedBefore
      <4> QED BY <1>2, <1>7, <4>1 DEF EndedBefore
    <3>2. \A j \in 1..MaxInner : j >= k => inner[u][j] = "none" BY <1>6, <2>2
    <3>3. rows[u].exists => \A j \in 1..MaxInner : inner[u][j] # "none" => EndedBefore(u, j)'
      BY <1>2, <1>4, <1>7 DEF CapsuleOk, Ordered, EndedBefore
    <3> QED BY <1>2, <1>7, <2>3, <2>5, <3>1, <3>2, <3>3 DEF Ordered
  <2>10. Blank(u)' <=> Blank(u) BY <1>2 DEF Blank
  <2>11. Claimed(u)' BY <1>2, <1>4, <1>7, <2>5, <2>10 DEF CapsuleOk, Claimed, Filling
  <2>12. u \notin spoilt' => Sound(u)'
    BY <1>2, <1>4, <1>7, <2>5, <2>10 DEF CapsuleOk, Sound, Bare
  <2> QED BY <1>3, <2>6, <2>7, <2>8, <2>9, <2>11, <2>12 DEF Good, Own, CapsuleOk
<1>8. CASE FailCreate(u)
  <2>1. FailWith(u, rows[u].ids) /\ rows[u].ids \in SUBSET Nat BY <1>1, <1>8, Fields DEF FailCreate
  <2>2. used' \in UsedType BY <1>1, <1>2 DEF Types
  <2> QED BY <1>2, <2>1, <2>2, FailWithOk
<1> QED BY <1>7, <1>8 DEF _wait_for_init_container

\* The row learns the id of the sandbox.
LEMMA CapsuleCreatedOk ==
    ASSUME IInv, NEW u \in Uuids, CapsuleCreated(u)
    PROVE  Good(u)
<1>1. Types /\ Own(u) BY DEF IInv, Inv
<1>2. /\ thr[u].pc = "inner" /\ UNCHANGED <<netns, driver, pods, inner, todo, spoilt, used>> /\ End(u)
      /\ rows' = [rows EXCEPT ![u].status = IF Kind(u) = "cri" THEN "Running" ELSE @, ![u].cid = pods[u]]
  BY DEF CapsuleCreated, At, netQuiet
<1>3. u \in Capsules /\ u \notin Boxes BY <1>1, <1>2, Sorts DEF Own, BoxOk, Making
<1>4. CapsuleOk(u) BY <1>1, <1>3 DEF Own
<1>5. /\ thr' \in [Uuids -> ThreadType] /\ \A d \in Uuids \ {u} : thr'[d] = thr[d]
      /\ thr'[u].pc = "idle" /\ thr'[u].op = "none"
  BY <1>1, <1>2, Ending
<1>6. PICK s : s = IF Kind(u) = "cri" THEN "Running" ELSE rows[u].status OBVIOUS
<1>7. PICK r : r = [rows[u] EXCEPT !.status = s, !.cid = pods[u]] OBVIOUS
<1>8. rows \in [Uuids -> RowType] /\ rows[u] \in RowType /\ pods[u] \in Nat BY <1>1, Fields DEF Types
<1>9. s \in Statuses /\ s \in {"Running", rows[u].status} BY <1>6, <1>8 DEF RowType, Statuses
<1>10. /\ r \in RowType /\ r.exists = rows[u].exists /\ r.host = rows[u].host
       /\ r.tpl = rows[u].tpl /\ r.cpu = rows[u].cpu /\ r.cid = pods[u]
       /\ r.status = s /\ r.ids = rows[u].ids
  BY <1>7, <1>8, <1>9 DEF RowType
<1>11. RowNow(u, r) BY <1>2, <1>6, <1>7, <1>8 DEF RowNow
<1>12. /\ rows' \in [Uuids -> RowType] /\ \A d \in Uuids \ {u} : rows'[d] = rows[d]
       /\ rows'[u] = r
  BY <1>1, <1>10, <1>11, Writing
<1>13. Types' BY <1>1, <1>2, <1>5, <1>12 DEF Types
<1>14. Alone(u) BY <1>2, <1>5, <1>12 DEF Alone
<1>15. /\ rows[u].host /\ rows[u].exists /\ pods[u] # 0 /\ rows[u].status # "none"
  BY <1>2, <1>4 DEF CapsuleOk, Placed, Filling
<1>16. Blank(u)' <=> Blank(u) BY <1>2 DEF Blank
<1>17. rows'[u].status # "none" /\ rows'[u].exists /\ rows'[u].host /\ rows'[u].cid = pods[u]
       /\ rows'[u].tpl = rows[u].tpl /\ rows'[u].cpu = rows[u].cpu /\ rows'[u].ids = rows[u].ids
  BY <1>9, <1>10, <1>12, <1>15
<1>18. Placed(u)' BY <1>5, <1>17 DEF Placed, Api, Before, Making, Filling
<1>19. Ordered(u)' BY <1>2, <1>4, <1>5, <1>15, <1>17 DEF CapsuleOk, Ordered, EndedBefore, Filling
<1>20. Claimed(u)' BY <1>2, <1>4, <1>15, <1>17 DEF CapsuleOk, Claimed, Filling
<1>21. u \notin spoilt' => Sound(u)'
  BY <1>2, <1>4, <1>5, <1>15, <1>16, <1>17 DEF CapsuleOk, Sound
<1> QED BY <1>3, <1>13, <1>14, <1>18, <1>19, <1>20, <1>21 DEF Good, Own, CapsuleOk

\* Containers that end, alone or with their sandbox, leave the order and what is
\* claimed for as they are.
LEMMA ExitsInOrder ==
    ASSUME NEW u \in Uuids, rows' = rows,
           \A j \in 1..MaxInner : (inner'[u][j] = "none") <=> (inner[u][j] = "none"),
           \A j \in 1..MaxInner : inner[u][j] = "exited" => inner'[u][j] = "exited"
    PROVE  /\ Blank(u)' <=> Blank(u)
           /\ \A n : EndedBefore(u, n) => EndedBefore(u, n)'
<1>1. Blank(u)' <=> Blank(u) BY DEF Blank
<1>2. ASSUME NEW n, EndedBefore(u, n) PROVE EndedBefore(u, n)' BY <1>2 DEF EndedBefore
<1> QED BY <1>1, <1>2

\* A container in a capsule exits by itself.
LEMMA InnerExitsOk ==
    ASSUME IInv, NEW u \in Capsules, NEW i \in 1..MaxInner, InnerExits(u, i)
    PROVE  u \in Uuids /\ Good(u)
<1>1. u \in Uuids BY CapsulesAssumption
<1>2. Types /\ CapsuleOk(u) /\ u \notin Boxes BY <1>1, Sorts DEF IInv, Inv, Own
<1>3. /\ inner[u][i] = "running" /\ inner' = [inner EXCEPT ![u][i] = "exited"]
      /\ UNCHANGED <<rows, netns, driver, pods, thr, todo, spoilt, used>>
  BY DEF InnerExits, netQuiet
<1>4. inner \in [Uuids -> [1..MaxInner -> Phases]] BY <1>2 DEF Types
<1>5. /\ inner' \in [Uuids -> [1..MaxInner -> Phases]]
      /\ \A d \in Uuids \ {u} : inner'[d] = inner[d]
      /\ inner'[u][i] = "exited"
      /\ \A j \in 1..MaxInner : j # i => inner'[u][j] = inner[u][j]
  BY <1>1, <1>3, <1>4 DEF Phases
<1>6. /\ \A j \in 1..MaxInner : (inner'[u][j] = "none") <=> (inner[u][j] = "none")
      /\ \A j \in 1..MaxInner : inner[u][j] = "exited" => inner'[u][j] = "exited"
  BY <1>3, <1>5
<1>7. /\ Blank(u)' <=> Blank(u)
      /\ \A n : EndedBefore(u, n) => EndedBefore(u, n)'
  BY <1>1, <1>3, <1>6, ExitsInOrder
<1>8. Types' BY <1>2, <1>3, <1>5 DEF Types
<1>9. Alone(u) BY <1>3, <1>5 DEF Alone
<1>10. Placed(u)' BY <1>2, <1>3, <1>7 DEF CapsuleOk, Placed, Bare
<1>11. Ordered(u)'
  <2>1. PICK n : n = thr[u].i OBVIOUS
  <2>2. thr[u].pc \in Filling => EndedBefore(u, n)' BY <1>2, <1>7, <2>1 DEF CapsuleOk, Ordered
  <2>3. rows[u].exists => \A j \in 1..MaxInner : inner'[u][j] # "none" => EndedBefore(u, j)'
    BY <1>2, <1>6, <1>7 DEF CapsuleOk, Ordered
  <2> QED BY <1>2, <1>3, <1>6, <2>1, <2>2, <2>3 DEF CapsuleOk, Ordered
<1>12. Claimed(u)' BY <1>2, <1>3, <1>7 DEF CapsuleOk, Claimed
<1>13. u \notin spoilt' => Sound(u)' BY <1>2, <1>3, <1>6, <1>7 DEF CapsuleOk, Sound, Bare
<1> QED BY <1>1, <1>2, <1>8, <1>9, <1>10, <1>11, <1>12, <1>13 DEF Good, Own, CapsuleOk

-----------------------------------------------------------------------------
(* Operations on a container *)

\* What stays of a container.
LEMMA BoxStep ==
    ASSUME IInv, NEW u \in Boxes, Types', Alone(u), inner' = inner,
           thr'[u].pc \in {"idle", "pull", "create", "stopping"} \cup Making,
           thr'[u].pc # "idle" => rows'[u].exists,
           ~rows'[u].exists => pods'[u] = 0
    PROVE  u \in Uuids /\ Good(u)
<1>1. u \in Uuids BY CapsulesAssumption
<1>2. BoxOk(u) /\ u \notin Capsules BY <1>1, Sorts DEF IInv, Inv, Own
<1>3. Blank(u)' BY <1>2 DEF BoxOk, Blank
<1>4. BoxOk(u)' BY <1>3 DEF BoxOk
<1> QED BY <1>1, <1>2, <1>4 DEF Good, Own

\* A start or a reboot takes the thread and leaves the rest alone.
LEMMA BeginStartOk ==
    ASSUME IInv, NEW u \in Boxes, NEW op \in {"start", "reboot"}, BeginStart(u, op)
    PROVE  u \in Uuids /\ Good(u)
<1>1. u \in Uuids BY CapsulesAssumption
<1>2. Types BY DEF IInv
<1>3. /\ Request /\ rows[u].exists
      /\ thr' = [thr EXCEPT ![u] = [Idle EXCEPT !.pc = "start", !.op = op]]
      /\ UNCHANGED <<netns, rows, driver, pods, inner, todo, spoilt>>
  BY DEF BeginStart, CanBegin, netQuiet
<1>4. used' \in UsedType BY <1>2, <1>3, Counting
<1>5. PICK t : t = [Idle EXCEPT !.pc = "start", !.op = op] OBVIOUS
<1>6. t \in ThreadType /\ t.pc = "start" BY <1>5 DEF Idle, ThreadType, Pcs, Making
<1>7. /\ thr' \in [Uuids -> ThreadType] /\ \A d \in Uuids \ {u} : thr'[d] = thr[d]
      /\ thr'[u].pc = "start"
  BY <1>1, <1>2, <1>3, <1>5, <1>6 DEF Types
<1>8. Types' BY <1>2, <1>3, <1>4, <1>7 DEF Types
<1>9. Alone(u) BY <1>3, <1>7 DEF Alone
<1>10. thr'[u].pc \in Making BY <1>7 DEF Making
<1> QED BY <1>3, <1>7, <1>8, <1>9, <1>10, BoxStep

\* A stop keeps Docker's container.
LEMMA BeginStopOk ==
    ASSUME IInv, NEW u \in Boxes, BeginStop(u)
    PROVE  u \in Uuids /\ Good(u)
<1>1. u \in Uuids BY CapsulesAssumption
<1>2. Types BY DEF IInv
<1>3. /\ Request /\ rows[u].exists /\ thr[u].pc = "idle" /\ netns' = [netns EXCEPT ![u] = 0]
      /\ UNCHANGED <<driver, pods, inner, todo, spoilt>>
      /\ \/ thr' = [thr EXCEPT ![u] = [Idle EXCEPT !.pc = "stopping"]] /\ rows' = rows
         \/ rows' = [rows EXCEPT ![u].status = "Stopped"] /\ thr' = thr
  BY DEF BeginStop, CanBegin, At
<1>4. used' \in UsedType /\ netns' \in [Uuids -> Nat] BY <1>2, <1>3, Counting DEF Types
<1>5. /\ thr' \in [Uuids -> ThreadType] /\ \A d \in Uuids \ {u} : thr'[d] = thr[d]
      /\ thr'[u].pc \in {"idle", "stopping"}
  <2>1. PICK t : t = [Idle EXCEPT !.pc = "stopping"] OBVIOUS
  <2>2. t \in ThreadType /\ t.pc = "stopping" BY <2>1 DEF Idle, ThreadType, Pcs
  <2>3. CASE thr' = thr BY <1>2, <1>3, <2>3 DEF Types
  <2>4. CASE thr' = [thr EXCEPT ![u] = t] BY <1>1, <1>2, <2>2, <2>4 DEF Types
  <2> QED BY <1>3, <2>1, <2>3, <2>4
<1>6. /\ rows' \in [Uuids -> RowType] /\ \A d \in Uuids \ {u} : rows'[d] = rows[d]
      /\ rows'[u].exists
  <2>1. "Stopped" \in Statuses BY DEF Statuses
  <2>2. CASE rows' = rows BY <1>2, <1>3, <2>2 DEF Types
  <2>3. CASE rows' = [rows EXCEPT ![u].status = "Stopped"] BY <1>1, <1>2, <1>3, <2>1, <2>3, Stating
  <2> QED BY <1>3, <2>2, <2>3
<1>7. Types' BY <1>2, <1>3, <1>4, <1>5, <1>6 DEF Types
<1>8. Alone(u) BY <1>3, <1>5, <1>6 DEF Alone
<1> QED BY <1>3, <1>5, <1>6, <1>7, <1>8, BoxStep

\* A rebuild takes Docker's container away and starts anew.
LEMMA BeginRebuildOk ==
    ASSUME IInv, NEW u \in Boxes, BeginRebuild(u)
    PROVE  u \in Uuids /\ Good(u)
<1>1. u \in Uuids BY CapsulesAssumption
<1>2. Types BY DEF IInv
<1>3. /\ Request /\ rows[u].exists
      /\ netns' = [netns EXCEPT ![u] = 0] /\ pods' = [pods EXCEPT ![u] = 0]
      /\ thr' = [thr EXCEPT ![u] = [Idle EXCEPT !.pc = "pull", !.op = "start"]]
      /\ UNCHANGED <<rows, driver, inner, todo, spoilt>>
  BY DEF BeginRebuild, CanBegin
<1>4. used' \in UsedType BY <1>2, <1>3, Counting
<1>5. PICK t : t = [Idle EXCEPT !.pc = "pull", !.op = "start"] OBVIOUS
<1>6. t \in ThreadType /\ t.pc = "pull" BY <1>5 DEF Idle, ThreadType, Pcs, Before
<1>7. /\ thr' \in [Uuids -> ThreadType] /\ \A d \in Uuids \ {u} : thr'[d] = thr[d]
      /\ thr'[u].pc = "pull"
  BY <1>1, <1>2, <1>3, <1>5, <1>6 DEF Types
<1>8. /\ netns' \in [Uuids -> Nat] /\ pods' \in [Uuids -> Nat]
      /\ \A d \in Uuids \ {u} : pods'[d] = pods[d]
  BY <1>2, <1>3 DEF Types
<1>9. Types' BY <1>2, <1>3, <1>4, <1>7, <1>8 DEF Types
<1>10. Alone(u) BY <1>3, <1>7, <1>8 DEF Alone
<1> QED BY <1>3, <1>7, <1>9, <1>10, BoxStep

\* A delete takes Docker's container away with the row.
LEMMA DeleteContainerOk ==
    ASSUME IInv, NEW u \in Boxes, DeleteContainer(u)
    PROVE  u \in Uuids /\ Good(u)
<1>1. u \in Uuids BY CapsulesAssumption
<1>2. Types BY DEF IInv
<1>3. /\ Request /\ thr[u].pc = "idle"
      /\ netns' = [netns EXCEPT ![u] = 0] /\ pods' = [pods EXCEPT ![u] = 0] /\ rows' = destroy(u)
      /\ UNCHANGED <<driver, inner, thr, todo, spoilt>>
  BY DEF DeleteContainer, CanBegin, At
<1>4. used' \in UsedType BY <1>2, <1>3, Counting
<1>5. /\ netns' \in [Uuids -> Nat] /\ pods' \in [Uuids -> Nat] /\ pods'[u] = 0
      /\ \A d \in Uuids \ {u} : pods'[d] = pods[d]
  BY <1>1, <1>2, <1>3 DEF Types
<1>6. /\ rows' \in [Uuids -> RowType] /\ \A d \in Uuids \ {u} : rows'[d] = rows[d]
  BY <1>1, <1>2, <1>3, Destroying
<1>7. Types' BY <1>2, <1>3, <1>4, <1>5, <1>6 DEF Types
<1>8. Alone(u) BY <1>3, <1>5, <1>6 DEF Alone
<1> QED BY <1>3, <1>5, <1>7, <1>8, BoxStep

\* A process exits by itself: its namespace goes, its container stays.
LEMMA ExitOk ==
    ASSUME IInv, NEW u \in Uuids, Exit(u)
    PROVE  Good(u)
<1>1. u \in Boxes BY DEF Exit
<1>2. Types /\ BoxOk(u) BY <1>1 DEF IInv, Inv, Own
<1>3. /\ Fault /\ netns' = [netns EXCEPT ![u] = 0]
      /\ rows' = [rows EXCEPT ![u].status = IF thr[u].pc = "idle" /\ @ = "Running" THEN "Stopped" ELSE @]
      /\ UNCHANGED <<driver, pods, inner, thr, todo, spoilt>>
  BY DEF Exit, At
<1>4. used' \in UsedType /\ netns' \in [Uuids -> Nat] BY <1>2, <1>3, Counting DEF Types
<1>5. PICK s : s = IF thr[u].pc = "idle" /\ rows[u].status = "Running" THEN "Stopped" ELSE rows[u].status
  OBVIOUS
<1>6. s \in Statuses BY <1>2, <1>5, Fields DEF RowType, Statuses
<1>7. rows' = [rows EXCEPT ![u].status = s] BY <1>3, <1>5
<1>8. /\ rows' \in [Uuids -> RowType] /\ \A d \in Uuids \ {u} : rows'[d] = rows[d]
      /\ rows'[u].exists = rows[u].exists
  BY <1>2, <1>6, <1>7, Stating
<1>9. Types' BY <1>2, <1>3, <1>4, <1>8 DEF Types
<1>10. Alone(u) BY <1>3, <1>8 DEF Alone
<1>11. /\ thr'[u].pc \in {"idle", "pull", "create", "stopping"} \cup Making
       /\ thr'[u].pc # "idle" => rows'[u].exists
       /\ ~rows'[u].exists => pods'[u] = 0
  BY <1>2, <1>3, <1>8 DEF BoxOk
<1> QED BY <1>1, <1>3, <1>9, <1>10, <1>11, BoxStep

-----------------------------------------------------------------------------
(* Deletion of a capsule, and the loss of zun-compute *)

\* No copy is one of the copies.
LEMMA NoCopyTyped == NoCopy \in CopyType
BY DEF NoCopy, CopyType

\* delete_capsule of the CRI driver removes what its copy knows.
LEMMA CriDeleteOk ==
    ASSUME IInv, NEW u \in Uuids, CriDelete(u)
    PROVE  Good(u)
<1>1. Types /\ Own(u) BY DEF IInv, Inv
<1>2. /\ thr[u].pc = "idle" /\ todo[u] # NoCopy /\ Kind(u) = "cri"
      /\ UNCHANGED <<netns, driver, pods, spoilt, used>>
  BY DEF CriDelete, At
<1>3. u \in Capsules /\ u \notin Boxes BY <1>1, <1>2, KindFact, Sorts
<1>4. CapsuleOk(u) BY <1>1, <1>3 DEF Own
<1>5. rows[u].exists /\ rows[u].status # "none" BY <1>2, <1>4 DEF CapsuleOk, Placed
<1>6. CASE /\ todo[u].cid = 0 /\ rows' = destroy(u) /\ todo' = [todo EXCEPT ![u] = NoCopy]
           /\ UNCHANGED <<inner, thr>>
  <2>1. /\ rows' \in [Uuids -> RowType] /\ \A d \in Uuids \ {u} : rows'[d] = rows[d]
        /\ ~rows'[u].exists /\ ~rows'[u].host /\ rows'[u].status = "Deleted"
        /\ rows'[u].tpl = NoTemplate
    BY <1>1, <1>6, Destroying
  <2>2. /\ todo' \in [Uuids -> CopyType] /\ \A d \in Uuids \ {u} : todo'[d] = todo[d]
        /\ todo'[u] = NoCopy
    BY <1>1, <1>6, NoCopyTyped DEF Types
  <2>3. Types' BY <1>1, <1>2, <1>6, <2>1, <2>2 DEF Types
  <2>4. Alone(u) BY <1>2, <1>6, <2>1, <2>2 DEF Alone
  <2>5. Placed(u)'
    BY <1>2, <1>4, <1>6, <2>1, <2>2 DEF CapsuleOk, Placed, Api, Before, Making, Filling
  <2>6. Ordered(u)' BY <1>2, <1>6, <2>1 DEF Ordered, Filling
  <2>7. Claimed(u)' BY <2>1 DEF Claimed
  <2>8. ASSUME u \notin spoilt PROVE Sound(u)'
    <3>1. Sound(u) BY <1>4, <2>8 DEF CapsuleOk
    <3>2. pods[u] = 0 BY <1>2, <1>5, <1>6, <3>1 DEF Sound
    <3>3. Bare(u) BY <3>1, <3>2 DEF Sound, Bare
    <3>4. Bare(u)' BY <1>2, <1>6, <3>3 DEF Bare, Blank
    <3> QED BY <2>1, <2>2, <3>4 DEF Sound, Bare, Blank
  <2> QED BY <1>2, <1>3, <2>3, <2>4, <2>5, <2>6, <2>7, <2>8 DEF Good, Own, CapsuleOk
<1>7. CASE /\ inner' = [inner EXCEPT ![u] = [i \in 1..MaxInner |->
                            IF @[i] = "running" THEN "exited" ELSE @[i]]]
           /\ thr' = [thr EXCEPT ![u] = [Idle EXCEPT !.pc = "stopsandbox"]]
           /\ UNCHANGED <<rows, todo>>
  <2>1. PICK t : t = [Idle EXCEPT !.pc = "stopsandbox"] OBVIOUS
  <2>2. t \in ThreadType /\ t.pc = "stopsandbox" /\ t.op = "none" BY <2>1 DEF Idle, ThreadType, Pcs
  <2>3. /\ thr' \in [Uuids -> ThreadType] /\ \A d \in Uuids \ {u} : thr'[d] = thr[d]
        /\ thr'[u].pc = "stopsandbox" /\ thr'[u].op = "none"
    BY <1>1, <1>7, <2>1, <2>2 DEF Types
  <2>4. PICK f : f = [i \in 1..MaxInner |-> IF inner[u][i] = "running" THEN "exited" ELSE inner[u][i]]
    OBVIOUS
  <2>5. inner \in [Uuids -> [1..MaxInner -> Phases]] BY <1>1 DEF Types
  <2>6. inner' = [inner EXCEPT ![u] = f] BY <1>7, <2>4
  <2>7. f \in [1..MaxInner -> Phases] BY <2>4, <2>5 DEF Phases
  <2>8. /\ inner' \in [Uuids -> [1..MaxInner -> Phases]]
        /\ \A d \in Uuids \ {u} : inner'[d] = inner[d]
        /\ inner'[u] = f
    BY <2>5, <2>6, <2>7
  <2>9. /\ \A j \in 1..MaxInner : (inner'[u][j] = "none") <=> (inner[u][j] = "none")
        /\ \A j \in 1..MaxInner : inner[u][j] = "exited" => inner'[u][j] = "exited"
    BY <2>4, <2>8
  <2>10. /\ Blank(u)' <=> Blank(u)
         /\ \A n : EndedBefore(u, n) => EndedBefore(u, n)'
    BY <1>7, <2>9, ExitsInOrder
  <2>11. Types' BY <1>1, <1>2, <1>7, <2>3, <2>8 DEF Types
  <2>12. Alone(u) BY <1>2, <1>7, <2>3, <2>8 DEF Alone
  <2>13. Placed(u)'
    BY <1>2, <1>4, <1>5, <1>7, <2>3 DEF CapsuleOk, Placed, Api, Before, Making, Filling
  <2>14. Ordered(u)'
    <3>1. \A j \in 1..MaxInner : inner'[u][j] # "none" => EndedBefore(u, j)'
      BY <1>4, <1>5, <2>9, <2>10 DEF CapsuleOk, Ordered
    <3> QED BY <2>3, <3>1 DEF Ordered, Filling
  <2>15. Claimed(u)'
    BY <1>2, <1>4, <1>7, <2>3, <2>10 DEF CapsuleOk, Claimed, Before, Making, Filling
  <2>16. u \notin spoilt' => Sound(u)'
    BY <1>2, <1>4, <1>7, <2>3, <2>9, <2>10 DEF CapsuleOk, Sound, Bare
  <2> QED BY <1>3, <2>11, <2>12, <2>13, <2>14, <2>15, <2>16 DEF Good, Own, CapsuleOk
<1> QED BY <1>6, <1>7 DEF CriDelete

\* A capsule whose row is destroyed, together with the sandbox and, unless it was
\* spoilt, everything in it.
LEMMA Removed ==
    ASSUME NEW u \in Capsules, u \notin Boxes,
           ~rows'[u].exists, ~rows'[u].host, rows'[u].tpl = NoTemplate, rows'[u].status = "Deleted",
           thr'[u].pc = "idle", thr'[u].op # "reboot", todo'[u] = NoCopy, pods'[u] = 0,
           u \notin spoilt' => Blank(u)'
    PROVE  Own(u)'
<1>1. Placed(u)' BY DEF Placed, Api, Before, Making, Filling
<1>2. Ordered(u)' BY DEF Ordered, Filling
<1>3. Claimed(u)' BY DEF Claimed
<1>4. u \notin spoilt' => Sound(u)' BY DEF Sound, Bare, Blank
<1> QED BY <1>1, <1>2, <1>3, <1>4 DEF Own, CapsuleOk

\* A deletion that failed: the row says so, and everything is still there.
LEMMA Kept ==
    ASSUME IInv, NEW u \in Capsules, u \notin Boxes, NEW v \in Uuids, u = v, rows[u].exists,
           thr[u].pc \in {"idle", "stopsandbox"}, thr'[u].pc = "idle", thr'[u].op # "reboot",
           rows'[u].exists = rows[u].exists, rows'[u].host = rows[u].host,
           rows'[u].tpl = rows[u].tpl, rows'[u].cpu = rows[u].cpu,
           rows'[u].cid = rows[u].cid, rows'[u].ids = rows[u].ids, rows'[u].status = "Error",
           inner'[u] = inner[u], pods'[u] = pods[u], todo'[u] = NoCopy,
           u \in spoilt' <=> u \in spoilt
    PROVE  Own(u)'
<1>1. CapsuleOk(u) BY DEF IInv, Inv, Own
<1>2. Blank(u)' <=> Blank(u) BY DEF Blank
<1>3. Placed(u)' BY DEF Placed, Api, Before, Making, Filling
<1>4. Ordered(u)' BY <1>1 DEF CapsuleOk, Ordered, EndedBefore, Filling
<1>5. Claimed(u)' BY <1>1, <1>2 DEF CapsuleOk, Claimed, Before, Making, Filling
<1>6. u \notin spoilt' => Sound(u)' BY <1>1, <1>2 DEF CapsuleOk, Sound, Bare
<1> QED BY <1>3, <1>4, <1>5, <1>6 DEF Own, CapsuleOk

\* The containers that a deletion removes.
LEMMA WithoutFact ==
    ASSUME Types, NEW u \in Uuids, NEW ids, inner' = Without(u, ids)
    PROVE  /\ inner' \in [Uuids -> [1..MaxInner -> Phases]]
           /\ \A d \in Uuids \ {u} : inner'[d] = inner[d]
           /\ \A j \in 1..MaxInner : inner'[u][j] = IF j \in ids THEN "none" ELSE inner[u][j]
<1>1. PICK f : f = [j \in 1..MaxInner |-> IF j \in ids THEN "none" ELSE inner[u][j]] OBVIOUS
<1>2. inner \in [Uuids -> [1..MaxInner -> Phases]] BY DEF Types
<1>3. inner' = [inner EXCEPT ![u] = f] BY <1>1 DEF Without
<1>4. f \in [1..MaxInner -> Phases] BY <1>1, <1>2 DEF Phases
<1>5. /\ inner' \in [Uuids -> [1..MaxInner -> Phases]]
      /\ \A d \in Uuids \ {u} : inner'[d] = inner[d]
      /\ inner'[u] = f
  BY <1>2, <1>3, <1>4
<1> QED BY <1>1, <1>5

\* The sandbox takes all of its containers with it, or the row stays.
LEMMA SandboxStoppedOk ==
    ASSUME IInv, NEW u \in Uuids, SandboxStopped(u)
    PROVE  Good(u)
<1>1. Types /\ Own(u) BY DEF IInv, Inv
<1>2. /\ thr[u].pc = "stopsandbox" /\ todo' = [todo EXCEPT ![u] = NoCopy] /\ End(u)
      /\ UNCHANGED <<driver, spoilt, used>>
  BY DEF SandboxStopped, At
<1>3. u \in Capsules /\ u \notin Boxes BY <1>1, <1>2, Sorts DEF Own, BoxOk, Making
<1>4. rows[u].exists BY <1>1, <1>2, <1>3 DEF Own, CapsuleOk, Placed
<1>5. /\ thr' \in [Uuids -> ThreadType] /\ \A d \in Uuids \ {u} : thr'[d] = thr[d]
      /\ thr'[u].pc = "idle" /\ thr'[u].op = "none"
  BY <1>1, <1>2, Ending
<1>6. /\ todo' \in [Uuids -> CopyType] /\ \A d \in Uuids \ {u} : todo'[d] = todo[d]
      /\ todo'[u] = NoCopy
  BY <1>1, <1>2, NoCopyTyped DEF Types
<1>7. CASE /\ netns' = [netns EXCEPT ![u] = 0] /\ pods' = [pods EXCEPT ![u] = 0]
           /\ inner' = Without(u, 1..MaxInner) /\ rows' = destroy(u)
  <2>1. /\ rows' \in [Uuids -> RowType] /\ \A d \in Uuids \ {u} : rows'[d] = rows[d]
        /\ ~rows'[u].exists /\ ~rows'[u].host /\ rows'[u].status = "Deleted"
        /\ rows'[u].tpl = NoTemplate
    BY <1>1, <1>7, Destroying
  <2>2. /\ netns' \in [Uuids -> Nat] /\ pods' \in [Uuids -> Nat] /\ pods'[u] = 0
        /\ \A d \in Uuids \ {u} : pods'[d] = pods[d]
    BY <1>1, <1>7 DEF Types
  <2>3. /\ inner' \in [Uuids -> [1..MaxInner -> Phases]]
        /\ \A d \in Uuids \ {u} : inner'[d] = inner[d]
        /\ \A j \in 1..MaxInner : inner'[u][j] = "none"
    BY <1>1, <1>7, WithoutFact
  <2>4. Types' BY <1>1, <1>2, <1>5, <1>6, <2>1, <2>2, <2>3 DEF Types
  <2>5. Alone(u) BY <1>2, <1>5, <1>6, <2>1, <2>2, <2>3 DEF Alone
  <2>6. Blank(u)' BY <2>3 DEF Blank
  <2>7. Own(u)' BY <1>3, <1>5, <1>6, <2>1, <2>2, <2>6, Removed
  <2> QED BY <2>4, <2>5, <2>7 DEF Good
<1>8. CASE rows' = [rows EXCEPT ![u].status = "Error"] /\ UNCHANGED <<netns, pods, inner>>
  <2>1. "Error" \in Statuses BY DEF Statuses
  <2>2. /\ rows' \in [Uuids -> RowType] /\ \A d \in Uuids \ {u} : rows'[d] = rows[d]
        /\ rows'[u].status = "Error"
        /\ rows'[u].exists = rows[u].exists /\ rows'[u].host = rows[u].host
        /\ rows'[u].tpl = rows[u].tpl /\ rows'[u].cpu = rows[u].cpu
        /\ rows'[u].cid = rows[u].cid /\ rows'[u].ids = rows[u].ids
    BY <1>1, <1>8, <2>1, Stating
  <2>3. Types' BY <1>1, <1>2, <1>5, <1>6, <1>8, <2>2 DEF Types
  <2>4. Alone(u) BY <1>2, <1>5, <1>6, <1>8, <2>2 DEF Alone
  <2>5. Own(u)' BY <1>2, <1>3, <1>4, <1>5, <1>6, <1>8, <2>2, Kept
  <2> QED BY <2>3, <2>4, <2>5 DEF Good
<1> QED BY <1>7, <1>8 DEF SandboxStopped

\* delete_capsule of the Docker driver removes what its copy knows.
LEMMA DockerDeleteOk ==
    ASSUME IInv, NEW u \in Uuids, DockerDelete(u)
    PROVE  Good(u)
<1>1. Types /\ Own(u) BY DEF IInv, Inv
<1>2. /\ thr[u].pc = "idle" /\ todo[u] # NoCopy /\ Kind(u) = "docker"
      /\ todo' = [todo EXCEPT ![u] = NoCopy]
      /\ UNCHANGED <<driver, thr, spoilt>>
  BY DEF DockerDelete, At
<1>3. u \in Capsules /\ u \notin Boxes BY <1>1, <1>2, KindFact, Sorts
<1>4. CapsuleOk(u) BY <1>1, <1>3 DEF Own
<1>5. rows[u].exists /\ thr[u].op # "reboot" BY <1>2, <1>4 DEF CapsuleOk, Placed
<1>6. /\ todo' \in [Uuids -> CopyType] /\ \A d \in Uuids \ {u} : todo'[d] = todo[d]
      /\ todo'[u] = NoCopy
  BY <1>1, <1>2, NoCopyTyped DEF Types
<1>7. CASE /\ netns' = [netns EXCEPT ![u] = 0] /\ pods' = [pods EXCEPT ![u] = 0]
           /\ inner' = Without(u, todo[u].ids) /\ rows' = destroy(u) /\ used' = used
  <2>1. /\ rows' \in [Uuids -> RowType] /\ \A d \in Uuids \ {u} : rows'[d] = rows[d]
        /\ ~rows'[u].exists /\ ~rows'[u].host /\ rows'[u].status = "Deleted"
        /\ rows'[u].tpl = NoTemplate
    BY <1>1, <1>7, Destroying
  <2>2. /\ netns' \in [Uuids -> Nat] /\ pods' \in [Uuids -> Nat] /\ pods'[u] = 0
        /\ \A d \in Uuids \ {u} : pods'[d] = pods[d]
    BY <1>1, <1>7 DEF Types
  <2>3. PICK ids : ids = todo[u].ids OBVIOUS
  <2>4. /\ inner' \in [Uuids -> [1..MaxInner -> Phases]]
        /\ \A d \in Uuids \ {u} : inner'[d] = inner[d]
        /\ \A j \in 1..MaxInner : inner'[u][j] = IF j \in ids THEN "none" ELSE inner[u][j]
    BY <1>1, <1>7, <2>3, WithoutFact
  <2>5. Types' BY <1>1, <1>2, <1>6, <1>7, <2>1, <2>2, <2>4 DEF Types
  <2>6. Alone(u) BY <1>2, <1>6, <2>1, <2>2, <2>4 DEF Alone
  <2>7. u \notin spoilt' => Blank(u)'
    BY <1>2, <1>4, <2>3, <2>4 DEF CapsuleOk, Sound, Blank
  <2>8. Own(u)' BY <1>2, <1>3, <1>5, <1>6, <2>1, <2>2, <2>7, Removed
  <2> QED BY <2>5, <2>6, <2>8 DEF Good
<1>8. CASE /\ used' = used \/ Fault
           /\ rows' = [rows EXCEPT ![u].status = IF rows[u].exists THEN "Error" ELSE @]
           /\ UNCHANGED <<netns, pods, inner>>
  <2>1. "Error" \in Statuses /\ rows' = [rows EXCEPT ![u].status = "Error"]
    BY <1>5, <1>8 DEF Statuses
  <2>2. /\ rows' \in [Uuids -> RowType] /\ \A d \in Uuids \ {u} : rows'[d] = rows[d]
        /\ rows'[u].status = "Error"
        /\ rows'[u].exists = rows[u].exists /\ rows'[u].host = rows[u].host
        /\ rows'[u].tpl = rows[u].tpl /\ rows'[u].cpu = rows[u].cpu
        /\ rows'[u].cid = rows[u].cid /\ rows'[u].ids = rows[u].ids
    BY <1>1, <2>1, Stating
  <2>3. used' \in UsedType BY <1>1, <1>8, Counting
  <2>4. Types' BY <1>1, <1>2, <1>6, <1>8, <2>2, <2>3 DEF Types
  <2>5. Alone(u) BY <1>2, <1>6, <1>8, <2>2 DEF Alone
  <2>6. Own(u)' BY <1>2, <1>3, <1>5, <1>6, <1>8, <2>2, Kept
  <2> QED BY <2>4, <2>5, <2>6 DEF Good
<1> QED BY <1>7, <1>8 DEF DockerDelete

\* The loss of zun-compute spoils whatever it was at work on.
LEMMA CrashOk ==
    ASSUME IInv, Crash
    PROVE  IInv'
<1>1. Types BY DEF IInv
<1>2. /\ Fault /\ UNCHANGED <<netns, driver, pods, inner>>
      /\ thr' = [u \in Uuids |-> IF thr[u].pc \in Api THEN thr[u] ELSE Idle]
      /\ rows' = [u \in Uuids |-> IF u \in Boxes /\ rows[u].status = "Creating"
                                  THEN [rows[u] EXCEPT !.status = "Error"] ELSE rows[u]]
      /\ todo' = [u \in Uuids |-> NoCopy]
      /\ spoilt' = spoilt \cup {u \in Uuids : thr[u] # Idle}
  BY DEF Crash, netQuiet, Api
<1>3. used' \in UsedType BY <1>1, <1>2, Counting
<1>4. Idle \in ThreadType /\ Idle.pc = "idle" /\ Idle.op = "none" BY DEF Idle, ThreadType, Pcs
<1>5. thr' \in [Uuids -> ThreadType] BY <1>1, <1>2, <1>4 DEF Types
<1>6. ASSUME NEW u \in Uuids
      PROVE  rows'[u] \in RowType /\ rows'[u].exists = rows[u].exists
  <2>1. rows[u] \in RowType BY <1>1, Fields
  <2>2. CASE rows'[u] = rows[u] BY <2>1, <2>2
  <2>3. CASE rows'[u] = [rows[u] EXCEPT !.status = "Error"] BY <2>1, <2>3 DEF RowType, Statuses
  <2> QED BY <1>2, <2>2, <2>3
<1>7. rows' \in [Uuids -> RowType] BY <1>2, <1>6
<1>8. todo' \in [Uuids -> CopyType] /\ spoilt' \in SUBSET Uuids BY <1>1, <1>2, NoCopyTyped DEF Types
<1>9. Types' BY <1>1, <1>2, <1>3, <1>5, <1>7, <1>8 DEF Types
<1>10. ASSUME NEW u \in Uuids PROVE Own(u)'
  <2>1. Own(u) BY DEF IInv, Inv
  <2>2. Blank(u)' <=> Blank(u) BY <1>2 DEF Blank
  <2>3. /\ thr'[u] = IF thr[u].pc \in Api THEN thr[u] ELSE Idle
        /\ todo'[u] = NoCopy /\ pods'[u] = pods[u] /\ inner'[u] = inner[u]
        /\ u \notin spoilt' => u \notin spoilt /\ thr[u] = Idle
    BY <1>2
  <2>4. ASSUME u \in Boxes PROVE BoxOk(u)'
    <3>1. BoxOk(u) BY <2>1, <2>4 DEF Own
    <3>2. thr[u].pc \notin Api BY <3>1 DEF BoxOk, Api, Making
    <3>3. thr'[u].pc = "idle" BY <1>4, <2>3, <3>2
    <3> QED BY <1>6, <2>2, <2>3, <3>1, <3>3 DEF BoxOk
  <2>5. ASSUME u \in Capsules PROVE CapsuleOk(u)'
    <3>1. CapsuleOk(u) /\ u \notin Boxes BY <2>1, <2>5, Sorts DEF Own
    <3>2. rows'[u] = rows[u] BY <1>2, <3>1
    <3>3. (thr[u].pc \in Api /\ thr'[u] = thr[u]) \/ (thr'[u].pc = "idle" /\ thr'[u].op = "none")
      BY <1>4, <2>3
    <3>4. Placed(u)'
      BY <2>2, <2>3, <3>1, <3>2, <3>3 DEF CapsuleOk, Placed, Bare, Api, Before, Making, Filling
    <3>5. Ordered(u)'
      BY <2>3, <3>1, <3>2, <3>3 DEF CapsuleOk, Ordered, EndedBefore, Api, Filling
    <3>6. Claimed(u)'
      BY <2>2, <2>3, <3>1, <3>2, <3>3 DEF CapsuleOk, Claimed, Api, Before, Making, Filling
    <3>7. ASSUME u \notin spoilt' PROVE Sound(u)'
      <4>1. Sound(u) /\ thr[u].pc = "idle" /\ thr'[u].pc = "idle"
        BY <1>4, <2>3, <3>1, <3>7 DEF CapsuleOk, Api
      <4> QED BY <2>2, <2>3, <3>2, <4>1 DEF Sound, Bare
    <3> QED BY <3>4, <3>5, <3>6, <3>7 DEF CapsuleOk
  <2> QED BY <2>4, <2>5 DEF Own
<1> QED BY <1>9, <1>10 DEF IInv, Inv

\* The daemon changes nothing the invariant is about.
LEMMA CniStepOk ==
    ASSUME IInv, CniStep, UNCHANGED podVars
    PROVE  IInv'
<1>1. UNCHANGED <<rows, netns>>
  <2>1. CASE \E c \in calls : \/ AddWork(c) \/ AddSave(c) \/ AddWait(c)
                              \/ DelCheck(c) \/ DelWork(c) \/ DelFinish(c)
    BY <2>1 DEF AddWork, AddSave, AddWait, DelCheck, DelWork, DelFinish
  <2>2. CASE \E u \in Uuids : \/ GiveUp(u) \/ PortUp(u)
                              \/ _on_container_deleted(u) \/ _update_vif_status(u)
    BY <2>2 DEF GiveUp, PortUp, _on_container_deleted, _update_vif_status
  <2>3. CASE SyncList \/ SyncKeys \/ PollCopy \/ PollPorts
    BY <2>3 DEF SyncList, SyncKeys, PollCopy, PollPorts
  <2> QED BY <2>1, <2>2, <2>3 DEF CniStep
<1>2. UNCHANGED <<rows, netns, driver, pods, inner, thr, todo, spoilt, used>> BY <1>1 DEF podVars
<1>3. Types' BY <1>2 DEF IInv, Types
<1>4. Inv'
  BY <1>2 DEF IInv, Inv, Own, BoxOk, CapsuleOk, Placed, Ordered, Claimed, Sound, EndedBefore, Bare, Blank
<1> QED BY <1>3, <1>4 DEF IInv

-----------------------------------------------------------------------------
(* The invariant *)

\* The capsules are not there yet, the containers are.
LEMMA InitOk == Init => IInv
<1> SUFFICES ASSUME Init PROVE IInv OBVIOUS
<1>1. NoRow \in RowType BY DEF NoRow, RowType, Statuses, Vifs
<1>2. Running \in RowType /\ Running.exists BY <1>1 DEF Running, RowType, Statuses, Vifs
<1>3. \A u \in Uuids : rows[u] = IF u \in Boxes THEN Running ELSE NoRow BY DEF Init
<1>4. rows \in [Uuids -> RowType] BY <1>1, <1>2 DEF Init
<1>5. \A u \in Uuids : rows[u].pid \in Nat /\ rows[u].cid \in Nat BY <1>4 DEF RowType
<1>6. /\ netns = [u \in Uuids |-> rows[u].pid] /\ pods = [u \in Uuids |-> rows[u].cid]
      /\ inner = [u \in Uuids |-> [i \in 1..MaxInner |-> "none"]]
      /\ thr = [u \in Uuids |-> Idle] /\ todo = [u \in Uuids |-> NoCopy] /\ spoilt = {}
      /\ used = [requests |-> 0, faults |-> 0, ns |-> netns, cid |-> pods]
      /\ driver \in {"cri", "docker"}
  BY DEF Init
<1>7. netns \in [Uuids -> Nat] /\ pods \in [Uuids -> Nat] BY <1>5, <1>6
<1>8. used \in UsedType BY <1>6, <1>7 DEF UsedType
<1>9. Idle \in ThreadType /\ Idle.pc = "idle" /\ Idle.op = "none" BY DEF Idle, ThreadType, Pcs
<1>10. inner \in [Uuids -> [1..MaxInner -> Phases]] BY <1>6 DEF Phases
<1>11. Types BY <1>4, <1>6, <1>7, <1>8, <1>9, <1>10, NoCopyTyped DEF Types
<1>12. ASSUME NEW u \in Uuids PROVE Own(u)
  <2>1. /\ thr[u].pc = "idle" /\ thr[u].op = "none" /\ todo[u] = NoCopy /\ pods[u] = rows[u].cid
        /\ Blank(u)
    BY <1>6, <1>9 DEF Blank
  <2>2. ASSUME u \in Boxes PROVE BoxOk(u)
    <3>1. rows[u].exists BY <1>2, <1>3, <2>2
    <3> QED BY <2>1, <3>1 DEF BoxOk
  <2>3. ASSUME u \in Capsules PROVE CapsuleOk(u)
    <3>1. rows[u] = NoRow BY <1>3, <2>3, Sorts
    <3>2. /\ ~rows[u].exists /\ ~rows[u].host /\ rows[u].tpl = NoTemplate
          /\ rows[u].cid = 0
      BY <3>1 DEF NoRow
    <3>3. Bare(u) BY <2>1, <3>2 DEF Bare
    <3>4. Placed(u) BY <2>1, <3>2, <3>3 DEF Placed, Api, Before, Making, Filling
    <3>5. Ordered(u) BY <2>1, <3>2 DEF Ordered, Filling
    <3>6. Claimed(u) BY <3>2 DEF Claimed
    <3>7. Sound(u) BY <2>1, <3>2, <3>3 DEF Sound, Bare, Blank
    <3> QED BY <3>4, <3>5, <3>6, <3>7 DEF CapsuleOk
  <2> QED BY <2>2, <2>3 DEF Own
<1> QED BY <1>11, <1>12 DEF IInv, Inv

\* Every step of a thread.
LEMMA StepOk ==
    ASSUME IInv, NEW u \in Uuids, CapsuleStep(u)
    PROVE  IInv'
<1>1. Good(u)
  <2>1. CASE PostNetworks(u) BY <2>1, PostNetworksOk
  <2>2. CASE _build_requested_volumes(u) BY <2>2, BuildVolumesOk
  <2>3. CASE Schedule(u) BY <2>3, ScheduleOk
  <2>4. CASE _attach_volumes_for_capsule(u) BY <2>4, AttachOk
  <2>5. CASE PullImage(u) BY <2>5, PullImageOk
  <2>6. CASE _write_cni_metadata(u) BY <2>6, WriteMetadataOk
  <2>7. CASE RunPodSandbox(u) BY <2>7, RunPodSandboxOk
  <2>8. CASE SandboxPlugged(u) BY <2>8, SandboxPluggedOk
  <2>9. CASE SandboxFails(u) BY <2>9, SandboxFailsOk
  <2>10. CASE DockerCreate(u) BY <2>10, DockerCreateOk
  <2>11. CASE DockerStart(u) BY <2>11, DockerStartOk
  <2>12. CASE on_container_started(u) BY <2>12, OnStartedOk
  <2>13. CASE OldUnplugged(u) BY <2>13, OldUnpluggedOk
  <2>14. CASE ContainerPlugged(u) BY <2>14, ContainerPluggedOk
  <2>15. CASE TouchReady(u) BY <2>15, TouchReadyOk
  <2>16. CASE Unplugged(u) BY <2>16, UnpluggedOk
  <2>17. CASE _create_container(u) BY <2>17, CreateContainerOk
  <2>18. CASE _create_container_in_capsule(u) BY <2>18, CreateInCapsuleOk
  <2>19. CASE _wait_for_init_container(u) BY <2>19, WaitForInitOk
  <2>20. CASE CapsuleCreated(u) BY <2>20, CapsuleCreatedOk
  <2>21. CASE CriDelete(u) BY <2>21, CriDeleteOk
  <2>22. CASE SandboxStopped(u) BY <2>22, SandboxStoppedOk
  <2>23. CASE DockerDelete(u) BY <2>23, DockerDeleteOk
  <2> QED BY <2>1, <2>2, <2>3, <2>4, <2>5, <2>6, <2>7, <2>8, <2>9, <2>10, <2>11, <2>12, <2>13,
             <2>14, <2>15, <2>16, <2>17, <2>18, <2>19, <2>20, <2>21, <2>22, <2>23
          DEF CapsuleStep
<1> QED BY <1>1, Keeps

\* Every step of the system.
LEMMA NextOk == IInv /\ [Next]_vars => IInv'
<1> SUFFICES ASSUME IInv, [Next]_vars PROVE IInv' OBVIOUS
<1>1. CASE CniStep /\ UNCHANGED podVars BY <1>1, CniStepOk
<1>2. CASE \E u \in Uuids : CapsuleStep(u) \/ Exit(u)
  <2>1. PICK u \in Uuids : CapsuleStep(u) \/ Exit(u) BY <1>2
  <2>2. CASE CapsuleStep(u) BY <2>2, StepOk
  <2>3. CASE Exit(u) BY <2>3, ExitOk, Keeps
  <2> QED BY <2>1, <2>2, <2>3
<1>3. CASE \E u \in Capsules : \/ \E t \in Templates : PostCapsule(u, t)
                               \/ DeleteCapsule(u)
                               \/ \E i \in 1..MaxInner : InnerExits(u, i)
  <2>1. PICK u \in Capsules : \/ \E t \in Templates : PostCapsule(u, t)
                              \/ DeleteCapsule(u)
                              \/ \E i \in 1..MaxInner : InnerExits(u, i)
    BY <1>3
  <2>2. u \in Uuids /\ Good(u) BY <2>1, PostCapsuleOk, DeleteCapsuleOk, InnerExitsOk
  <2> QED BY <2>2, Keeps
<1>4. CASE \E u \in Boxes : \/ BeginStop(u) \/ BeginRebuild(u) \/ DeleteContainer(u)
                            \/ \E op \in {"start", "reboot"} : BeginStart(u, op)
  <2>1. PICK u \in Boxes : \/ BeginStop(u) \/ BeginRebuild(u) \/ DeleteContainer(u)
                           \/ \E op \in {"start", "reboot"} : BeginStart(u, op)
    BY <1>4
  <2>2. u \in Uuids /\ Good(u)
    BY <2>1, BeginStopOk, BeginRebuildOk, DeleteContainerOk, BeginStartOk
  <2> QED BY <2>2, Keeps
<1>5. CASE Crash BY <1>5, CrashOk
<1>6. CASE UNCHANGED vars
  <2>1. UNCHANGED <<rows, netns, driver, pods, inner, thr, todo, spoilt, used>>
    BY <1>6 DEF vars, cniVars, podVars
  <2>2. Types' BY <2>1 DEF IInv, Types
  <2>3. Inv'
    BY <2>1 DEF IInv, Inv, Own, BoxOk, CapsuleOk, Placed, Ordered, Claimed, Sound, EndedBefore, Bare, Blank
  <2> QED BY <2>2, <2>3 DEF IInv
<1> QED BY <1>1, <1>2, <1>3, <1>4, <1>5, <1>6 DEF Next

(***************************************************************************)
(* The types hold, and what the thread of a capsule finds at each of its   *)
(* places is what the code takes for granted there: no sandbox before the  *)
(* driver's create, a sandbox without containers until the network is      *)
(* there, containers in their order, and the claim made before anything    *)
(* runs, whatever CNI calls, deletions and losses of zun-compute come      *)
(* between.                                                                *)
(***************************************************************************)
THEOREM CapsulesInOrder == Spec => []IInv
<1>1. Init => IInv BY InitOk
<1>2. IInv /\ [Next]_vars => IInv' BY NextOk
<1> QED BY <1>1, <1>2, PTL DEF Spec

(***************************************************************************)
(* A sandbox or a container in one whose row is gone was spoilt: the       *)
(* failed creation, the deletion of a capsule being made and the loss of   *)
(* zun-compute are the only ways to lose one.                              *)
(***************************************************************************)
THEOREM NoPodLost == Spec => []PodAccounted
<1>1. IInv => PodAccounted
  <2> SUFFICES ASSUME IInv, NEW u \in Uuids,
                      pods[u] # 0 \/ \E i \in 1..MaxInner : inner[u][i] # "none",
                      ~rows[u].exists
               PROVE  u \in spoilt
    BY DEF PodAccounted
  <2>1. Own(u) BY DEF IInv, Inv
  <2>2. CASE u \in Boxes BY <2>1, <2>2 DEF Own, BoxOk, Blank
  <2>3. CASE u \in Capsules BY <2>1, <2>3 DEF Own, CapsuleOk, Placed, Sound, Bare, Blank
  <2> QED BY <2>2, <2>3, Sorts
<1> QED BY <1>1, CapsulesInOrder, PTL

-----------------------------------------------------------------------------
(* The claim covers what runs *)

\* A solution of the recursion over a set is the sum.
LEMMA SumIs ==
    ASSUME NEW S, IsFiniteSet(S), NEW F, NEW g, Adds(g, F, SUBSET S),
           NEW h, Solves(h, F, SUBSET S)
    PROVE  h[S] = g[S]
<1>1. PICK T \in SUBSET S : T = S OBVIOUS
<1>2. Solves(h, F, SUBSET T) BY <1>1
<1>3. \A s \in SUBSET T : h[s] = g[s] BY <1>2, SumUnique, SMTT(30)
<1> QED BY <1>1, <1>3

\* The sum over some containers of a sequence, as ClaimCovers writes it.
LEMMA SumIsTotal ==
    ASSUME NEW q \in Seq(InnerSpec), NEW R, R \subseteq 1..Len(q)
    PROVE  MapThenSumSet(LAMBDA i : q[i].cpu, R) = Total(Cpus(q), R)
<1>1. PICK F : F = Cpus(q) OBVIOUS
<1>2. IsFiniteSet(R)
  <2>1. Len(q) \in Nat OBVIOUS
  <2>2. IsFiniteSet(1..Len(q)) BY <2>1, FS_Interval
  <2> QED BY <2>2, FS_Subset
<1>3. \A x \in R : F[x] = q[x].cpu /\ F[x] \in Nat BY <1>1, CpuFact
<1>4. PICK g : Adds(g, F, SUBSET R) BY <1>2, <1>3, SumExists
<1>5. Total(F, R) = g[R]
  <2>1. R \in SUBSET R /\ \A x \in R : F[x] \in Nat BY <1>3
  <2> QED BY <1>2, <1>4, <2>1, TotalIs, ZenonT(30)
<1> DEFINE iter[s \in SUBSET R] ==
             IF s = {} THEN 0
             ELSE LET x == CHOOSE x \in s : TRUE IN q[x].cpu + iter[s \ {x}]
<1>6. MapThenSumSet(LAMBDA i : q[i].cpu, R) = iter[R]
  BY DEF MapThenSumSet, MapThenFoldSet
<1>7. PICK h : h = [s \in SUBSET R |-> g[s]] OBVIOUS
<1>8. h = [s \in SUBSET R |->
             IF s = {} THEN 0
             ELSE LET x == CHOOSE x \in s : TRUE IN q[x].cpu + h[s \ {x}]]
  <2>1. ASSUME NEW s \in SUBSET R
        PROVE  h[s] = IF s = {} THEN 0 ELSE q[First(s)].cpu + h[s \ {First(s)}]
    <3>1. h[s] = g[s] /\ h[s \ {First(s)}] = g[s \ {First(s)}] BY <1>7
    <3>2. s # {} => F[First(s)] = q[First(s)].cpu BY <1>3, FirstIn
    <3>3. g[s] = IF s = {} THEN 0 ELSE F[First(s)] + g[s \ {First(s)}]
      BY <1>4 DEF Adds, Solves
    <3> QED BY <3>1, <3>2, <3>3
  <2> QED BY <1>7, <2>1 DEF First
<1>9. iter = [s \in SUBSET R |->
                IF s = {} THEN 0
                ELSE LET x == CHOOSE x \in s : TRUE IN q[x].cpu + iter[s \ {x}]]
  BY <1>8
<1>10. PICK k : k = iter OBVIOUS
<1> HIDE DEF iter
<1>11. k = [s \in SUBSET R |->
              IF s = {} THEN 0 ELSE q[First(s)].cpu + k[s \ {First(s)}]]
  BY <1>9, <1>10 DEF First
<1>12. Solves(k, F, SUBSET R)
  <2>1. ASSUME NEW s \in SUBSET R, s # {} PROVE F[First(s)] = q[First(s)].cpu
    BY <1>3, <2>1, FirstIn
  <2> QED BY <1>11, <2>1 DEF Solves
<1>13. k[R] = g[R] BY <1>2, <1>4, <1>12, SumIs
<1> QED BY <1>1, <1>5, <1>6, <1>10, <1>13

\* The numbers of the containers start after the init containers.
LEMMA TotalShift ==
    ASSUME NEW n \in Nat, NEW m \in Nat, NEW F, NEW G,
           \A i \in 1..m : G[i] \in Nat /\ F[n + i] = G[i]
    PROVE  Total(F, (n + 1)..(n + m)) = Total(G, 1..m)
<1> DEFINE Bad == {k \in Nat : k <= m /\ Total(F, (n + 1)..(n + k)) # Total(G, 1..k)}
<1>1. SUFFICES ASSUME Bad # {} PROVE FALSE OBVIOUS
<1>2. PICK k \in Bad : \A o \in Bad : k <= o
  <2>1. Bad \subseteq Nat OBVIOUS
  <2> HIDE DEF Bad
  <2> QED BY <1>1, <2>1, LeastNumber
<1>3. k \in Nat /\ k <= m /\ Total(F, (n + 1)..(n + k)) # Total(G, 1..k) BY <1>2
<1>4. k # 0
  <2>1. ASSUME k = 0 PROVE FALSE
    <3>1. (n + 1)..(n + k) = {} /\ 1..k = {} BY <2>1
    <3> QED BY <1>3, <3>1, TotalEmpty
  <2> QED BY <2>1
<1>5. PICK o : o = k - 1 OBVIOUS
<1>6. o \in Nat /\ o < k /\ o <= m /\ k = o + 1 BY <1>3, <1>4, <1>5
<1>7. o \notin Bad
  <2> HIDE DEF Bad
  <2> QED BY <1>2, <1>3, <1>6
<1>8. Total(F, (n + 1)..(n + o)) = Total(G, 1..o) BY <1>6, <1>7
<1>9. PICK S, T : S = (n + 1)..(n + o) /\ T = 1..o OBVIOUS
<1>10. (n + 1)..(n + k) = S \cup {n + k} /\ n + k \notin S BY <1>3, <1>6, <1>9, SMTT(30)
<1>11. 1..k = T \cup {k} /\ k \notin T BY <1>3, <1>6, <1>9
<1>12. IsFiniteSet(S) /\ IsFiniteSet(T) BY <1>6, <1>9, FS_Interval
<1>13. (\A x \in T : G[x] \in Nat) /\ G[k] \in Nat /\ F[n + k] = G[k]
  BY <1>3, <1>6, <1>9, <1>11
<1>14. \A x \in S : F[x] \in Nat
  <2> TAKE x \in S
  <2>1. PICK i : i = x - n OBVIOUS
  <2>2. i \in 1..m /\ x = n + i BY <1>6, <1>9, <2>1
  <2> QED BY <2>2
<1>15. Total(F, S \cup {n + k}) = F[n + k] + Total(F, S) BY <1>10, <1>12, <1>13, <1>14, TotalPuts
<1>16. Total(G, T \cup {k}) = G[k] + Total(G, T) BY <1>11, <1>12, <1>13, TotalPuts
<1> QED BY <1>3, <1>8, <1>9, <1>10, <1>11, <1>13, <1>15, <1>16

\* The containers of a template, without init containers, need no more than
\* the capsule is claimed with; nor does one init container.
LEMMA ClaimFact ==
    ASSUME NEW t \in Templates \cup {NoTemplate}, NEW R,
           R \subseteq 1..Len(Merged(t)),
           \/ \A i \in R : ~IsInit(t, i)
           \/ \E a \in R : R = {a} /\ IsInit(t, a)
    PROVE  Total(Cpus(Merged(t)), R) <= capsule_need_cpu(t)
<1>1. PICK n, m, q, b : n = Len(t.initContainers) /\ m = Len(t.containers)
                        /\ q = Merged(t) /\ b = t.containers OBVIOUS
<1>2. /\ n \in Nat /\ m \in Nat /\ Len(q) = n + m
      /\ q \in Seq(InnerSpec) /\ b \in Seq(InnerSpec) /\ Len(b) = m
      /\ \A i \in 1..n : q[i] = t.initContainers[i]
      /\ \A i \in 1..m : q[n + i] = b[i]
  BY <1>1, TemplateFact
<1>3. PICK F : F = Cpus(q) OBVIOUS
<1>4. \A x \in 1..(n + m) : F[x] = q[x].cpu /\ F[x] \in Nat BY <1>2, <1>3, CpuFact
<1>5. CASE \A i \in R : ~IsInit(t, i)
  <2>1. PICK S : S = (n + 1)..(n + m) OBVIOUS
  <2>2. R \in SUBSET S /\ S \subseteq 1..(n + m)
    <3>1. S \subseteq 1..(n + m) BY <1>2, <2>1
    <3>2. ASSUME NEW i \in R PROVE i \in S
      <4>1. i \in 1..(n + m) BY <1>1, <1>2
      <4>2. ~(i <= n) BY <1>1, <1>5 DEF IsInit
      <4> QED BY <1>2, <2>1, <4>1, <4>2
    <3> QED BY <3>1, <3>2
  <2>3. IsFiniteSet(S) /\ \A x \in S : F[x] \in Nat BY <1>2, <1>4, <2>1, <2>2, FS_Interval
  <2>4. Total(F, R) <= Total(F, S) BY <2>2, <2>3, TotalLess
  <2>5. PICK G : G = Cpus(b) OBVIOUS
  <2>6. \A i \in 1..m : G[i] \in Nat /\ G[i] = b[i].cpu BY <1>2, <2>5, CpuFact
  <2>7. \A i \in 1..m : F[n + i] = G[i]
    <3> TAKE i \in 1..m
    <3>1. n + i \in 1..(n + m) BY <1>2
    <3> QED BY <1>2, <1>4, <2>6, <3>1
  <2>8. Total(F, S) = Total(G, 1..m)
    <3>1. n \in Nat /\ m \in Nat BY <1>2
    <3>2. \A i \in 1..m : G[i] \in Nat /\ F[n + i] = G[i] BY <2>6, <2>7
    <3>3. Total(F, (n + 1)..(n + m)) = Total(G, 1..m) BY <3>1, <3>2, TotalShift
    <3> QED BY <2>1, <3>3
  <2>9. Total(G, 1..m) <= capsule_need_cpu(t) /\ capsule_need_cpu(t) \in Nat
    BY <1>1, <2>5, NeedFact
  <2>10. IsFiniteSet(R) /\ \A x \in R : F[x] \in Nat BY <2>2, <2>3, FS_Subset
  <2>11. Total(F, R) \in Nat /\ Total(F, S) \in Nat BY <2>3, <2>10, TotalNat
  <2> QED BY <1>1, <1>3, <2>4, <2>8, <2>9, <2>11
<1>6. CASE \E a \in R : R = {a} /\ IsInit(t, a)
  <2>1. PICK a \in R : R = {a} /\ IsInit(t, a) BY <1>6
  <2>2. a \in 1..(n + m) /\ a \in 1..n
    <3>1. a \in 1..(n + m) BY <1>1, <1>2
    <3>2. a <= n BY <1>1, <2>1 DEF IsInit
    <3> QED BY <1>2, <3>1, <3>2
  <2>3. F[a] = t.initContainers[a].cpu /\ F[a] \in Nat BY <1>2, <1>4, <2>2
  <2>4. F[a] <= capsule_need_cpu(t) BY <1>1, <2>2, <2>3, NeedFact
  <2>5. PICK E : E = {} OBVIOUS
  <2>6. IsFiniteSet(E) /\ (\A x \in E : F[x] \in Nat) /\ a \notin E /\ E \cup {a} = R
    BY <2>1, <2>5, FS_EmptySet
  <2>7. Total(F, E \cup {a}) = F[a] + Total(F, E) BY <2>3, <2>6, TotalPuts
  <2>8. Total(F, E) = 0 BY <2>5, TotalEmpty
  <2>9. Total(F, R) = F[a]
    <3>1. Total(F, R) = F[a] + Total(F, E) BY <2>6, <2>7
    <3>2. PICK x, y, z : x = Total(F, R) /\ y = F[a] /\ z = Total(F, E) OBVIOUS
    <3>3. x = y + z /\ z = 0 /\ y \in Nat BY <2>3, <2>8, <3>1, <3>2
    <3>4. x = y BY <3>3
    <3> QED BY <3>2, <3>4
  <2> QED BY <1>1, <1>3, <2>4, <2>9
<1> QED BY <1>5, <1>6

(***************************************************************************)
(* Init containers run first and one after the other                       *)
(* (_wait_for_init_container), and what runs in a capsule at one time      *)
(* never needs more than _do_post asked the scheduler for, for any         *)
(* template.                                                               *)
(***************************************************************************)
THEOREM InitContainersFirst == Spec => []InitFirst
<1>1. IInv => InitBeforeApp
  <2> SUFFICES ASSUME IInv, NEW u \in Capsules, NEW i \in 1..MaxInner, NEW j \in 1..MaxInner,
                      rows[u].exists, IsInit(rows[u].tpl, i), ~IsInit(rows[u].tpl, j),
                      inner[u][j] # "none"
               PROVE  inner[u][i] = "exited"
    BY DEF InitBeforeApp
  <2>1. u \in Uuids BY CapsulesAssumption
  <2>2. Ordered(u) BY <2>1 DEF IInv, Inv, Own, CapsuleOk
  <2>3. EndedBefore(u, j) BY <2>2 DEF Ordered
  <2>4. PICK n : n = Len(rows[u].tpl.initContainers) OBVIOUS
  <2>5. n \in Nat BY <2>1, <2>4, Fields, TemplateFact DEF IInv
  <2>6. i < j BY <2>4, <2>5, MaxInnerFact DEF IsInit
  <2> QED BY <2>3, <2>6 DEF EndedBefore
<1>2. IInv => ClaimCovers
  <2> SUFFICES ASSUME IInv, NEW u \in Capsules
               PROVE  MapThenSumSet(LAMBDA i : Merged(rows[u].tpl)[i].cpu,
                                    {i \in DOMAIN Merged(rows[u].tpl) : inner[u][i] = "running"})
                         <= rows[u].cpu
    BY DEF ClaimCovers
  <2>1. u \in Uuids BY CapsulesAssumption
  <2>2. Placed(u) /\ Ordered(u) /\ Claimed(u) BY <2>1 DEF IInv, Inv, Own, CapsuleOk
  <2>3. PICK t, q, R : /\ t = rows[u].tpl /\ q = Merged(t)
                       /\ R = {i \in DOMAIN q : inner[u][i] = "running"} OBVIOUS
  <2>4. t \in Templates \cup {NoTemplate} /\ rows[u].cpu \in Nat
    <3>1. Types BY DEF IInv
    <3>2. rows[u] \in RowType BY <2>1, <3>1, Fields
    <3> QED BY <2>3, <3>2 DEF RowType
  <2>5. q \in Seq(InnerSpec) /\ Len(q) \in Nat /\ Len(q) <= MaxInner /\ MaxInner \in Nat
    <3>1. q \in Seq(InnerSpec) BY <2>3, <2>4, TemplateFact
    <3>2. Len(q) <= MaxInner /\ MaxInner \in Nat BY <2>3, <2>4, MaxInnerFact
    <3> QED BY <3>1, <3>2
  <2>6. DOMAIN q = 1..Len(q) /\ 1..Len(q) \subseteq 1..MaxInner BY <2>5
  <2>7. R \subseteq 1..Len(q) /\ \A i \in R : i \in 1..MaxInner /\ inner[u][i] = "running"
    BY <2>3, <2>6
  <2>8. MapThenSumSet(LAMBDA i : q[i].cpu, R) = Total(Cpus(q), R) BY <2>5, <2>7, SumIsTotal
  <2>9. Total(Cpus(q), R) <= rows[u].cpu
    <3>1. CASE R = {} BY <2>4, <3>1, TotalEmpty
    <3>2. CASE R # {}
      <4>1. ~Blank(u) BY <2>7, <3>2 DEF Blank
      <4>2. rows[u].exists
        <5>1. ASSUME ~rows[u].exists PROVE FALSE
          <6>1. t = NoTemplate BY <2>2, <2>3, <5>1 DEF Placed
          <6>2. Len(q) = 0 BY <2>3, <6>1 DEF Merged, NoTemplate
          <6>3. 1..Len(q) = {} BY <6>2
          <6> QED BY <2>7, <3>2, <6>3
        <5> QED BY <5>1
      <4>3. rows[u].cpu = capsule_need_cpu(t) BY <2>2, <2>3, <4>1, <4>2 DEF Claimed
      <4>4. \A j \in R : EndedBefore(u, j) BY <2>2, <2>7, <4>2 DEF Ordered
      <4>5. \A i, j \in R : i < j => ~IsInit(t, i) BY <2>3, <2>7, <4>4 DEF EndedBefore
      <4>6. CASE \E a \in R : IsInit(t, a)
        <5>1. PICK a \in R : IsInit(t, a) BY <4>6
        <5>2. PICK n : n = Len(t.initContainers) OBVIOUS
        <5>3. n \in Nat /\ a <= n BY <2>4, <5>1, <5>2, TemplateFact DEF IsInit
        <5>4. ASSUME NEW j \in R PROVE j = a
          <6>1. j \in Nat /\ a \in Nat BY <2>5, <2>7
          <6>2. ~(a < j) BY <4>5, <5>1
          <6>3. ASSUME j < a PROVE FALSE
            <7>1. IsInit(t, j) BY <5>2, <5>3, <6>1, <6>3 DEF IsInit
            <7> QED BY <4>5, <6>3, <7>1
          <6> QED BY <6>1, <6>2, <6>3
        <5>5. R = {a} BY <5>4
        <5> QED BY <2>3, <2>4, <2>7, <4>3, <5>1, <5>5, ClaimFact
      <4>7. CASE \A a \in R : ~IsInit(t, a)
        BY <2>3, <2>4, <2>7, <4>3, <4>7, ClaimFact
      <4> QED BY <4>6, <4>7
    <3> QED BY <3>1, <3>2
  <2> QED BY <2>3, <2>8, <2>9
<1>3. IInv => InitFirst BY <1>1, <1>2 DEF InitFirst
<1> QED BY <1>3, CapsulesInOrder, PTL

-----------------------------------------------------------------------------
(* The network: the inductive invariant                                     *)

CallType == [u : Uuids, cmd : {"ADD", "DEL"}, cid : Nat, ns : Nat,
             pc : {"check", "work", "save", "wait", "finish"},
             active : BOOLEAN, heard : BOOLEAN]

EntryType == [cid : Nat, vif_unplugged : BOOLEAN, del_received : BOOLEAN,
              active : BOOLEAN]

NetTypes ==
    /\ registry \in [Uuids -> EntryType]
    /\ wired \in [Uuids -> Nat]
    /\ answer \in [Uuids -> {"none", "ok", "failed"}]
    /\ calls \in SUBSET CallType

\* Neither lost nor with a call its client gave up.
Spared(u) == u \notin spoilt /\ \A cmd \in {"ADD", "DEL"} : <<u, cmd>> \notin late

\* The namespace is plugged, and the daemon knows for which container.
Plugged(u, ns, cid) ==
    wired[u] = ns /\ registry[u].cid = cid /\ ~registry[u].vif_unplugged

\* Where a thread waits for the answer to a DEL.
Unplugging == {"unplug", "teardown", "cleanup", "stopping", "stopsandbox"}

\* An ADD does its work step by step, for the thread that waits for it.
Adding(u, c) ==
    /\ thr[u].pc = "plug" /\ c.cid = pods[u] /\ c.ns = thr[u].ns
    /\ c.pc \in {"save", "wait"} => wired[u] = c.ns
    /\ c.pc = "wait" => Plugged(u, c.ns, c.cid)

\* One call at a time, and its client is waiting for it.
Served(u, c) ==
    /\ c.heard /\ answer[u] = "none"
    /\ \A d \in calls : d.u = u => d = c
    /\ c.cmd = "ADD" => Adding(u, c)
    /\ c.cmd = "DEL" => thr[u].pc \in Unplugging

\* A namespace is not given twice, so that the recorded pid is that of the
\* process only if it was plugged.
Counted(u) ==
    /\ netns[u] <= used.ns[u] /\ thr[u].ns <= used.ns[u] /\ rows[u].pid <= used.ns[u]
    /\ thr[u].pc = "inspect" => netns[u] = 0 \/ netns[u] # rows[u].pid

\* What the record of a container says.
Recorded(u) ==
    /\ thr[u].pc \in {"idle", "pull", "stopping"} => pods[u] \in {0, rows[u].cid}
    /\ thr[u].pc \in Making => pods[u] = rows[u].cid
    /\ thr[u].pc = "touch" => rows[u].pid = thr[u].ns /\ Plugged(u, thr[u].ns, rows[u].cid)
    /\ thr[u].pc = "idle" /\ rows[u].status = "Running" /\ rows[u].pid # 0
          => Plugged(u, rows[u].pid, rows[u].cid)

NetOk(u) ==
    /\ \A c \in calls : c.u = u => Served(u, c)
    /\ thr[u].pc = "plug" /\ answer[u] = "ok" => Plugged(u, thr[u].ns, pods[u])
    /\ u \in Boxes => Counted(u) /\ Recorded(u)

NetInv == NetTypes /\ \A u \in Uuids : Spared(u) => NetOk(u)

-----------------------------------------------------------------------------
(* The network: what the steps share                                        *)

\* A step at u leaves what belongs to the others alone, the daemon's included.
Beside(u) ==
    \A d \in Uuids \ {u} :
        /\ netns'[d] = netns[d] /\ registry'[d] = registry[d] /\ wired'[d] = wired[d]
        /\ answer'[d] = answer[d] /\ used'.ns[d] = used.ns[d]
        /\ \A c \in CallType : c.u = d => (c \in calls' <=> c \in calls)

NetGood(u) == NetTypes' /\ Beside(u) /\ late \subseteq late' /\ (Spared(u)' => NetOk(u)')

\* Then it keeps the invariant.
LEMMA NetKeeps ==
    ASSUME NetInv, NEW u \in Uuids, Alone(u), NetGood(u)
    PROVE  NetInv'
<1>1. ASSUME NEW d \in Uuids, Spared(d)' PROVE NetOk(d)'
  <2>1. CASE d = u BY <1>1, <2>1 DEF NetGood
  <2>2. CASE d # u
    <3>1. /\ rows'[d] = rows[d] /\ pods'[d] = pods[d] /\ thr'[d] = thr[d]
          /\ d \in spoilt' <=> d \in spoilt
      BY <2>2 DEF Alone
    <3>2. /\ netns'[d] = netns[d] /\ registry'[d] = registry[d] /\ wired'[d] = wired[d]
          /\ answer'[d] = answer[d] /\ used'.ns[d] = used.ns[d]
          /\ \A c \in CallType : c.u = d => (c \in calls' <=> c \in calls)
      BY <2>2 DEF NetGood, Beside
    <3>3. Spared(d) BY <1>1, <3>1 DEF Spared, NetGood
    <3>4. NetOk(d) BY <3>3 DEF NetInv
    <3>5. calls \subseteq CallType /\ calls' \subseteq CallType BY DEF NetInv, NetGood, NetTypes
    <3>6. \A ns, cid : Plugged(d, ns, cid)' <=> Plugged(d, ns, cid) BY <3>2 DEF Plugged
    <3>7. ASSUME NEW c \in calls', c.u = d PROVE Served(d, c)'
      <4>1. c \in calls /\ Served(d, c) BY <3>2, <3>4, <3>5, <3>7 DEF NetOk
      <4>2. \A e \in calls' : e.u = d => e = c BY <3>2, <3>5, <4>1 DEF Served
      <4> QED BY <3>1, <3>2, <3>6, <4>1, <4>2 DEF Served, Adding
    <3>8. Counted(d) => Counted(d)' BY <3>1, <3>2 DEF Counted
    <3>9. Recorded(d) => Recorded(d)' BY <3>1, <3>6 DEF Recorded
    <3> QED BY <3>1, <3>2, <3>4, <3>6, <3>7, <3>8, <3>9 DEF NetOk
  <2> QED BY <2>1, <2>2
<1> QED BY <1>1 DEF NetGood, NetInv

\* A thread that is not waiting for the daemon has no call there.
LEMMA Unasked ==
    ASSUME NetInv, NEW u \in Uuids, Spared(u),
           thr[u].pc \notin Unplugging \cup {"plug"} \/ answer[u] # "none"
    PROVE  \A c \in calls : c.u # u
<1> SUFFICES ASSUME NEW c \in calls, c.u = u PROVE FALSE OBVIOUS
<1>1. Served(u, c) BY DEF NetInv, NetOk
<1>2. c.cmd \in {"ADD", "DEL"} BY DEF NetInv, NetTypes, CallType
<1> QED BY <1>1, <1>2 DEF Served, Adding

\* Nothing is forgiven.
LEMMA SparedBefore ==
    ASSUME NEW u \in Uuids, spoilt \subseteq spoilt', late \subseteq late', Spared(u)'
    PROVE  Spared(u)
BY DEF Spared

\* A step that does not touch the daemon.
Silent(u) ==
    /\ UNCHANGED <<registry, wired, calls, answer, late>>
    /\ \A d \in Uuids \ {u} : netns'[d] = netns[d] /\ used'.ns[d] = used.ns[d]

LEMMA SilentFact ==
    ASSUME NetInv, NEW u, Silent(u)
    PROVE  NetTypes' /\ Beside(u) /\ late \subseteq late'
BY DEF Silent, NetInv, NetTypes, Beside

\* Of a capsule it is enough where its thread is.
LEMMA CapsuleSilent ==
    ASSUME IInv, NetInv, NEW u \in Capsules, Silent(u), spoilt \subseteq spoilt',
           thr[u].pc \notin Unplugging \cup {"plug"}, thr'[u].pc # "plug"
    PROVE  NetGood(u)
<1>1. u \in Uuids /\ u \notin Boxes BY CapsulesAssumption
<1>2. NetTypes' /\ Beside(u) /\ late \subseteq late' BY SilentFact
<1>3. ASSUME Spared(u)' PROVE NetOk(u)'
  <2>1. Spared(u) BY <1>1, <1>2, <1>3, SparedBefore
  <2>2. \A c \in calls' : c.u # u BY <1>1, <2>1, Unasked DEF Silent
  <2> QED BY <1>1, <2>2 DEF NetOk
<1> QED BY <1>2, <1>3 DEF NetGood

\* A spoilt uuid needs no more.
LEMMA SpoiltSilent ==
    ASSUME NetInv, NEW u \in Uuids, Silent(u), u \in spoilt'
    PROVE  NetGood(u)
BY SilentFact DEF NetGood, Spared

\* The call that a client makes.
CallOf(u, cmd, cid, ns) ==
    [u |-> u, cmd |-> cmd, cid |-> cid, ns |-> ns,
     pc |-> IF cmd = "ADD" THEN "work" ELSE "check", active |-> FALSE, heard |-> TRUE]

LEMMA Asking ==
    ASSUME NetInv, NEW u \in Uuids, NEW cmd \in {"ADD", "DEL"}, NEW cid \in Nat, NEW ns \in Nat,
           _make_request(u, cmd, cid, ns), UNCHANGED <<registry, wired, late>>,
           \A d \in Uuids \ {u} : netns'[d] = netns[d] /\ used'.ns[d] = used.ns[d]
    PROVE  /\ NetTypes' /\ Beside(u) /\ late \subseteq late'
           /\ answer'[u] = "none"
           /\ (\A c \in calls : c.u # u) =>
                 \A c \in calls' : c.u = u => c = CallOf(u, cmd, cid, ns)
<1>1. PICK n : n = CallOf(u, cmd, cid, ns) OBVIOUS
<1>2. n \in CallType /\ n.u = u BY <1>1 DEF CallOf, CallType
<1>3. calls' = calls \cup {n} /\ answer' = [answer EXCEPT ![u] = "none"]
  BY <1>1 DEF _make_request, CallOf
<1>4. NetTypes' BY <1>2, <1>3 DEF NetInv, NetTypes
<1>5. Beside(u) BY <1>2, <1>3 DEF Beside, NetInv, NetTypes
<1>6. answer'[u] = "none" BY <1>3 DEF NetInv, NetTypes
<1> QED BY <1>1, <1>3, <1>4, <1>5, <1>6

\* Whose call it is and what it asks.
LEMMA Asked ==
    ASSUME NEW u \in Uuids, NEW cmd \in {"ADD", "DEL"}, NEW cid \in Nat, NEW ns \in Nat,
           answer'[u] = "none",
           \A c \in calls' : c.u = u => c = CallOf(u, cmd, cid, ns),
           cmd = "DEL" => thr'[u].pc \in Unplugging,
           cmd = "ADD" => thr'[u].pc = "plug" /\ cid = pods'[u] /\ ns = thr'[u].ns,
           u \in Boxes => Counted(u)' /\ Recorded(u)'
    PROVE  NetOk(u)'
<1>1. PICK n : n = CallOf(u, cmd, cid, ns) OBVIOUS
<1>2. /\ n.heard /\ n.cmd = cmd /\ n.cid = cid /\ n.ns = ns
      /\ cmd = "ADD" => n.pc = "work"
  BY <1>1 DEF CallOf
<1>3. ASSUME NEW c \in calls', c.u = u PROVE Served(u, c)'
  <2>1. c = n BY <1>1, <1>3
  <2>2. \A e \in calls' : e.u = u => e = c BY <1>1, <2>1
  <2> QED BY <1>2, <2>1, <2>2 DEF Served, Adding
<1> QED BY <1>3 DEF NetOk

\* The answer is taken note of.
LEMMA Hearing ==
    ASSUME NetInv, NEW u \in Uuids, Heard(u), UNCHANGED <<registry, wired, calls, late>>,
           \A d \in Uuids \ {u} : netns'[d] = netns[d] /\ used'.ns[d] = used.ns[d]
    PROVE  /\ NetTypes' /\ Beside(u) /\ late \subseteq late' /\ answer'[u] = "none"
BY DEF Heard, NetInv, NetTypes, Beside

-----------------------------------------------------------------------------
(* The network: the steps of capsules                                       *)

\* The API's part, the containers in a capsule and the end of a creation.
LEMMA CapsuleNet ==
    ASSUME IInv, NetInv, NEW u \in Uuids,
           \/ PostNetworks(u) \/ _build_requested_volumes(u) \/ Schedule(u)
           \/ _attach_volumes_for_capsule(u) \/ _write_cni_metadata(u)
           \/ _create_container(u) \/ _create_container_in_capsule(u)
           \/ _wait_for_init_container(u) \/ CapsuleCreated(u) \/ DockerDelete(u)
    PROVE  NetGood(u)
<1>1. Types /\ Own(u) BY DEF IInv, Inv
<1>2. thr[u].pc \in Api \cup {"attach", "inner", "init"}
      \/ (thr[u].pc \in {"create", "idle"} /\ Kind(u) # "container")
  BY DEF PostNetworks, _build_requested_volumes, Schedule, _attach_volumes_for_capsule,
         _write_cni_metadata, _create_container, _create_container_in_capsule,
         _wait_for_init_container, CapsuleCreated, DockerDelete, At, Api
<1>3. u \in Capsules
  <2>1. u \in Boxes => thr[u].pc \notin Api \cup {"attach", "inner", "init"}
    BY <1>1 DEF Own, BoxOk, Making, Api
  <2> QED BY <1>1, <1>2, <2>1, Sorts, KindFact
<1>4. thr[u].pc \notin Unplugging \cup {"plug"} BY <1>2 DEF Unplugging, Api
<1>5. used'.ns = used.ns
  <2>1. Fault \/ used' = used
    BY DEF PostNetworks, _build_requested_volumes, Schedule, _attach_volumes_for_capsule,
           _write_cni_metadata, _create_container, _create_container_in_capsule,
           _wait_for_init_container, CapsuleCreated, DockerDelete
  <2> QED BY <1>1, <2>1, Counting
<1>6. /\ UNCHANGED <<registry, wired, calls, answer, late>>
      /\ \A d \in Uuids \ {u} : netns'[d] = netns[d]
  BY <1>1 DEF PostNetworks, _build_requested_volumes, Schedule, _attach_volumes_for_capsule,
         _write_cni_metadata, _create_container, _create_container_in_capsule,
         _wait_for_init_container, CapsuleCreated, DockerDelete, netQuiet, Types
<1>7. spoilt \subseteq spoilt'
  BY DEF PostNetworks, _build_requested_volumes, Schedule, _attach_volumes_for_capsule,
         _write_cni_metadata, _create_container, _create_container_in_capsule,
         _wait_for_init_container, CapsuleCreated, DockerDelete, FailCreate, FailWith
<1>8. thr'[u].pc # "plug"
  <2>1. thr[u].pc # "plug" BY <1>4
  <2>2. thr \in [Uuids -> ThreadType] BY <1>1 DEF Types
  <2>3. Idle.pc = "idle" BY DEF Idle
  <2>4. CASE PostNetworks(u) BY <2>2, <2>3, <2>4 DEF PostNetworks, Goto, End, ThreadType
  <2>5. CASE _build_requested_volumes(u) BY <2>2, <2>3, <2>5 DEF _build_requested_volumes, Goto, End, ThreadType
  <2>6. CASE Schedule(u) BY <2>2, <2>3, <2>6 DEF Schedule, Goto, End, ThreadType
  <2>7. CASE _attach_volumes_for_capsule(u)
    BY <2>2, <2>3, <2>7 DEF _attach_volumes_for_capsule, End, ThreadType
  <2>8. CASE _write_cni_metadata(u)
    BY <2>2, <2>3, <2>8 DEF _write_cni_metadata, Goto, FailCreate, FailWith, End, ThreadType
  <2>9. CASE _create_container(u)
    <3>1. NextInner(u) \/ End(u) BY <2>9 DEF _create_container, FailWith
    <3> QED BY <2>2, <2>3, <3>1 DEF NextInner, End, ThreadType
  <2>10. CASE _create_container_in_capsule(u)
    <3>1. NextInner(u) \/ End(u) BY <2>10 DEF _create_container_in_capsule, FailCreate, FailWith
    <3> QED BY <2>2, <2>3, <3>1 DEF NextInner, End, ThreadType
  <2>11. CASE _wait_for_init_container(u)
    BY <2>2, <2>3, <2>11 DEF _wait_for_init_container, FailCreate, FailWith, End, ThreadType
  <2>12. CASE CapsuleCreated(u) BY <2>2, <2>3, <2>12 DEF CapsuleCreated, End
  <2>13. CASE DockerDelete(u) BY <2>1, <2>13 DEF DockerDelete
  <2> QED BY <2>4, <2>5, <2>6, <2>7, <2>8, <2>9, <2>10, <2>11, <2>12, <2>13
<1> QED BY <1>3, <1>4, <1>5, <1>6, <1>7, <1>8, CapsuleSilent DEF Silent

\* The requests of users.
LEMMA UserNet ==
    ASSUME IInv, NetInv, NEW u \in Capsules,
           \/ \E t \in Templates : PostCapsule(u, t)
           \/ DeleteCapsule(u)
           \/ \E i \in 1..MaxInner : InnerExits(u, i)
    PROVE  NetGood(u)
<1>1. u \in Uuids /\ u \notin Boxes /\ Types BY CapsulesAssumption DEF IInv
<1>2. /\ UNCHANGED <<registry, wired, calls, answer, late, netns>>
      /\ Request \/ used' = used
  BY DEF PostCapsule, DeleteCapsule, InnerExits, netQuiet
<1>3. Silent(u) BY <1>1, <1>2, Counting DEF Silent
<1>4. CASE \E t \in Templates : PostCapsule(u, t)
  <2>1. thr[u].pc = "idle" /\ thr'[u].pc = "networks" /\ spoilt' = spoilt
    <3>1. thr[u].pc = "idle" /\ Goto(u, "networks") /\ spoilt' = spoilt
      BY <1>4 DEF PostCapsule, At
    <3>2. "networks" \in Pcs BY DEF Pcs, Api
    <3> QED BY <1>1, <3>1, <3>2, Going
  <2> QED BY <1>3, <2>1, CapsuleSilent DEF Unplugging
<1>5. CASE DeleteCapsule(u)
  <2>1. thr' = thr /\ spoilt' = IF thr[u].pc = "idle" THEN spoilt ELSE spoilt \cup {u}
    BY <1>5 DEF DeleteCapsule, At
  <2>2. CASE thr[u].pc = "idle" BY <1>3, <2>1, <2>2, CapsuleSilent DEF Unplugging
  <2>3. CASE thr[u].pc # "idle" BY <1>1, <1>3, <2>1, <2>3, SpoiltSilent
  <2> QED BY <2>2, <2>3
<1>6. CASE \E i \in 1..MaxInner : InnerExits(u, i)
  <2>1. UNCHANGED <<rows, pods, thr, spoilt, used>> BY <1>6 DEF InnerExits
  <2>2. Spared(u)' => Spared(u) BY <1>2, <2>1 DEF Spared
  <2>3. NetOk(u) => NetOk(u)'
    BY <1>1, <1>2, <2>1 DEF NetOk, Served, Adding, Plugged
  <2>4. Spared(u)' => NetOk(u)' BY <1>1, <2>2, <2>3 DEF NetInv
  <2> QED BY <1>3, <2>4, SilentFact DEF NetGood
<1> QED BY <1>4, <1>5, <1>6

\* containerd asks for the sandbox's network ...
LEMMA RunPodSandboxNet ==
    ASSUME IInv, NetInv, NEW u \in Uuids, RunPodSandbox(u)
    PROVE  NetGood(u)
<1>1. Types /\ Own(u) BY DEF IInv, Inv
<1>2. thr[u].pc = "sandbox" BY DEF RunPodSandbox, At
<1>3. u \notin Boxes BY <1>1, <1>2 DEF Own, BoxOk, Making
<1>4. PICK ns, cid : ns = used.ns[u] + 1 /\ cid = used.cid[u] + 1 OBVIOUS
<1>5. ns \in Nat /\ cid \in Nat BY <1>1, <1>4, Fields
<1>6. /\ _make_request(u, "ADD", cid, ns) /\ UNCHANGED <<registry, wired, late, spoilt>>
      /\ netns' = [netns EXCEPT ![u] = ns] /\ pods' = [pods EXCEPT ![u] = cid]
      /\ thr' = [thr EXCEPT ![u].pc = "plug", ![u].ns = ns]
      /\ used' = [used EXCEPT !.ns[u] = @ + 1, !.cid[u] = @ + 1]
  BY <1>4 DEF RunPodSandbox
<1>7. \A d \in Uuids \ {u} : netns'[d] = netns[d] /\ used'.ns[d] = used.ns[d]
  BY <1>1, <1>6 DEF Types, UsedType
<1>8. pods'[u] = cid /\ thr'[u].pc = "plug" /\ thr'[u].ns = ns
  BY <1>1, <1>6 DEF Types, ThreadType
<1>9. /\ NetTypes' /\ Beside(u) /\ late \subseteq late' /\ answer'[u] = "none"
      /\ (\A c \in calls : c.u # u) => \A c \in calls' : c.u = u => c = CallOf(u, "ADD", cid, ns)
  BY <1>5, <1>6, <1>7, Asking
<1>10. ASSUME Spared(u)' PROVE NetOk(u)'
  <2>1. Spared(u) BY <1>6, <1>9, <1>10, SparedBefore
  <2>2. \A c \in calls : c.u # u BY <1>2, <2>1, Unasked DEF Unplugging
  <2> QED BY <1>3, <1>5, <1>8, <1>9, <2>2, Asked
<1> QED BY <1>9, <1>10 DEF NetGood

\* ... goes on with it, or has it removed again ...
LEMMA SandboxPluggedNet ==
    ASSUME IInv, NetInv, NEW u \in Uuids, SandboxPlugged(u)
    PROVE  NetGood(u)
<1>1. Types /\ Own(u) BY DEF IInv, Inv
<1>2. /\ thr[u].pc = "plug" /\ answer[u] # "none"
      /\ UNCHANGED <<registry, wired, late, netns, used, spoilt, pods>>
  BY DEF SandboxPlugged, At
<1>3. u \notin Boxes BY <1>1, KindFact DEF SandboxPlugged
<1>4. Spared(u)' => Spared(u) /\ \A c \in calls : c.u # u
  BY <1>2, SparedBefore, Unasked
<1>5. CASE /\ thr' = [thr EXCEPT ![u].pc = "inner", ![u].i = 1] /\ Heard(u) /\ calls' = calls
  <2>1. NetTypes' /\ Beside(u) /\ late \subseteq late' /\ answer'[u] = "none"
    BY <1>2, <1>5, Hearing
  <2>2. Spared(u)' => NetOk(u)' BY <1>3, <1>4, <1>5, <2>1 DEF NetOk
  <2> QED BY <2>1, <2>2 DEF NetGood
<1>6. CASE _make_request(u, "DEL", pods[u], thr[u].ns) /\ Goto(u, "teardown")
  <2>1. pods[u] \in Nat /\ thr[u].ns \in Nat BY <1>1, Fields
  <2>2. thr'[u].pc = "teardown" BY <1>1, <1>6 DEF Goto, Types, ThreadType
  <2>3. /\ NetTypes' /\ Beside(u) /\ late \subseteq late' /\ answer'[u] = "none"
        /\ (\A c \in calls : c.u # u) =>
              \A c \in calls' : c.u = u => c = CallOf(u, "DEL", pods[u], thr[u].ns)
    BY <1>2, <1>6, <2>1, Asking
  <2>4. Spared(u)' => NetOk(u)' BY <1>3, <1>4, <2>1, <2>2, <2>3, Asked DEF Unplugging
  <2> QED BY <2>3, <2>4 DEF NetGood
<1> QED BY <1>5, <1>6 DEF SandboxPlugged

LEMMA SandboxFailsNet ==
    ASSUME IInv, NetInv, NEW u \in Uuids, SandboxFails(u)
    PROVE  NetGood(u)
<1>1. Types BY DEF IInv
<1>2. /\ UNCHANGED <<registry, wired, late, calls, used>> /\ u \in spoilt' /\ Heard(u)
      /\ netns' = [netns EXCEPT ![u] = 0]
  BY DEF SandboxFails
<1>3. \A d \in Uuids \ {u} : netns'[d] = netns[d] BY <1>1, <1>2 DEF Types
<1>4. NetTypes' /\ Beside(u) /\ late \subseteq late' BY <1>2, <1>3, Hearing
<1> QED BY <1>2, <1>4 DEF NetGood, Spared

\* ... and stops the sandbox with a DEL.
LEMMA CriDeleteNet ==
    ASSUME IInv, NetInv, NEW u \in Uuids, CriDelete(u)
    PROVE  NetGood(u)
<1>1. Types BY DEF IInv
<1>2. /\ thr[u].pc = "idle" /\ UNCHANGED <<registry, wired, late, netns, used, spoilt, pods>>
  BY DEF CriDelete, At
<1>3. u \notin Boxes /\ u \in Capsules BY <1>1, KindFact, Sorts DEF CriDelete
<1>4. CASE UNCHANGED <<calls, answer, thr>>
  BY <1>2, <1>3, <1>4, CapsuleSilent DEF Silent, Unplugging
<1>5. CASE /\ _make_request(u, "DEL", pods[u], used.ns[u])
           /\ thr' = [thr EXCEPT ![u] = [Idle EXCEPT !.pc = "stopsandbox"]]
  <2>1. pods[u] \in Nat /\ used.ns[u] \in Nat BY <1>1, Fields
  <2>2. thr'[u].pc = "stopsandbox" BY <1>1, <1>5 DEF Types, Idle
  <2>3. /\ NetTypes' /\ Beside(u) /\ late \subseteq late' /\ answer'[u] = "none"
        /\ (\A c \in calls : c.u # u) =>
              \A c \in calls' : c.u = u => c = CallOf(u, "DEL", pods[u], used.ns[u])
    BY <1>2, <1>5, <2>1, Asking
  <2>4. ASSUME Spared(u)' PROVE NetOk(u)'
    <3>1. \A c \in calls : c.u # u BY <1>2, <2>4, SparedBefore, Unasked DEF Unplugging
    <3> QED BY <1>3, <2>1, <2>2, <2>3, <3>1, Asked DEF Unplugging
  <2> QED BY <2>3, <2>4 DEF NetGood
<1> QED BY <1>4, <1>5 DEF CriDelete

LEMMA SandboxStoppedNet ==
    ASSUME IInv, NetInv, NEW u \in Uuids, SandboxStopped(u)
    PROVE  NetGood(u)
<1>1. Types /\ Own(u) BY DEF IInv, Inv
<1>2. /\ thr[u].pc = "stopsandbox" /\ answer[u] # "none" /\ Heard(u) /\ End(u)
      /\ UNCHANGED <<registry, wired, late, calls, used, spoilt>>
  BY DEF SandboxStopped, At
<1>3. u \notin Boxes BY <1>1, <1>2 DEF Own, BoxOk, Making
<1>4. \A d \in Uuids \ {u} : netns'[d] = netns[d] BY <1>1 DEF SandboxStopped, Types
<1>5. NetTypes' /\ Beside(u) /\ late \subseteq late' /\ answer'[u] = "none"
  BY <1>2, <1>4, Hearing
<1>6. thr'[u].pc = "idle" BY <1>1, <1>2, Ending
<1>7. Spared(u)' => NetOk(u)' BY <1>2, <1>3, <1>5, <1>6, SparedBefore, Unasked DEF NetOk
<1> QED BY <1>5, <1>7 DEF NetGood

-----------------------------------------------------------------------------
(* The network: the steps of containers                                     *)

\* A thread that is not waiting, before and after: what is left to show of it.
LEMMA NotWaiting ==
    ASSUME IInv, NetInv, NEW u \in Uuids, NetTypes', Beside(u), late \subseteq late',
           spoilt \subseteq spoilt', calls' = calls,
           thr[u].pc \notin Unplugging \cup {"plug"} \/ answer[u] # "none",
           thr'[u].pc # "plug",
           u \in Boxes /\ Spared(u) /\ Counted(u) /\ Recorded(u) => Counted(u)' /\ Recorded(u)'
    PROVE  NetGood(u)
<1>1. ASSUME Spared(u)' PROVE NetOk(u)'
  <2>1. Spared(u) BY <1>1, SparedBefore
  <2>2. NetOk(u) /\ \A c \in calls : c.u # u BY <2>1, Unasked DEF NetInv
  <2>3. u \in Boxes => Counted(u)' /\ Recorded(u)' BY <2>1, <2>2 DEF NetOk
  <2> QED BY <2>2, <2>3 DEF NetOk
<1> QED BY <1>1 DEF NetGood

\* A thread that makes a call.
LEMMA Calling ==
    ASSUME IInv, NetInv, NEW u \in Uuids, NEW cmd \in {"ADD", "DEL"}, NEW cid \in Nat, NEW ns \in Nat,
           _make_request(u, cmd, cid, ns), UNCHANGED <<registry, wired, late, spoilt>>,
           \A d \in Uuids \ {u} : netns'[d] = netns[d] /\ used'.ns[d] = used.ns[d],
           thr[u].pc \notin Unplugging \cup {"plug"} \/ answer[u] # "none",
           cmd = "DEL" => thr'[u].pc \in Unplugging,
           cmd = "ADD" => thr'[u].pc = "plug" /\ cid = pods'[u] /\ ns = thr'[u].ns,
           u \in Boxes /\ Spared(u) /\ Counted(u) /\ Recorded(u) => Counted(u)' /\ Recorded(u)'
    PROVE  NetGood(u)
<1>1. /\ NetTypes' /\ Beside(u) /\ late \subseteq late' /\ answer'[u] = "none"
      /\ (\A c \in calls : c.u # u) => \A c \in calls' : c.u = u => c = CallOf(u, cmd, cid, ns)
  BY Asking
<1>2. ASSUME Spared(u)' PROVE NetOk(u)'
  <2>1. Spared(u) BY <1>1, <1>2, SparedBefore
  <2>2. NetOk(u) /\ \A c \in calls : c.u # u BY <2>1, Unasked DEF NetInv
  <2>3. u \in Boxes => Counted(u)' /\ Recorded(u)' BY <2>1, <2>2 DEF NetOk
  <2>4. \A c \in calls' : c.u = u => c = CallOf(u, cmd, cid, ns) BY <1>1, <2>2
  <2> QED BY <1>1, <2>3, <2>4, Asked
<1> QED BY <1>1, <1>2 DEF NetGood

\* The numbers of a uuid.
LEMMA Numbers ==
    ASSUME Types, NEW u \in Uuids
    PROVE  /\ netns[u] \in Nat /\ used.ns[u] \in Nat /\ thr[u].ns \in Nat
           /\ rows[u].pid \in Nat /\ rows[u].cid \in Nat /\ pods[u] \in Nat
BY Fields DEF Types

\* Where the thread is not in the middle of plugging, little is to be shown.
LEMMA CountedOn ==
    ASSUME NEW u \in Uuids, Types, Types', Counted(u),
           used'.ns[u] = used.ns[u], netns'[u] \in {0, netns[u]},
           thr'[u].ns \in {0, thr[u].ns, netns[u]},
           rows'[u].pid \in {0, rows[u].pid, thr[u].ns},
           thr'[u].pc = "inspect" => thr[u].pc = "inspect" /\ rows'[u].pid = rows[u].pid
    PROVE  Counted(u)'
BY Numbers DEF Counted

LEMMA PullImageNet ==
    ASSUME IInv, IInv', NetInv, NEW u \in Uuids, PullImage(u)
    PROVE  NetGood(u)
<1>1. Types /\ Own(u) /\ Types' BY DEF IInv, Inv
<1>2. /\ thr[u].pc = "pull" /\ UNCHANGED <<netns, registry, wired, calls, answer, late, spoilt, pods>>
      /\ Fault \/ used' = used
  BY DEF PullImage, netQuiet, At
<1>3. used'.ns = used.ns BY <1>1, <1>2, Counting
<1>4. Silent(u) BY <1>2, <1>3 DEF Silent
<1>5. /\ rows'[u].pid = rows[u].pid /\ rows'[u].cid = rows[u].cid
      /\ \/ thr'[u].pc = "create" /\ thr'[u].ns = thr[u].ns
         \/ thr'[u].pc = "idle" /\ thr'[u].ns = 0 /\ rows'[u].status = "Error"
  <2>1. CASE Goto(u, "create") /\ rows' = rows BY <1>1, <2>1 DEF Goto, Types, ThreadType
  <2>2. CASE rows' = [rows EXCEPT ![u].status = "Error"] /\ End(u)
    BY <1>1, <2>2 DEF End, Idle, Types, RowType
  <2> QED BY <2>1, <2>2 DEF PullImage
<1>6. ASSUME u \in Boxes, Counted(u) PROVE Counted(u)'
  BY <1>1, <1>2, <1>3, <1>5, <1>6, CountedOn
<1>7. ASSUME u \in Boxes, Spared(u), Recorded(u) PROVE Recorded(u)'
  <2>1. pods[u] \in {0, rows[u].cid} BY <1>2, <1>7 DEF Recorded
  <2> QED BY <1>2, <1>5, <2>1 DEF Recorded, Making
<1> QED BY <1>2, <1>4, <1>5, <1>6, <1>7, SilentFact, NotWaiting DEF Unplugging

\* The new container has no pid recorded.
LEMMA DockerCreateNet ==
    ASSUME IInv, IInv', NetInv, NEW u \in Uuids, DockerCreate(u)
    PROVE  NetGood(u)
<1>1. Types /\ Own(u) /\ Types' BY DEF IInv, Inv
<1>2. /\ thr[u].pc = "create" /\ UNCHANGED <<netns, registry, wired, calls, answer, late>>
  BY DEF DockerCreate, At
<1>3. CASE Fault /\ FailCreate(u)
  <2>1. u \in spoilt' BY <1>3 DEF FailCreate, FailWith
  <2>2. Silent(u) BY <1>1, <1>2, <1>3, Counting DEF Silent
  <2> QED BY <2>1, <2>2, SpoiltSilent
<1>4. CASE /\ used' = [used EXCEPT !.cid[u] = @ + 1]
           /\ pods' = [pods EXCEPT ![u] = used.cid[u] + 1]
           /\ rows' = [rows EXCEPT ![u].vif = Vif(u), ![u].pid = 0,
                                   ![u].cid = used.cid[u] + 1, ![u].status = "Created"]
           /\ Goto(u, "start") /\ spoilt' = spoilt
  <2>1. used'.ns = used.ns BY <1>1, <1>4 DEF Types, UsedType
  <2>2. Silent(u) BY <1>2, <2>1 DEF Silent
  <2>3. /\ rows'[u].pid = 0 /\ rows'[u].cid = pods'[u]
        /\ thr'[u].pc = "start" /\ thr'[u].ns = thr[u].ns
    BY <1>1, <1>4 DEF Goto, Types, ThreadType, RowType
  <2>4. Counted(u) => Counted(u)' BY <1>1, <1>2, <2>1, <2>3, CountedOn
  <2>5. Recorded(u)' BY <2>3 DEF Recorded
  <2> QED BY <1>2, <1>4, <2>2, <2>3, <2>4, <2>5, SilentFact, NotWaiting DEF Unplugging
<1> QED BY <1>3, <1>4 DEF DockerCreate

\* A new namespace is not the one recorded.
LEMMA DockerStartNet ==
    ASSUME IInv, IInv', NetInv, NEW u \in Uuids, DockerStart(u)
    PROVE  NetGood(u)
<1>1. Types /\ Types' BY DEF IInv
<1>2. /\ thr[u].pc = "start" /\ UNCHANGED <<rows, pods, registry, wired, calls, answer, late, spoilt>>
      /\ used' = [used EXCEPT !.ns[u] = @ + 1] /\ netns' = [netns EXCEPT ![u] = used.ns[u] + 1]
      /\ Goto(u, "inspect")
  BY DEF DockerStart, At
<1>3. /\ used'.ns[u] = used.ns[u] + 1 /\ netns'[u] = used.ns[u] + 1
      /\ \A d \in Uuids \ {u} : netns'[d] = netns[d] /\ used'.ns[d] = used.ns[d]
  BY <1>1, <1>2 DEF Types, UsedType
<1>4. thr'[u].pc = "inspect" /\ thr'[u].ns = thr[u].ns
  BY <1>1, <1>2 DEF Goto, Types, ThreadType
<1>5. Silent(u) BY <1>2, <1>3 DEF Silent
<1>6. Counted(u) => Counted(u)' BY <1>1, <1>2, <1>3, <1>4, Numbers DEF Counted
<1>7. Recorded(u) => Recorded(u)' BY <1>2, <1>4 DEF Recorded, Making
<1> QED BY <1>2, <1>4, <1>5, <1>6, <1>7, SilentFact, NotWaiting DEF Unplugging

\* Where a start ends.
LEMMA StartedNet ==
    ASSUME Types, NEW u \in Uuids, NEW s \in {"Running", "Stopped"}, Started(u, s)
    PROVE  /\ rows'[u].status = s /\ rows'[u].pid = rows[u].pid /\ rows'[u].cid = rows[u].cid
           /\ u \in Boxes => thr'[u] = Idle
           /\ u \in Boxes => thr'[u].pc = "idle" /\ thr'[u].ns = 0
           /\ thr'[u].pc # "plug"
<1>1. /\ rows'[u].status = s /\ rows'[u].pid = rows[u].pid /\ rows'[u].cid = rows[u].cid
  BY DEF Started, Types, RowType
<1>2. u \in Boxes => thr'[u] = Idle BY KindFact DEF Started, Types
<1>3. Idle.pc = "idle" /\ Idle.ns = 0 BY DEF Idle
<1>4. thr'[u].pc # "plug" BY <1>3 DEF Started, Types, ThreadType
<1> QED BY <1>1, <1>2, <1>3, <1>4

\* A network that could not be had leaves a container that is not Running.
LEMMA NetworkFailedNet ==
    ASSUME IInv, IInv', NetInv, NEW u \in Uuids, NetworkFailed(u), thr[u].pc \in {"unplug", "plug"},
           answer[u] # "none", Heard(u),
           UNCHANGED <<registry, wired, late, calls, used, spoilt, pods>>
    PROVE  NetGood(u)
<1>1. Types /\ Types' /\ Own(u) BY DEF IInv, Inv
<1>2. /\ rows'[u].pid = rows[u].pid /\ rows'[u].cid = rows[u].cid
      /\ thr'[u].pc # "plug"
      /\ u \in Boxes => thr'[u].pc = "idle" /\ thr'[u].ns = 0 /\ rows'[u].status # "Running"
      /\ netns'[u] \in {0, netns[u]} /\ \A d \in Uuids \ {u} : netns'[d] = netns[d]
  <2>1. CASE /\ rows' = [rows EXCEPT ![u].status = "Error"] /\ End(u) /\ netns' = netns
    BY <1>1, <2>1 DEF Types, RowType, End, Idle
  <2>2. CASE netns' = [netns EXCEPT ![u] = 0] /\ Started(u, "Stopped")
    BY <1>1, <2>2, StartedNet DEF Types
  <2> QED BY <2>1, <2>2 DEF NetworkFailed
<1>3. NetTypes' /\ Beside(u) /\ late \subseteq late' BY <1>2, Hearing
<1>4. u \in Boxes /\ Counted(u) => Counted(u)' BY <1>1, <1>2, CountedOn
<1>5. u \in Boxes /\ Recorded(u) => Recorded(u)' BY <1>2 DEF Recorded, Making
<1> QED BY <1>2, <1>3, <1>4, <1>5, NotWaiting

\* No process and none recorded, or a call of the daemon.
LEMMA OnStartedNet ==
    ASSUME IInv, IInv', NetInv, NEW u \in Uuids, on_container_started(u)
    PROVE  NetGood(u)
<1>1. Types /\ Types' BY DEF IInv
<1>2. /\ thr[u].pc = "inspect"
      /\ UNCHANGED <<netns, registry, wired, late, pods, spoilt, used>>
  BY DEF on_container_started, At
<1>3. CASE netns[u] = rows[u].pid /\ Started(u, "Running") /\ UNCHANGED <<calls, answer>>
  <2>1. Silent(u) BY <1>2, <1>3 DEF Silent
  <2>2. /\ rows'[u].pid = rows[u].pid /\ rows'[u].cid = rows[u].cid /\ thr'[u].pc # "plug"
        /\ u \in Boxes => thr'[u].pc = "idle" /\ thr'[u].ns = 0
    BY <1>1, <1>3, StartedNet
  <2>3. u \in Boxes /\ Counted(u) => Counted(u)' /\ rows'[u].pid = 0
    <3>1. u \in Boxes /\ Counted(u) => Counted(u)' BY <1>1, <1>2, <2>2, CountedOn
    <3>2. Counted(u) => rows[u].pid = 0 BY <1>2, <1>3 DEF Counted
    <3> QED BY <2>2, <3>1, <3>2
  <2>4. u \in Boxes /\ Counted(u) /\ Recorded(u) => Recorded(u)'
    BY <1>2, <2>2, <2>3 DEF Recorded, Making
  <2> QED BY <1>2, <1>3, <2>1, <2>2, <2>3, <2>4, SilentFact, NotWaiting DEF Unplugging
<1>4. CASE netns[u] # rows[u].pid
  <2>1. rows' = rows
    BY <1>4 DEF on_container_started
  <2>2. PICK p : p = IF rows[u].pid # 0 THEN "unplug" ELSE "plug" OBVIOUS
  <2>3. thr' = [thr EXCEPT ![u].pc = p, ![u].ns = netns[u]]
    BY <1>4, <2>2 DEF on_container_started
  <2>4. thr'[u].pc = p /\ thr'[u].ns = netns[u] BY <1>1, <2>3 DEF Types, ThreadType
  <2>5. p \in {"unplug", "plug"} BY <2>2
  <2>6. Counted(u) => Counted(u)' BY <1>1, <1>2, <2>1, <2>4, <2>5, CountedOn
  <2>7. Recorded(u) => Recorded(u)' BY <1>2, <2>1, <2>4, <2>5 DEF Recorded, Making
  <2>8. netns[u] \in Nat /\ rows[u].pid \in Nat /\ pods[u] \in Nat BY <1>1, Numbers
  <2>9. CASE rows[u].pid # 0
    <3>1. _make_request(u, "DEL", pods[u], rows[u].pid) /\ p = "unplug"
      BY <1>4, <2>2, <2>9 DEF on_container_started
    <3> QED BY <1>2, <2>4, <2>6, <2>7, <2>8, <3>1, Calling DEF Unplugging
  <2>10. CASE rows[u].pid = 0
    <3>1. _make_request(u, "ADD", pods[u], netns[u]) /\ p = "plug"
      BY <1>4, <2>2, <2>10 DEF on_container_started
    <3> QED BY <1>2, <2>4, <2>6, <2>7, <2>8, <3>1, Calling DEF Unplugging
  <2> QED BY <2>9, <2>10
<1> QED BY <1>3, <1>4 DEF on_container_started

\* After the DEL comes the ADD.
LEMMA OldUnpluggedNet ==
    ASSUME IInv, IInv', NetInv, NEW u \in Uuids, OldUnplugged(u)
    PROVE  NetGood(u)
<1>1. Types /\ Types' BY DEF IInv
<1>2. /\ thr[u].pc = "unplug" /\ answer[u] # "none"
      /\ UNCHANGED <<registry, wired, late, pods, spoilt, used>>
  BY DEF OldUnplugged, At
<1>3. CASE NetworkFailed(u) /\ Heard(u) /\ calls' = calls BY <1>2, <1>3, NetworkFailedNet
<1>4. CASE /\ rows' = [rows EXCEPT ![u].pid = 0] /\ _make_request(u, "ADD", pods[u], thr[u].ns)
           /\ Goto(u, "plug") /\ netns' = netns
  <2>1. /\ rows'[u].pid = 0 /\ rows'[u].cid = rows[u].cid
        /\ thr'[u].pc = "plug" /\ thr'[u].ns = thr[u].ns
    BY <1>1, <1>4 DEF Types, RowType, Goto, ThreadType
  <2>2. Counted(u) => Counted(u)' BY <1>1, <1>2, <1>4, <2>1, CountedOn
  <2>3. Recorded(u) => Recorded(u)' BY <1>2, <2>1 DEF Recorded, Making
  <2>4. thr[u].ns \in Nat /\ pods[u] \in Nat BY <1>1, Numbers
  <2> QED BY <1>2, <1>4, <2>1, <2>2, <2>3, <2>4, Calling
<1> QED BY <1>3, <1>4 DEF OldUnplugged

\* The pid that is saved is that of the namespace that was plugged.
LEMMA ContainerPluggedNet ==
    ASSUME IInv, IInv', NetInv, NEW u \in Uuids, ContainerPlugged(u)
    PROVE  NetGood(u)
<1>1. Types /\ Types' BY DEF IInv
<1>2. /\ thr[u].pc = "plug" /\ answer[u] # "none" /\ Heard(u)
      /\ UNCHANGED <<registry, wired, late, calls, pods, spoilt, used>>
  BY DEF ContainerPlugged, At
<1>3. CASE NetworkFailed(u) BY <1>2, <1>3, NetworkFailedNet
<1>4. CASE /\ answer[u] = "ok" /\ rows' = [rows EXCEPT ![u].pid = thr[u].ns]
           /\ Goto(u, "touch") /\ netns' = netns
  <2>1. /\ rows'[u].pid = thr[u].ns /\ rows'[u].cid = rows[u].cid
        /\ thr'[u].pc = "touch" /\ thr'[u].ns = thr[u].ns
    BY <1>1, <1>4 DEF Types, RowType, Goto, ThreadType
  <2>2. NetTypes' /\ Beside(u) /\ late \subseteq late' BY <1>2, <1>4, Hearing
  <2>3. Counted(u) => Counted(u)' BY <1>1, <1>2, <1>4, <2>1, CountedOn
  <2>4. ASSUME Spared(u), Recorded(u) PROVE Recorded(u)'
    <3>1. NetOk(u) BY <2>4 DEF NetInv
    <3>2. Plugged(u, thr[u].ns, pods[u]) /\ pods[u] = rows[u].cid
      BY <1>2, <1>4, <2>4, <3>1 DEF NetOk, Recorded, Making
    <3>3. Plugged(u, thr[u].ns, rows[u].cid)' BY <1>2, <2>1, <3>2 DEF Plugged
    <3> QED BY <1>2, <2>1, <3>2, <3>3 DEF Recorded, Making
  <2> QED BY <1>2, <2>1, <2>2, <2>3, <2>4, NotWaiting
<1> QED BY <1>3, <1>4 DEF ContainerPlugged

\* The ready file is there, or the container is down.
LEMMA TouchReadyNet ==
    ASSUME IInv, IInv', NetInv, NEW u \in Uuids, TouchReady(u)
    PROVE  NetGood(u)
<1>1. Types /\ Types' BY DEF IInv
<1>2. /\ thr[u].pc = "touch"
      /\ UNCHANGED <<registry, wired, late, netns, pods, spoilt, used>>
  BY DEF TouchReady, At
<1>3. CASE Started(u, "Running") /\ UNCHANGED <<calls, answer>>
  <2>1. Silent(u) BY <1>2, <1>3 DEF Silent
  <2>2. /\ rows'[u].pid = rows[u].pid /\ rows'[u].cid = rows[u].cid /\ thr'[u].pc # "plug"
        /\ u \in Boxes => thr'[u].pc = "idle" /\ thr'[u].ns = 0
    BY <1>1, <1>3, StartedNet
  <2>3. u \in Boxes /\ Counted(u) => Counted(u)' BY <1>1, <1>2, <2>2, CountedOn
  <2>4. u \in Boxes /\ Recorded(u) => Recorded(u)'
    BY <1>2, <2>2 DEF Recorded, Making, Plugged
  <2> QED BY <1>2, <1>3, <2>1, <2>2, <2>3, <2>4, SilentFact, NotWaiting DEF Unplugging
<1>4. CASE _make_request(u, "DEL", pods[u], thr[u].ns) /\ Goto(u, "cleanup") /\ rows' = rows
  <2>1. thr'[u].pc = "cleanup" /\ thr'[u].ns = thr[u].ns
    BY <1>1, <1>4 DEF Types, Goto, ThreadType
  <2>2. Counted(u) => Counted(u)' BY <1>1, <1>2, <1>4, <2>1, CountedOn
  <2>3. Recorded(u) => Recorded(u)' BY <1>2, <1>4, <2>1 DEF Recorded, Making
  <2>4. thr[u].ns \in Nat /\ pods[u] \in Nat BY <1>1, Numbers
  <2> QED BY <1>2, <1>4, <2>1, <2>2, <2>3, <2>4, Calling DEF Unplugging
<1>5. CASE rows' = [rows EXCEPT ![u].status = "Error"] /\ End(u) /\ UNCHANGED <<calls, answer>>
  <2>1. Silent(u) BY <1>2, <1>5 DEF Silent
  <2>2. /\ rows'[u].pid = rows[u].pid /\ rows'[u].cid = rows[u].cid /\ rows'[u].status = "Error"
        /\ thr'[u].pc = "idle" /\ thr'[u].ns = 0
    BY <1>1, <1>5 DEF Types, RowType, End, Idle
  <2>3. Counted(u) => Counted(u)' BY <1>1, <1>2, <2>2, CountedOn
  <2>4. Recorded(u) => Recorded(u)' BY <1>2, <2>2 DEF Recorded, Making
  <2> QED BY <1>2, <1>5, <2>1, <2>2, <2>3, <2>4, SilentFact, NotWaiting DEF Unplugging
<1> QED BY <1>3, <1>4, <1>5 DEF TouchReady

\* on_container_stopped.
LEMMA UnpluggedNet ==
    ASSUME IInv, IInv', NetInv, NEW u \in Uuids, Unplugged(u)
    PROVE  NetGood(u)
<1>1. Types /\ Types' BY DEF IInv
<1>2. /\ thr[u].pc \in {"cleanup", "stopping"} /\ answer[u] # "none" /\ Heard(u)
      /\ UNCHANGED <<registry, wired, late, calls, netns, pods, spoilt, used>>
  BY DEF Unplugged
<1>3. /\ rows'[u].pid \in {0, rows[u].pid} /\ rows'[u].cid = rows[u].cid
      /\ rows'[u].status = "Stopped"
  BY <1>1 DEF Unplugged, Types, RowType
<1>4. /\ thr'[u].pc # "plug"
      /\ u \in Boxes => thr'[u].pc = "idle" /\ thr'[u].ns = 0
  <2>1. thr' = [thr EXCEPT ![u] = IF At(u, "stopping") \/ Kind(u) = "container"
                                  THEN Idle ELSE [@ EXCEPT !.pc = "inner", !.i = 1]]
    BY DEF Unplugged
  <2>2. Idle.pc = "idle" /\ Idle.ns = 0 BY DEF Idle
  <2> QED BY <1>1, <2>1, <2>2, KindFact DEF Types, ThreadType
<1>5. NetTypes' /\ Beside(u) /\ late \subseteq late' BY <1>2, Hearing
<1>6. u \in Boxes /\ Counted(u) => Counted(u)' BY <1>1, <1>2, <1>3, <1>4, CountedOn
<1>7. u \in Boxes /\ Recorded(u) => Recorded(u)' BY <1>2, <1>3, <1>4 DEF Recorded, Making
<1> QED BY <1>2, <1>4, <1>5, <1>6, <1>7, NotWaiting

\* The requests of users.
LEMMA BoxNet ==
    ASSUME IInv, IInv', NetInv, NEW u \in Boxes,
           \/ BeginStop(u) \/ BeginRebuild(u) \/ DeleteContainer(u)
           \/ \E op \in {"start", "reboot"} : BeginStart(u, op)
    PROVE  NetGood(u)
<1>1. u \in Uuids /\ Types /\ Types' BY CapsulesAssumption DEF IInv
<1>2. /\ thr[u].pc = "idle" /\ Request /\ UNCHANGED <<registry, wired, late, spoilt>>
  BY DEF BeginStop, BeginRebuild, DeleteContainer, BeginStart, CanBegin, At, netQuiet
<1>3. used'.ns = used.ns BY <1>1, <1>2, Counting
<1>4. netns'[u] \in {0, netns[u]} /\ \A d \in Uuids \ {u} : netns'[d] = netns[d]
  BY <1>1 DEF BeginStop, BeginRebuild, DeleteContainer, BeginStart, netQuiet, Types
<1>5. ASSUME NEW op \in {"start", "reboot"}, BeginStart(u, op) PROVE NetGood(u)
  <2>1. /\ UNCHANGED <<calls, answer, rows, pods>> /\ pods[u] # 0
        /\ thr' = [thr EXCEPT ![u] = [Idle EXCEPT !.pc = "start", !.op = op]]
    BY <1>5 DEF BeginStart, CanBegin, netQuiet
  <2>2. thr'[u].pc = "start" /\ thr'[u].ns = 0 BY <1>1, <2>1 DEF Types, Idle
  <2>3. Silent(u) BY <1>2, <1>3, <1>4, <2>1 DEF Silent
  <2>4. Counted(u) => Counted(u)' BY <1>1, <1>3, <1>4, <2>1, <2>2, CountedOn
  <2>5. Recorded(u) => Recorded(u)' BY <1>2, <2>1, <2>2 DEF Recorded, Making
  <2> QED BY <1>1, <1>2, <2>1, <2>2, <2>3, <2>4, <2>5, SilentFact, NotWaiting DEF Unplugging
<1>6. CASE BeginStop(u)
  <2>1. pods' = pods BY <1>6 DEF BeginStop
  <2>2. CASE rows[u].pid # 0
    <3>1. /\ _make_request(u, "DEL", pods[u], rows[u].pid) /\ rows' = rows
          /\ thr' = [thr EXCEPT ![u] = [Idle EXCEPT !.pc = "stopping"]]
      BY <1>6, <2>2 DEF BeginStop
    <3>2. thr'[u].pc = "stopping" /\ thr'[u].ns = 0 BY <1>1, <3>1 DEF Types, Idle
    <3>3. Counted(u) => Counted(u)' BY <1>1, <1>3, <1>4, <3>1, <3>2, CountedOn
    <3>4. Recorded(u) => Recorded(u)' BY <1>2, <2>1, <3>1, <3>2 DEF Recorded, Making
    <3>5. rows[u].pid \in Nat /\ pods[u] \in Nat BY <1>1, Numbers
    <3> QED BY <1>1, <1>2, <1>3, <1>4, <3>1, <3>2, <3>3, <3>4, <3>5, Calling DEF Unplugging
  <2>3. CASE rows[u].pid = 0
    <3>1. rows' = [rows EXCEPT ![u].status = "Stopped"] /\ UNCHANGED <<calls, answer, thr>>
      BY <1>6, <2>3 DEF BeginStop
    <3>2. /\ rows'[u].pid = rows[u].pid /\ rows'[u].cid = rows[u].cid
          /\ rows'[u].status = "Stopped"
      BY <1>1, <3>1 DEF Types, RowType
    <3>3. Silent(u) BY <1>2, <1>3, <1>4, <3>1 DEF Silent
    <3>4. Counted(u) => Counted(u)' BY <1>1, <1>2, <1>3, <1>4, <3>1, <3>2, CountedOn
    <3>5. Recorded(u) => Recorded(u)' BY <1>2, <2>1, <3>1, <3>2 DEF Recorded, Making
    <3> QED BY <1>1, <1>2, <3>1, <3>3, <3>4, <3>5, SilentFact, NotWaiting DEF Unplugging
  <2> QED BY <2>2, <2>3
<1>7. CASE BeginRebuild(u)
  <2>1. /\ UNCHANGED <<calls, answer, rows>> /\ pods' = [pods EXCEPT ![u] = 0]
        /\ thr' = [thr EXCEPT ![u] = [Idle EXCEPT !.pc = "pull", !.op = "start"]]
    BY <1>7 DEF BeginRebuild
  <2>2. thr'[u].pc = "pull" /\ thr'[u].ns = 0 /\ pods'[u] = 0 BY <1>1, <2>1 DEF Types, Idle
  <2>3. Silent(u) BY <1>2, <1>3, <1>4, <2>1 DEF Silent
  <2>4. Counted(u) => Counted(u)' BY <1>1, <1>3, <1>4, <2>1, <2>2, CountedOn
  <2>5. Recorded(u) => Recorded(u)' BY <2>2 DEF Recorded, Making
  <2> QED BY <1>1, <1>2, <2>1, <2>2, <2>3, <2>4, <2>5, SilentFact, NotWaiting DEF Unplugging
<1>8. CASE DeleteContainer(u)
  <2>1. /\ UNCHANGED <<calls, answer, thr>> /\ pods' = [pods EXCEPT ![u] = 0] /\ rows' = destroy(u)
    BY <1>8 DEF DeleteContainer
  <2>2. pods'[u] = 0 /\ rows'[u].pid = 0 /\ rows'[u].status = "Deleted"
    BY <1>1, <2>1 DEF Types, destroy, NoRow
  <2>3. Silent(u) BY <1>2, <1>3, <1>4, <2>1 DEF Silent
  <2>4. Counted(u) => Counted(u)' BY <1>1, <1>2, <1>3, <1>4, <2>1, <2>2, CountedOn
  <2>5. Recorded(u) => Recorded(u)' BY <1>2, <2>1, <2>2 DEF Recorded, Making
  <2> QED BY <1>1, <1>2, <2>1, <2>3, <2>4, <2>5, SilentFact, NotWaiting DEF Unplugging
<1> QED BY <1>5, <1>6, <1>7, <1>8

\* A process that ends by itself is not Running for long.
LEMMA ExitNet ==
    ASSUME IInv, IInv', NetInv, NEW u \in Uuids, Exit(u)
    PROVE  NetGood(u)
<1>1. Types /\ Types' BY DEF IInv
<1>2. /\ UNCHANGED <<registry, wired, calls, answer, late, pods, thr, spoilt>> /\ Fault
      /\ netns' = [netns EXCEPT ![u] = 0]
      /\ rows' = [rows EXCEPT ![u].status =
                     IF At(u, "idle") /\ @ = "Running" THEN "Stopped" ELSE @]
  BY DEF Exit
<1>3. used'.ns = used.ns BY <1>1, <1>2, Counting
<1>4. netns'[u] = 0 /\ \A d \in Uuids \ {u} : netns'[d] = netns[d] BY <1>1, <1>2 DEF Types
<1>5. /\ rows'[u].pid = rows[u].pid /\ rows'[u].cid = rows[u].cid
      /\ rows'[u].status = "Running" => rows[u].status = "Running"
  BY <1>1, <1>2 DEF Types, RowType
<1>6. NetTypes' /\ Beside(u) /\ late \subseteq late' BY <1>2, <1>3, <1>4, SilentFact DEF Silent
<1>7. ASSUME Spared(u)' PROVE NetOk(u)'
  <2>1. NetOk(u) BY <1>2, <1>7 DEF Spared, NetInv
  <2>2. Counted(u) => Counted(u)' BY <1>1, <1>2, <1>3, <1>4, <1>5, CountedOn
  <2>3. Recorded(u) => Recorded(u)' BY <1>2, <1>5 DEF Recorded, Plugged
  <2>4. \A c \in calls' : c.u = u => Served(u, c)' BY <1>2, <2>1 DEF NetOk, Served, Adding, Plugged
  <2> QED BY <1>2, <2>1, <2>2, <2>3, <2>4 DEF NetOk, Plugged
<1> QED BY <1>6, <1>7 DEF NetGood

\* Every step of a thread.
LEMMA StepNet ==
    ASSUME IInv, IInv', NetInv, NEW u \in Uuids, CapsuleStep(u)
    PROVE  NetGood(u)
<1>1. CASE \/ PostNetworks(u) \/ _build_requested_volumes(u) \/ Schedule(u)
           \/ _attach_volumes_for_capsule(u) \/ _write_cni_metadata(u)
           \/ _create_container(u) \/ _create_container_in_capsule(u)
           \/ _wait_for_init_container(u) \/ CapsuleCreated(u) \/ DockerDelete(u)
  BY <1>1, CapsuleNet
<1>2. CASE PullImage(u) BY <1>2, PullImageNet
<1>3. CASE RunPodSandbox(u) BY <1>3, RunPodSandboxNet
<1>4. CASE SandboxPlugged(u) BY <1>4, SandboxPluggedNet
<1>5. CASE SandboxFails(u) BY <1>5, SandboxFailsNet
<1>6. CASE DockerCreate(u) BY <1>6, DockerCreateNet
<1>7. CASE DockerStart(u) BY <1>7, DockerStartNet
<1>8. CASE on_container_started(u) BY <1>8, OnStartedNet
<1>9. CASE OldUnplugged(u) BY <1>9, OldUnpluggedNet
<1>10. CASE ContainerPlugged(u) BY <1>10, ContainerPluggedNet
<1>11. CASE TouchReady(u) BY <1>11, TouchReadyNet
<1>12. CASE Unplugged(u) BY <1>12, UnpluggedNet
<1>13. CASE CriDelete(u) BY <1>13, CriDeleteNet
<1>14. CASE SandboxStopped(u) BY <1>14, SandboxStoppedNet
<1> QED BY <1>1, <1>2, <1>3, <1>4, <1>5, <1>6, <1>7, <1>8, <1>9, <1>10, <1>11, <1>12, <1>13, <1>14
        DEF CapsuleStep

\* Who had a thread is spoilt, and the others keep what they have.
LEMMA CrashNet ==
    ASSUME IInv, NetInv, Crash
    PROVE  NetInv'
<1>1. Types BY DEF IInv
<1>2. /\ Fault /\ UNCHANGED <<netns, registry, wired, calls, answer, late, pods>>
      /\ thr' = [u \in Uuids |-> IF thr[u].pc \in Api THEN thr[u] ELSE Idle]
      /\ rows' = [u \in Uuids |-> IF u \in Boxes /\ rows[u].status = "Creating"
                                  THEN [rows[u] EXCEPT !.status = "Error"] ELSE rows[u]]
      /\ spoilt' = spoilt \cup {u \in Uuids : thr[u] # Idle}
  BY DEF Crash, netQuiet, Api
<1>3. used'.ns = used.ns BY <1>1, <1>2, Counting
<1>4. NetTypes' BY <1>2 DEF NetInv, NetTypes
<1>5. ASSUME NEW u \in Uuids, Spared(u)' PROVE NetOk(u)'
  <2>1. thr[u] = Idle /\ NetOk(u) BY <1>2, <1>5 DEF Spared, NetInv
  <2>2. thr'[u] = Idle BY <1>2, <2>1
  <2>3. /\ rows'[u].pid = rows[u].pid /\ rows'[u].cid = rows[u].cid
        /\ rows'[u].status = "Running" => rows[u].status = "Running"
    BY <1>1, <1>2 DEF Types, RowType
  <2>4. Counted(u) => Counted(u)' BY <1>2, <1>3, <2>1, <2>2, <2>3 DEF Counted
  <2>5. Recorded(u) => Recorded(u)' BY <1>2, <2>1, <2>2, <2>3 DEF Recorded, Plugged
  <2>6. \A c \in calls' : c.u = u => Served(u, c)'
    BY <1>2, <2>1, <2>2 DEF NetOk, Served, Adding, Plugged
  <2> QED BY <1>2, <2>1, <2>2, <2>4, <2>5, <2>6 DEF NetOk, Plugged
<1> QED BY <1>4, <1>5 DEF NetInv

-----------------------------------------------------------------------------
(* The network: the daemon                                                  *)

\* A step of the daemon leaves rows, processes and threads alone.
Serving == UNCHANGED <<rows, netns, pods, thr, spoilt, used>>

\* The only call of a uuid goes on: what is left to show of it.
LEMMA Advances ==
    ASSUME NetInv, Serving, NEW c \in calls, NEW d \in CallType, d.u = c.u, Advance(c, d),
           late' = late, registry' \in [Uuids -> EntryType], wired' \in [Uuids -> Nat],
           \A e \in Uuids \ {c.u} : registry'[e] = registry[e] /\ wired'[e] = wired[e],
           Spared(c.u) /\ Served(c.u, c) => thr[c.u].pc \in Unplugging \cup {"plug"} /\ d.heard
              /\ (d.cmd = "ADD" => Adding(c.u, d)')
              /\ (d.cmd = "DEL" => thr[c.u].pc \in Unplugging)
    PROVE  NetGood(c.u)
<1>1. PICK u : u = c.u OBVIOUS
<1>2. c \in CallType /\ u \in Uuids BY <1>1 DEF NetInv, NetTypes, CallType
<1>3. calls' = (calls \ {c}) \cup {d} /\ answer' = answer BY DEF Advance
<1>4. NetTypes' BY <1>3 DEF NetInv, NetTypes
<1>5. Beside(u) BY <1>1, <1>3 DEF Beside, Serving
<1>6. ASSUME Spared(u)' PROVE NetOk(u)'
  <2>1. Spared(u) BY <1>6 DEF Spared, Serving
  <2>2. NetOk(u) BY <1>2, <2>1 DEF NetInv
  <2>3. Served(u, c) BY <1>1, <2>2 DEF NetOk
  <2>4. answer'[u] = "none" /\ \A e \in calls' : e.u = u => e = d
    BY <1>1, <1>3, <2>3 DEF Served
  <2>5. /\ thr[u].pc \in Unplugging \cup {"plug"} /\ d.heard
        /\ d.cmd = "ADD" => Adding(u, d)'
        /\ d.cmd = "DEL" => thr[u].pc \in Unplugging
    BY <1>1, <2>1, <2>3
  <2>6. Served(u, d)' BY <2>4, <2>5 DEF Served, Serving
  <2>7. u \in Boxes => Counted(u)' BY <2>2 DEF NetOk, Counted, Serving
  <2>8. u \in Boxes => Recorded(u)' BY <2>2, <2>5 DEF NetOk, Recorded, Serving, Unplugging
  <2> QED BY <2>4, <2>6, <2>7, <2>8 DEF NetOk
<1> QED BY <1>1, <1>4, <1>5, <1>6 DEF NetGood

\* It is answered.
LEMMA Responds ==
    ASSUME NetInv, Serving, NEW c \in calls, NEW a \in {"ok", "failed"}, Respond(c, a),
           late' = late, registry' \in [Uuids -> EntryType], wired' \in [Uuids -> Nat],
           \A e \in Uuids \ {c.u} : registry'[e] = registry[e] /\ wired'[e] = wired[e],
           Spared(c.u) /\ Served(c.u, c) => thr[c.u].pc \in Unplugging \cup {"plug"}
              /\ (thr[c.u].pc = "plug" /\ a = "ok" => Plugged(c.u, thr[c.u].ns, pods[c.u])')
    PROVE  NetGood(c.u)
<1>1. PICK u : u = c.u OBVIOUS
<1>2. c \in CallType /\ u \in Uuids BY <1>1 DEF NetInv, NetTypes, CallType
<1>3. /\ calls' = calls \ {c}
      /\ answer' = IF c.heard THEN [answer EXCEPT ![u] = a] ELSE answer
  BY <1>1 DEF Respond
<1>4. NetTypes' BY <1>2, <1>3 DEF NetInv, NetTypes
<1>5. Beside(u) BY <1>1, <1>2, <1>3 DEF Beside, Serving, NetInv, NetTypes
<1>6. ASSUME Spared(u)' PROVE NetOk(u)'
  <2>1. Spared(u) BY <1>6 DEF Spared, Serving
  <2>2. NetOk(u) BY <1>2, <2>1 DEF NetInv
  <2>3. Served(u, c) BY <1>1, <2>2 DEF NetOk
  <2>4. answer'[u] = a BY <1>2, <1>3, <2>3 DEF Served, NetInv, NetTypes
  <2>5. \A e \in calls' : e.u # u BY <1>3, <2>3 DEF Served
  <2>6. /\ thr[u].pc \in Unplugging \cup {"plug"}
        /\ thr[u].pc = "plug" /\ a = "ok" => Plugged(u, thr[u].ns, pods[u])'
    BY <1>1, <2>1, <2>3
  <2>7. u \in Boxes => Counted(u)' BY <2>2 DEF NetOk, Counted, Serving
  <2>8. u \in Boxes => Recorded(u)' BY <2>2, <2>6 DEF NetOk, Recorded, Serving, Unplugging
  <2>9. thr'[u].pc = "plug" /\ answer'[u] = "ok" => Plugged(u, thr[u].ns, pods[u])'
    BY <2>4, <2>6 DEF Serving
  <2> QED BY <2>5, <2>7, <2>8, <2>9 DEF NetOk, Serving
<1> QED BY <1>1, <1>4, <1>5, <1>6 DEF NetGood

\* ADD: the interface, the entry, the wait for the port.
LEMMA AddNet ==
    ASSUME NetInv, Serving, NEW c \in calls, AddWork(c) \/ AddSave(c) \/ AddWait(c)
    PROVE  NetGood(c.u)
<1>1. c \in CallType /\ c.u \in Uuids /\ c.ns \in Nat /\ c.cid \in Nat /\ c.active \in BOOLEAN
  BY DEF NetInv, NetTypes, CallType
<1>2. registry \in [Uuids -> EntryType] /\ wired \in [Uuids -> Nat] BY DEF NetInv, NetTypes
<1>3. c.cmd = "ADD" /\ late' = late BY DEF AddWork, AddSave, AddWait
<1>4. Served(c.u, c) => Adding(c.u, c) /\ thr[c.u].pc = "plug" /\ c.heard
  BY <1>3 DEF Served, Adding
<1>5. CASE AddWork(c)
  <2>1. registry' = registry BY <1>5 DEF AddWork
  <2>2. CASE /\ wired' = connect(c)
             /\ Advance(c, [c EXCEPT !.pc = "save", !.active = rows[c.u].vif = "active"])
    <3>1. PICK d : d = [c EXCEPT !.pc = "save", !.active = rows[c.u].vif = "active"] OBVIOUS
    <3>2. /\ d \in CallType /\ d.u = c.u /\ d.cmd = "ADD" /\ d.heard = c.heard
          /\ d.pc = "save" /\ d.cid = c.cid /\ d.ns = c.ns
      BY <1>1, <1>3, <3>1 DEF CallType
    <3>3. /\ wired' = [wired EXCEPT ![c.u] = c.ns] BY <2>2 DEF connect
    <3>4. Served(c.u, c) => Adding(c.u, d)'
      BY <1>1, <1>2, <1>4, <3>2, <3>3 DEF Adding, Serving
    <3>5. Advance(c, d) BY <2>2, <3>1
    <3> QED BY <1>1, <1>2, <1>3, <1>4, <2>1, <3>2, <3>3, <3>4, <3>5, Advances
  <2>3. CASE Respond(c, "failed") /\ wired' = wired
    BY <1>2, <1>3, <1>4, <2>1, <2>3, Responds
  <2> QED BY <1>5, <2>2, <2>3 DEF AddWork
<1>6. CASE AddSave(c)
  <2>1. PICK d : d = [c EXCEPT !.pc = "wait"] OBVIOUS
  <2>2. /\ d \in CallType /\ d.u = c.u /\ d.cmd = "ADD" /\ d.heard = c.heard
        /\ d.pc = "wait" /\ d.cid = c.cid /\ d.ns = c.ns
    BY <1>1, <1>3, <2>1 DEF CallType
  <2>3. PICK n : n = [NoEntry EXCEPT !.cid = c.cid, !.active = c.active] OBVIOUS
  <2>4. n \in EntryType /\ n.cid = c.cid /\ ~n.vif_unplugged
    BY <1>1, <2>3 DEF NoEntry, EntryType
  <2>5. registry' = [registry EXCEPT ![c.u] = n] /\ wired' = wired /\ Advance(c, d) /\ c.pc = "save"
    BY <1>6, <2>1, <2>3 DEF AddSave
  <2>6. Served(c.u, c) => Adding(c.u, d)'
    BY <1>1, <1>2, <1>4, <2>2, <2>4, <2>5 DEF Adding, Plugged, Serving
  <2> QED BY <1>1, <1>2, <1>3, <1>4, <2>2, <2>4, <2>5, <2>6, Advances
<1>7. CASE AddWait(c)
  <2>1. PICK a \in {"ok", "failed"} : Respond(c, a) BY <1>7 DEF AddWait
  <2>2. registry' = registry /\ wired' = wired /\ c.pc = "wait" BY <1>7 DEF AddWait
  <2>3. Served(c.u, c) => Plugged(c.u, thr[c.u].ns, pods[c.u])'
    BY <1>4, <2>2 DEF Adding, Plugged, Serving
  <2> QED BY <1>2, <1>3, <1>4, <2>1, <2>2, <2>3, Responds
<1> QED BY <1>5, <1>6, <1>7

\* DEL: the thread that waits for it has nothing plugged to lose.
LEMMA DelNet ==
    ASSUME NetInv, Serving, NEW c \in calls, DelCheck(c) \/ DelWork(c) \/ DelFinish(c)
    PROVE  NetGood(c.u)
<1>1. c \in CallType /\ c.u \in Uuids BY DEF NetInv, NetTypes, CallType
<1>2. registry \in [Uuids -> EntryType] /\ wired \in [Uuids -> Nat] BY DEF NetInv, NetTypes
<1>3. c.cmd = "DEL" /\ late' = late BY DEF DelCheck, DelWork, DelFinish
<1>4. Served(c.u, c) => thr[c.u].pc \in Unplugging /\ thr[c.u].pc # "plug" /\ c.heard
  BY <1>3 DEF Served, Unplugging
<1>5. ASSUME NEW p \in {"work", "finish"}
      PROVE  LET d == [c EXCEPT !.pc = p]
             IN  d \in CallType /\ d.u = c.u /\ d.cmd = "DEL" /\ d.heard = c.heard
  BY <1>1, <1>3 DEF CallType
<1>6. CASE DelCheck(c)
  <2>1. registry' = registry /\ wired' = wired BY <1>6 DEF DelCheck
  <2>2. CASE Respond(c, "ok") BY <1>2, <1>3, <1>4, <2>1, <2>2, Responds
  <2>3. CASE Advance(c, [c EXCEPT !.pc = "work"])
    BY <1>2, <1>3, <1>4, <1>5, <2>1, <2>3, Advances
  <2> QED BY <1>6, <2>2, <2>3 DEF DelCheck
<1>7. CASE DelWork(c)
  <2>1. registry' = registry /\ (wired' = wired \/ wired' = [wired EXCEPT ![c.u] = 0])
        /\ Advance(c, [c EXCEPT !.pc = "finish"])
    BY <1>7 DEF DelWork, disconnect
  <2>2. wired' \in [Uuids -> Nat] /\ \A e \in Uuids \ {c.u} : wired'[e] = wired[e] BY <1>2, <2>1
  <2> QED BY <1>2, <1>3, <1>4, <1>5, <2>1, <2>2, Advances
<1>8. CASE DelFinish(c)
  <2>1. wired' = wired /\ Respond(c, "ok") BY <1>8 DEF DelFinish
  <2>2. PICK n : n = IF registry[c.u].cid = 0 \/ registry[c.u].del_received
                     THEN NoEntry ELSE [registry[c.u] EXCEPT !.vif_unplugged = TRUE]
    OBVIOUS
  <2>3. n \in EntryType BY <1>1, <1>2, <2>2 DEF NoEntry, EntryType
  <2>4. registry' = [registry EXCEPT ![c.u] = n] BY <1>1, <1>2, <1>8, <2>2 DEF DelFinish
  <2>5. registry' \in [Uuids -> EntryType]
        /\ \A e \in Uuids \ {c.u} : registry'[e] = registry[e]
    BY <1>1, <1>2, <2>3, <2>4
  <2> QED BY <1>2, <1>3, <1>4, <2>1, <2>5, Responds
<1> QED BY <1>6, <1>7, <1>8

\* A client that gives up is not spared.
LEMMA GiveUpNet ==
    ASSUME NetInv, Serving, NEW u \in Uuids, GiveUp(u)
    PROVE  NetGood(u)
<1>1. PICK c \in calls : /\ c.u = u /\ calls' = (calls \ {c}) \cup {[c EXCEPT !.heard = FALSE]}
                         /\ late' = late \cup {<<u, c.cmd>>}
  BY DEF GiveUp
<1>2. answer' = [answer EXCEPT ![u] = "failed"] /\ UNCHANGED <<registry, wired>> BY DEF GiveUp
<1>3. c \in CallType BY DEF NetInv, NetTypes
<1>4. PICK d : d = [c EXCEPT !.heard = FALSE] OBVIOUS
<1>5. d \in CallType /\ d.u = u /\ c.cmd \in {"ADD", "DEL"} BY <1>1, <1>3, <1>4 DEF CallType
<1>6. NetTypes' BY <1>1, <1>2, <1>4, <1>5 DEF NetInv, NetTypes
<1>7. Beside(u) BY <1>1, <1>2, <1>4, <1>5 DEF Beside, Serving, NetInv, NetTypes
<1>8. ~Spared(u)' BY <1>1, <1>5 DEF Spared
<1> QED BY <1>1, <1>6, <1>7, <1>8 DEF NetGood

\* The watcher takes away only entries of what is unplugged.
LEMMA WatcherNet ==
    ASSUME NetInv, Serving, NEW u \in Uuids, _on_container_deleted(u) \/ _update_vif_status(u)
    PROVE  NetGood(u)
<1>1. registry \in [Uuids -> EntryType] BY DEF NetInv, NetTypes
<1>2. UNCHANGED <<wired, calls, answer, late>> BY DEF _on_container_deleted, _update_vif_status
<1>3. PICK n \in EntryType : /\ registry' = [registry EXCEPT ![u] = n]
                             /\ ~registry[u].vif_unplugged =>
                                   n.cid = registry[u].cid /\ ~n.vif_unplugged
  <2>1. registry[u] \in EntryType BY <1>1
  <2>2. NoEntry \in EntryType /\ NoEntry.cid = 0 /\ ~NoEntry.vif_unplugged
    BY DEF NoEntry, EntryType
  <2>3. CASE _on_container_deleted(u)
    <3>1. PICK n : n = IF registry[u].cid = 0 \/ registry[u].vif_unplugged
                       THEN NoEntry ELSE [registry[u] EXCEPT !.del_received = TRUE]
      OBVIOUS
    <3>2. registry' = [registry EXCEPT ![u] = n] BY <1>1, <2>3, <3>1 DEF _on_container_deleted
    <3>3. n \in EntryType /\ (~registry[u].vif_unplugged => n.cid = registry[u].cid /\ ~n.vif_unplugged)
      BY <2>1, <2>2, <3>1 DEF EntryType
    <3> QED BY <3>2, <3>3
  <2>4. CASE _update_vif_status(u)
    <3>1. PICK n : n = IF registry[u].cid = 0 THEN registry[u]
                       ELSE [registry[u] EXCEPT !.active = TRUE]
      OBVIOUS
    <3>2. registry' = [registry EXCEPT ![u] = n] BY <1>1, <2>4, <3>1 DEF _update_vif_status
    <3>3. n \in EntryType /\ (~registry[u].vif_unplugged => n.cid = registry[u].cid /\ ~n.vif_unplugged)
      BY <2>1, <3>1 DEF EntryType
    <3> QED BY <3>2, <3>3
  <2> QED BY <2>3, <2>4
<1>4. registry'[u] = n /\ \A d \in Uuids \ {u} : registry'[d] = registry[d] BY <1>1, <1>3
<1>5. NetTypes' BY <1>1, <1>2, <1>3 DEF NetInv, NetTypes
<1>6. Beside(u) BY <1>2, <1>4 DEF Beside, Serving
<1>7. \A ns, cid : Plugged(u, ns, cid) => Plugged(u, ns, cid)' BY <1>2, <1>3, <1>4 DEF Plugged
<1>8. ASSUME Spared(u)' PROVE NetOk(u)'
  <2>1. NetOk(u) BY <1>2, <1>8 DEF NetInv, Spared, Serving
  <2>2. \A c \in calls' : c.u = u => Served(u, c)'
    BY <1>2, <1>7, <2>1 DEF NetOk, Served, Adding, Serving
  <2>3. Counted(u) => Counted(u)' BY DEF Counted, Serving
  <2>4. Recorded(u) => Recorded(u)' BY <1>7 DEF Recorded, Serving
  <2> QED BY <1>2, <1>7, <2>1, <2>2, <2>3, <2>4 DEF NetOk, Serving
<1> QED BY <1>2, <1>5, <1>6, <1>8 DEF NetGood

\* What nothing of the invariant sees.
LEMMA UnseenNet ==
    ASSUME NetInv, Serving, UNCHANGED <<registry, wired, calls, answer, late>>
    PROVE  NetInv'
BY DEF NetInv, NetTypes, Spared, NetOk, Served, Adding, Plugged, Counted, Recorded, Serving

LEMMA CniStepNet ==
    ASSUME IInv, NetInv, CniStep, UNCHANGED podVars
    PROVE  NetInv'
<1>1. UNCHANGED <<driver, pods, inner, thr, todo, spoilt, used>> BY DEF podVars
<1>2. UNCHANGED <<rows, netns>> /\ Serving
  <2>1. CASE \E c \in calls : \/ AddWork(c) \/ AddSave(c) \/ AddWait(c)
                              \/ DelCheck(c) \/ DelWork(c) \/ DelFinish(c)
    BY <1>1, <2>1 DEF AddWork, AddSave, AddWait, DelCheck, DelWork, DelFinish, Serving
  <2>2. CASE \E u \in Uuids : \/ GiveUp(u) \/ PortUp(u)
                              \/ _on_container_deleted(u) \/ _update_vif_status(u)
    BY <1>1, <2>2 DEF GiveUp, PortUp, _on_container_deleted, _update_vif_status, Serving
  <2>3. CASE SyncList \/ SyncKeys \/ PollCopy \/ PollPorts
    BY <1>1, <2>3 DEF SyncList, SyncKeys, PollCopy, PollPorts, Serving
  <2> QED BY <2>1, <2>2, <2>3 DEF CniStep
<1>3. \A u \in Uuids : Alone(u) BY <1>1, <1>2 DEF Alone
<1>4. CASE \E c \in calls : \/ AddWork(c) \/ AddSave(c) \/ AddWait(c)
                            \/ DelCheck(c) \/ DelWork(c) \/ DelFinish(c)
  <2>1. PICK c \in calls : \/ AddWork(c) \/ AddSave(c) \/ AddWait(c)
                           \/ DelCheck(c) \/ DelWork(c) \/ DelFinish(c)
    BY <1>4
  <2>2. c.u \in Uuids BY DEF NetInv, NetTypes, CallType
  <2>3. NetGood(c.u) BY <1>2, <2>1, AddNet, DelNet
  <2> QED BY <1>3, <2>2, <2>3, NetKeeps
<1>5. CASE \E u \in Uuids : GiveUp(u) \/ _on_container_deleted(u) \/ _update_vif_status(u)
  BY <1>2, <1>3, <1>5, GiveUpNet, WatcherNet, NetKeeps
<1>6. CASE (\E u \in Uuids : PortUp(u)) \/ SyncList \/ SyncKeys \/ PollCopy \/ PollPorts
  <2>1. UNCHANGED <<registry, wired, calls, answer, late>>
    BY <1>6 DEF PortUp, SyncList, SyncKeys, PollCopy, PollPorts
  <2> QED BY <1>2, <2>1, UnseenNet
<1> QED BY <1>4, <1>5, <1>6 DEF CniStep

-----------------------------------------------------------------------------
(* The network: the invariant                                               *)

LEMMA InitNet == Init => NetInv
<1> SUFFICES ASSUME Init PROVE NetInv OBVIOUS
<1>1. Types BY InitOk DEF IInv
<1>2. /\ netns = [u \in Uuids |-> rows[u].pid] /\ wired = netns
      /\ pods = [u \in Uuids |-> rows[u].cid] /\ thr = [u \in Uuids |-> Idle]
      /\ registry = [u \in Uuids |-> [NoEntry EXCEPT !.cid = rows[u].cid, !.active = u \in Boxes]]
      /\ calls = {} /\ answer = [u \in Uuids |-> "none"]
      /\ used = [requests |-> 0, faults |-> 0, ns |-> netns, cid |-> pods]
  BY DEF Init, CniInit
<1>3. \A u \in Uuids : rows[u].pid \in Nat /\ rows[u].cid \in Nat BY <1>1, Numbers
<1>4. ASSUME NEW u \in Uuids
      PROVE  registry[u] \in EntryType /\ registry[u].cid = rows[u].cid /\ ~registry[u].vif_unplugged
  <2>1. registry[u] = [cid |-> rows[u].cid, vif_unplugged |-> FALSE, del_received |-> FALSE,
                       active |-> u \in Boxes]
    BY <1>2 DEF NoEntry
  <2> QED BY <1>3, <2>1 DEF EntryType
<1>5. registry \in [Uuids -> EntryType] BY <1>2, <1>4
<1>6. NetTypes BY <1>2, <1>3, <1>5 DEF NetTypes
<1>7. ASSUME NEW u \in Uuids PROVE NetOk(u)
  <2>1. thr[u].pc = "idle" /\ thr[u].ns = 0 BY <1>2 DEF Idle
  <2>2. /\ netns[u] = rows[u].pid /\ used.ns[u] = rows[u].pid /\ pods[u] = rows[u].cid
        /\ wired[u] = rows[u].pid
    BY <1>2
  <2>3. Counted(u) BY <1>3, <2>1, <2>2 DEF Counted
  <2>4. Recorded(u) BY <1>4, <2>1, <2>2 DEF Recorded, Plugged, Making
  <2> QED BY <1>2, <2>1, <2>3, <2>4 DEF NetOk
<1> QED BY <1>6, <1>7 DEF NetInv

\* Every step of a thread leaves the others alone.
LEMMA StepAlone ==
    ASSUME IInv, NEW u \in Uuids, CapsuleStep(u)
    PROVE  Alone(u)
<1>1. Good(u)
  BY PostNetworksOk, BuildVolumesOk, ScheduleOk, AttachOk, PullImageOk, WriteMetadataOk,
     RunPodSandboxOk, SandboxPluggedOk, SandboxFailsOk, DockerCreateOk, DockerStartOk, OnStartedOk,
     OldUnpluggedOk, ContainerPluggedOk, TouchReadyOk, UnpluggedOk, CreateContainerOk,
     CreateInCapsuleOk, WaitForInitOk, CapsuleCreatedOk, CriDeleteOk, SandboxStoppedOk, DockerDeleteOk
  DEF CapsuleStep
<1> QED BY <1>1 DEF Good

\* Every step of the system.
LEMMA NextNet == IInv /\ IInv' /\ NetInv /\ [Next]_vars => NetInv'
<1> SUFFICES ASSUME IInv, IInv', NetInv, [Next]_vars PROVE NetInv' OBVIOUS
<1>1. CASE CniStep /\ UNCHANGED podVars BY <1>1, CniStepNet
<1>2. CASE \E u \in Uuids : CapsuleStep(u) \/ Exit(u)
  <2>1. PICK u \in Uuids : CapsuleStep(u) \/ Exit(u) BY <1>2
  <2>2. CASE CapsuleStep(u) BY <2>2, StepAlone, StepNet, NetKeeps
  <2>3. CASE Exit(u)
    <3>1. Alone(u) BY <2>3, ExitOk DEF Good
    <3> QED BY <2>3, <3>1, ExitNet, NetKeeps
  <2> QED BY <2>1, <2>2, <2>3
<1>3. CASE \E u \in Capsules : \/ \E t \in Templates : PostCapsule(u, t)
                               \/ DeleteCapsule(u)
                               \/ \E i \in 1..MaxInner : InnerExits(u, i)
  <2>1. PICK u \in Capsules : \/ \E t \in Templates : PostCapsule(u, t)
                              \/ DeleteCapsule(u)
                              \/ \E i \in 1..MaxInner : InnerExits(u, i)
    BY <1>3
  <2>2. u \in Uuids /\ Alone(u) BY <2>1, PostCapsuleOk, DeleteCapsuleOk, InnerExitsOk DEF Good
  <2>3. NetGood(u) BY <2>1, UserNet
  <2> QED BY <2>2, <2>3, NetKeeps
<1>4. CASE \E u \in Boxes : \/ BeginStop(u) \/ BeginRebuild(u) \/ DeleteContainer(u)
                            \/ \E op \in {"start", "reboot"} : BeginStart(u, op)
  <2>1. PICK u \in Boxes : \/ BeginStop(u) \/ BeginRebuild(u) \/ DeleteContainer(u)
                           \/ \E op \in {"start", "reboot"} : BeginStart(u, op)
    BY <1>4
  <2>2. u \in Uuids /\ Alone(u)
    BY <2>1, BeginStopOk, BeginRebuildOk, DeleteContainerOk, BeginStartOk DEF Good
  <2>3. NetGood(u) BY <2>1, BoxNet
  <2> QED BY <2>2, <2>3, NetKeeps
<1>5. CASE Crash BY <1>5, CrashNet
<1>6. CASE UNCHANGED vars
  <2>1. Serving /\ UNCHANGED <<registry, wired, calls, answer, late>>
    BY <1>6 DEF vars, cniVars, podVars, Serving
  <2> QED BY <2>1, UnseenNet
<1> QED BY <1>1, <1>2, <1>3, <1>4, <1>5, <1>6 DEF Next

(***************************************************************************)
(* A call of the CNI daemon whose client has not given up is the only one  *)
(* of its container, its thread is waiting for it, and it has plugged and  *)
(* registered what its place says; the pid recorded for a container is     *)
(* that of the namespace that was plugged for it (on_container_started,    *)
(* on_container_stopped, ZunCNIRegistryPlugin.add and delete).             *)
(***************************************************************************)
THEOREM CallsInOrder == Spec => []NetInv
<1>1. Init => NetInv BY InitNet
<1>2. IInv /\ IInv' /\ NetInv /\ [Next]_vars => NetInv' BY NextNet
<1> QED BY <1>1, <1>2, CapsulesInOrder, PTL DEF Spec

(***************************************************************************)
(* What the record says of a running container's network is so, and an ADD *)
(* that waits for its port finds its own entry, for every set of           *)
(* containers and capsules and every bound, whatever the watcher, other    *)
(* calls and the ends of processes do between                              *)
(* (on_container_started, _on_container_deleted, wait_for_active).         *)
(***************************************************************************)
THEOREM NetworkIsAsRecorded == Spec => []NetworkAsRecorded
<1>1. NetInv => WiredAsRecorded
  <2> SUFFICES ASSUME NetInv, NEW u \in Boxes, thr[u].pc = "idle", rows[u].status = "Running",
                      rows[u].pid # 0, Spared(u)
               PROVE  Plugged(u, rows[u].pid, rows[u].cid)
    BY DEF WiredAsRecorded, At, Spared, Plugged
  <2>1. u \in Uuids BY CapsulesAssumption
  <2> QED BY <2>1 DEF NetInv, NetOk, Recorded
<1>2. NetInv => AddFindsEntry
  <2> SUFFICES ASSUME NetInv, NEW c \in calls, c.cmd = "ADD", c.pc = "wait", Spared(c.u)
               PROVE  registry[c.u].cid = c.cid
    BY DEF AddFindsEntry, Spared
  <2>1. c.u \in Uuids BY DEF NetInv, NetTypes, CallType
  <2> QED BY <2>1 DEF NetInv, NetOk, Served, Adding, Plugged
<1>3. NetInv => NetworkAsRecorded BY <1>1, <1>2 DEF NetworkAsRecorded
<1> QED BY <1>3, CallsInOrder, PTL

=============================================================================
