---------------------------- MODULE VolumesProofs ----------------------------
(***************************************************************************)
(* Proofs about Volumes, for any owners, mounts, volumes, hosts and faults: *)
(* its type invariant, that a mounted volume stays connected, and that a   *)
(* deletion leaves nothing behind unless it was forced.                    *)
(***************************************************************************)
EXTENDS Volumes, FiniteSetTheorems, TLAPS

-----------------------------------------------------------------------------
(* The inductive invariant                                                  *)

Attaching == {"wait", "next", "reserve", "init", "connect", "attach", "mount"}

Detaching == {"unmount", "begin", "keep", "disconnect", "terminate", "detach",
              "destroy"}

\* Where a thread works on a mapping, its cur.
Works == {"reserve", "init", "connect", "attach", "mount", "undo", "drop"}
             \cup Detaching

\* From begin_detaching to detach: Cinder holds the volume for the thread.
Leaving == {"keep", "disconnect", "terminate", "detach"}

\* The connection of the host is taken away.
Cutting == {"disconnect", "terminate"}

\* The mapping a thread works on is its owner's and in the database.
Held(o) ==
    /\ th[o].pc \in Works => th[o].cur \in maps /\ th[o].cur \in MountsOf(o)
    /\ th[o].pc = "delete" => th[o].cur \in MountsOf(o)
    /\ th[o].pc = "undo" => th[o].undo # <<>>

\* What a thread has left to do is its owner's, and in the database when it is
\* to be detached.
Queued(o) ==
    /\ th[o].todo \subseteq MountsOf(o)
    /\ th[o].pc \in {"docker", "list", "unmount", "destroy", "delete"}
          => th[o].why # "attach"
    /\ th[o].pc \in {"list", "delete"} => th[o].todo \subseteq maps
    /\ th[o].pc \in Detaching /\ th[o].why # "attach"
          => th[o].todo \subseteq maps \ {th[o].cur}

\* A row with connection_info has a mapping.
Recorded == \A r \in conn : \E m \in maps : m[2] = r

Work == Recorded /\ \A o \in Owners : Held(o) /\ Queued(o)

\* Nothing is there for an owner before its request.
Untouched(o) ==
    own[o].state = "none" =>
        /\ th[o].pc = "idle"
        /\ \A m \in MountsOf(o) : m \notin maps /\ m[2] \notin mounted
        /\ \A v \in AutoVols(o) : vol[v].status = "none"

\* The volumes that are mapped, or about to be, have been created.
Existing(o) ==
    \A m \in MountsOf(o) :
        th[o].pc \in Attaching \/ m \in maps => vol[VolumeOf[m[2]]].status # "none"

\* Not yet, or no longer, mounted.
Unmounted(o) ==
    /\ th[o].pc \in {"reserve", "init", "connect", "attach", "mount", "undo",
                     "begin"} \cup Leaving
          => th[o].cur[2] \notin mounted
    /\ th[o].pc \in {"reserve", "init", "connect"} => th[o].cur[2] \notin conn
    /\ th[o].pc \in {"attach", "mount"} => th[o].cur[2] \in conn
    /\ th[o].pc \in Attaching =>
          \A m \in MountsOf(o) : m[2] \in mounted => m[2] \in conn

\* The volume a thread is detaching, unless a roll-back interferes.
Keeps(o) == th[o].pc \in Leaving /\ CurVol(o) \notin rolled

\* Cinder holds a volume for the thread that detaches it,
Reserved(o) == Keeps(o) => vol[CurVol(o)].status = "detaching"

\* which is one at a time.
Alone(o, p) ==
    Keeps(o) /\ th[p].pc \in Leaving /\ CurVol(p) = CurVol(o) => p = o

\* While o takes a connection away, another mapping of the volume on the host
\* is one whose volume cannot be reserved.
Cut(o, p) ==
    Keeps(o) /\ th[o].pc \in Cutting =>
        \A m \in maps :
            /\ m \in MountsOf(p) /\ HostOf[p] = HostOf[o] /\ m # th[o].cur
            /\ VolumeOf[m[2]] = CurVol(o)
            => th[p].cur = m /\ th[p].pc \in {"reserve", "undo"}

\* What the steps of an attach have made is there,
Reached(o) ==
    /\ th[o].pc = "connect" /\ CurVol(o) \notin rolled
          => HostOf[o] \in vol[CurVol(o)].exports
    /\ th[o].pc \in {"attach", "mount"} /\ CurVol(o) \notin rolled
          => Connected(CurVol(o), HostOf[o])

\* and stays as long as the volume is mounted.
Lasts(o) ==
    \A m \in maps : /\ m \in MountsOf(o) /\ m[2] \in mounted
                    /\ VolumeOf[m[2]] \notin rolled
                    => Connected(VolumeOf[m[2]], HostOf[o])

Inv ==
    \A o \in Owners :
        /\ Untouched(o) /\ Existing(o) /\ Unmounted(o)
        /\ Reserved(o) /\ Reached(o) /\ Lasts(o)
        /\ \A p \in Owners : Alone(o, p) /\ Cut(o, p)

IInv == TypeOK /\ Work /\ Inv

-----------------------------------------------------------------------------
(* Types                                                                    *)

\* A requested mapping is a pair of a container and a row of its owner's.
LEMMA MountType ==
    ASSUME NEW m \in Mounts
    PROVE  /\ m[1] \in Containers /\ m[2] \in Rows
           /\ OwnerOf[m[1]] \in Owners /\ VolumeOf[m[2]] \in Volumes
BY VolumesAssumption

\* What a step makes of its thread: only that thread changes.
LEMMA BecomesType ==
    ASSUME th \in [Owners -> Thread], NEW o \in Owners, NEW t, Becomes(o, t)
    PROVE  /\ th'[o] = t
           /\ \A p \in Owners : p # o => th'[p] = th[p]
           /\ t \in Thread => th' \in [Owners -> Thread]
BY DEF Becomes

\* The assignments to a thread that most steps are made of.
LEMMA ThreadType ==
    ASSUME NEW t \in Thread
    PROVE  /\ \A p \in PCs : [t EXCEPT !.pc = p] \in Thread
           /\ \A s \in SUBSET Mounts, u \in BOOLEAN, k \in {"idle", "list"},
                 b \in BOOLEAN : Failing(t, s, u, k, b) \in Thread
           /\ \A p \in PCs, s \in SUBSET Mounts :
                 [t EXCEPT !.pc = p, !.todo = s] \in Thread
           /\ \A s \in SUBSET Mounts : [t EXCEPT !.todo = s] \in Thread
           /\ Idle \in Thread
<1>1. <<>> \in Seq(UndoSteps)
  OBVIOUS
<1>2. ASSUME NEW p \in PCs PROVE [t EXCEPT !.pc = p] \in Thread
  BY DEF Thread
<1>3. ASSUME NEW s \in SUBSET Mounts, NEW u \in BOOLEAN, NEW k \in {"idle", "list"},
             NEW b \in BOOLEAN
      PROVE  Failing(t, s, u, k, b) \in Thread
  BY <1>1 DEF Thread, Failing, PCs, NoMap
<1>4. ASSUME NEW p \in PCs, NEW s \in SUBSET Mounts
      PROVE  [t EXCEPT !.pc = p, !.todo = s] \in Thread
  BY DEF Thread
<1>5. ASSUME NEW s \in SUBSET Mounts PROVE [t EXCEPT !.todo = s] \in Thread
  BY DEF Thread
<1>6. Idle \in Thread
  BY <1>1 DEF Thread, Idle, PCs, NoMap
<1> QED BY <1>2, <1>3, <1>4, <1>5, <1>6

LEMMA RequestType ==
    ASSUME TypeOK, NEW o \in Owners, API(o)
    PROVE  TypeOK'
<1>v. vol \in [Volumes -> Volume]
  BY DEF TypeOK
<1>w. own \in [Owners -> Owner]
  BY DEF TypeOK
<1>t. th \in [Owners -> Thread] /\ th[o] \in Thread
  BY DEF TypeOK
<1>1. CASE Request(o)
  <2>1. vol' \in [Volumes -> Volume]
    BY <1>1, <1>v DEF Request, Created, Statuses, Volume
  <2>2. own' \in [Owners -> Owner]
    BY <1>1, <1>w DEF Request, Owner
  <2>3. MountsOf(o) \in SUBSET Mounts
    BY DEF MountsOf
  <2>4. [th[o] EXCEPT !.pc = "wait", !.todo = MountsOf(o)] \in Thread
    BY <2>3, <1>t, ThreadType DEF PCs
  <2>5. th' \in [Owners -> Thread]
    BY <1>1, <1>t, <2>4, BecomesType DEF Request
  <2> QED BY <1>1, <2>1, <2>2, <2>5 DEF Request, TypeOK
<1>2. CASE RequestRefused(o)
  <2>1. vol' \in [Volumes -> Volume]
    BY <1>2, <1>v DEF RequestRefused, Created, Statuses, Volume
  <2>2. own' \in [Owners -> Owner]
    BY <1>2, <1>w DEF RequestRefused, Owner
  <2> QED BY <1>2, <2>1, <2>2 DEF RequestRefused, TypeOK
<1>3. CASE RequestDelete(o)
  <2>1. PICK f \in IF o \in Capsules THEN {FALSE} ELSE BOOLEAN :
             /\ own' = [own EXCEPT ![o] = [own[o] EXCEPT !.deleting = TRUE,
                                                 !.forced = @ \/ f]]
             /\ Becomes(o, [Idle EXCEPT !.pc = "docker",
                              !.why = IF f THEN "force" ELSE "delete"])
    BY <1>3, Zenon DEF RequestDelete
  <2>2. own' \in [Owners -> Owner]
    <3> DEFINE w == [own[o] EXCEPT !.deleting = TRUE, !.forced = @ \/ f]
    <3>1. w \in Owner
      BY <1>w DEF Owner
    <3>2. own' = [own EXCEPT ![o] = w]
      BY <2>1
    <3> HIDE DEF w
    <3> QED BY <3>1, <3>2, <1>w
  <2>3. [Idle EXCEPT !.pc = "docker", !.why = IF f THEN "force" ELSE "delete"]
           \in Thread
    <3>1. Idle \in Thread
      BY <1>t, ThreadType
    <3> QED BY <3>1 DEF Thread, PCs
  <2>4. th' \in [Owners -> Thread]
    BY <2>1, <2>3, <1>t, BecomesType
  <2> QED BY <1>3, <2>2, <2>4 DEF RequestDelete, TypeOK
<1>4. CASE DeleteHostless(o)
  <2>1. own' \in [Owners -> Owner]
    BY <1>4, <1>w DEF DeleteHostless, Owner
  <2> QED BY <1>4, <2>1 DEF DeleteHostless, TypeOK
<1> QED BY <1>1, <1>2, <1>3, <1>4 DEF API

\* A thread that only moves on.
LEMMA GotoType ==
    ASSUME th \in [Owners -> Thread], NEW o \in Owners, NEW p \in PCs, Goto(o, p)
    PROVE  /\ th' \in [Owners -> Thread]
           /\ th'[o].pc = p
           /\ th'[o].cur = th[o].cur /\ th'[o].todo = th[o].todo
           /\ th'[o].why = th[o].why /\ th'[o].undo = th[o].undo
           /\ th'[o].then = th[o].then
           /\ \A q \in Owners : q # o => th'[q] = th[q]
<1> DEFINE t == [th[o] EXCEPT !.pc = p]
<1>1. t \in Thread
  BY ThreadType
<1>2. t.pc = p /\ t.cur = th[o].cur /\ t.todo = th[o].todo
         /\ t.why = th[o].why /\ t.undo = th[o].undo /\ t.then = th[o].then
  BY DEF Thread
<1>3. Becomes(o, t)
  BY DEF Goto
<1> HIDE DEF t
<1> QED BY <1>1, <1>2, <1>3, BecomesType

\* Cinder changes the status of one volume.
LEMMA SetStatusType ==
    ASSUME vol \in [Volumes -> Volume], NEW v \in Volumes, NEW s \in Statuses,
           SetStatus(v, s)
    PROVE  /\ vol' \in [Volumes -> Volume]
           /\ vol'[v].status = s
           /\ \A u \in Volumes : /\ vol'[u].exports = vol[u].exports
                                 /\ vol'[u].attached = vol[u].attached
                                 /\ u # v => vol'[u] = vol[u]
BY DEF SetStatus, Volume

\* _fail_container begins: what it makes of its thread.
LEMMA FailingType ==
    ASSUME th \in [Owners -> Thread], NEW o \in Owners, NEW s \in SUBSET Mounts,
           NEW u \in BOOLEAN, NEW k \in {"idle", "list"}, NEW b \in BOOLEAN,
           Becomes(o, Failing(th[o], s, u, k, b))
    PROVE  /\ th' \in [Owners -> Thread]
           /\ th'[o].pc = "list" /\ th'[o].why = "fail" /\ th'[o].todo = s
           /\ th'[o].then = k
           /\ \A q \in Owners : q # o => th'[q] = th[q]
<1> DEFINE t == Failing(th[o], s, u, k, b)
<1>1. t \in Thread
  BY ThreadType
<1>2. t.pc = "list" /\ t.why = "fail" /\ t.todo = s /\ t.then = k
  BY DEF Thread, Failing
<1>3. Becomes(o, t)
  OBVIOUS
<1> HIDE DEF t
<1> QED BY <1>1, <1>2, <1>3, BecomesType

\* A thread that ends.
LEMMA IdleType ==
    ASSUME th \in [Owners -> Thread], NEW o \in Owners, Becomes(o, Idle)
    PROVE  /\ th' \in [Owners -> Thread]
           /\ th'[o].pc = "idle" /\ th'[o].todo = {}
           /\ th'[o].why = "attach" /\ th'[o].then = "idle"
           /\ \A q \in Owners : q # o => th'[q] = th[q]
<1>1. Idle \in Thread
  BY ThreadType
<1>2. Idle.pc = "idle" /\ Idle.todo = {} /\ Idle.why = "attach" /\ Idle.then = "idle"
  BY DEF Idle
<1> HIDE DEF Idle
<1> QED BY <1>1, <1>2, BecomesType

\* An exception leaves the thread at its end, or in _fail_container's.
LEMMA RaiseType ==
    ASSUME th \in [Owners -> Thread], own \in [Owners -> Owner],
           NEW o \in Owners, Raise(o)
    PROVE  /\ th' \in [Owners -> Thread] /\ own' \in [Owners -> Owner]
           /\ th'[o].pc \in {"gone", "idle"} /\ th'[o].todo = {}
           /\ \A q \in Owners : q # o => th'[q] = th[q]
           /\ \A p \in Owners : /\ own'[p].state = own[p].state
                                /\ own'[p].host = own[p].host
                                /\ own'[p].forced = own[p].forced
                                /\ p # o => own'[p] = own[p]
           /\ \/ /\ th'[o].pc = "gone" /\ th[o].why = "fail"
                 /\ th'[o].why = "fail" /\ th'[o].then = th[o].then
              \/ /\ th'[o].pc = "idle"
                 /\ th'[o].why = "attach" /\ th'[o].then = "idle"
<1>1. CASE th[o].why = "fail"
  <2> DEFINE t == [th[o] EXCEPT !.pc = "gone", !.todo = {}, !.await = {},
                                !.cur = NoMap, !.last = FALSE]
  <2>1. t \in Thread
    <3> DEFINE w == [th[o] EXCEPT !.pc = "gone", !.todo = {}]
    <3>1. w \in Thread
      BY ThreadType DEF PCs
    <3>2. t = [w EXCEPT !.await = {}, !.cur = NoMap, !.last = FALSE]
      OBVIOUS
    <3> HIDE DEF w, t
    <3> QED BY <3>1, <3>2 DEF Thread, NoMap
  <2>2. t.pc = "gone" /\ t.todo = {} /\ t.why = "fail" /\ t.then = th[o].then
    BY <1>1 DEF Thread
  <2>3. Becomes(o, t) /\ UNCHANGED own
    BY <1>1 DEF Raise
  <2> HIDE DEF t
  <2> QED BY <1>1, <2>1, <2>2, <2>3, BecomesType
<1>2. CASE th[o].why # "fail"
  <2>1. Becomes(o, Idle) /\ own' = [own EXCEPT ![o].deleting = FALSE]
    BY <1>2 DEF Raise
  <2>2. /\ own' \in [Owners -> Owner]
        /\ \A p \in Owners : /\ own'[p].state = own[p].state
                             /\ own'[p].host = own[p].host
                             /\ own'[p].forced = own[p].forced
                             /\ p # o => own'[p] = own[p]
    BY <2>1 DEF Owner
  <2> QED BY <2>1, <2>2, IdleType
<1> QED BY <1>1, <1>2

\* Where a failed detach leaves its thread.
LEMMA DetachFailedType ==
    ASSUME th \in [Owners -> Thread], own \in [Owners -> Owner],
           NEW o \in Owners, DetachFailed(o)
    PROVE  /\ th' \in [Owners -> Thread] /\ own' \in [Owners -> Owner]
           /\ \/ /\ th'[o].pc \in {"gone", "idle"} /\ th'[o].todo = {}
                 /\ \/ /\ th'[o].pc = "gone" /\ th[o].why = "fail"
                       /\ th'[o].why = "fail" /\ th'[o].then = th[o].then
                    \/ /\ th'[o].pc = "idle"
                       /\ th'[o].why = "attach" /\ th'[o].then = "idle"
              \/ /\ th'[o].pc \in {"drop", "destroy"}
                 /\ th'[o].cur = th[o].cur /\ th'[o].todo = th[o].todo
                 /\ th'[o].why = th[o].why /\ th'[o].then = th[o].then
                 /\ th'[o].pc = "destroy" => th[o].why = "force"
                 /\ th'[o].pc = "drop" => th[o].why = "attach"
                 /\ th'[o].pc = "destroy" => th[o].why # "attach"
           /\ \A q \in Owners : q # o => th'[q] = th[q]
           /\ \A p \in Owners : /\ own'[p].state = own[p].state
                                /\ own'[p].host = own[p].host
                                /\ own'[p].forced = own[p].forced
                                /\ p # o => own'[p] = own[p]
<1>1. CASE th[o].why = "attach" /\ Goto(o, "drop") /\ UNCHANGED own
  <2>1. "drop" \in PCs
    BY DEF PCs
  <2> QED BY <1>1, <2>1, GotoType
<1>2. CASE th[o].why = "force" /\ Goto(o, "destroy") /\ UNCHANGED own
  <2>1. "destroy" \in PCs
    BY DEF PCs
  <2> QED BY <1>2, <2>1, GotoType
<1>3. CASE Raise(o)
  BY <1>3, RaiseType
<1> QED BY <1>1, <1>2, <1>3 DEF DetachFailed

-----------------------------------------------------------------------------
(* Every step works on mappings that are there                              *)

\* The step of one owner leaves the work of the others alone.
LEMMA WorkLocal ==
    ASSUME Work, NEW o \in Owners,
           \A q \in Owners : q # o => th'[q] = th[q],
           \A m \in maps : m \in maps' \/ m \in MountsOf(o),
           \A q \in Owners : th[q].todo \subseteq Mounts,
           Recorded', Held(o)', Queued(o)'
    PROVE  Work'
<1> SUFFICES ASSUME NEW q \in Owners PROVE Held(q)' /\ Queued(q)'
  BY DEF Work
<1>1. CASE q = o
  BY <1>1
<1>2. CASE q # o
  <2>1. th'[q] = th[q]
    BY <1>2
  <2>2. Held(q) /\ Queued(q)
    BY DEF Work
  <2>3. \A m \in MountsOf(q) : m \notin MountsOf(o)
    BY <1>2 DEF MountsOf
  <2>4. Held(q)'
    BY <2>1, <2>2, <2>3 DEF Held, MountsOf
  <2>5. Queued(q)'
    BY <2>1, <2>2, <2>3 DEF Queued, MountsOf
  <2> QED BY <2>4, <2>5
<1> QED BY <1>1, <1>2

\* The same, when the database is left alone.
LEMMA WorkSame ==
    ASSUME TypeOK, Work, NEW o \in Owners,
           \A q \in Owners : q # o => th'[q] = th[q],
           UNCHANGED <<maps, conn>>,
           Held(o)', Queued(o)'
    PROVE  Work'
<1>1. Recorded'
  BY DEF Work, Recorded
<1>2. \A q \in Owners : th[q].todo \subseteq Mounts
  BY DEF Work, Queued, MountsOf
<1> QED BY <1>1, <1>2, WorkLocal

\* Removing a mapping keeps rows and mappings in step.
LEMMA RemoveMapType ==
    ASSUME TypeOK, Recorded, NEW m \in Mounts, RemoveMap(m)
    PROVE  /\ maps' = maps \ {m} /\ maps' \subseteq Mounts
           /\ conn' \subseteq conn
           /\ \A r \in conn : r # m[2] => r \in conn'
           /\ Recorded'
BY DEF TypeOK, Recorded, RemoveMap

\* Most steps leave o with no work, or with what it had.
LEMMA IdleWork ==
    ASSUME NEW o \in Owners, th'[o].pc \in {"gone", "idle"}, th'[o].todo = {}
    PROVE  Held(o)' /\ Queued(o)'
BY DEF Held, Queued, Works, Detaching

LEMMA FailingWork ==
    ASSUME NEW o \in Owners, th'[o].pc = "list", th'[o].why = "fail",
           th'[o].todo \subseteq maps', th'[o].todo \subseteq MountsOf(o)
    PROVE  Held(o)' /\ Queued(o)'
BY DEF Held, Queued, Works, Detaching, MountsOf

LEMMA SameWork ==
    ASSUME NEW o \in Owners, Held(o), Queued(o), UNCHANGED maps,
           th'[o].cur = th[o].cur, th'[o].todo = th[o].todo,
           th'[o].why = th[o].why, th[o].pc \in Works, th'[o].pc \in Works,
           th'[o].pc = "undo" => th'[o].undo # <<>>,
           th'[o].pc \in Detaching => th[o].pc \in Detaching,
           th'[o].pc \in {"unmount", "destroy"} => th[o].why # "attach"
    PROVE  Held(o)' /\ Queued(o)'
<1>1. Held(o)'
  BY DEF Held, Works, Detaching, MountsOf
<1>2. Queued(o)'
  BY DEF Queued, Works, Detaching, MountsOf
<1> QED BY <1>1, <1>2

LEMMA ApiWork ==
    ASSUME TypeOK, Work, NEW o \in Owners, API(o)
    PROVE  Work'
<1>t. th \in [Owners -> Thread] /\ th[o] \in Thread
  BY DEF TypeOK
<1>1. CASE Request(o)
  <2>1. CASE UNCHANGED th
    <3>1. Held(o)' /\ Queued(o)'
      BY <1>1, <2>1 DEF Work, Request, Held, Queued, MountsOf
    <3> QED BY <1>1, <2>1, <3>1, WorkSame DEF Request
  <2>2. CASE Becomes(o, [th[o] EXCEPT !.pc = "wait", !.todo = MountsOf(o)])
    <3> DEFINE t == [th[o] EXCEPT !.pc = "wait", !.todo = MountsOf(o)]
    <3>1. t.pc = "wait" /\ t.todo = MountsOf(o)
      BY <1>t DEF Thread
    <3>2. Becomes(o, t)
      BY <2>2
    <3> HIDE DEF t
    <3>3. th'[o].pc = "wait" /\ th'[o].todo = MountsOf(o)
      BY <3>1, <3>2, <1>t, BecomesType
    <3>4. \A q \in Owners : q # o => th'[q] = th[q]
      BY <3>2, <1>t, BecomesType
    <3>5. Held(o)' /\ Queued(o)'
      BY <3>3 DEF Held, Queued, Works, Detaching, MountsOf
    <3> QED BY <1>1, <3>4, <3>5, WorkSame DEF Request
  <2> QED BY <1>1, <2>1, <2>2 DEF Request
<1>2. CASE RequestRefused(o) \/ DeleteHostless(o)
  <2>1. UNCHANGED <<th, maps, conn>>
    BY <1>2 DEF RequestRefused, DeleteHostless
  <2>2. Held(o)' /\ Queued(o)'
    BY <2>1 DEF Work, Held, Queued, MountsOf
  <2> QED BY <2>1, <2>2, WorkSame
<1>3. CASE RequestDelete(o)
  <2>1. PICK w \in {"force", "delete"} :
           Becomes(o, [Idle EXCEPT !.pc = "docker", !.why = w])
    BY <1>3 DEF RequestDelete
  <2> DEFINE t == [Idle EXCEPT !.pc = "docker", !.why = w]
  <2>2. t.pc = "docker" /\ t.todo = {} /\ t.why # "attach"
    BY DEF Idle
  <2>3. Becomes(o, t)
    BY <2>1
  <2> HIDE DEF t
  <2>4. th'[o].pc = "docker" /\ th'[o].todo = {} /\ th'[o].why # "attach"
    BY <2>2, <2>3, <1>t, BecomesType
  <2>5. \A q \in Owners : q # o => th'[q] = th[q]
    BY <2>3, <1>t, BecomesType
  <2>6. Held(o)' /\ Queued(o)'
    BY <2>4 DEF Held, Queued, Works, Detaching
  <2> QED BY <1>3, <2>5, <2>6, WorkSame DEF RequestDelete
<1> QED BY <1>1, <1>2, <1>3 DEF API

\* The volume a thread works on, and what it has left.
LEMMA CurType ==
    ASSUME TypeOK, Work, NEW o \in Owners, th[o].pc \in Works \cup {"delete"}
    PROVE  /\ th[o].cur \in Mounts /\ th[o].cur \in MountsOf(o)
           /\ th[o].cur[1] \in Containers /\ th[o].cur[2] \in Rows
           /\ CurVol(o) \in Volumes /\ CurHost(o) \in Hosts
<1>1. th[o].cur \in MountsOf(o)
  BY DEF Work, Held
<1>2. th[o].cur \in Mounts
  BY <1>1 DEF MountsOf
<1>3. HostOf[o] \in Hosts
  BY VolumesAssumption
<1> QED BY <1>1, <1>2, <1>3, MountType DEF CurVol, CurHost

LEMMA WaitWork ==
    ASSUME TypeOK, Work, NEW o \in Owners, WaitAvailable(o) \/ WaitTimeout(o)
    PROVE  TypeOK' /\ Work'
<1>t. th \in [Owners -> Thread] /\ th[o] \in Thread
  BY DEF TypeOK
<1>m. MountsOf(o) \in SUBSET Mounts /\ MapsOf(o) \in SUBSET Mounts
         /\ MapsOf(o) \subseteq MountsOf(o) /\ MapsOf(o) \subseteq maps
  BY DEF MountsOf, MapsOf, TypeOK
<1>q. Held(o) /\ Queued(o)
  BY DEF Work
<1>1. CASE WaitAvailable(o)
  <2>1. PICK s \in SUBSET MountsOf(o) : \E p \in {"wait", "next"} :
           Becomes(o, [th[o] EXCEPT !.pc = p, !.todo = s])
    <3>1. CASE Becomes(o, [th[o] EXCEPT !.pc = "next", !.todo = MountsOf(o)])
      BY <3>1
    <3>2. CASE \E m \in th[o].todo : Becomes(o, [th[o] EXCEPT !.todo = @ \ {m}])
      <4>1. PICK m \in th[o].todo : Becomes(o, [th[o] EXCEPT !.todo = @ \ {m}])
        BY <3>2
      <4>2. th[o].todo \ {m} \in SUBSET MountsOf(o)
        BY <1>q DEF Queued
      <4>3. th[o].pc = "wait"
        BY <1>1 DEF WaitAvailable
      <4>4. [th[o] EXCEPT !.todo = @ \ {m}]
               = [th[o] EXCEPT !.pc = "wait", !.todo = th[o].todo \ {m}]
        BY <1>t, <4>3 DEF Thread
      <4> QED BY <4>1, <4>2, <4>4
    <3> QED BY <1>1, <3>1, <3>2 DEF WaitAvailable
  <2>2. PICK p \in {"wait", "next"} :
           Becomes(o, [th[o] EXCEPT !.pc = p, !.todo = s])
    BY <2>1
  <2> DEFINE t == [th[o] EXCEPT !.pc = p, !.todo = s]
  <2>3. t \in Thread
    BY <1>t, <1>m, ThreadType DEF PCs
  <2>4. t.pc = p /\ t.todo = s
    BY <1>t DEF Thread
  <2>5. Becomes(o, t)
    BY <2>2
  <2> HIDE DEF t
  <2>6. /\ th'[o].pc = p /\ th'[o].todo = s
        /\ th' \in [Owners -> Thread]
        /\ \A q \in Owners : q # o => th'[q] = th[q]
    BY <2>3, <2>4, <2>5, <1>t, BecomesType
  <2>7. Held(o)' /\ Queued(o)'
    BY <2>6 DEF Held, Queued, Works, Detaching, MountsOf
  <2>8. Work'
    BY <1>1, <2>6, <2>7, WorkSame DEF WaitAvailable
  <2>9. TypeOK'
    BY <1>1, <2>6 DEF WaitAvailable, TypeOK
  <2> QED BY <2>8, <2>9
<1>2. CASE WaitTimeout(o)
  <2>1. Becomes(o, Failing(th[o], MapsOf(o), TRUE, "idle", FALSE))
    BY <1>2 DEF WaitTimeout
  <2>2. /\ th' \in [Owners -> Thread]
        /\ th'[o].pc = "list" /\ th'[o].why = "fail" /\ th'[o].todo = MapsOf(o)
        /\ \A q \in Owners : q # o => th'[q] = th[q]
    BY <1>t, <1>m, <2>1, FailingType
  <2>3. UNCHANGED maps
    BY <1>2 DEF WaitTimeout
  <2>4. Held(o)' /\ Queued(o)'
    BY <1>m, <2>2, <2>3, FailingWork
  <2>5. Work'
    BY <1>2, <2>2, <2>4, WorkSame DEF WaitTimeout
  <2>6. vol' \in [Volumes -> Volume]
    BY <1>2, SMTT(30) DEF WaitTimeout, TypeOK, Volume, Statuses
  <2>7. TypeOK'
    BY <1>2, <2>2, <2>6 DEF WaitTimeout, TypeOK
  <2> QED BY <2>5, <2>7
<1> QED BY <1>1, <1>2

\* A failed attach: the thread turns to its handlers.
LEMMA UndoingType ==
    ASSUME th \in [Owners -> Thread], NEW o \in Owners,
           NEW s \in Seq(UndoSteps), Undoing(o, s)
    PROVE  /\ th' \in [Owners -> Thread]
           /\ th'[o].pc = "undo" /\ th'[o].undo # <<>>
           /\ th'[o].cur = th[o].cur /\ th'[o].todo = th[o].todo
           /\ th'[o].why = th[o].why /\ th'[o].then = th[o].then
           /\ \A q \in Owners : q # o => th'[q] = th[q]
<1>u. PICK u : u = Append(s, "unreserve")
  OBVIOUS
<1>1. u \in Seq(UndoSteps) /\ u # <<>>
  <2>1. "unreserve" \in UndoSteps
    BY DEF UndoSteps
  <2>2. u \in Seq(UndoSteps) /\ Len(u) = Len(s) + 1 /\ Len(s) \in Nat
    BY <1>u, <2>1
  <2>3. Len(u) # 0
    BY <2>2
  <2>4. Len(<<>>) = 0
    OBVIOUS
  <2>5. u # <<>>
    BY <2>3, <2>4, Zenon
  <2> QED BY <2>2, <2>5
<1> DEFINE t == [th[o] EXCEPT !.pc = "undo", !.undo = u]
<1>2. t \in Thread
  <2> DEFINE w == [th[o] EXCEPT !.pc = "undo"]
  <2>1. w \in Thread
    BY ThreadType DEF PCs
  <2>2. t = [w EXCEPT !.undo = u]
    OBVIOUS
  <2> HIDE DEF w, t
  <2> QED BY <1>1, <2>1, <2>2 DEF Thread
<1>3. t.pc = "undo" /\ t.undo = u /\ t.cur = th[o].cur
         /\ t.todo = th[o].todo /\ t.why = th[o].why /\ t.then = th[o].then
  BY DEF Thread
<1>4. Becomes(o, t)
  BY <1>u DEF Undoing
<1> HIDE DEF t
<1> QED BY <1>1, <1>2, <1>3, <1>4, BecomesType

LEMMA AttachNextWork ==
    ASSUME TypeOK, Work, NEW o \in Owners, AttachNext(o)
    PROVE  TypeOK' /\ Work'
<1>t. th \in [Owners -> Thread] /\ th[o] \in Thread
  BY DEF TypeOK
<1>q. Held(o) /\ Queued(o) /\ th[o].todo \subseteq MountsOf(o) /\ th[o].pc = "next"
  BY DEF Work, Queued, AttachNext
<1>s. \A q \in Owners : th[q].todo \subseteq Mounts
  BY DEF Work, Queued, MountsOf
<1>1. CASE Goto(o, "build") /\ UNCHANGED maps
  <2>1. "build" \in PCs
    BY DEF PCs
  <2>2. /\ th' \in [Owners -> Thread] /\ th'[o].pc = "build"
        /\ th'[o].todo = th[o].todo
        /\ \A q \in Owners : q # o => th'[q] = th[q]
    BY <1>1, <1>t, <2>1, GotoType
  <2>3. Held(o)' /\ Queued(o)'
    BY <1>q, <2>2 DEF Held, Queued, Works, Detaching, MountsOf
  <2>4. Work'
    BY <1>1, <2>2, <2>3, WorkSame DEF AttachNext
  <2> QED BY <1>1, <2>2, <2>4 DEF AttachNext, TypeOK
<1>2. CASE \E m \in th[o].todo :
            /\ maps' = maps \cup {m}
            /\ IF m[2] \in conn
               THEN Becomes(o, [th[o] EXCEPT !.todo = @ \ {m}])
               ELSE Becomes(o, [th[o] EXCEPT !.todo = @ \ {m}, !.cur = m,
                                             !.pc = "reserve"])
  <2>1. PICK m \in th[o].todo :
            /\ maps' = maps \cup {m}
            /\ IF m[2] \in conn
               THEN Becomes(o, [th[o] EXCEPT !.todo = @ \ {m}])
               ELSE Becomes(o, [th[o] EXCEPT !.todo = @ \ {m}, !.cur = m,
                                             !.pc = "reserve"])
    BY <1>2
  <2>2. m \in MountsOf(o) /\ m \in Mounts
    BY <1>q DEF MountsOf
  <2> DEFINE s == th[o].todo \ {m}
  <2>3. s \in SUBSET Mounts /\ s \subseteq MountsOf(o)
    BY <1>q, <1>s
  <2> DEFINE t == IF m[2] \in conn THEN [th[o] EXCEPT !.todo = s]
                  ELSE [th[o] EXCEPT !.todo = s, !.cur = m, !.pc = "reserve"]
  <2>4. Becomes(o, t)
    BY <2>1
  <2> HIDE DEF s
  <2>5. t \in Thread
    <3>1. [th[o] EXCEPT !.todo = s] \in Thread
      BY <1>t, <2>3, ThreadType
    <3>2. [th[o] EXCEPT !.todo = s, !.cur = m, !.pc = "reserve"] \in Thread
      BY <1>t, <2>2, <2>3 DEF Thread, PCs
    <3> QED BY <3>1, <3>2
  <2>6. t.todo = s /\ \/ t.pc = "next"
                      \/ t.pc = "reserve" /\ t.cur = m
    BY <1>q, <1>t DEF Thread
  <2> HIDE DEF t
  <2>7. /\ th' \in [Owners -> Thread] /\ th'[o] = t
        /\ \A q \in Owners : q # o => th'[q] = th[q]
    BY <2>4, <2>5, <1>t, BecomesType
  <2>8. Held(o)' /\ Queued(o)'
    BY <2>1, <2>2, <2>3, <2>6, <2>7 DEF Held, Queued, Works, Detaching, MountsOf
  <2>9. Recorded'
    BY <2>1 DEF AttachNext, Work, Recorded
  <2>10. \A n \in maps : n \in maps'
    BY <2>1
  <2>11. Work'
    BY <1>s, <2>7, <2>8, <2>9, <2>10, WorkLocal
  <2>12. maps' \subseteq Mounts
    BY <2>1, <2>2 DEF TypeOK
  <2> QED BY <2>7, <2>11, <2>12 DEF AttachNext, TypeOK
<1> QED BY <1>1, <1>2 DEF AttachNext

\* Reserving, connecting and attaching.
LEMMA AttachWork ==
    ASSUME TypeOK, Work, NEW o \in Owners,
           Reserve(o) \/ InitializeConnection(o) \/ ConnectVolume(o)
              \/ CinderAttach(o)
    PROVE  TypeOK' /\ Work'
<1>t. th \in [Owners -> Thread] /\ th[o] \in Thread
  BY DEF TypeOK
<1>p. th[o].pc \in {"reserve", "init", "connect", "attach"}
  BY DEF Reserve, InitializeConnection, ConnectVolume, CinderAttach
<1>q. Held(o) /\ Queued(o)
  BY DEF Work
<1>c. /\ th[o].cur \in maps
      /\ th[o].cur[1] \in Containers /\ th[o].cur[2] \in Rows
      /\ CurVol(o) \in Volumes /\ CurHost(o) \in Hosts
  BY <1>p, <1>q, CurType DEF Held, Works
<1>1. \/ \E s \in Seq(UndoSteps) : Undoing(o, s)
      \/ \E p \in {"init", "connect", "attach", "mount"} : Goto(o, p)
  <2>1. /\ <<>> \in Seq(UndoSteps) /\ <<"terminate">> \in Seq(UndoSteps)
        /\ <<"disconnect", "terminate", "detach">> \in Seq(UndoSteps)
    BY DEF UndoSteps
  <2> QED BY <2>1 DEF Reserve, InitializeConnection, ConnectVolume, CinderAttach
<1>2. /\ th' \in [Owners -> Thread]
      /\ th'[o].pc \in {"init", "connect", "attach", "mount", "undo"}
      /\ th'[o].pc = "undo" => th'[o].undo # <<>>
      /\ th'[o].cur = th[o].cur /\ th'[o].todo = th[o].todo
      /\ th'[o].why = th[o].why
      /\ \A q \in Owners : q # o => th'[q] = th[q]
  <2>1. CASE \E s \in Seq(UndoSteps) : Undoing(o, s)
    BY <2>1, <1>t, UndoingType
  <2>2. CASE \E p \in {"init", "connect", "attach", "mount"} : Goto(o, p)
    <3>1. PICK p \in {"init", "connect", "attach", "mount"} : Goto(o, p)
      BY <2>2
    <3>2. p \in PCs
      BY DEF PCs
    <3> QED BY <3>1, <3>2, <1>t, GotoType
  <2> QED BY <1>1, <2>1, <2>2
<1>3. UNCHANGED <<maps, mounted, own, rolled>>
  BY DEF Reserve, InitializeConnection, ConnectVolume, CinderAttach
<1>4. Held(o)' /\ Queued(o)'
  <2>1. th[o].pc \in Works /\ th'[o].pc \in Works /\ th'[o].pc \notin Detaching
    BY <1>p, <1>2 DEF Works, Detaching
  <2>2. th'[o].pc \notin {"unmount", "destroy"}
    BY <1>2
  <2> QED BY <1>2, <1>3, <1>q, <2>1, <2>2, SameWork
<1>5. /\ conn' \subseteq Rows /\ dev' \in [Hosts -> SUBSET Volumes]
      /\ Recorded'
  <2>1. CASE UNCHANGED <<conn, dev>>
    BY <1>3, <2>1 DEF Work, Recorded, TypeOK
  <2>2. CASE /\ conn' = conn \cup {th[o].cur[2]}
             /\ dev' = [dev EXCEPT ![CurHost(o)] = @ \cup {CurVol(o)}]
    <3>1. dev' \in [Hosts -> SUBSET Volumes]
      BY <1>c, <2>2 DEF TypeOK
    <3> QED BY <1>3, <1>c, <2>2, <3>1 DEF Work, Recorded, TypeOK
  <2> QED BY <2>1, <2>2 DEF Reserve, InitializeConnection, ConnectVolume,
                            CinderAttach
<1>6. vol' \in [Volumes -> Volume]
  <2>v. vol \in [Volumes -> Volume]
    BY DEF TypeOK
  <2>1. CASE UNCHANGED vol
    BY <2>1, <2>v
  <2>2. CASE Reserve(o) /\ SetStatus(CurVol(o), "attaching")
    BY <2>2, <2>v, <1>c, SetStatusType DEF Statuses
  <2>3. CASE InitializeConnection(o)
             /\ vol' = [vol EXCEPT ![CurVol(o)].exports = @ \cup {CurHost(o)}]
    BY <2>3, <2>v, <1>c DEF Volume
  <2>4. CASE CinderAttach(o)
    <3>1. \/ UNCHANGED vol
          \/ vol' = [vol EXCEPT ![CurVol(o)] = [vol[CurVol(o)] EXCEPT
                        !.status = "in-use",
                        !.attached = @ \cup {th[o].cur[1]}]]
      BY <2>4 DEF CinderAttach
    <3>2. [vol[CurVol(o)] EXCEPT !.status = "in-use",
                                 !.attached = @ \cup {th[o].cur[1]}] \in Volume
      BY <2>v, <1>c DEF Volume, Statuses
    <3> QED BY <3>1, <3>2, <2>v, <1>c
  <2> QED BY <2>1, <2>2, <2>3, <2>4
          DEF Reserve, InitializeConnection, ConnectVolume
<1>7. \A q \in Owners : th[q].todo \subseteq Mounts
  BY DEF Work, Queued, MountsOf
<1>8. Work'
  BY <1>2, <1>3, <1>4, <1>5, <1>7, WorkLocal
<1> QED BY <1>2, <1>3, <1>5, <1>6, <1>8 DEF TypeOK

LEMMA MountWork ==
    ASSUME TypeOK, Work, NEW o \in Owners, MountDevice(o)
    PROVE  TypeOK' /\ Work'
<1>t. th \in [Owners -> Thread] /\ th[o] \in Thread
  BY DEF TypeOK
<1>p. th[o].pc = "mount"
  BY DEF MountDevice
<1>q. Held(o) /\ Queued(o)
  BY DEF Work
<1>c. th[o].cur[2] \in Rows
  BY <1>p, CurType DEF Works
<1>1. /\ th' \in [Owners -> Thread]
      /\ \A q \in Owners : q # o => th'[q] = th[q]
      /\ Held(o)' /\ Queued(o)'
  <2>1. CASE Becomes(o, [th[o] EXCEPT !.pc = "next", !.cur = NoMap])
    <3> DEFINE t == [th[o] EXCEPT !.pc = "next", !.cur = NoMap]
    <3>1. t \in Thread
      BY <1>t DEF Thread, PCs
    <3>2. t.pc = "next" /\ t.todo = th[o].todo
      BY <1>t DEF Thread
    <3>3. Becomes(o, t)
      BY <2>1
    <3> HIDE DEF t
    <3>4. /\ th' \in [Owners -> Thread] /\ th'[o] = t
          /\ \A q \in Owners : q # o => th'[q] = th[q]
      BY <1>t, <3>1, <3>3, BecomesType
    <3> QED BY <1>q, <3>2, <3>4 DEF Held, Queued, Works, Detaching, MountsOf
  <2>2. CASE Becomes(o, [th[o] EXCEPT !.pc = "begin", !.why = "attach"])
    <3> DEFINE t == [th[o] EXCEPT !.pc = "begin", !.why = "attach"]
    <3>1. t \in Thread
      BY <1>t DEF Thread, PCs
    <3>2. /\ t.pc = "begin" /\ t.todo = th[o].todo /\ t.why = "attach"
          /\ t.cur = th[o].cur
      BY <1>t DEF Thread
    <3>3. Becomes(o, t)
      BY <2>2
    <3> HIDE DEF t
    <3>4. /\ th' \in [Owners -> Thread] /\ th'[o] = t
          /\ \A q \in Owners : q # o => th'[q] = th[q]
      BY <1>t, <3>1, <3>3, BecomesType
    <3>5. UNCHANGED maps
      BY DEF MountDevice
    <3> QED BY <1>p, <1>q, <3>2, <3>4, <3>5
            DEF Held, Queued, Works, Detaching, MountsOf
  <2> QED BY <2>1, <2>2 DEF MountDevice
<1>2. mounted' \subseteq Rows
  BY <1>c DEF MountDevice, TypeOK
<1>3. Work'
  BY <1>1, WorkSame DEF MountDevice
<1> QED BY <1>1, <1>2, <1>3 DEF MountDevice, TypeOK

\* What the roll-back of a failed attach makes of its thread.
LEMMA UndoThread ==
    ASSUME TypeOK, Work, NEW o \in Owners, Undo(o)
    PROVE  /\ th' \in [Owners -> Thread]
           /\ th'[o].pc \in {"undo", "drop"}
           /\ th'[o].pc = "undo" => th'[o].undo # <<>>
           /\ th'[o].cur = th[o].cur /\ th'[o].todo = th[o].todo
           /\ th'[o].why = th[o].why /\ th'[o].then = th[o].then
           /\ \A q \in Owners : q # o => th'[q] = th[q]
<1>t. th \in [Owners -> Thread] /\ th[o] \in Thread
  BY DEF TypeOK
<1>u. th[o].undo \in Seq(UndoSteps) /\ th[o].undo # <<>>
  BY <1>t DEF Thread, Undo, Work, Held
<1>1. Tail(th[o].undo) \in Seq(UndoSteps)
  BY <1>u
<1>2. <<>> \in Seq(UndoSteps) /\ <<"unreserve">> \in Seq(UndoSteps)
  BY DEF UndoSteps
<1>3. PICK u \in Seq(UndoSteps) :
         Becomes(o, [th[o] EXCEPT !.undo = u,
                       !.pc = IF u = <<>> THEN "drop" ELSE "undo"])
  BY <1>1, <1>2 DEF Undo
<1> DEFINE t == [th[o] EXCEPT !.undo = u,
                   !.pc = IF u = <<>> THEN "drop" ELSE "undo"]
<1>4. t \in Thread
  <2> DEFINE w == [th[o] EXCEPT !.undo = u]
  <2>1. w \in Thread
    BY <1>t DEF Thread
  <2>2. t = [w EXCEPT !.pc = IF u = <<>> THEN "drop" ELSE "undo"]
    OBVIOUS
  <2>3. (IF u = <<>> THEN "drop" ELSE "undo") \in PCs
    BY DEF PCs
  <2> HIDE DEF w, t
  <2> QED BY <2>1, <2>2, <2>3, ThreadType
<1>5. /\ t.pc = IF u = <<>> THEN "drop" ELSE "undo"
      /\ t.undo = u /\ t.cur = th[o].cur
      /\ t.todo = th[o].todo /\ t.why = th[o].why /\ t.then = th[o].then
  BY <1>t DEF Thread
<1>6. Becomes(o, t)
  BY <1>3
<1> HIDE DEF t
<1>7. /\ th' \in [Owners -> Thread] /\ th'[o] = t
      /\ \A q \in Owners : q # o => th'[q] = th[q]
  BY <1>t, <1>4, <1>6, BecomesType
<1> QED BY <1>5, <1>7

\* Cinder removes an attachment.
LEMMA CinderDetachType ==
    ASSUME vol \in [Volumes -> Volume], NEW v \in Volumes, NEW c \in Containers,
           CinderDetach(v, c)
    PROVE  /\ vol' \in [Volumes -> Volume]
           /\ vol'[v].status \in {"available", "in-use"}
           /\ vol'[v].attached = Remaining(v, c)
           /\ \A u \in Volumes : /\ vol'[u].exports = vol[u].exports
                                 /\ u # v => vol'[u] = vol[u]
<1> DEFINE r == Remaining(v, c)
<1>1. r \in SUBSET Containers
  BY DEF Remaining, Volume
<1>2. Rest(v, r) \in Statuses /\ Rest(v, r) \in {"available", "in-use"}
  BY DEF Rest, Statuses
<1> DEFINE w == [vol[v] EXCEPT !.attached = r, !.status = Rest(v, r)]
<1>3. vol' = [vol EXCEPT ![v] = w]
  BY DEF CinderDetach
<1> HIDE DEF r
<1>4. w \in Volume /\ w.status = Rest(v, r) /\ w.exports = vol[v].exports
         /\ w.attached = r
  BY <1>1, <1>2 DEF Volume
<1>5. r = Remaining(v, c)
  BY DEF r
<1> HIDE DEF w
<1> QED BY <1>2, <1>3, <1>4, <1>5

\* What it makes of the volume and the host.
LEMMA UndoStepType ==
    ASSUME TypeOK, NEW o \in Owners, th[o].cur[1] \in Containers,
           CurVol(o) \in Volumes, CurHost(o) \in Hosts, NEW s, UndoStep(o, s)
    PROVE  /\ vol' \in [Volumes -> Volume] /\ dev' \in [Hosts -> SUBSET Volumes]
           /\ \A v \in Volumes : v # CurVol(o) => vol'[v] = vol[v]
           /\ \A h \in Hosts, v \in Volumes :
                 v # CurVol(o) => (v \in dev'[h] <=> v \in dev[h])
           /\ vol'[CurVol(o)].status = "none" => vol[CurVol(o)].status = "none"
<1> DEFINE v == CurVol(o)
<1>v. vol \in [Volumes -> Volume] /\ dev \in [Hosts -> SUBSET Volumes]
  BY DEF TypeOK
<1>1. CASE s = "disconnect" /\ dev' = [dev EXCEPT ![CurHost(o)] = @ \ {v}]
           /\ UNCHANGED vol
  BY <1>1, <1>v
<1>2. CASE vol' = [vol EXCEPT ![v].exports = @ \ {CurHost(o)}] /\ UNCHANGED dev
  BY <1>2, <1>v DEF Volume
<1>3. CASE CinderDetach(v, th[o].cur[1]) /\ UNCHANGED dev
  BY <1>3, <1>v, CinderDetachType
<1>4. CASE /\ IF vol[v].status = "attaching"
              THEN SetStatus(v, Rest(v, vol[v].attached)) ELSE UNCHANGED vol
           /\ UNCHANGED dev
  <2>1. Rest(v, vol[v].attached) \in Statuses /\ Rest(v, vol[v].attached) # "none"
    BY DEF Rest, Statuses
  <2> QED BY <1>4, <1>v, <2>1, SetStatusType
<1> QED BY <1>1, <1>2, <1>3, <1>4 DEF UndoStep

LEMMA UndoWork ==
    ASSUME TypeOK, Work, NEW o \in Owners, Undo(o)
    PROVE  TypeOK' /\ Work'
<1>p. th[o].pc = "undo"
  BY DEF Undo
<1>q. Held(o) /\ Queued(o)
  BY DEF Work
<1>c. /\ th[o].cur[1] \in Containers
      /\ CurVol(o) \in Volumes /\ CurHost(o) \in Hosts
  BY <1>p, CurType DEF Works
<1>1. /\ th' \in [Owners -> Thread]
      /\ th'[o].pc \in {"undo", "drop"}
      /\ th'[o].pc = "undo" => th'[o].undo # <<>>
      /\ th'[o].cur = th[o].cur /\ th'[o].todo = th[o].todo
      /\ th'[o].why = th[o].why
      /\ \A q \in Owners : q # o => th'[q] = th[q]
  BY UndoThread
<1>2. UNCHANGED <<mounted, maps, conn, own>>
  BY DEF Undo
<1>3. Held(o)' /\ Queued(o)'
  <2>1. th[o].pc \in Works /\ th'[o].pc \in Works /\ th'[o].pc \notin Detaching
    BY <1>p, <1>1 DEF Works, Detaching
  <2>2. th'[o].pc \notin {"unmount", "destroy"}
    BY <1>1
  <2> QED BY <1>1, <1>2, <1>q, <2>1, <2>2, SameWork
<1>4. Work'
  BY <1>1, <1>2, <1>3, WorkSame
<1>5. vol' \in [Volumes -> Volume] /\ dev' \in [Hosts -> SUBSET Volumes]
  <2>1. (\E s : UndoStep(o, s)) \/ UNCHANGED <<vol, dev>>
    BY DEF Undo
  <2> QED BY <1>c, <2>1, UndoStepType DEF TypeOK
<1>6. rolled' \subseteq Volumes
  BY <1>c DEF Undo, TypeOK
<1> QED BY <1>1, <1>2, <1>4, <1>5, <1>6 DEF TypeOK

LEMMA DropWork ==
    ASSUME TypeOK, Work, NEW o \in Owners, DropMapping(o)
    PROVE  TypeOK' /\ Work'
<1>t. th \in [Owners -> Thread] /\ th[o] \in Thread
  BY DEF TypeOK
<1>p. th[o].pc = "drop"
  BY DEF DropMapping
<1> DEFINE m == th[o].cur
<1> DEFINE s == {n \in MapsOf(o) \ {m} : n[1] = m[1]}
<1>c. /\ m \in Mounts /\ m \in MountsOf(o) /\ m[2] \in Rows
      /\ VolumeOf[m[2]] \in Volumes
  BY <1>p, CurType, MountType DEF Works
<1>1. RemoveMap(m)
  BY DEF DropMapping
<1>2. /\ maps' = maps \ {m} /\ maps' \subseteq Mounts /\ conn' \subseteq conn
      /\ Recorded'
  BY <1>1, <1>c, RemoveMapType DEF Work
<1> DEFINE b == o \in Capsules
<1>3. Becomes(o, Failing(th[o], s, TRUE, "idle", b))
  BY DEF DropMapping
<1>b. b \in BOOLEAN
  OBVIOUS
<1>4. s \in SUBSET Mounts /\ s \subseteq maps' /\ s \subseteq MountsOf(o)
  <2>1. MapsOf(o) \subseteq maps /\ MapsOf(o) \subseteq MountsOf(o)
           /\ MountsOf(o) \subseteq Mounts
    BY DEF MapsOf, MountsOf, TypeOK
  <2>2. s \subseteq MapsOf(o) \ {m}
    OBVIOUS
  <2> HIDE DEF m, s
  <2> QED BY <1>2, <2>1, <2>2
<1> HIDE DEF m, s, b
<1>5. /\ th' \in [Owners -> Thread]
      /\ th'[o].pc = "list" /\ th'[o].why = "fail" /\ th'[o].todo = s
      /\ \A q \in Owners : q # o => th'[q] = th[q]
  BY <1>b, <1>t, <1>3, <1>4, FailingType
<1>6. Held(o)' /\ Queued(o)'
  BY <1>4, <1>5, FailingWork
<1>7. \A q \in Owners : th[q].todo \subseteq Mounts
  BY DEF Work, Queued, MountsOf
<1>8. \A n \in maps : n \in maps' \/ n \in MountsOf(o)
  BY <1>2, <1>c
<1>9. Work'
  BY <1>2, <1>5, <1>6, <1>7, <1>8, WorkLocal
<1>10. vol' \in [Volumes -> Volume]
  <2>1. vol \in [Volumes -> Volume] /\ "deleting" \in Statuses
    BY DEF TypeOK, Statuses
  <2>2. UNCHANGED vol \/ SetStatus(VolumeOf[m[2]], "deleting")
    BY DEF DropMapping, m
  <2> QED BY <1>c, <2>1, <2>2, SetStatusType
<1>11. conn' \subseteq Rows
  BY <1>2 DEF TypeOK
<1> QED BY <1>2, <1>5, <1>9, <1>10, <1>11 DEF DropMapping, TypeOK

\* The steps that only change the owner's row and its thread.
LEMMA OwnerSteps ==
    ASSUME TypeOK, Work, NEW o \in Owners,
           Build(o) \/ DockerDelete(o) \/ Failed(o) \/ Finish(o)
              \/ DeletionTimeout(o)
    PROVE  /\ th' \in [Owners -> Thread] /\ own' \in [Owners -> Owner]
           /\ th'[o].pc \in {"idle", "list"} /\ Held(o)' /\ Queued(o)'
           /\ \A q \in Owners : q # o => th'[q] = th[q]
           /\ \A q \in Owners : own'[q].state = "none" => own[q].state = "none"
           /\ UNCHANGED <<vol, dev, mounted, maps, conn, rolled>>
<1>t. th \in [Owners -> Thread] /\ th[o] \in Thread
  BY DEF TypeOK
<1>w. own \in [Owners -> Owner] /\ own[o] \in Owner
  BY DEF TypeOK
<1>m. /\ MapsOf(o) \in SUBSET Mounts
      /\ MapsOf(o) \subseteq MountsOf(o) /\ MapsOf(o) \subseteq maps
  BY DEF MountsOf, MapsOf, TypeOK
<1>u. UNCHANGED <<vol, dev, mounted, maps, conn, rolled>>
  BY DEF Build, DockerDelete, Failed, Finish, DeletionTimeout
<1>n. ASSUME NEW t \in Thread, Becomes(o, t), t.pc = "list", t.why # "attach",
             t.todo = MapsOf(o)
      PROVE  /\ th' \in [Owners -> Thread] /\ th'[o].pc = "list"
             /\ Held(o)' /\ Queued(o)'
             /\ \A q \in Owners : q # o => th'[q] = th[q]
  <2>1. /\ th' \in [Owners -> Thread] /\ th'[o] = t
        /\ \A q \in Owners : q # o => th'[q] = th[q]
    BY <1>t, <1>n, BecomesType
  <2> QED BY <2>1, <1>n, <1>m, <1>u DEF Held, Queued, Works, Detaching, MountsOf
<1>f. ASSUME NEW u \in BOOLEAN, NEW k \in {"idle", "list"}, NEW b \in BOOLEAN,
             Becomes(o, Failing(th[o], MapsOf(o), u, k, b))
      PROVE  /\ th' \in [Owners -> Thread] /\ th'[o].pc = "list"
             /\ Held(o)' /\ Queued(o)'
             /\ \A q \in Owners : q # o => th'[q] = th[q]
  <2>1. /\ th' \in [Owners -> Thread]
        /\ th'[o].pc = "list" /\ th'[o].why = "fail" /\ th'[o].todo = MapsOf(o)
        /\ \A q \in Owners : q # o => th'[q] = th[q]
    BY <1>t, <1>f, <1>m, FailingType
  <2> QED BY <2>1, <1>m, <1>u, FailingWork
<1>i. ASSUME Becomes(o, Idle)
      PROVE  /\ th' \in [Owners -> Thread] /\ th'[o].pc = "idle"
             /\ Held(o)' /\ Queued(o)'
             /\ \A q \in Owners : q # o => th'[q] = th[q]
  <2>1. /\ th' \in [Owners -> Thread]
        /\ th'[o].pc = "idle" /\ th'[o].todo = {}
        /\ \A q \in Owners : q # o => th'[q] = th[q]
    BY <1>t, <1>i, IdleType
  <2> QED BY <2>1, IdleWork
<1>o. ASSUME NEW w \in Owner, own' = [own EXCEPT ![o] = w],
             w.state = "none" => own[o].state = "none"
      PROVE  /\ own' \in [Owners -> Owner]
             /\ \A q \in Owners : own'[q].state = "none" => own[q].state = "none"
  BY <1>w, <1>o
<1>1. CASE Build(o)
  <2>1. Becomes(o, Idle) \/ \E u \in BOOLEAN :
           Becomes(o, Failing(th[o], MapsOf(o), u, "idle", FALSE))
    BY <1>1 DEF Build
  <2>2. /\ own' \in [Owners -> Owner]
        /\ \A q \in Owners : own'[q].state = "none" => own[q].state = "none"
    <3>1. \/ UNCHANGED own
          \/ own' = [own EXCEPT ![o] = [own[o] EXCEPT !.state = "ready",
                                                      !.host = TRUE]]
          \/ own' = [own EXCEPT ![o] = [own[o] EXCEPT !.host = TRUE]]
      BY <1>1 DEF Build
    <3>2. LET w == [own[o] EXCEPT !.state = "ready", !.host = TRUE]
          IN  w \in Owner /\ w.state = "ready"
      BY <1>w DEF Owner
    <3>3. LET w == [own[o] EXCEPT !.host = TRUE]
          IN  w \in Owner /\ w.state = own[o].state
      BY <1>w DEF Owner
    <3> QED BY <3>1, <3>2, <3>3, <1>o, <1>w
  <2> QED BY <2>1, <2>2, <1>i, <1>f, <1>u
<1>2. CASE DockerDelete(o)
  <2>1. CASE UNCHANGED own /\ Becomes(o, [th[o] EXCEPT !.pc = "list",
                                                     !.todo = MapsOf(o)])
    <3> DEFINE t == [th[o] EXCEPT !.pc = "list", !.todo = MapsOf(o)]
    <3>1. t \in Thread
      BY <1>t, <1>m, ThreadType DEF PCs
    <3>2. t.pc = "list" /\ t.todo = MapsOf(o) /\ t.why = th[o].why
      BY <1>t DEF Thread
    <3>3. th[o].why # "attach"
      BY <1>2 DEF DockerDelete, Work, Queued
    <3>4. Becomes(o, t)
      BY <2>1
    <3> HIDE DEF t
    <3> QED BY <2>1, <3>1, <3>2, <3>3, <3>4, <1>n, <1>u, <1>w
  <2>2. CASE /\ Becomes(o, Failing(th[o], MapsOf(o), FALSE,
                     IF th[o].why = "force" THEN "list" ELSE "idle", FALSE))
             /\ own' = [own EXCEPT ![o].deleting = (th[o].why = "force")]
    <3> DEFINE k == IF th[o].why = "force" THEN "list" ELSE "idle"
    <3>1. k \in {"idle", "list"}
      OBVIOUS
    <3>2. Becomes(o, Failing(th[o], MapsOf(o), FALSE, k, FALSE))
      BY <2>2
    <3> HIDE DEF k
    <3>3. LET w == [own[o] EXCEPT !.deleting = (th[o].why = "force")]
          IN  w \in Owner /\ w.state = own[o].state
      BY <1>w DEF Owner
    <3>4. own' = [own EXCEPT ![o] = [own[o] EXCEPT
                                       !.deleting = (th[o].why = "force")]]
      BY <2>2
    <3> QED BY <3>1, <3>2, <3>3, <3>4, <1>f, <1>o, <1>u
  <2> QED BY <1>2, <2>1, <2>2 DEF DockerDelete
<1>3. CASE Failed(o)
  <2>1. \/ Becomes(o, Idle)
        \/ Becomes(o, [Idle EXCEPT !.pc = "list", !.why = "force",
                                   !.todo = MapsOf(o)])
    BY <1>3 DEF Failed
  <2> DEFINE t == [Idle EXCEPT !.pc = "list", !.why = "force",
                               !.todo = MapsOf(o)]
  <2>2. t \in Thread
    <3>1. Idle \in Thread
      BY <1>t, ThreadType
    <3> QED BY <3>1, <1>m DEF Thread, PCs
  <2>3. t.pc = "list" /\ t.why = "force" /\ t.todo = MapsOf(o)
    BY DEF Idle
  <2>4. Becomes(o, Idle) \/ Becomes(o, t)
    BY <2>1
  <2> HIDE DEF t
  <2>5. /\ own' \in [Owners -> Owner]
        /\ \A q \in Owners : own'[q].state = "none" => own[q].state = "none"
    <3> DEFINE w == [own[o] EXCEPT !.state = "error",
                                   !.host = @ /\ ~th[o].unset]
    <3>1. UNCHANGED own \/ own' = [own EXCEPT ![o] = w]
      BY <1>3 DEF Failed
    <3>2. w \in Owner /\ w.state = "error"
      BY <1>w DEF Owner
    <3> HIDE DEF w
    <3> QED BY <3>1, <3>2, <1>o, <1>w
  <2> QED BY <2>2, <2>3, <2>4, <2>5, <1>i, <1>n, <1>u
<1>4. CASE Finish(o)
  <2>1. Becomes(o, Idle)
    BY <1>4 DEF Finish
  <2> DEFINE w == [own[o] EXCEPT !.state = "gone", !.deleting = FALSE]
  <2>2. own' = [own EXCEPT ![o] = w]
    BY <1>4 DEF Finish
  <2>3. w \in Owner /\ w.state = "gone"
    BY <1>w DEF Owner
  <2> HIDE DEF w
  <2> QED BY <2>1, <2>2, <2>3, <1>i, <1>o, <1>u
<1>5. CASE DeletionTimeout(o)
  <2> DEFINE k == IF th[o].why = "fail" THEN th[o].then ELSE "idle"
  <2>1. k \in {"idle", "list"} /\ th[o].part \in BOOLEAN
    BY <1>t DEF Thread
  <2>2. Becomes(o, Failing(th[o], MapsOf(o), TRUE, k, th[o].part))
    BY <1>5 DEF DeletionTimeout
  <2> HIDE DEF k
  <2> DEFINE w == [own[o] EXCEPT !.deleting = @ /\ th[o].why = "fail"]
  <2>3. own' = [own EXCEPT ![o] = w]
    BY <1>5 DEF DeletionTimeout
  <2>4. w \in Owner /\ w.state = own[o].state
    BY <1>w DEF Owner
  <2> HIDE DEF w
  <2> QED BY <2>1, <2>2, <2>3, <2>4, <1>f, <1>o, <1>u
<1> QED BY <1>1, <1>2, <1>3, <1>4, <1>5

LEMMA OwnerWork ==
    ASSUME TypeOK, Work, NEW o \in Owners,
           Build(o) \/ DockerDelete(o) \/ Failed(o) \/ Finish(o)
              \/ DeletionTimeout(o)
    PROVE  TypeOK' /\ Work'
<1>1. /\ th' \in [Owners -> Thread] /\ own' \in [Owners -> Owner]
      /\ Held(o)' /\ Queued(o)'
      /\ \A q \in Owners : q # o => th'[q] = th[q]
      /\ UNCHANGED <<vol, dev, mounted, maps, conn, rolled>>
  BY OwnerSteps
<1>2. Work'
  BY <1>1, WorkSame
<1> QED BY <1>1, <1>2 DEF TypeOK

LEMMA DetachNextWork ==
    ASSUME TypeOK, Work, NEW o \in Owners, DetachNext(o)
    PROVE  /\ TypeOK' /\ Work'
           /\ th'[o].pc \in {"gone", "unmount", "destroy"}
           /\ \A q \in Owners : q # o => th'[q] = th[q]
<1>t. th \in [Owners -> Thread] /\ th[o] \in Thread
  BY DEF TypeOK
<1>q. /\ Held(o) /\ Queued(o) /\ th[o].pc = "list" /\ th[o].why # "attach"
      /\ th[o].todo \subseteq maps /\ th[o].todo \subseteq MountsOf(o)
  BY DEF Work, DetachNext, Queued
<1>1. /\ th' \in [Owners -> Thread]
      /\ th'[o].pc \in {"gone", "unmount", "destroy"}
      /\ \A q \in Owners : q # o => th'[q] = th[q]
      /\ Held(o)' /\ Queued(o)'
  <2>1. CASE th[o].todo = {} /\ Goto(o, "gone")
    <3>1. "gone" \in PCs
      BY DEF PCs
    <3>2. /\ th' \in [Owners -> Thread] /\ th'[o].pc = "gone"
          /\ th'[o].todo = th[o].todo
          /\ \A q \in Owners : q # o => th'[q] = th[q]
      BY <1>t, <2>1, <3>1, GotoType
    <3>3. th'[o].todo = {}
      BY <2>1, <3>2
    <3> QED BY <3>2, <3>3, IdleWork
  <2>2. CASE \E m \in th[o].todo :
            Becomes(o, [th[o] EXCEPT !.todo = @ \ {m}, !.cur = m,
                     !.last = Cardinality(MapsOn(VolumeOf[m[2]])) = 1,
                     !.pc = IF Cardinality({n \in maps : n[2] = m[2]}) = 1
                               THEN "unmount" ELSE "destroy"])
    <3>1. PICK m \in th[o].todo : \E b \in BOOLEAN, p \in {"unmount", "destroy"} :
             Becomes(o, [th[o] EXCEPT !.todo = @ \ {m}, !.cur = m,
                                      !.last = b, !.pc = p])
      BY <2>2
    <3>2. PICK b \in BOOLEAN, p \in {"unmount", "destroy"} :
             Becomes(o, [th[o] EXCEPT !.todo = @ \ {m}, !.cur = m,
                                      !.last = b, !.pc = p])
      BY <3>1
    <3> DEFINE t == [th[o] EXCEPT !.todo = @ \ {m}, !.cur = m,
                                  !.last = b, !.pc = p]
    <3>3. m \in Mounts /\ m \in maps /\ m \in MountsOf(o)
      BY <1>q DEF TypeOK
    <3>4. t \in Thread
      BY <1>t, <3>3 DEF Thread, PCs
    <3>5. t.pc = p /\ t.cur = m /\ t.todo = th[o].todo \ {m} /\ t.why = th[o].why
      BY <1>t DEF Thread
    <3>6. Becomes(o, t)
      BY <3>2
    <3> HIDE DEF t
    <3>7. /\ th' \in [Owners -> Thread] /\ th'[o] = t
          /\ \A q \in Owners : q # o => th'[q] = th[q]
      BY <1>t, <3>4, <3>6, BecomesType
    <3>8. UNCHANGED maps
      BY DEF DetachNext
    <3>9. Held(o)'
      BY <3>3, <3>5, <3>7, <3>8 DEF Held, Works, Detaching, MountsOf
    <3>10. Queued(o)'
      BY <1>q, <3>5, <3>7, <3>8 DEF Queued, Detaching, MountsOf
    <3> QED BY <3>5, <3>7, <3>9, <3>10
  <2> QED BY <2>1, <2>2 DEF DetachNext
<1>2. Work'
  BY <1>1, WorkSame DEF DetachNext
<1> QED BY <1>1, <1>2 DEF DetachNext, TypeOK

\* The steps of a detach: on, or out of it with an exception.
LEMMA DetachThread ==
    ASSUME TypeOK, Work, NEW o \in Owners,
           \/ Unmount(o) \/ BeginDetaching(o) \/ KeepConnection(o)
           \/ DisconnectVolume(o) \/ TerminateConnection(o) \/ Detach(o)
    PROVE  /\ th' \in [Owners -> Thread] /\ own' \in [Owners -> Owner]
           /\ \A q \in Owners : q # o => th'[q] = th[q]
           /\ \A q \in Owners : own'[q].state = own[q].state
           /\ th'[o].pc \in Works => th'[o].cur = th[o].cur
           /\ Held(o)' /\ Queued(o)'
           /\ th[o].pc \in Detaching
           /\ UNCHANGED <<maps, conn, rolled>>
<1>t. th \in [Owners -> Thread] /\ th[o] \in Thread
  BY DEF TypeOK
<1>w. own \in [Owners -> Owner]
  BY DEF TypeOK
<1>p. th[o].pc \in Detaching /\ th[o].pc # "destroy"
  BY DEF Unmount, BeginDetaching, KeepConnection, DisconnectVolume,
         TerminateConnection, Detach, Detaching
<1>q. Held(o) /\ Queued(o)
  BY DEF Work
<1>u. UNCHANGED <<maps, conn, rolled>>
  BY DEF Unmount, BeginDetaching, KeepConnection, DisconnectVolume,
         TerminateConnection, Detach
<1>1. CASE DetachFailed(o)
  <2>1. /\ th' \in [Owners -> Thread] /\ own' \in [Owners -> Owner]
        /\ \/ th'[o].pc \in {"gone", "idle"} /\ th'[o].todo = {}
           \/ /\ th'[o].pc \in {"drop", "destroy"}
              /\ th'[o].cur = th[o].cur /\ th'[o].todo = th[o].todo
              /\ th'[o].why = th[o].why
              /\ th'[o].pc = "destroy" => th[o].why # "attach"
        /\ \A q \in Owners : q # o => th'[q] = th[q]
        /\ \A q \in Owners : own'[q].state = own[q].state
    BY <1>1, <1>t, <1>w, DetachFailedType
  <2>2. CASE th'[o].pc \in {"gone", "idle"} /\ th'[o].todo = {}
    BY <1>p, <1>u, <2>1, <2>2, IdleWork DEF Works, Detaching
  <2>3. CASE /\ th'[o].pc \in {"drop", "destroy"}
             /\ th'[o].cur = th[o].cur /\ th'[o].todo = th[o].todo
             /\ th'[o].why = th[o].why
             /\ th'[o].pc = "destroy" => th[o].why # "attach"
    <3>1. Held(o)' /\ Queued(o)'
      BY <1>p, <1>q, <1>u, <2>3 DEF Held, Queued, Works, Detaching, MountsOf
    <3> QED BY <1>p, <1>u, <2>1, <2>3, <3>1
  <2> QED BY <2>1, <2>2, <2>3
<1>2. CASE /\ UNCHANGED own
           /\ \E p \in {"begin", "keep", "disconnect", "terminate", "detach",
                        "drop", "destroy"} :
                 Goto(o, p) /\ (p = "destroy" => th[o].why # "attach")
  <2>1. PICK p \in {"begin", "keep", "disconnect", "terminate", "detach",
                    "drop", "destroy"} :
                 Goto(o, p) /\ (p = "destroy" => th[o].why # "attach")
    BY <1>2
  <2>2. p \in PCs
    BY DEF PCs
  <2>3. /\ th' \in [Owners -> Thread]
        /\ th'[o].pc = p
        /\ th'[o].cur = th[o].cur /\ th'[o].todo = th[o].todo
        /\ th'[o].why = th[o].why
        /\ \A q \in Owners : q # o => th'[q] = th[q]
    BY <1>t, <2>1, <2>2, GotoType
  <2>4. Held(o)' /\ Queued(o)'
    BY <1>p, <1>q, <1>u, <2>1, <2>3 DEF Held, Queued, Works, Detaching, MountsOf
  <2> QED BY <1>2, <1>p, <1>u, <1>w, <2>3, <2>4
<1> QED BY <1>1, <1>2 DEF Unmount, BeginDetaching, KeepConnection,
           DisconnectVolume, TerminateConnection, Detach

LEMMA DetachWork ==
    ASSUME TypeOK, Work, NEW o \in Owners,
           \/ Unmount(o) \/ BeginDetaching(o) \/ KeepConnection(o)
           \/ DisconnectVolume(o) \/ TerminateConnection(o) \/ Detach(o)
    PROVE  TypeOK' /\ Work'
<1>1. /\ th' \in [Owners -> Thread] /\ own' \in [Owners -> Owner]
      /\ \A q \in Owners : q # o => th'[q] = th[q]
      /\ Held(o)' /\ Queued(o)'
      /\ UNCHANGED <<maps, conn, rolled>>
      /\ th[o].pc \in Detaching
  BY DetachThread
<1>c. /\ th[o].cur[1] \in Containers /\ th[o].cur[2] \in Rows
      /\ CurVol(o) \in Volumes /\ CurHost(o) \in Hosts
  BY <1>1, CurType DEF Works
<1>2. Work'
  BY <1>1, WorkSame
<1>v. vol \in [Volumes -> Volume] /\ dev \in [Hosts -> SUBSET Volumes]
  BY DEF TypeOK
<1>3. vol' \in [Volumes -> Volume]
  <2>1. \/ UNCHANGED vol
        \/ \E s \in {"detaching", "in-use"} : SetStatus(CurVol(o), s)
        \/ vol' = [vol EXCEPT ![CurVol(o)].exports = @ \ {CurHost(o)}]
        \/ CinderDetach(CurVol(o), th[o].cur[1])
    BY DEF Unmount, BeginDetaching, KeepConnection, DisconnectVolume,
           TerminateConnection, Detach
  <2>2. CASE \E s \in {"detaching", "in-use"} : SetStatus(CurVol(o), s)
    BY <1>c, <1>v, <2>2, SetStatusType DEF Statuses
  <2>3. CASE vol' = [vol EXCEPT ![CurVol(o)].exports = @ \ {CurHost(o)}]
    BY <1>c, <1>v, <2>3 DEF Volume
  <2>4. CASE CinderDetach(CurVol(o), th[o].cur[1])
    BY <1>c, <1>v, <2>4, CinderDetachType
  <2> QED BY <1>v, <2>1, <2>2, <2>3, <2>4
<1>4. dev' \in [Hosts -> SUBSET Volumes]
  <2>1. \/ UNCHANGED dev
        \/ dev' = [dev EXCEPT ![CurHost(o)] = @ \ {CurVol(o)}]
    BY DEF Unmount, BeginDetaching, KeepConnection, DisconnectVolume,
           TerminateConnection, Detach
  <2> QED BY <1>c, <1>v, <2>1
<1>5. mounted' \subseteq Rows
  BY DEF TypeOK, Unmount, BeginDetaching, KeepConnection, DisconnectVolume,
         TerminateConnection, Detach
<1> QED BY <1>1, <1>2, <1>3, <1>4, <1>5 DEF TypeOK

LEMMA DestroyWork ==
    ASSUME TypeOK, Work, NEW o \in Owners, DestroyMapping(o)
    PROVE  /\ TypeOK' /\ Work'
           /\ th'[o].pc \in {"list", "delete"}
           /\ \A q \in Owners : q # o => th'[q] = th[q]
<1>t. th \in [Owners -> Thread] /\ th[o] \in Thread
  BY DEF TypeOK
<1>p. th[o].pc = "destroy"
  BY DEF DestroyMapping
<1>q. Held(o) /\ Queued(o)
  BY DEF Work
<1>c. th[o].cur \in Mounts /\ th[o].cur \in MountsOf(o)
  BY <1>p, CurType DEF Works, Detaching
<1>1. /\ maps' = maps \ {th[o].cur} /\ maps' \subseteq Mounts
      /\ conn' \subseteq conn /\ Recorded'
  BY <1>c, RemoveMapType DEF Work, DestroyMapping
<1>2. /\ th' \in [Owners -> Thread]
      /\ th'[o].pc \in {"list", "delete"}
      /\ th'[o].todo = th[o].todo /\ th'[o].why = th[o].why
      /\ th'[o].pc = "delete" => th'[o].cur = th[o].cur
      /\ \A q \in Owners : q # o => th'[q] = th[q]
  <2> DEFINE t == IF th[o].cur[2] \in AutoRemove /\ th[o].last
                  THEN [th[o] EXCEPT !.pc = "delete"]
                  ELSE [th[o] EXCEPT !.pc = "list", !.cur = NoMap, !.last = FALSE]
  <2>1. Becomes(o, t)
    BY DEF DestroyMapping
  <2>2. t \in Thread
    BY <1>t DEF Thread, PCs
  <2>3. /\ t.pc \in {"list", "delete"}
        /\ t.todo = th[o].todo /\ t.why = th[o].why
        /\ t.pc = "delete" => t.cur = th[o].cur
    BY <1>t DEF Thread
  <2> HIDE DEF t
  <2> QED BY <1>t, <2>1, <2>2, <2>3, BecomesType
<1>3. Held(o)' /\ Queued(o)'
  BY <1>p, <1>q, <1>c, <1>1, <1>2 DEF Held, Queued, Works, Detaching, MountsOf
<1>4. \A q \in Owners : th[q].todo \subseteq Mounts
  BY DEF Work, Queued, MountsOf
<1>5. \A n \in maps : n \in maps' \/ n \in MountsOf(o)
  BY <1>1, <1>c
<1>6. Work'
  BY <1>1, <1>2, <1>3, <1>4, <1>5, WorkLocal
<1>7. conn' \subseteq Rows
  BY <1>1 DEF TypeOK
<1> QED BY <1>1, <1>2, <1>6, <1>7 DEF DestroyMapping, TypeOK

LEMMA DeleteWork ==
    ASSUME TypeOK, Work, NEW o \in Owners, DeleteVolume(o)
    PROVE  /\ TypeOK' /\ Work'
           /\ th'[o].pc \in {"gone", "idle", "list"}
           /\ \A q \in Owners : q # o => th'[q] = th[q]
           /\ \A q \in Owners : own'[q].state = own[q].state
<1>t. th \in [Owners -> Thread] /\ th[o] \in Thread
  BY DEF TypeOK
<1>w. own \in [Owners -> Owner]
  BY DEF TypeOK
<1>v. vol \in [Volumes -> Volume]
  BY DEF TypeOK
<1>p. th[o].pc = "delete"
  BY DEF DeleteVolume
<1>q. Held(o) /\ Queued(o)
  BY DEF Work
<1>c. th[o].cur[2] \in Rows /\ CurVol(o) \in Volumes
  BY <1>p, CurType
<1>1. CASE /\ Becomes(o, [th[o] EXCEPT !.pc = "list", !.cur = NoMap,
                                       !.last = FALSE,
                                       !.await = @ \cup {th[o].cur[2]}])
           /\ SetStatus(CurVol(o), "deleting") /\ UNCHANGED own
  <2> DEFINE t == [th[o] EXCEPT !.pc = "list", !.cur = NoMap, !.last = FALSE,
                                !.await = @ \cup {th[o].cur[2]}]
  <2>1. t \in Thread
    <3> DEFINE w == [th[o] EXCEPT !.pc = "list", !.cur = NoMap, !.last = FALSE]
    <3>1. w \in Thread
      BY <1>t DEF Thread, PCs
    <3>2. w.await = th[o].await
      BY <1>t DEF Thread
    <3>3. t = [w EXCEPT !.await = w.await \cup {th[o].cur[2]}]
      BY <3>2
    <3> HIDE DEF w, t
    <3> QED BY <3>1, <3>3, <1>c DEF Thread
  <2>2. t.pc = "list" /\ t.todo = th[o].todo /\ t.why = th[o].why
    BY <1>t DEF Thread
  <2>3. Becomes(o, t)
    BY <1>1
  <2> HIDE DEF t
  <2>4. /\ th' \in [Owners -> Thread] /\ th'[o] = t
        /\ \A q \in Owners : q # o => th'[q] = th[q]
    BY <1>t, <2>1, <2>3, BecomesType
  <2>5. UNCHANGED <<maps, conn, dev, mounted, rolled>>
    BY DEF DeleteVolume
  <2>6. Held(o)' /\ Queued(o)'
    BY <1>p, <1>q, <2>2, <2>4, <2>5 DEF Held, Queued, Works, Detaching, MountsOf
  <2>7. Work'
    BY <2>4, <2>5, <2>6, WorkSame
  <2>8. vol' \in [Volumes -> Volume]
    BY <1>1, <1>c, <1>v, SetStatusType DEF Statuses
  <2> QED BY <1>1, <2>2, <2>4, <2>5, <2>7, <2>8 DEF TypeOK
<1>2. CASE Raise(o) /\ UNCHANGED vol
  <2>1. /\ th' \in [Owners -> Thread] /\ own' \in [Owners -> Owner]
        /\ th'[o].pc \in {"gone", "idle"} /\ th'[o].todo = {}
        /\ \A q \in Owners : q # o => th'[q] = th[q]
        /\ \A q \in Owners : own'[q].state = own[q].state
    BY <1>2, <1>t, <1>w, RaiseType
  <2>2. Held(o)' /\ Queued(o)'
    BY <2>1, IdleWork
  <2>3. Work'
    BY <2>1, <2>2, WorkSame DEF DeleteVolume
  <2> QED BY <1>2, <2>1, <2>3 DEF DeleteVolume, TypeOK
<1> QED BY <1>1, <1>2 DEF DeleteVolume

LEMMA CinderWork ==
    ASSUME TypeOK, Work, NEW v \in Volumes, CinderCreates(v) \/ CinderDeletes(v)
    PROVE  TypeOK' /\ Work'
<1>1. \E s \in Statuses : SetStatus(v, s)
  BY DEF CinderCreates, CinderDeletes, Statuses
<1>2. vol' \in [Volumes -> Volume]
  BY <1>1, SetStatusType DEF TypeOK
<1>3. UNCHANGED <<dev, mounted, maps, conn, own, th, rolled>>
  BY DEF CinderCreates, CinderDeletes
<1>4. Work'
  BY <1>3 DEF Work, Recorded, Held, Queued, MountsOf
<1> QED BY <1>2, <1>3, <1>4 DEF TypeOK

LEMMA StepWork ==
    ASSUME TypeOK, Work, NEW o \in Owners, Step(o)
    PROVE  TypeOK' /\ Work'
<1>1. CASE WaitAvailable(o) \/ WaitTimeout(o)
  BY <1>1, WaitWork
<1>2. CASE AttachNext(o)
  BY <1>2, AttachNextWork
<1>3. CASE \/ Reserve(o) \/ InitializeConnection(o) \/ ConnectVolume(o)
           \/ CinderAttach(o)
  BY <1>3, AttachWork
<1>4. CASE MountDevice(o)
  BY <1>4, MountWork
<1>5. CASE Undo(o)
  BY <1>5, UndoWork
<1>6. CASE DropMapping(o)
  BY <1>6, DropWork
<1>7. CASE \/ Build(o) \/ DockerDelete(o) \/ Failed(o) \/ Finish(o)
           \/ DeletionTimeout(o)
  BY <1>7, OwnerWork
<1>8. CASE DetachNext(o)
  BY <1>8, DetachNextWork
<1>9. CASE \/ Unmount(o) \/ BeginDetaching(o) \/ KeepConnection(o)
           \/ DisconnectVolume(o) \/ TerminateConnection(o) \/ Detach(o)
  BY <1>9, DetachWork
<1>10. CASE DestroyMapping(o)
  BY <1>10, DestroyWork
<1>11. CASE DeleteVolume(o)
  BY <1>11, DeleteWork
<1> QED BY <1>1, <1>2, <1>3, <1>4, <1>5, <1>6, <1>7, <1>8, <1>9, <1>10, <1>11
        DEF Step

LEMMA WorkInit == Init => TypeOK /\ Work
<1> SUFFICES ASSUME Init PROVE TypeOK /\ Work
  OBVIOUS
<1>1. th \in [Owners -> Thread]
  <2>1. Idle \in Thread
    <3>1. <<>> \in Seq(UndoSteps)
      OBVIOUS
    <3> QED BY <3>1 DEF Thread, Idle, PCs, NoMap
  <2> QED BY <2>1 DEF Init
<1>2. vol \in [Volumes -> Volume]
  BY DEF Init, Volume, Statuses
<1>3. own \in [Owners -> Owner]
  BY DEF Init, Owner
<1>4. TypeOK
  BY <1>1, <1>2, <1>3 DEF Init, TypeOK
<1>5. \A o \in Owners : th[o].pc = "idle" /\ th[o].todo = {}
  BY DEF Init, Idle
<1>6. Work
  BY <1>5 DEF Init, Work, Recorded, Held, Queued, Works, Detaching
<1> QED BY <1>4, <1>6

LEMMA WorkStep == TypeOK /\ Work /\ [Next]_vars => TypeOK' /\ Work'
<1> SUFFICES ASSUME TypeOK, Work, [Next]_vars PROVE TypeOK' /\ Work'
  OBVIOUS
<1>1. CASE UNCHANGED vars
  BY <1>1 DEF vars, TypeOK, Work, Recorded, Held, Queued, MountsOf
<1>2. ASSUME NEW o \in Owners, API(o) PROVE TypeOK' /\ Work'
  BY <1>2, RequestType, ApiWork
<1>3. ASSUME NEW o \in Owners, Step(o) PROVE TypeOK' /\ Work'
  BY <1>3, StepWork
<1>4. ASSUME NEW v \in Volumes, CinderCreates(v) \/ CinderDeletes(v)
      PROVE  TypeOK' /\ Work'
  BY <1>4, CinderWork
<1> QED BY <1>1, <1>2, <1>3, <1>4 DEF Next

\* Every variable of Volumes keeps its type, for any owners, mounts, volumes,
\* hosts and faults; a thread works only on mappings of its owner that are in
\* the database, whatever other owners' threads do (_attach_volumes,
\* _detach_volumes, CinderWorkflow).
THEOREM VolumesTyped == Spec => [](TypeOK /\ Work)
<1>1. Init => TypeOK /\ Work
  BY WorkInit
<1>2. TypeOK /\ Work /\ [Next]_vars => TypeOK' /\ Work'
  BY WorkStep
<1> QED BY <1>1, <1>2, PTL DEF Spec

-----------------------------------------------------------------------------
(* Steps of one owner, seen from the others                                 *)

Mine(o) ==
    /\ Untouched(o) /\ Existing(o) /\ Unmounted(o)
    /\ Reserved(o) /\ Reached(o) /\ Lasts(o)

\* A step of o beside the others: their threads, mappings and rows stay, no
\* volume disappears, and none appears that is theirs to create.
Beside(o) ==
    /\ \A p \in Owners : p # o => th'[p] = th[p]
    /\ \A m \in Mounts : m \notin MountsOf(o) =>
          /\ m \in maps' <=> m \in maps
          /\ m[2] \in mounted' <=> m[2] \in mounted
          /\ m[2] \in conn' <=> m[2] \in conn
    /\ rolled \subseteq rolled'
    /\ \A v \in Volumes : vol[v].status # "none" => vol'[v].status # "none"
    /\ \A p \in Owners : p # o /\ own'[p].state = "none" =>
          /\ own[p].state = "none"
          /\ \A v \in AutoVols(p) : vol'[v].status = vol[v].status

\* The mappings of two owners, and their rows, are different.
LEMMA Apart ==
    ASSUME NEW o \in Owners, NEW p \in Owners, p # o,
           NEW m \in MountsOf(p)
    PROVE  m \in Mounts /\ m \notin MountsOf(o)
BY DEF MountsOf

LEMMA OtherOwner ==
    ASSUME IInv, TypeOK', NEW o \in Owners, NEW p \in Owners, p # o, Beside(o)
    PROVE  Untouched(p)' /\ Existing(p)' /\ Unmounted(p)'
<1>1. Untouched(p) /\ Existing(p) /\ Unmounted(p) /\ th'[p] = th[p] /\ Held(p)
  BY DEF IInv, Inv, Work, Beside
<1>2. \A m \in MountsOf(p) :
         /\ m \in Mounts /\ VolumeOf[m[2]] \in Volumes
         /\ m \in maps' <=> m \in maps
         /\ m[2] \in mounted' <=> m[2] \in mounted
         /\ m[2] \in conn' <=> m[2] \in conn
  BY Apart, MountType DEF Beside
<1>3. Untouched(p)'
  <2> SUFFICES ASSUME own'[p].state = "none"
               PROVE  /\ th'[p].pc = "idle"
                      /\ \A m \in MountsOf(p) : m \notin maps' /\ m[2] \notin mounted'
                      /\ \A v \in AutoVols(p) : vol'[v].status = "none"
    BY DEF Untouched, MountsOf, AutoVols
  <2>1. own[p].state = "none" /\ \A v \in AutoVols(p) : vol'[v].status = vol[v].status
    BY DEF Beside
  <2> QED BY <1>1, <1>2, <2>1 DEF Untouched
<1>4. Existing(p)'
  <2> SUFFICES ASSUME NEW m \in MountsOf(p), th'[p].pc \in Attaching \/ m \in maps'
               PROVE  vol'[VolumeOf[m[2]]].status # "none"
    BY DEF Existing, MountsOf
  <2>1. vol[VolumeOf[m[2]]].status # "none"
    BY <1>1, <1>2 DEF Existing
  <2> QED BY <1>2, <2>1 DEF Beside
<1>5. Unmounted(p)'
  <2>1. th[p].pc \in {"reserve", "init", "connect", "attach", "mount", "undo",
                      "begin"} \cup Leaving
           => th[p].cur \in MountsOf(p)
    BY <1>1 DEF Held, Works, Detaching, Leaving
  <2> HIDE DEF Leaving
  <2>2. \A m : m \in MountsOf(p)' <=> m \in MountsOf(p)
    BY DEF MountsOf
  <2> QED BY <1>1, <1>2, <2>1, <2>2 DEF Unmounted
<1> QED BY <1>3, <1>4, <1>5

LEMMA OtherPair ==
    ASSUME IInv, NEW o \in Owners, NEW p \in Owners, NEW q \in Owners,
           p # o, q # o, Beside(o)
    PROVE  Alone(p, q)' /\ Cut(p, q)'
<1>1. Alone(p, q) /\ Cut(p, q) /\ th'[p] = th[p] /\ th'[q] = th[q]
  BY DEF IInv, Inv, Beside
<1>2. CurVol(p)' = CurVol(p) /\ CurVol(q)' = CurVol(q)
  BY <1>1 DEF CurVol
<1>3. Keeps(p)' => Keeps(p)
  BY <1>1, <1>2 DEF Keeps, Beside
<1>4. Alone(p, q)'
  BY <1>1, <1>2, <1>3 DEF Alone
<1>5. \A m \in MountsOf(q) : m \in maps' <=> m \in maps
  BY Apart DEF Beside
<1>6. \A m : m \in MountsOf(q)' <=> m \in MountsOf(q)
  BY DEF MountsOf
<1>7. Cut(p, q)'
  BY <1>1, <1>2, <1>3, <1>5, <1>6 DEF Cut
<1> QED BY <1>4, <1>7

\* What has to be shown of a step of o.
LEMMA LocalStep ==
    ASSUME IInv, TypeOK', NEW o \in Owners, Beside(o), Mine(o)', Cut(o, o)',
           \A p \in Owners : p # o =>
              /\ Reserved(p)' /\ Reached(p)' /\ Lasts(p)'
              /\ Alone(o, p)' /\ Alone(p, o)' /\ Cut(o, p)' /\ Cut(p, o)'
    PROVE  Inv'
<1> SUFFICES ASSUME NEW p \in Owners
             PROVE  /\ Mine(p)'
                    /\ \A q \in Owners : Alone(p, q)' /\ Cut(p, q)'
  BY DEF Inv, Mine
<1>1. Mine(p)'
  BY OtherOwner DEF Mine
<1>2. ASSUME NEW q \in Owners PROVE Alone(p, q)' /\ Cut(p, q)'
  <2>1. CASE p = o /\ q = o
    BY <2>1 DEF Alone
  <2>2. CASE p = o /\ q # o
    BY <2>2
  <2>3. CASE p # o /\ q = o
    BY <2>3
  <2>4. CASE p # o /\ q # o
    BY <2>4, OtherPair
  <2> QED BY <2>1, <2>2, <2>3, <2>4
<1> QED BY <1>1, <1>2

\* Connections are not taken away.
Grows ==
    /\ \A v \in Volumes : vol[v].exports \subseteq vol'[v].exports
    /\ \A h \in Hosts : dev[h] \subseteq dev'[h]

LEMMA OtherReached ==
    ASSUME IInv, NEW o \in Owners, NEW p \in Owners, p # o, Beside(o), Grows
    PROVE  Reached(p)' /\ Lasts(p)'
<1>1. Reached(p) /\ Lasts(p) /\ th'[p] = th[p] /\ Held(p)
  BY DEF IInv, Inv, Work, Beside
<1>2. HostOf[p] \in Hosts
  BY VolumesAssumption
<1>3. \A v \in Volumes : Connected(v, HostOf[p]) => Connected(v, HostOf[p])'
  BY <1>2 DEF Grows, Connected
<1>4. Reached(p)'
  <2>1. CurVol(p)' = CurVol(p)
    BY <1>1 DEF CurVol
  <2>2. th[p].pc \in {"connect", "attach", "mount"} => CurVol(p) \in Volumes
    BY CurType DEF IInv, Works
  <2>3. \A v : v \notin rolled' => v \notin rolled
    BY DEF Beside
  <2> QED BY <1>1, <1>3, <2>1, <2>2, <2>3 DEF Reached, Grows
<1>5. Lasts(p)'
  <2> SUFFICES ASSUME NEW m \in maps', m \in MountsOf(p), m[2] \in mounted',
                      VolumeOf[m[2]] \notin rolled'
               PROVE  Connected(VolumeOf[m[2]], HostOf[p])'
    BY DEF Lasts, MountsOf
  <2>1. m \in Mounts /\ m \in maps /\ m[2] \in mounted /\ VolumeOf[m[2]] \notin rolled
    BY Apart DEF Beside
  <2>2. VolumeOf[m[2]] \in Volumes
    BY <2>1, MountType
  <2> QED BY <1>1, <1>3, <2>1, <2>2 DEF Lasts
<1> QED BY <1>4, <1>5

\* Cinder keeps the volumes that others detach for them.
LEMMA OtherReserved ==
    ASSUME IInv, NEW o \in Owners, NEW p \in Owners, p # o, Beside(o),
           Keeps(p) => vol'[CurVol(p)].status = vol[CurVol(p)].status
    PROVE  Reserved(p)'
<1>1. Reserved(p) /\ th'[p] = th[p]
  BY DEF IInv, Inv, Beside
<1>2. CurVol(p)' = CurVol(p)
  BY <1>1 DEF CurVol
<1>3. Keeps(p)' => Keeps(p)
  BY <1>1, <1>2 DEF Keeps, Beside
<1> QED BY <1>1, <1>2, <1>3 DEF Reserved

Busy == Attaching \cup {"undo", "begin"} \cup Leaving

\* A row is of one owner.
LEMMA RowApart ==
    ASSUME NEW o \in Owners, NEW m \in MountsOf(o), NEW n \in Mounts,
           n \notin MountsOf(o)
    PROVE  n[2] # m[2]
BY VolumesAssumption DEF MountsOf

\* A step that leaves o neither attaching nor detaching.
LEMMA QuietStep ==
    ASSUME IInv, TypeOK', NEW o \in Owners, Beside(o), Grows,
           th'[o].pc \notin Busy, th[o].pc \notin {"reserve", "undo"},
           own'[o].state # "none",
           \A m \in MountsOf(o) : /\ m \in maps' => m \in maps
                                  /\ m[2] \in mounted' => m[2] \in mounted,
           \A p \in Owners : p # o /\ Keeps(p) =>
              vol'[CurVol(p)].status = vol[CurVol(p)].status
    PROVE  Inv'
<1>b. /\ th'[o].pc \notin Attaching /\ th'[o].pc \notin Leaving
      /\ th'[o].pc \notin {"undo", "begin", "reserve", "init", "connect",
                           "attach", "mount"}
  BY DEF Busy, Attaching
<1>m. \A m : m \in MountsOf(o)' <=> m \in MountsOf(o)
  BY DEF MountsOf
<1>i. Existing(o) /\ Lasts(o) /\ \A p \in Owners : Cut(p, o)
  BY DEF IInv, Inv
<1>1. Mine(o)'
  <2>1. Untouched(o)'
    BY DEF Untouched
  <2>2. Existing(o)'
    <3> SUFFICES ASSUME NEW m \in MountsOf(o), m \in maps'
                 PROVE  vol'[VolumeOf[m[2]]].status # "none"
      BY <1>b, <1>m DEF Existing
    <3>1. m \in Mounts /\ VolumeOf[m[2]] \in Volumes
      BY MountType DEF MountsOf
    <3>2. vol[VolumeOf[m[2]]].status # "none"
      BY <1>i DEF Existing
    <3> QED BY <3>1, <3>2 DEF Beside
  <2>3. Unmounted(o)' /\ Reserved(o)' /\ Reached(o)'
    BY <1>b DEF Unmounted, Reserved, Keeps, Reached
  <2>4. Lasts(o)'
    <3> SUFFICES ASSUME NEW m \in maps', m \in MountsOf(o), m[2] \in mounted',
                        VolumeOf[m[2]] \notin rolled'
                 PROVE  Connected(VolumeOf[m[2]], HostOf[o])'
      BY DEF Lasts, MountsOf
    <3>1. m \in maps /\ m[2] \in mounted /\ VolumeOf[m[2]] \notin rolled
      BY DEF Beside
    <3>2. Connected(VolumeOf[m[2]], HostOf[o])
      BY <1>i, <3>1 DEF Lasts
    <3>3. VolumeOf[m[2]] \in Volumes /\ HostOf[o] \in Hosts
      BY MountType, VolumesAssumption DEF MountsOf
    <3> QED BY <3>2, <3>3 DEF Connected, Grows
  <2> QED BY <2>1, <2>2, <2>3, <2>4 DEF Mine
<1>2. ASSUME NEW p \in Owners, p # o
      PROVE  /\ Reserved(p)' /\ Reached(p)' /\ Lasts(p)'
             /\ Alone(o, p)' /\ Alone(p, o)' /\ Cut(o, p)' /\ Cut(p, o)'
  <2>1. Reserved(p)'
    BY <1>2, OtherReserved
  <2>2. Reached(p)' /\ Lasts(p)'
    BY <1>2, OtherReached
  <2>3. Alone(o, p)' /\ Alone(p, o)' /\ Cut(o, p)'
    BY <1>b DEF Alone, Cut, Keeps
  <2>4. Cut(p, o)'
    <3>1. th'[p] = th[p] /\ (Keeps(p)' => Keeps(p)) /\ CurVol(p)' = CurVol(p)
      BY <1>2 DEF Beside, Keeps, CurVol
    <3>2. Cut(p, o)
      BY <1>i
    <3> QED BY <1>m, <3>1, <3>2 DEF Cut
  <2> QED BY <2>1, <2>2, <2>3, <2>4
<1>3. Cut(o, o)'
  BY <1>b DEF Cut, Keeps
<1> QED BY <1>1, <1>2, <1>3, LocalStep

\* An owner with a thread has made its request.
LEMMA Requested ==
    ASSUME IInv, NEW o \in Owners, th[o].pc # "idle"
    PROVE  own[o].state # "none"
BY DEF IInv, Inv, Untouched

LEMMA OwnerInv ==
    ASSUME IInv, NEW o \in Owners,
           Build(o) \/ DockerDelete(o) \/ Failed(o) \/ Finish(o)
              \/ DeletionTimeout(o)
    PROVE  Inv'
<1>1. /\ th'[o].pc \in {"idle", "list"}
      /\ \A q \in Owners : q # o => th'[q] = th[q]
      /\ \A q \in Owners : own'[q].state = "none" => own[q].state = "none"
      /\ UNCHANGED <<vol, dev, mounted, maps, conn, rolled>>
  BY OwnerSteps DEF IInv
<1>2. th[o].pc \in {"build", "docker", "gone"}
  BY DEF Build, DockerDelete, Failed, Finish, DeletionTimeout
<1>3. TypeOK'
  BY OwnerWork DEF IInv
<1>4. own'[o].state # "none"
  BY <1>1, <1>2, Requested
<1>5. Beside(o) /\ Grows
  BY <1>1 DEF Beside, Grows
<1>6. th'[o].pc \notin Busy /\ th[o].pc \notin {"reserve", "undo"}
  BY <1>1, <1>2 DEF Busy, Attaching, Leaving
<1> QED BY <1>1, <1>3, <1>4, <1>5, <1>6, QuietStep

LEMMA DetachNextInv ==
    ASSUME IInv, NEW o \in Owners, DetachNext(o)
    PROVE  Inv'
<1>1. /\ TypeOK' /\ th'[o].pc \in {"gone", "unmount", "destroy"}
      /\ \A q \in Owners : q # o => th'[q] = th[q]
  BY DetachNextWork DEF IInv
<1>2. UNCHANGED <<vol, dev, mounted, maps, conn, own, rolled>> /\ th[o].pc = "list"
  BY DEF DetachNext
<1>4. own'[o].state # "none"
  BY <1>2, Requested
<1>5. Beside(o) /\ Grows
  BY <1>1, <1>2 DEF Beside, Grows
<1>6. th'[o].pc \notin Busy /\ th[o].pc \notin {"reserve", "undo"}
  BY <1>1, <1>2 DEF Busy, Attaching, Leaving
<1> QED BY <1>1, <1>2, <1>4, <1>5, <1>6, QuietStep

\* Deletable volumes are held for nobody.
LEMMA DeletableFree ==
    ASSUME IInv, NEW p \in Owners, Keeps(p)
    PROVE  ~Deletable(CurVol(p)) /\ ~IsAvailable(CurVol(p))
              /\ CurVol(p) \in Volumes /\ vol[CurVol(p)].status = "detaching"
<1>1. vol[CurVol(p)].status = "detaching"
  BY DEF IInv, Inv, Reserved
<1>2. CurVol(p) \in Volumes
  BY CurType DEF IInv, Keeps, Leaving, Works, Detaching
<1> QED BY <1>1, <1>2 DEF Deletable, IsAvailable

LEMMA DeleteInv ==
    ASSUME IInv, NEW o \in Owners, DeleteVolume(o)
    PROVE  Inv'
<1>1. /\ TypeOK' /\ th'[o].pc \in {"gone", "idle", "list"}
      /\ \A q \in Owners : q # o => th'[q] = th[q]
      /\ \A q \in Owners : own'[q].state = own[q].state
  BY DeleteWork DEF IInv
<1>2. UNCHANGED <<dev, mounted, maps, conn, rolled>> /\ th[o].pc = "delete"
  BY DEF DeleteVolume
<1>v. vol \in [Volumes -> Volume] /\ CurVol(o) \in Volumes
  BY <1>2, CurType DEF IInv, TypeOK
<1>3. UNCHANGED vol \/ (Deletable(CurVol(o)) /\ SetStatus(CurVol(o), "deleting"))
  BY DEF DeleteVolume
<1>4. /\ \A v \in Volumes : vol'[v].exports = vol[v].exports
      /\ \A v \in Volumes : vol'[v] = vol[v] \/
            (Deletable(v) /\ vol'[v].status = "deleting")
  BY <1>3, <1>v, SetStatusType DEF Statuses
<1>5. own'[o].state # "none"
  BY <1>1, <1>2, Requested
<1>6. \A v \in Volumes : /\ vol[v].status # "none" => vol'[v].status # "none"
                         /\ vol[v].status = "none" => vol'[v].status = vol[v].status
  BY <1>4 DEF Deletable
<1>7. \A p \in Owners : Untouched(p) /\ AutoVols(p) \subseteq Volumes
  BY MountType DEF IInv, Inv, AutoVols, MountsOf
<1>8. Beside(o)
  BY <1>1, <1>2, <1>6, <1>7 DEF Beside, Untouched
<1>9. Grows
  BY <1>2, <1>4 DEF Grows
<1>10. th'[o].pc \notin Busy /\ th[o].pc \notin {"reserve", "undo"}
  BY <1>1, <1>2 DEF Busy, Attaching, Leaving
<1>11. \A p \in Owners : p # o /\ Keeps(p) =>
              vol'[CurVol(p)].status = vol[CurVol(p)].status
  BY <1>4, DeletableFree
<1> QED BY <1>1, <1>2, <1>5, <1>8, <1>9, <1>10, <1>11, QuietStep

\* The usual reason for a step to be beside the others.
LEMMA BesideStep ==
    ASSUME IInv, NEW o \in Owners,
           \A q \in Owners : q # o => th'[q] = th[q],
           \A m \in Mounts : m \notin MountsOf(o) =>
              /\ m \in maps' <=> m \in maps
              /\ m[2] \in mounted' <=> m[2] \in mounted
              /\ m[2] \in conn' <=> m[2] \in conn,
           rolled \subseteq rolled',
           \A v \in Volumes : vol[v].status = "none" <=> vol'[v].status = "none",
           \A q \in Owners : own'[q].state = "none" => own[q].state = "none"
    PROVE  Beside(o)
<1>1. \A p \in Owners : Untouched(p) /\ AutoVols(p) \subseteq Volumes
  BY MountType DEF IInv, Inv, AutoVols, MountsOf
<1> QED BY <1>1 DEF Beside, Untouched

LEMMA WaitTimeoutInv ==
    ASSUME IInv, NEW o \in Owners, WaitTimeout(o)
    PROVE  Inv'
<1>t. th \in [Owners -> Thread] /\ vol \in [Volumes -> Volume]
  BY DEF IInv, TypeOK
<1>1. TypeOK'
  BY WaitWork DEF IInv
<1>2. /\ UNCHANGED <<dev, mounted, maps, conn, own, rolled>> /\ th[o].pc = "wait"
      /\ Becomes(o, Failing(th[o], MapsOf(o), TRUE, "idle", FALSE))
  BY DEF WaitTimeout
<1>3. th'[o].pc = "list" /\ \A q \in Owners : q # o => th'[q] = th[q]
  <2>1. MapsOf(o) \in SUBSET Mounts
    BY DEF MapsOf, IInv, TypeOK
  <2> QED BY <1>t, <1>2, <2>1, FailingType
<1>4. \A v \in Volumes : /\ vol'[v].exports = vol[v].exports
                         /\ vol'[v] = vol[v] \/
                              (Deletable(v) /\ vol'[v].status = "deleting")
  BY <1>t DEF WaitTimeout, Volume
<1>5. own'[o].state # "none"
  BY <1>2, Requested
<1>6. \A v \in Volumes : vol[v].status = "none" <=> vol'[v].status = "none"
  BY <1>4 DEF Deletable
<1>7. Beside(o)
  BY <1>2, <1>3, <1>6, BesideStep
<1>8. Grows
  BY <1>2, <1>4 DEF Grows
<1>9. th'[o].pc \notin Busy /\ th[o].pc \notin {"reserve", "undo"}
  BY <1>2, <1>3 DEF Busy, Attaching, Leaving
<1>10. \A p \in Owners : p # o /\ Keeps(p) =>
              vol'[CurVol(p)].status = vol[CurVol(p)].status
  BY <1>4, DeletableFree
<1> QED BY <1>1, <1>2, <1>5, <1>7, <1>8, <1>9, <1>10, QuietStep

\* A mapping of o goes, and its row with the last one.
LEMMA RemoveMapBeside ==
    ASSUME IInv, NEW o \in Owners, NEW m \in MountsOf(o), RemoveMap(m)
    PROVE  \A n \in Mounts : n \notin MountsOf(o) =>
              /\ n \in maps' <=> n \in maps
              /\ n[2] \in conn' <=> n[2] \in conn
<1>1. m \in Mounts
  BY DEF MountsOf
<1>2. /\ maps' = maps \ {m} /\ conn' \subseteq conn
      /\ \A r \in conn : r # m[2] => r \in conn'
  BY <1>1, RemoveMapType DEF IInv, Work
<1> QED BY <1>2, RowApart

LEMMA DropInv ==
    ASSUME IInv, NEW o \in Owners, DropMapping(o)
    PROVE  Inv'
<1>1. TypeOK'
  BY DropWork DEF IInv
<1>2. /\ UNCHANGED <<dev, mounted, own, rolled>> /\ th[o].pc = "drop"
      /\ RemoveMap(th[o].cur)
  BY DEF DropMapping
<1>c. th[o].cur \in MountsOf(o) /\ CurVol(o) \in Volumes
  BY <1>2, CurType DEF IInv, Works
<1>t. th \in [Owners -> Thread] /\ vol \in [Volumes -> Volume]
  BY DEF IInv, TypeOK
<1>3. th'[o].pc = "list" /\ \A q \in Owners : q # o => th'[q] = th[q]
  <2> DEFINE s == {n \in MapsOf(o) \ {th[o].cur} : n[1] = th[o].cur[1]}
  <2> DEFINE b == o \in Capsules
  <2>1. s \in SUBSET Mounts
    BY DEF MapsOf, IInv, TypeOK
  <2>2. Becomes(o, Failing(th[o], s, TRUE, "idle", b))
    BY DEF DropMapping
  <2>3. b \in BOOLEAN
    OBVIOUS
  <2> HIDE DEF s, b
  <2> QED BY <1>t, <2>1, <2>2, <2>3, FailingType
<1>4. \A v \in Volumes : /\ vol'[v].exports = vol[v].exports
                         /\ vol'[v] = vol[v] \/
                              (Deletable(v) /\ vol'[v].status = "deleting")
  <2>1. UNCHANGED vol \/ (Deletable(CurVol(o)) /\ SetStatus(CurVol(o), "deleting"))
    BY DEF DropMapping, CurVol
  <2> QED BY <1>c, <1>t, <2>1, SetStatusType DEF Statuses
<1>5. own'[o].state # "none"
  BY <1>2, Requested
<1>6. \A v \in Volumes : vol[v].status = "none" <=> vol'[v].status = "none"
  BY <1>4 DEF Deletable
<1>7. Beside(o)
  <2>1. \A n \in Mounts : n \notin MountsOf(o) =>
              /\ n \in maps' <=> n \in maps
              /\ n[2] \in conn' <=> n[2] \in conn
    BY <1>2, <1>c, RemoveMapBeside
  <2> QED BY <1>2, <1>3, <1>6, <2>1, BesideStep
<1>8. Grows
  BY <1>2, <1>4 DEF Grows
<1>9. th'[o].pc \notin Busy /\ th[o].pc \notin {"reserve", "undo"}
  BY <1>2, <1>3 DEF Busy, Attaching, Leaving
<1>10. \A p \in Owners : p # o /\ Keeps(p) =>
              vol'[CurVol(p)].status = vol[CurVol(p)].status
  BY <1>4, DeletableFree
<1>11. \A m \in MountsOf(o) : /\ m \in maps' => m \in maps
                              /\ m[2] \in mounted' => m[2] \in mounted
  BY <1>2 DEF RemoveMap
<1> QED BY <1>1, <1>5, <1>7, <1>8, <1>9, <1>10, <1>11, QuietStep

LEMMA DestroyInv ==
    ASSUME IInv, NEW o \in Owners, DestroyMapping(o)
    PROVE  Inv'
<1>1. /\ TypeOK' /\ th'[o].pc \in {"list", "delete"}
      /\ \A q \in Owners : q # o => th'[q] = th[q]
  BY DestroyWork DEF IInv
<1>2. /\ UNCHANGED <<vol, dev, mounted, own, rolled>> /\ th[o].pc = "destroy"
      /\ RemoveMap(th[o].cur)
  BY DEF DestroyMapping
<1>c. th[o].cur \in MountsOf(o)
  BY <1>2, CurType DEF IInv, Works, Detaching
<1>5. own'[o].state # "none"
  BY <1>2, Requested
<1>7. Beside(o)
  <2>1. \A n \in Mounts : n \notin MountsOf(o) =>
              /\ n \in maps' <=> n \in maps
              /\ n[2] \in conn' <=> n[2] \in conn
    BY <1>2, <1>c, RemoveMapBeside
  <2> QED BY <1>1, <1>2, <2>1, BesideStep
<1>8. Grows
  BY <1>2 DEF Grows
<1>9. th'[o].pc \notin Busy /\ th[o].pc \notin {"reserve", "undo"}
  BY <1>1, <1>2 DEF Busy, Attaching, Leaving
<1>11. \A m \in MountsOf(o) : /\ m \in maps' => m \in maps
                              /\ m[2] \in mounted' => m[2] \in mounted
  BY <1>2 DEF RemoveMap
<1> QED BY <1>1, <1>2, <1>5, <1>7, <1>8, <1>9, <1>11, QuietStep

\* A volume that o detaches is nobody else's to detach.
LEMMA OnlyOne ==
    ASSUME IInv, NEW o \in Owners, NEW p \in Owners, p # o,
           th[o].pc \in Leaving, Keeps(p)
    PROVE  CurVol(p) # CurVol(o)
BY DEF IInv, Inv, Alone

\* A detach that ends, well or with an exception, or fails to begin.
LEMMA DetachEndsInv ==
    ASSUME IInv, TypeOK', NEW o \in Owners,
           UNCHANGED <<maps, conn, rolled, dev>>,
           mounted' \subseteq mounted, \A m \in Mounts : m \notin MountsOf(o) =>
              (m[2] \in mounted' <=> m[2] \in mounted),
           \A q \in Owners : q # o => th'[q] = th[q],
           \A q \in Owners : own'[q].state = own[q].state,
           th[o].pc \in Detaching, th'[o].pc \notin Busy,
           \A v \in Volumes : /\ vol'[v].exports = vol[v].exports
                              /\ vol'[v] = vol[v] \/
                                   (/\ v = CurVol(o) /\ th[o].pc \in Leaving
                                    /\ vol'[v].status # "none")
    PROVE  Inv'
<1>1. th[o].cur \in maps /\ th[o].cur \in MountsOf(o)
  BY DEF IInv, Work, Held, Works
<1>2. vol[CurVol(o)].status # "none"
  BY <1>1 DEF IInv, Inv, Existing, CurVol
<1>3. \A v \in Volumes : vol[v].status = "none" <=> vol'[v].status = "none"
  BY <1>2
<1>4. Beside(o)
  BY <1>3, BesideStep
<1>5. Grows
  BY DEF Grows
<1>6. own'[o].state # "none"
  BY Requested DEF Detaching
<1>7. th[o].pc \notin {"reserve", "undo"}
  BY DEF Detaching
<1>8. ASSUME NEW p \in Owners, p # o, Keeps(p)
      PROVE  vol'[CurVol(p)].status = vol[CurVol(p)].status
  <2>1. CurVol(p) \in Volumes
    BY <1>8, DeletableFree
  <2>2. CASE vol'[CurVol(p)] = vol[CurVol(p)]
    BY <2>2
  <2>3. CASE CurVol(p) = CurVol(o) /\ th[o].pc \in Leaving
    BY <1>8, <2>3, OnlyOne
  <2> QED BY <2>1, <2>2, <2>3
<1> QED BY <1>4, <1>5, <1>6, <1>7, <1>8, QuietStep

\* Where a failed detach leaves its thread, it holds nothing.
LEMMA FailedOut ==
    ASSUME IInv, NEW o \in Owners, DetachFailed(o)
    PROVE  th'[o].pc \notin Busy
<1>1. th'[o].pc \in {"gone", "idle", "drop", "destroy"}
  BY DetachFailedType DEF IInv, TypeOK
<1> QED BY <1>1 DEF Busy, Attaching, Leaving

\* A detach that goes on.
LEMMA DetachOn ==
    ASSUME IInv, TypeOK', NEW o \in Owners, th[o].pc \in Detaching, Beside(o),
           UNCHANGED <<maps, conn, rolled>>, th'[o].cur = th[o].cur,
           th'[o].pc \in {"begin"} \cup Leaving, th[o].cur[2] \notin mounted',
           own'[o].state = own[o].state, Reserved(o)', Lasts(o)',
           \A p \in Owners : p # o => Reached(p)' /\ Lasts(p)',
           \A p \in Owners : p # o /\ Keeps(p) =>
              vol'[CurVol(p)].status = vol[CurVol(p)].status,
           \A p \in Owners : p # o => Alone(o, p)' /\ Alone(p, o)',
           \A p \in Owners : Cut(o, p)'
    PROVE  Inv'
<1>p. /\ th'[o].pc \notin Attaching
      /\ th'[o].pc \notin {"connect", "attach", "mount", "reserve", "init"}
      /\ th[o].pc \notin {"reserve", "undo"}
  BY DEF Attaching, Leaving, Detaching
<1>m. \A m : m \in MountsOf(o)' <=> m \in MountsOf(o)
  BY DEF MountsOf
<1>1. Untouched(o)'
  <2>1. own'[o].state # "none"
    BY Requested DEF Detaching
  <2> QED BY <2>1 DEF Untouched
<1>2. Existing(o)'
  <2> SUFFICES ASSUME NEW m \in MountsOf(o), m \in maps
               PROVE  vol'[VolumeOf[m[2]]].status # "none"
    BY <1>m, <1>p DEF Existing
  <2>1. m \in Mounts /\ VolumeOf[m[2]] \in Volumes
    BY MountType DEF MountsOf
  <2>2. vol[VolumeOf[m[2]]].status # "none"
    BY DEF IInv, Inv, Existing
  <2> QED BY <2>1, <2>2 DEF Beside
<1>3. Unmounted(o)'
  BY <1>p DEF Unmounted
<1>4. Mine(o)'
  BY <1>1, <1>2, <1>3, <1>p DEF Mine, Reached
<1>5. ASSUME NEW p \in Owners, p # o
      PROVE  Reserved(p)' /\ Cut(p, o)'
  <2>1. Reserved(p)'
    BY <1>5, OtherReserved
  <2>2. th'[p] = th[p] /\ (Keeps(p)' => Keeps(p)) /\ CurVol(p)' = CurVol(p)
    BY <1>5 DEF Beside, Keeps, CurVol
  <2>3. Cut(p, o)
    BY DEF IInv, Inv
  <2>4. Cut(p, o)'
    BY <1>m, <1>p, <2>2, <2>3 DEF Cut
  <2> QED BY <2>1, <2>4
<1> QED BY <1>4, <1>5, LocalStep

LEMMA UnmountInv ==
    ASSUME IInv, NEW o \in Owners, Unmount(o)
    PROVE  Inv'
<1>1. /\ th' \in [Owners -> Thread]
      /\ \A q \in Owners : q # o => th'[q] = th[q]
      /\ \A q \in Owners : own'[q].state = own[q].state
      /\ th[o].pc \in Detaching
      /\ UNCHANGED <<maps, conn, rolled>>
  BY DetachThread DEF IInv
<1>2. TypeOK'
  BY DetachWork DEF IInv
<1>3. UNCHANGED <<vol, dev>> /\ th[o].pc = "unmount"
  BY DEF Unmount
<1>c. th[o].cur \in MountsOf(o) /\ th[o].cur \in maps
  BY <1>1, CurType DEF IInv, Works, Work, Held
<1>g. Grows
  BY <1>3 DEF Grows
<1>4. CASE mounted' = mounted \ {th[o].cur[2]} /\ Goto(o, "begin")
  <2>1. th'[o].pc = "begin" /\ th'[o].cur = th[o].cur
    BY <1>4, GotoType DEF IInv, TypeOK, PCs
  <2>2. \A m \in Mounts : m \notin MountsOf(o) =>
              (m[2] \in mounted' <=> m[2] \in mounted)
    BY <1>4, <1>c, RowApart
  <2>3. Beside(o)
    BY <1>1, <1>3, <2>2, BesideStep
  <2>4. Lasts(o)'
    BY <1>1, <1>3, <1>4 DEF IInv, Inv, Lasts, Connected, MountsOf
  <2>5. \A p \in Owners : p # o => Reached(p)' /\ Lasts(p)'
    BY <1>g, <2>3, OtherReached
  <2>6. Reserved(o)' /\ \A p \in Owners : Cut(o, p)'
    BY <2>1 DEF Reserved, Keeps, Cut, Leaving
  <2>7. \A p \in Owners : p # o => Alone(o, p)' /\ Alone(p, o)'
    BY <2>1 DEF Alone, Keeps, Leaving
  <2>8. th[o].cur[2] \notin mounted'
    BY <1>4
  <2>9. /\ th'[o].pc \in {"begin"} \cup Leaving
        /\ own'[o].state = own[o].state
        /\ \A p \in Owners : p # o /\ Keeps(p) =>
              vol'[CurVol(p)].status = vol[CurVol(p)].status
    BY <1>1, <1>3, <2>1
  <2> QED BY <1>1, <1>2, <2>1, <2>3, <2>4, <2>5, <2>6, <2>7, <2>8, <2>9, DetachOn
<1>5. CASE DetachFailed(o) /\ UNCHANGED mounted
  <2>1. th'[o].pc \notin Busy
    BY <1>5, FailedOut
  <2> QED BY <1>1, <1>2, <1>3, <1>5, <2>1, DetachEndsInv
<1> QED BY <1>4, <1>5 DEF Unmount

LEMMA BeginInv ==
    ASSUME IInv, NEW o \in Owners, BeginDetaching(o)
    PROVE  Inv'
<1>1. /\ th' \in [Owners -> Thread]
      /\ \A q \in Owners : q # o => th'[q] = th[q]
      /\ \A q \in Owners : own'[q].state = own[q].state
      /\ th[o].pc \in Detaching
      /\ UNCHANGED <<maps, conn, rolled>>
  BY DetachThread DEF IInv
<1>2. TypeOK'
  BY DetachWork DEF IInv
<1>3. UNCHANGED <<dev, mounted>> /\ th[o].pc = "begin"
  BY DEF BeginDetaching
<1>c. CurVol(o) \in Volumes
  BY <1>1, CurType DEF IInv, Works
<1>v. vol \in [Volumes -> Volume]
  BY DEF IInv, TypeOK
<1>4. CASE /\ vol[CurVol(o)].status = "in-use"
           /\ SetStatus(CurVol(o), "detaching") /\ Goto(o, "keep")
  <2>1. th'[o].pc = "keep" /\ th'[o].cur = th[o].cur
    BY <1>4, GotoType DEF IInv, TypeOK, PCs
  <2>s. "detaching" \in Statuses
    BY DEF Statuses
  <2>2. /\ vol'[CurVol(o)].status = "detaching"
        /\ \A u \in Volumes : /\ vol'[u].exports = vol[u].exports
                              /\ u # CurVol(o) => vol'[u] = vol[u]
    BY <1>4, <1>c, <1>v, <2>s, SetStatusType
  <2>g. Grows
    BY <1>3, <2>2 DEF Grows
  <2>n. \A v \in Volumes : vol[v].status = "none" <=> vol'[v].status = "none"
    BY <1>4, <2>2
  <2>3. Beside(o)
    BY <1>1, <1>3, <2>n, BesideStep
  <2>4. Lasts(o)'
    <3> SUFFICES ASSUME NEW m \in maps, m \in MountsOf(o), m[2] \in mounted,
                        VolumeOf[m[2]] \notin rolled
                 PROVE  Connected(VolumeOf[m[2]], HostOf[o])'
      BY <1>1, <1>3 DEF Lasts, MountsOf
    <3>1. VolumeOf[m[2]] \in Volumes
      BY MountType DEF MountsOf
    <3>2. Connected(VolumeOf[m[2]], HostOf[o])
      BY DEF IInv, Inv, Lasts
    <3> QED BY <1>3, <2>2, <3>1, <3>2 DEF Connected
  <2>5. \A p \in Owners : p # o => Reached(p)' /\ Lasts(p)'
    BY <2>3, <2>g, OtherReached
  <2>c. CurVol(o)' = CurVol(o)
    BY <2>1 DEF CurVol
  <2>6. Reserved(o)' /\ \A p \in Owners : Cut(o, p)'
    BY <2>1, <2>2, <2>c DEF Reserved, Cut, Cutting
  <2>k. ASSUME NEW p \in Owners, Keeps(p) PROVE CurVol(p) # CurVol(o)
    BY <1>4, <2>k, DeletableFree
  <2>7. ASSUME NEW p \in Owners, p # o PROVE Alone(o, p)' /\ Alone(p, o)'
    <3>1. th'[p] = th[p] /\ CurVol(p)' = CurVol(p)
      BY <1>1, <2>7 DEF CurVol
    <3>2. ~Keeps(p) \/ CurVol(p) # CurVol(o)
      BY <2>k
    <3> QED BY <1>1, <2>c, <3>1, <3>2 DEF Alone, Keeps
  <2>8. th[o].cur[2] \notin mounted'
    BY <1>3 DEF IInv, Inv, Unmounted
  <2>9. ASSUME NEW p \in Owners, p # o, Keeps(p)
        PROVE  vol'[CurVol(p)].status = vol[CurVol(p)].status
    <3>1. CurVol(p) \in Volumes /\ CurVol(p) # CurVol(o)
      BY <2>9, <2>k, DeletableFree
    <3> QED BY <2>2, <3>1
  <2>10. th'[o].pc \in {"begin"} \cup Leaving
    BY <2>1 DEF Leaving
  <2>11. own'[o].state = own[o].state
    BY <1>1
  <2> QED BY <1>1, <1>2, <2>1, <2>3, <2>4, <2>5, <2>6, <2>7, <2>8, <2>9, <2>10,
             <2>11, DetachOn
<1>5. CASE DetachFailed(o) /\ UNCHANGED vol
  <2>1. th'[o].pc \notin Busy
    BY <1>5, FailedOut
  <2> QED BY <1>1, <1>2, <1>3, <1>5, <2>1, DetachEndsInv
<1> QED BY <1>4, <1>5 DEF BeginDetaching

\* The thread of o keeps the volume it detaches: what holds of it stays.
LEMMA StillLeaving ==
    ASSUME IInv, NEW o \in Owners, th[o].pc \in Leaving, th'[o].cur = th[o].cur,
           \A q \in Owners : q # o => th'[q] = th[q], UNCHANGED <<rolled, maps>>,
           \A v \in Volumes : vol'[v].status = vol[v].status
    PROVE  /\ Reserved(o)'
           /\ \A p \in Owners : p # o => Alone(o, p)' /\ Alone(p, o)'
           /\ th[o].pc \in Cutting => \A p \in Owners : Cut(o, p)'
           /\ \A p \in Owners : p # o /\ Keeps(p) =>
                 vol'[CurVol(p)].status = vol[CurVol(p)].status
<1>1. CurVol(o)' = CurVol(o) /\ CurVol(o) \in Volumes
  BY CurType DEF CurVol, IInv, Leaving, Works, Detaching
<1>2. Keeps(o)' => Keeps(o)
  BY <1>1 DEF Keeps
<1>3. Reserved(o)'
  BY <1>1, <1>2 DEF IInv, Inv, Reserved
<1>4. ASSUME NEW p \in Owners, p # o PROVE Alone(o, p)' /\ Alone(p, o)'
  <2>1. th'[p] = th[p] /\ CurVol(p)' = CurVol(p) /\ (Keeps(p)' => Keeps(p))
    BY <1>4 DEF CurVol, Keeps
  <2>2. Alone(o, p) /\ Alone(p, o)
    BY DEF IInv, Inv
  <2> QED BY <1>1, <1>2, <2>1, <2>2 DEF Alone
<1>5. ASSUME th[o].pc \in Cutting, NEW p \in Owners PROVE Cut(o, p)'
  <2>1. Cut(o, p)
    BY DEF IInv, Inv
  <2>m. \A m : m \in MountsOf(p)' <=> m \in MountsOf(p)
    BY DEF MountsOf
  <2>2. CASE p = o
    BY <1>1, <1>2, <1>5, <2>1, <2>2, <2>m DEF Cut
  <2>3. CASE p # o
    BY <1>1, <1>2, <1>5, <2>1, <2>3, <2>m DEF Cut
  <2> QED BY <2>2, <2>3
<1>6. ASSUME NEW p \in Owners, p # o, Keeps(p)
      PROVE  vol'[CurVol(p)].status = vol[CurVol(p)].status
  BY <1>6, DeletableFree
<1> QED BY <1>3, <1>4, <1>5, <1>6

\* One mapping of the volume on the host: the one being detached.
LEMMA KeptForOthers ==
    ASSUME IInv, NEW o \in Owners, th[o].pc = "keep",
           ~VolumeConnectionKeep(CurVol(o), CurHost(o)),
           NEW p \in Owners, NEW m \in maps, m \in MountsOf(p),
           HostOf[p] = HostOf[o], VolumeOf[m[2]] = CurVol(o)
    PROVE  m = th[o].cur
<1> DEFINE S == {n \in MapsOn(CurVol(o)) : HostOfMap(n) = CurHost(o)}
<1>1. th[o].cur \in maps /\ th[o].cur \in MountsOf(o)
  BY DEF IInv, Work, Held, Works, Detaching
<1>2. th[o].cur \in S /\ m \in S
  BY <1>1 DEF MapsOn, HostOfMap, CurHost, CurVol, MountsOf
<1>3. IsFiniteSet(Mounts) /\ S \subseteq Mounts
  BY VolumesAssumption DEF MapsOn, IInv, TypeOK
<1>4. Cardinality(S) = 1
  BY DEF VolumeConnectionKeep
<1> HIDE DEF S
<1>5. IsFiniteSet(S)
  BY <1>3, FS_Subset
<1>6. \E x : S = {x}
  BY <1>4, <1>5, FS_Singleton
<1> QED BY <1>2, <1>6

LEMMA KeepInv ==
    ASSUME IInv, NEW o \in Owners, KeepConnection(o)
    PROVE  Inv'
<1>1. /\ th' \in [Owners -> Thread]
      /\ \A q \in Owners : q # o => th'[q] = th[q]
      /\ th[o].pc \in Detaching
  BY DetachThread DEF IInv
<1>2. TypeOK'
  BY DetachWork DEF IInv
<1>3. /\ UNCHANGED <<vol, dev, mounted, maps, conn, own, rolled>>
      /\ th[o].pc = "keep" /\ th[o].pc \in Leaving
  BY DEF KeepConnection, Leaving
<1>4. /\ th'[o].cur = th[o].cur
      /\ \/ th'[o].pc = "detach"
         \/ /\ th'[o].pc = "disconnect"
            /\ ~VolumeConnectionKeep(CurVol(o), CurHost(o))
  <2>1. CASE VolumeConnectionKeep(CurVol(o), CurHost(o))
    <3>1. Goto(o, "detach") /\ "detach" \in PCs
      BY <2>1 DEF KeepConnection, PCs
    <3> QED BY <3>1, GotoType DEF IInv, TypeOK
  <2>2. CASE ~VolumeConnectionKeep(CurVol(o), CurHost(o))
    <3>1. Goto(o, "disconnect") /\ "disconnect" \in PCs
      BY <2>2 DEF KeepConnection, PCs
    <3> QED BY <2>2, <3>1, GotoType DEF IInv, TypeOK
  <2> QED BY <2>1, <2>2
<1>5. /\ Reserved(o)'
      /\ \A p \in Owners : p # o => Alone(o, p)' /\ Alone(p, o)'
  BY <1>1, <1>3, <1>4, StillLeaving
<1>6. ASSUME NEW p \in Owners PROVE Cut(o, p)'
  <2>1. CASE th'[o].pc = "detach"
    BY <2>1 DEF Cut, Cutting
  <2>2. CASE ~VolumeConnectionKeep(CurVol(o), CurHost(o))
    <3> SUFFICES ASSUME NEW m \in maps, m \in MountsOf(p), HostOf[p] = HostOf[o],
                        m # th[o].cur, VolumeOf[m[2]] = CurVol(o)
                 PROVE  FALSE
      BY <1>3, <1>4 DEF Cut, MountsOf, CurVol
    <3> QED BY <1>3, <2>2, KeptForOthers
  <2> QED BY <1>4, <2>1, <2>2
<1>7. Beside(o) /\ Grows
  BY <1>1, <1>3 DEF Beside, Grows
<1>8. Lasts(o)'
  BY <1>3 DEF IInv, Inv, Lasts, Connected, MountsOf
<1>9. \A p \in Owners : p # o => Reached(p)' /\ Lasts(p)'
  BY <1>7, OtherReached
<1>10. th[o].cur[2] \notin mounted' /\ th'[o].pc \in {"begin"} \cup Leaving
  BY <1>3, <1>4 DEF IInv, Inv, Unmounted, Leaving
<1>11. \A p \in Owners : p # o /\ Keeps(p) =>
              vol'[CurVol(p)].status = vol[CurVol(p)].status
  BY <1>3
<1> QED BY <1>1, <1>2, <1>3, <1>4, <1>5, <1>6, <1>7, <1>8, <1>9, <1>10, <1>11,
           DetachOn

\* The connection that o takes away is nobody's.
LEMMA CutsOnlyOwn ==
    ASSUME IInv, NEW o \in Owners, th[o].pc \in Cutting,
           UNCHANGED <<maps, mounted, rolled>>,
           \A q \in Owners : q # o => th'[q] = th[q],
           \A v \in Volumes, h \in Hosts :
              v # CurVol(o) \/ h # HostOf[o] =>
                 /\ h \in vol[v].exports => h \in vol'[v].exports
                 /\ v \in dev[h] => v \in dev'[h]
    PROVE  /\ Lasts(o)'
           /\ \A p \in Owners : p # o => Reached(p)' /\ Lasts(p)'
<1>p. th[o].pc \in Leaving /\ th[o].pc \in Detaching
  BY DEF Cutting, Leaving, Detaching
<1>1. ASSUME NEW p \in Owners PROVE Lasts(p)'
  <2> SUFFICES ASSUME NEW m \in maps, m \in MountsOf(p), m[2] \in mounted,
                      VolumeOf[m[2]] \notin rolled
               PROVE  Connected(VolumeOf[m[2]], HostOf[p])'
    BY DEF Lasts, MountsOf
  <2>1. VolumeOf[m[2]] \in Volumes /\ HostOf[p] \in Hosts
    BY MountType, VolumesAssumption DEF MountsOf
  <2>2. Connected(VolumeOf[m[2]], HostOf[p])
    BY DEF IInv, Inv, Lasts
  <2>3. th[o].cur[2] \notin mounted
    BY <1>p DEF IInv, Inv, Unmounted
  <2>4. Cut(o, p) /\ Unmounted(p)
    BY DEF IInv, Inv
  <2>5. VolumeOf[m[2]] # CurVol(o) \/ HostOf[p] # HostOf[o]
    <3> SUFFICES ASSUME VolumeOf[m[2]] = CurVol(o), HostOf[p] = HostOf[o]
                 PROVE  FALSE
      OBVIOUS
    <3>1. Keeps(o) /\ m # th[o].cur
      BY <1>p, <2>3 DEF Keeps
    <3>2. th[p].cur = m /\ th[p].pc \in {"reserve", "undo"}
      BY <2>4, <3>1 DEF Cut
    <3> QED BY <2>4, <3>2 DEF Unmounted
  <2> QED BY <2>1, <2>2, <2>5 DEF Connected
<1>2. ASSUME NEW p \in Owners, p # o PROVE Reached(p)'
  <2>1. th'[p] = th[p] /\ CurVol(p)' = CurVol(p) /\ HostOf[p] \in Hosts
    BY <1>2, VolumesAssumption DEF CurVol
  <2> SUFFICES ASSUME th[p].pc \in {"connect", "attach", "mount"},
                      CurVol(p) \notin rolled
               PROVE  /\ th[p].pc = "connect" => HostOf[p] \in vol'[CurVol(p)].exports
                      /\ th[p].pc # "connect" => Connected(CurVol(p), HostOf[p])'
    BY <2>1 DEF Reached
  <2>2. /\ th[p].cur \in maps /\ th[p].cur \in MountsOf(p)
        /\ CurVol(p) \in Volumes
    BY CurType DEF IInv, Work, Held, Works
  <2>3. th[o].cur \in MountsOf(o)
    BY <1>p, CurType DEF IInv, Works
  <2>4. th[p].cur # th[o].cur
    BY <1>2, <2>2, <2>3 DEF MountsOf
  <2>5. CurVol(p) # CurVol(o) \/ HostOf[p] # HostOf[o]
    <3> SUFFICES ASSUME CurVol(p) = CurVol(o), HostOf[p] = HostOf[o]
                 PROVE  FALSE
      OBVIOUS
    <3>1. Keeps(o) /\ Cut(o, p)
      BY <1>p DEF Keeps, IInv, Inv
    <3>2. th[p].pc \in {"reserve", "undo"}
      BY <2>2, <2>4, <3>1 DEF Cut, CurVol
    <3> QED BY <3>2
  <2>6. Reached(p)
    BY DEF IInv, Inv
  <2>7. CurVol(p)' = CurVol(p)
    BY <2>1
  <2> QED BY <2>1, <2>2, <2>5, <2>6 DEF Reached, Connected
<1> QED BY <1>1, <1>2

LEMMA DisconnectInv ==
    ASSUME IInv, NEW o \in Owners, DisconnectVolume(o)
    PROVE  Inv'
<1>1. /\ th' \in [Owners -> Thread]
      /\ \A q \in Owners : q # o => th'[q] = th[q]
      /\ \A q \in Owners : own'[q].state = own[q].state
      /\ th[o].pc \in Detaching
      /\ UNCHANGED <<maps, conn, rolled>>
  BY DetachThread DEF IInv
<1>2. TypeOK'
  BY DetachWork DEF IInv
<1>3. UNCHANGED mounted /\ th[o].pc \in Leaving /\ th[o].pc \in Cutting
  BY DEF DisconnectVolume, Leaving, Cutting
<1>c. CurVol(o) \in Volumes /\ CurHost(o) \in Hosts /\ CurHost(o) = HostOf[o]
  BY <1>1, CurType DEF IInv, Works, CurHost
<1>v. vol \in [Volumes -> Volume] /\ dev \in [Hosts -> SUBSET Volumes]
  BY DEF IInv, TypeOK
<1>4. CASE /\ dev' = [dev EXCEPT ![CurHost(o)] = @ \ {CurVol(o)}]
           /\ Goto(o, "terminate") /\ UNCHANGED vol
  <2>1. th'[o].pc = "terminate" /\ th'[o].cur = th[o].cur
    BY <1>4, GotoType DEF IInv, TypeOK, PCs
  <2>2. \A v \in Volumes, h \in Hosts :
              v # CurVol(o) \/ h # HostOf[o] =>
                 /\ h \in vol[v].exports => h \in vol'[v].exports
                 /\ v \in dev[h] => v \in dev'[h]
    BY <1>4, <1>c, <1>v
  <2>3. Beside(o)
    BY <1>1, <1>3, <1>4, BesideStep
  <2>4. /\ Lasts(o)'
        /\ \A p \in Owners : p # o => Reached(p)' /\ Lasts(p)'
    BY <1>1, <1>3, <2>2, CutsOnlyOwn
  <2>5. /\ Reserved(o)'
        /\ \A p \in Owners : p # o => Alone(o, p)' /\ Alone(p, o)'
        /\ \A p \in Owners : Cut(o, p)'
    BY <1>1, <1>3, <1>4, <2>1, StillLeaving
  <2>6. th[o].cur[2] \notin mounted' /\ th'[o].pc \in {"begin"} \cup Leaving
    BY <1>3, <2>1 DEF IInv, Inv, Unmounted, Leaving
  <2>7. \A p \in Owners : p # o /\ Keeps(p) =>
              vol'[CurVol(p)].status = vol[CurVol(p)].status
    BY <1>4
  <2> QED BY <1>1, <1>2, <2>1, <2>3, <2>4, <2>5, <2>6, <2>7, DetachOn
<1>5. CASE SetStatus(CurVol(o), "in-use") /\ DetachFailed(o) /\ UNCHANGED dev
  <2>1. th'[o].pc \notin Busy
    BY <1>5, FailedOut
  <2>2. "in-use" \in Statuses
    BY DEF Statuses
  <2>3. \A v \in Volumes : /\ vol'[v].exports = vol[v].exports
                           /\ vol'[v] = vol[v] \/
                                (v = CurVol(o) /\ vol'[v].status = "in-use")
    BY <1>5, <1>c, <1>v, <2>2, SetStatusType
  <2>4. \A v \in Volumes : /\ vol'[v].exports = vol[v].exports
                           /\ vol'[v] = vol[v] \/
                                (/\ v = CurVol(o) /\ th[o].pc \in Leaving
                                 /\ vol'[v].status # "none")
    BY <1>3, <2>3
  <2> QED BY <1>1, <1>2, <1>3, <1>5, <2>1, <2>4, DetachEndsInv
<1> QED BY <1>4, <1>5 DEF DisconnectVolume

LEMMA TerminateInv ==
    ASSUME IInv, NEW o \in Owners, TerminateConnection(o)
    PROVE  Inv'
<1>1. /\ th' \in [Owners -> Thread]
      /\ \A q \in Owners : q # o => th'[q] = th[q]
      /\ \A q \in Owners : own'[q].state = own[q].state
      /\ th[o].pc \in Detaching
      /\ UNCHANGED <<maps, conn, rolled>>
  BY DetachThread DEF IInv
<1>2. TypeOK'
  BY DetachWork DEF IInv
<1>3. /\ UNCHANGED <<mounted, dev>>
      /\ th[o].pc \in Leaving /\ th[o].pc \in Cutting
  BY DEF TerminateConnection, Leaving, Cutting
<1>c. CurVol(o) \in Volumes /\ CurHost(o) \in Hosts /\ CurHost(o) = HostOf[o]
  BY <1>1, CurType DEF IInv, Works, CurHost
<1>v. vol \in [Volumes -> Volume]
  BY DEF IInv, TypeOK
<1>4. CASE /\ vol' = [vol EXCEPT ![CurVol(o)].exports = @ \ {CurHost(o)}]
           /\ Goto(o, "detach")
  <2>1. th'[o].pc = "detach" /\ th'[o].cur = th[o].cur
    BY <1>4, GotoType DEF IInv, TypeOK, PCs
  <2>v. \A v \in Volumes :
           /\ vol'[v].status = vol[v].status
           /\ \A h \in Hosts : v # CurVol(o) \/ h # HostOf[o] =>
                 (h \in vol[v].exports => h \in vol'[v].exports)
    BY <1>4, <1>c, <1>v DEF Volume
  <2>2. \A v \in Volumes, h \in Hosts :
              v # CurVol(o) \/ h # HostOf[o] =>
                 /\ h \in vol[v].exports => h \in vol'[v].exports
                 /\ v \in dev[h] => v \in dev'[h]
    BY <1>3, <2>v
  <2>3. Beside(o)
    BY <1>1, <1>3, <2>v, BesideStep
  <2>4. /\ Lasts(o)'
        /\ \A p \in Owners : p # o => Reached(p)' /\ Lasts(p)'
    BY <1>1, <1>3, <2>2, CutsOnlyOwn
  <2>5. /\ Reserved(o)'
        /\ \A p \in Owners : p # o => Alone(o, p)' /\ Alone(p, o)'
        /\ \A p \in Owners : p # o /\ Keeps(p) =>
              vol'[CurVol(p)].status = vol[CurVol(p)].status
    BY <1>1, <1>3, <2>1, <2>v, StillLeaving
  <2>6. th[o].cur[2] \notin mounted' /\ th'[o].pc \in {"begin"} \cup Leaving
    BY <1>3, <2>1 DEF IInv, Inv, Unmounted, Leaving
  <2>7. \A p \in Owners : Cut(o, p)'
    BY <2>1 DEF Cut, Cutting
  <2> QED BY <1>1, <1>2, <2>1, <2>3, <2>4, <2>5, <2>6, <2>7, DetachOn
<1>5. CASE DetachFailed(o) /\ UNCHANGED vol
  <2>1. th'[o].pc \notin Busy
    BY <1>5, FailedOut
  <2> QED BY <1>1, <1>2, <1>3, <1>5, <2>1, DetachEndsInv
<1> QED BY <1>4, <1>5 DEF TerminateConnection

LEMMA DetachInv ==
    ASSUME IInv, NEW o \in Owners, Detach(o)
    PROVE  Inv'
<1>1. /\ th' \in [Owners -> Thread]
      /\ \A q \in Owners : q # o => th'[q] = th[q]
      /\ \A q \in Owners : own'[q].state = own[q].state
      /\ th[o].pc \in Detaching
      /\ UNCHANGED <<maps, conn, rolled>>
  BY DetachThread DEF IInv
<1>2. TypeOK'
  BY DetachWork DEF IInv
<1>3. UNCHANGED <<mounted, dev>> /\ th[o].pc \in Leaving
  BY DEF Detach, Leaving
<1>c. CurVol(o) \in Volumes
  BY <1>1, CurType DEF IInv, Works
<1>v. vol \in [Volumes -> Volume]
  BY DEF IInv, TypeOK
<1>4. CASE /\ CinderDetach(CurVol(o), th[o].cur[1])
           /\ Goto(o, IF th[o].why = "attach" THEN "drop" ELSE "destroy")
  <2>1. th'[o].pc \in {"drop", "destroy"}
    <3>1. PICK p \in {"drop", "destroy"} : Goto(o, p)
      BY <1>4
    <3>2. p \in PCs
      BY DEF PCs
    <3> QED BY <3>1, <3>2, GotoType DEF IInv, TypeOK
  <2>2. th'[o].pc \notin Busy
    BY <2>1 DEF Busy, Attaching, Leaving
  <2>3. \A v \in Volumes : /\ vol'[v].exports = vol[v].exports
                           /\ vol'[v] = vol[v] \/
                                (v = CurVol(o) /\ vol'[v].status # "none")
    BY <1>4, <1>c, <1>v DEF CinderDetach, Rest, Volume
  <2>4. \A v \in Volumes : /\ vol'[v].exports = vol[v].exports
                           /\ vol'[v] = vol[v] \/
                                (/\ v = CurVol(o) /\ th[o].pc \in Leaving
                                 /\ vol'[v].status # "none")
    BY <1>3, <2>3
  <2> QED BY <1>1, <1>2, <1>3, <2>2, <2>4, DetachEndsInv
<1>5. CASE DetachFailed(o) /\ UNCHANGED vol
  <2>1. th'[o].pc \notin Busy
    BY <1>5, FailedOut
  <2> QED BY <1>1, <1>2, <1>3, <1>5, <2>1, DetachEndsInv
<1> QED BY <1>4, <1>5 DEF Detach

-----------------------------------------------------------------------------
(* The steps of an attach                                                   *)

\* An attach that begins, goes on, is rolled back or detached again.
LEMMA AttachOn ==
    ASSUME IInv, TypeOK', NEW o \in Owners, Beside(o), Grows,
           th'[o].pc \in Attaching \cup {"undo", "begin"},
           own'[o].state # "none",
           Existing(o)', Unmounted(o)', Reached(o)', Lasts(o)',
           \A p \in Owners : p # o /\ Keeps(p) =>
              vol'[CurVol(p)].status = vol[CurVol(p)].status,
           \A p \in Owners : p # o => Cut(p, o)'
    PROVE  Inv'
<1>1. th'[o].pc \notin Leaving /\ th'[o].pc \notin Cutting
  BY DEF Attaching, Leaving, Cutting
<1>2. Reserved(o)' /\ \A p \in Owners : Cut(o, p)'
  BY <1>1 DEF Reserved, Keeps, Cut
<1>3. \A p \in Owners : Alone(o, p)' /\ Alone(p, o)'
  BY <1>1 DEF Alone, Keeps
<1>4. \A p \in Owners : p # o => Reserved(p)' /\ Reached(p)' /\ Lasts(p)'
  BY OtherReserved, OtherReached
<1>5. Mine(o)'
  BY <1>2 DEF Mine, Untouched
<1> QED BY <1>2, <1>3, <1>4, <1>5, LocalStep

\* No thread takes away a connection of an owner that is not reserving.
LEMMA CutElsewhere ==
    ASSUME IInv, NEW o \in Owners, NEW p \in Owners, p # o,
           th[o].pc \notin {"reserve", "undo"}, Keeps(p), th[p].pc \in Cutting,
           NEW m \in maps, m \in MountsOf(o), HostOf[o] = HostOf[p]
    PROVE  VolumeOf[m[2]] # CurVol(p)
<1>1. Cut(p, o)
  BY DEF IInv, Inv
<1>2. th[p].cur \in MountsOf(p)
  BY CurType DEF IInv, Cutting, Works, Detaching
<1>3. m # th[p].cur
  BY <1>2 DEF MountsOf
<1> QED BY <1>1, <1>3 DEF Cut

\* The same mappings and mounts, with their connections.
LEMMA AttachSame ==
    ASSUME IInv, NEW o \in Owners, Beside(o), Grows, UNCHANGED <<maps, mounted>>,
           th[o].pc \in Attaching
    PROVE  /\ Existing(o)' /\ Lasts(o)'
           /\ th[o].pc # "reserve" => \A p \in Owners : p # o => Cut(p, o)'
<1>m. \A m : m \in MountsOf(o)' <=> m \in MountsOf(o)
  BY DEF MountsOf
<1>1. \A m \in MountsOf(o) : m \in Mounts /\ VolumeOf[m[2]] \in Volumes
  BY MountType DEF MountsOf
<1>2. Existing(o)'
  BY <1>m, <1>1 DEF IInv, Inv, Existing, Beside
<1>3. Lasts(o)'
  <2> SUFFICES ASSUME NEW m \in maps, m \in MountsOf(o), m[2] \in mounted,
                      VolumeOf[m[2]] \notin rolled'
               PROVE  Connected(VolumeOf[m[2]], HostOf[o])'
    BY <1>m DEF Lasts
  <2>1. Connected(VolumeOf[m[2]], HostOf[o])
    BY DEF IInv, Inv, Lasts, Beside
  <2>2. HostOf[o] \in Hosts
    BY VolumesAssumption
  <2> QED BY <1>1, <2>1, <2>2 DEF Grows, Connected
<1>4. ASSUME th[o].pc # "reserve", NEW p \in Owners, p # o PROVE Cut(p, o)'
  <2>1. th'[p] = th[p] /\ (Keeps(p)' => Keeps(p)) /\ CurVol(p)' = CurVol(p)
    BY <1>4 DEF Beside, Keeps, CurVol
  <2>2. th[o].pc \notin {"reserve", "undo"}
    BY <1>4 DEF Attaching
  <2> QED BY <1>4, <1>m, <2>1, <2>2, CutElsewhere DEF Cut
<1> QED BY <1>2, <1>3, <1>4

LEMMA WaitAvailableInv ==
    ASSUME IInv, NEW o \in Owners, WaitAvailable(o)
    PROVE  Inv'
<1>t. th \in [Owners -> Thread] /\ th[o] \in Thread
  BY DEF IInv, TypeOK
<1>1. TypeOK'
  BY WaitWork DEF IInv
<1>2. UNCHANGED <<vol, dev, mounted, maps, conn, own, rolled>> /\ th[o].pc = "wait"
  BY DEF WaitAvailable
<1>3. /\ th'[o].pc \in {"wait", "next"}
      /\ \A q \in Owners : q # o => th'[q] = th[q]
  <2>1. PICK t : Becomes(o, t) /\ t.pc \in {"wait", "next"}
    <3>1. CASE Becomes(o, [th[o] EXCEPT !.pc = "next", !.todo = MountsOf(o)])
      <4>1. [th[o] EXCEPT !.pc = "next", !.todo = MountsOf(o)].pc = "next"
        BY <1>t DEF Thread
      <4> QED BY <3>1, <4>1
    <3>2. CASE \E m \in th[o].todo : Becomes(o, [th[o] EXCEPT !.todo = @ \ {m}])
      <4>1. PICK m \in th[o].todo : Becomes(o, [th[o] EXCEPT !.todo = @ \ {m}])
        BY <3>2
      <4>2. [th[o] EXCEPT !.todo = @ \ {m}].pc = "wait"
        BY <1>t, <1>2 DEF Thread
      <4> QED BY <4>1, <4>2
    <3> QED BY <3>1, <3>2 DEF WaitAvailable
  <2> QED BY <1>t, <2>1, BecomesType
<1>4. Beside(o) /\ Grows
  BY <1>2, <1>3 DEF Beside, Grows
<1>5. th[o].pc \in Attaching /\ th[o].pc # "reserve"
  BY <1>2 DEF Attaching
<1>6. /\ Existing(o)' /\ Lasts(o)'
      /\ \A p \in Owners : p # o => Cut(p, o)'
  BY <1>2, <1>4, <1>5, AttachSame
<1>7. Unmounted(o)' /\ Reached(o)'
  BY <1>2, <1>3, <1>5 DEF IInv, Inv, Unmounted, Reached, MountsOf, Leaving
<1>8. th'[o].pc \in Attaching \cup {"undo", "begin"}
  BY <1>3 DEF Attaching
<1>9. own'[o].state # "none"
  BY <1>2, Requested
<1>10. \A p \in Owners : p # o /\ Keeps(p) =>
              vol'[CurVol(p)].status = vol[CurVol(p)].status
  BY <1>2
<1> QED BY <1>1, <1>4, <1>6, <1>7, <1>8, <1>9, <1>10, AttachOn

\* Another container of the capsule has attached the volume.
LEMMA AttachShared ==
    ASSUME IInv, NEW o \in Owners, NEW m \in MountsOf(o), m[2] \in conn
    PROVE  \E n \in maps : n \in MountsOf(o) /\ n[2] = m[2]
<1>1. PICK n \in maps : n[2] = m[2]
  BY DEF IInv, Work, Recorded
<1>2. n \in Mounts /\ m \in Mounts
  BY DEF IInv, TypeOK, MountsOf
<1>3. n \in MountsOf(o)
  BY <1>1, <1>2, VolumesAssumption DEF MountsOf
<1> QED BY <1>1, <1>3

LEMMA AttachNextInv ==
    ASSUME IInv, NEW o \in Owners, AttachNext(o)
    PROVE  Inv'
<1>t. th \in [Owners -> Thread] /\ th[o] \in Thread
  BY DEF IInv, TypeOK
<1>1. TypeOK'
  BY AttachNextWork DEF IInv
<1>2. UNCHANGED <<vol, dev, mounted, conn, own, rolled>> /\ th[o].pc = "next"
  BY DEF AttachNext
<1>3. own'[o].state # "none"
  BY <1>2, Requested
<1>g. Grows
  BY <1>2 DEF Grows
<1>s. \A p \in Owners : p # o /\ Keeps(p) =>
              vol'[CurVol(p)].status = vol[CurVol(p)].status
  BY <1>2
<1>i. Existing(o) /\ Lasts(o) /\ Unmounted(o) /\ th[o].pc \in Attaching
  BY <1>2 DEF IInv, Inv, Attaching
<1>m. \A m : m \in MountsOf(o)' <=> m \in MountsOf(o)
  BY DEF MountsOf
<1>4. CASE Goto(o, "build") /\ UNCHANGED maps
  <2>1. th'[o].pc = "build" /\ \A q \in Owners : q # o => th'[q] = th[q]
    BY <1>4, <1>t, GotoType DEF PCs
  <2>2. Beside(o)
    BY <1>2, <1>4, <2>1 DEF Beside
  <2>3. th'[o].pc \notin Busy /\ th[o].pc \notin {"reserve", "undo"}
    BY <1>2, <2>1 DEF Busy, Attaching, Leaving
  <2> QED BY <1>1, <1>2, <1>3, <1>4, <1>g, <1>s, <2>2, <2>3, QuietStep
<1>5. ASSUME NEW m \in th[o].todo, maps' = maps \cup {m},
             IF m[2] \in conn
             THEN Becomes(o, [th[o] EXCEPT !.todo = @ \ {m}])
             ELSE Becomes(o, [th[o] EXCEPT !.todo = @ \ {m}, !.cur = m,
                                           !.pc = "reserve"])
      PROVE  Inv'
  <2>1. m \in MountsOf(o) /\ m \in Mounts
    BY DEF IInv, Work, Queued, MountsOf
  <2>2. /\ \A q \in Owners : q # o => th'[q] = th[q]
        /\ m[2] \in conn => th'[o].pc = "next"
        /\ m[2] \notin conn => th'[o].pc = "reserve" /\ th'[o].cur = m
    <3>1. CASE m[2] \in conn
      <4>1. Becomes(o, [th[o] EXCEPT !.todo = @ \ {m}])
        BY <1>5, <3>1
      <4>2. [th[o] EXCEPT !.todo = @ \ {m}].pc = "next"
        BY <1>t, <1>2 DEF Thread
      <4> QED BY <1>t, <3>1, <4>1, <4>2, BecomesType
    <3>2. CASE m[2] \notin conn
      <4> DEFINE t == [th[o] EXCEPT !.todo = @ \ {m}, !.cur = m, !.pc = "reserve"]
      <4>1. Becomes(o, t)
        BY <1>5, <3>2
      <4>2. t.pc = "reserve" /\ t.cur = m
        BY <1>t DEF Thread
      <4> HIDE DEF t
      <4> QED BY <1>t, <3>2, <4>1, <4>2, BecomesType
    <3> QED BY <3>1, <3>2
  <2>3. \A n \in Mounts : n \notin MountsOf(o) => (n \in maps' <=> n \in maps)
    BY <1>5, <2>1
  <2>4. Beside(o)
    BY <1>2, <2>2, <2>3 DEF Beside
  <2>5. Existing(o)'
    BY <1>2, <1>i, <1>m DEF Existing
  <2>6. Unmounted(o)' /\ Reached(o)'
    <3>1. CASE m[2] \in conn
      BY <1>2, <1>i, <1>m, <2>2, <3>1 DEF Unmounted, Reached, Leaving
    <3>2. CASE m[2] \notin conn
      <4>1. m[2] \notin mounted
        BY <1>i, <2>1, <3>2 DEF Unmounted
      <4> QED BY <1>2, <1>i, <1>m, <2>2, <3>2, <4>1
              DEF Unmounted, Reached, Leaving
    <3> QED BY <3>1, <3>2
  <2>7. Lasts(o)'
    <3> SUFFICES ASSUME NEW n \in maps', n \in MountsOf(o), n[2] \in mounted,
                        VolumeOf[n[2]] \notin rolled
                 PROVE  Connected(VolumeOf[n[2]], HostOf[o])
      BY <1>2, <1>m DEF Lasts, Connected
    <3>1. CASE n \in maps
      BY <1>i, <3>1 DEF Lasts
    <3>2. CASE n = m
      <4>1. m[2] \in conn
        BY <1>i, <2>1, <3>2 DEF Unmounted
      <4>2. PICK k \in maps : k \in MountsOf(o) /\ k[2] = m[2]
        BY <2>1, <4>1, AttachShared
      <4> QED BY <1>i, <3>2, <4>2 DEF Lasts
    <3> QED BY <1>5, <3>1, <3>2
  <2>8. ASSUME NEW p \in Owners, p # o PROVE Cut(p, o)'
    <3>1. th'[p] = th[p] /\ (Keeps(p)' => Keeps(p)) /\ CurVol(p)' = CurVol(p)
      BY <2>4, <2>8 DEF Beside, Keeps, CurVol
    <3> SUFFICES ASSUME Keeps(p), th[p].pc \in Cutting,
                        NEW n \in maps', n \in MountsOf(o), HostOf[o] = HostOf[p],
                        n # th[p].cur, VolumeOf[n[2]] = CurVol(p)
                 PROVE  th'[o].cur = n /\ th'[o].pc \in {"reserve", "undo"}
      BY <1>m, <3>1 DEF Cut
    <3>2. th[o].pc \notin {"reserve", "undo"}
      BY <1>2
    <3>3. CASE n \in maps
      BY <2>8, <3>2, <3>3, CutElsewhere
    <3>4. CASE n = m /\ m[2] \in conn
      <4>1. PICK k \in maps : k \in MountsOf(o) /\ k[2] = m[2]
        BY <2>1, <3>4, AttachShared
      <4>2. VolumeOf[k[2]] = CurVol(p)
        BY <3>4, <4>1
      <4> QED BY <2>8, <3>2, <4>1, <4>2, CutElsewhere
    <3>5. CASE n = m /\ m[2] \notin conn
      BY <2>2, <3>5
    <3> QED BY <1>5, <3>3, <3>4, <3>5
  <2>9. th'[o].pc \in Attaching \cup {"undo", "begin"}
    BY <2>2 DEF Attaching
  <2> QED BY <1>1, <1>3, <1>g, <1>s, <2>4, <2>5, <2>6, <2>7, <2>8, <2>9, AttachOn
<1> QED BY <1>4, <1>5 DEF AttachNext

\* A failure in attach_volume before anything was mounted.
LEMMA UndoingInv ==
    ASSUME IInv, TypeOK', NEW o \in Owners, Beside(o), Grows,
           UNCHANGED <<mounted, maps, own>>, th'[o].cur = th[o].cur,
           th[o].pc \in {"reserve", "init", "connect", "attach"},
           th'[o].pc = "undo",
           \A p \in Owners : p # o /\ Keeps(p) =>
              vol'[CurVol(p)].status = vol[CurVol(p)].status
    PROVE  Inv'
<1>1. th[o].pc \in Attaching /\ own'[o].state # "none"
  BY Requested DEF Attaching
<1>2. /\ Existing(o)' /\ Lasts(o)'
      /\ th[o].pc # "reserve" => \A p \in Owners : p # o => Cut(p, o)'
  BY <1>1, AttachSame
<1>3. ASSUME th[o].pc = "reserve", NEW p \in Owners, p # o PROVE Cut(p, o)'
  <2>1. th'[p] = th[p] /\ (Keeps(p)' => Keeps(p)) /\ CurVol(p)' = CurVol(p)
    BY <1>3 DEF Beside, Keeps, CurVol
  <2>2. Cut(p, o) /\ \A m : m \in MountsOf(o)' <=> m \in MountsOf(o)
    BY DEF IInv, Inv, MountsOf
  <2> QED BY <1>3, <2>1, <2>2 DEF Cut
<1>4. Unmounted(o)' /\ Reached(o)'
  BY DEF IInv, Inv, Unmounted, Reached, Attaching
<1>5. th'[o].pc \in Attaching \cup {"undo", "begin"}
  OBVIOUS
<1>6. \A p \in Owners : p # o => Cut(p, o)'
  BY <1>2, <1>3
<1> QED BY <1>1, <1>2, <1>4, <1>5, <1>6, AttachOn

LEMMA ReserveInv ==
    ASSUME IInv, NEW o \in Owners, Reserve(o)
    PROVE  Inv'
<1>t. th \in [Owners -> Thread] /\ vol \in [Volumes -> Volume]
  BY DEF IInv, TypeOK
<1>1. TypeOK'
  BY AttachWork DEF IInv
<1>2. /\ UNCHANGED <<dev, mounted, maps, conn, own, rolled>>
      /\ th[o].pc = "reserve" /\ th[o].pc \in Attaching
  BY DEF Reserve, Attaching
<1>c. CurVol(o) \in Volumes
  BY <1>2, CurType DEF IInv, Works
<1>3. CASE /\ IsAvailable(CurVol(o)) /\ SetStatus(CurVol(o), "attaching")
           /\ Goto(o, "init")
  <2>1. /\ th'[o].pc = "init" /\ th'[o].cur = th[o].cur
        /\ \A q \in Owners : q # o => th'[q] = th[q]
    BY <1>3, <1>t, GotoType DEF PCs
  <2>2. "attaching" \in Statuses
    BY DEF Statuses
  <2>3. /\ vol'[CurVol(o)].status = "attaching"
        /\ \A u \in Volumes : /\ vol'[u].exports = vol[u].exports
                              /\ u # CurVol(o) => vol'[u] = vol[u]
    BY <1>3, <1>c, <1>t, <2>2, SetStatusType
  <2>4. \A v \in Volumes : vol[v].status = "none" <=> vol'[v].status = "none"
    BY <1>3, <2>3 DEF IsAvailable
  <2>5. Beside(o)
    BY <1>2, <2>1, <2>4, BesideStep
  <2>6. Grows
    BY <1>2, <2>3 DEF Grows
  <2>7. ASSUME NEW p \in Owners, p # o, Keeps(p)
        PROVE  vol'[CurVol(p)].status = vol[CurVol(p)].status
    BY <1>3, <2>3, <2>7, DeletableFree
  <2>8. Existing(o)' /\ Lasts(o)'
    BY <1>2, <2>5, <2>6, AttachSame
  <2>9. ASSUME NEW p \in Owners, p # o PROVE Cut(p, o)'
    <3>1. th'[p] = th[p] /\ (Keeps(p)' => Keeps(p)) /\ CurVol(p)' = CurVol(p)
      BY <2>5, <2>9 DEF Beside, Keeps, CurVol
    <3>2. Cut(p, o) /\ \A m : m \in MountsOf(o)' <=> m \in MountsOf(o)
      BY DEF IInv, Inv, MountsOf
    <3>3. Keeps(p) => CurVol(p) # CurVol(o)
      BY <1>3, DeletableFree
    <3> QED BY <1>2, <2>9, <3>1, <3>2, <3>3 DEF Cut, CurVol
  <2>10. Unmounted(o)' /\ Reached(o)'
    BY <1>2, <2>1 DEF IInv, Inv, Unmounted, Reached, MountsOf, Leaving
  <2>11. th'[o].pc \in Attaching \cup {"undo", "begin"}
    BY <2>1 DEF Attaching
  <2>12. own'[o].state # "none"
    BY <1>2, Requested
  <2> QED BY <1>1, <2>5, <2>6, <2>7, <2>8, <2>9, <2>10, <2>11, <2>12, AttachOn
<1>4. CASE Undoing(o, <<>>) /\ UNCHANGED vol
  <2>1. <<>> \in Seq(UndoSteps)
    OBVIOUS
  <2>2. /\ th'[o].pc = "undo" /\ th'[o].cur = th[o].cur
        /\ \A q \in Owners : q # o => th'[q] = th[q]
    BY <1>4, <1>t, <2>1, UndoingType
  <2>3. Beside(o) /\ Grows
    BY <1>2, <1>4, <2>2 DEF Beside, Grows
  <2> QED BY <1>1, <1>2, <1>4, <2>2, <2>3, UndoingInv
<1> QED BY <1>3, <1>4 DEF Reserve

LEMMA InitializeInv ==
    ASSUME IInv, NEW o \in Owners, InitializeConnection(o)
    PROVE  Inv'
<1>t. th \in [Owners -> Thread] /\ vol \in [Volumes -> Volume]
  BY DEF IInv, TypeOK
<1>1. TypeOK'
  BY AttachWork DEF IInv
<1>2. /\ UNCHANGED <<dev, mounted, maps, conn, own, rolled>>
      /\ th[o].pc = "init" /\ th[o].pc \in Attaching
  BY DEF InitializeConnection, Attaching
<1>c. CurVol(o) \in Volumes /\ CurHost(o) \in Hosts /\ CurHost(o) = HostOf[o]
  BY <1>2, CurType DEF IInv, Works, CurHost
<1>3. CASE /\ vol' = [vol EXCEPT ![CurVol(o)].exports = @ \cup {CurHost(o)}]
           /\ Goto(o, "connect")
  <2>1. /\ th'[o].pc = "connect" /\ th'[o].cur = th[o].cur
        /\ \A q \in Owners : q # o => th'[q] = th[q]
    BY <1>3, <1>t, GotoType DEF PCs
  <2>2. /\ \A u \in Volumes : /\ vol'[u].status = vol[u].status
                              /\ vol[u].exports \subseteq vol'[u].exports
        /\ HostOf[o] \in vol'[CurVol(o)].exports
    BY <1>3, <1>c, <1>t DEF Volume
  <2>3. Beside(o)
    BY <1>2, <2>1, <2>2, BesideStep
  <2>4. Grows
    BY <1>2, <2>2 DEF Grows
  <2>5. ASSUME NEW p \in Owners, p # o, Keeps(p)
        PROVE  vol'[CurVol(p)].status = vol[CurVol(p)].status
    BY <2>2, <2>5, DeletableFree
  <2>6. /\ Existing(o)' /\ Lasts(o)'
        /\ \A p \in Owners : p # o => Cut(p, o)'
    BY <1>2, <2>3, <2>4, AttachSame
  <2>7. CurVol(o)' = CurVol(o)
    BY <2>1 DEF CurVol
  <2>8. Unmounted(o)' /\ Reached(o)'
    BY <1>2, <2>1, <2>2, <2>7 DEF IInv, Inv, Unmounted, Reached, MountsOf, Leaving
  <2>9. th'[o].pc \in Attaching \cup {"undo", "begin"}
    BY <2>1 DEF Attaching
  <2>10. own'[o].state # "none"
    BY <1>2, Requested
  <2> QED BY <1>1, <2>3, <2>4, <2>5, <2>6, <2>8, <2>9, <2>10, AttachOn
<1>4. CASE Undoing(o, <<"terminate">>) /\ UNCHANGED vol
  <2>1. <<"terminate">> \in Seq(UndoSteps)
    BY DEF UndoSteps
  <2>2. /\ th'[o].pc = "undo" /\ th'[o].cur = th[o].cur
        /\ \A q \in Owners : q # o => th'[q] = th[q]
    BY <1>4, <1>t, <2>1, UndoingType
  <2>3. Beside(o) /\ Grows
    BY <1>2, <1>4, <2>2 DEF Beside, Grows
  <2> QED BY <1>1, <1>2, <1>4, <2>2, <2>3, UndoingInv
<1> QED BY <1>3, <1>4 DEF InitializeConnection

LEMMA ConnectInv ==
    ASSUME IInv, NEW o \in Owners, ConnectVolume(o)
    PROVE  Inv'
<1>t. th \in [Owners -> Thread] /\ dev \in [Hosts -> SUBSET Volumes]
  BY DEF IInv, TypeOK
<1>1. TypeOK'
  BY AttachWork DEF IInv
<1>2. /\ UNCHANGED <<vol, mounted, maps, own, rolled>>
      /\ th[o].pc = "connect" /\ th[o].pc \in Attaching
  BY DEF ConnectVolume, Attaching
<1>c. /\ CurVol(o) \in Volumes /\ CurHost(o) \in Hosts /\ CurHost(o) = HostOf[o]
      /\ th[o].cur \in MountsOf(o)
  BY <1>2, CurType DEF IInv, Works, CurHost
<1>s. \A p \in Owners : p # o /\ Keeps(p) =>
              vol'[CurVol(p)].status = vol[CurVol(p)].status
  BY <1>2
<1>3. CASE /\ dev' = [dev EXCEPT ![CurHost(o)] = @ \cup {CurVol(o)}]
           /\ conn' = conn \cup {th[o].cur[2]} /\ Goto(o, "attach")
  <2>1. /\ th'[o].pc = "attach" /\ th'[o].cur = th[o].cur
        /\ \A q \in Owners : q # o => th'[q] = th[q]
    BY <1>3, <1>t, GotoType DEF PCs
  <2>2. /\ \A h \in Hosts : dev[h] \subseteq dev'[h]
        /\ CurVol(o) \in dev'[HostOf[o]]
    BY <1>3, <1>c, <1>t
  <2>3. \A n \in Mounts : n \notin MountsOf(o) => (n[2] \in conn' <=> n[2] \in conn)
    BY <1>3, <1>c, RowApart
  <2>4. Beside(o)
    BY <1>2, <2>1, <2>3, BesideStep
  <2>5. Grows
    BY <1>2, <2>2 DEF Grows
  <2>6. /\ Existing(o)' /\ Lasts(o)'
        /\ \A p \in Owners : p # o => Cut(p, o)'
    BY <1>2, <2>4, <2>5, AttachSame
  <2>7. CurVol(o)' = CurVol(o)
    BY <2>1 DEF CurVol
  <2>8. Unmounted(o)'
    BY <1>2, <1>3, <2>1 DEF IInv, Inv, Unmounted, MountsOf, Leaving
  <2>9. Reached(o)'
    <3>1. CurVol(o) \notin rolled => HostOf[o] \in vol[CurVol(o)].exports
      BY <1>2 DEF IInv, Inv, Reached
    <3> QED BY <1>2, <2>1, <2>2, <2>7, <3>1 DEF Reached, Connected
  <2>10. th'[o].pc \in Attaching \cup {"undo", "begin"}
    BY <2>1 DEF Attaching
  <2>11. own'[o].state # "none"
    BY <1>2, Requested
  <2> QED BY <1>1, <1>s, <2>4, <2>5, <2>6, <2>8, <2>9, <2>10, <2>11, AttachOn
<1>4. CASE Undoing(o, <<"terminate">>) /\ UNCHANGED <<dev, conn>>
  <2>1. <<"terminate">> \in Seq(UndoSteps)
    BY DEF UndoSteps
  <2>2. /\ th'[o].pc = "undo" /\ th'[o].cur = th[o].cur
        /\ \A q \in Owners : q # o => th'[q] = th[q]
    BY <1>4, <1>t, <2>1, UndoingType
  <2>3. Beside(o) /\ Grows
    BY <1>2, <1>4, <2>2 DEF Beside, Grows
  <2> QED BY <1>1, <1>2, <1>4, <2>2, <2>3, UndoingInv
<1> QED BY <1>3, <1>4 DEF ConnectVolume

LEMMA CinderAttachInv ==
    ASSUME IInv, NEW o \in Owners, CinderAttach(o)
    PROVE  Inv'
<1>t. th \in [Owners -> Thread] /\ vol \in [Volumes -> Volume]
  BY DEF IInv, TypeOK
<1>1. TypeOK'
  BY AttachWork DEF IInv
<1>2. /\ UNCHANGED <<dev, mounted, maps, conn, own, rolled>>
      /\ th[o].pc = "attach" /\ th[o].pc \in Attaching
  BY DEF CinderAttach, Attaching
<1>c. CurVol(o) \in Volumes
  BY <1>2, CurType DEF IInv, Works
<1>3. \A u \in Volumes :
         /\ vol'[u].exports = vol[u].exports
         /\ vol'[u].status = vol[u].status \/
              (Attachable(u) /\ vol'[u].status = "in-use")
  <2>1. \/ UNCHANGED vol
        \/ /\ Attachable(CurVol(o))
           /\ vol' = [vol EXCEPT ![CurVol(o)] =
                        [vol[CurVol(o)] EXCEPT !.status = "in-use",
                                !.attached = @ \cup {th[o].cur[1]}]]
    BY DEF CinderAttach
  <2>2. CASE UNCHANGED vol
    BY <2>2
  <2>3. CASE /\ Attachable(CurVol(o))
             /\ vol' = [vol EXCEPT ![CurVol(o)] =
                        [vol[CurVol(o)] EXCEPT !.status = "in-use",
                                !.attached = @ \cup {th[o].cur[1]}]]
    <3> DEFINE w == [vol[CurVol(o)] EXCEPT !.status = "in-use",
                                !.attached = @ \cup {th[o].cur[1]}]
    <3>1. w.status = "in-use" /\ w.exports = vol[CurVol(o)].exports
      BY <1>c, <1>t DEF Volume
    <3>2. vol' = [vol EXCEPT ![CurVol(o)] = w]
      BY <2>3
    <3> HIDE DEF w
    <3> QED BY <1>c, <1>t, <2>3, <3>1, <3>2
  <2> QED BY <2>1, <2>2, <2>3
<1>4. /\ \A q \in Owners : q # o => th'[q] = th[q]
      /\ th'[o].pc \in {"mount", "undo"} /\ th'[o].cur = th[o].cur
  <2>1. CASE Goto(o, "mount")
    BY <1>t, <2>1, GotoType DEF PCs
  <2>2. CASE Undoing(o, <<"disconnect", "terminate", "detach">>)
    <3>1. <<"disconnect", "terminate", "detach">> \in Seq(UndoSteps)
      BY DEF UndoSteps
    <3> QED BY <1>t, <2>2, <3>1, UndoingType
  <2> QED BY <2>1, <2>2 DEF CinderAttach
<1>5. \A v \in Volumes : vol[v].status = "none" <=> vol'[v].status = "none"
  BY <1>3 DEF Attachable, IsAvailable
<1>6. Beside(o)
  BY <1>2, <1>4, <1>5, BesideStep
<1>7. Grows
  BY <1>2, <1>3 DEF Grows
<1>8. ASSUME NEW p \in Owners, p # o, Keeps(p)
      PROVE  vol'[CurVol(p)].status = vol[CurVol(p)].status
  <2>1. CurVol(p) \in Volumes /\ vol[CurVol(p)].status = "detaching"
    BY <1>8, DeletableFree
  <2>2. ~Attachable(CurVol(p))
    BY <2>1 DEF Attachable, IsAvailable
  <2> QED BY <1>3, <2>1, <2>2
<1>9. CASE th'[o].pc = "mount"
  <2>1. /\ Existing(o)' /\ Lasts(o)'
        /\ \A p \in Owners : p # o => Cut(p, o)'
    BY <1>2, <1>6, <1>7, AttachSame
  <2>2. CurVol(o)' = CurVol(o)
    BY <1>4 DEF CurVol
  <2>3. Unmounted(o)' /\ Reached(o)'
    BY <1>2, <1>3, <1>4, <1>9, <1>c, <2>2
       DEF IInv, Inv, Unmounted, Reached, Connected, MountsOf, Leaving
  <2>4. th'[o].pc \in Attaching \cup {"undo", "begin"}
    BY <1>9 DEF Attaching
  <2>5. own'[o].state # "none"
    BY <1>2, Requested
  <2> QED BY <1>1, <1>6, <1>7, <1>8, <2>1, <2>3, <2>4, <2>5, AttachOn
<1>10. CASE th'[o].pc = "undo"
  BY <1>1, <1>2, <1>4, <1>6, <1>7, <1>8, <1>10, UndoingInv
<1> QED BY <1>4, <1>9, <1>10

LEMMA MountInv ==
    ASSUME IInv, NEW o \in Owners, MountDevice(o)
    PROVE  Inv'
<1>t. th \in [Owners -> Thread] /\ th[o] \in Thread
  BY DEF IInv, TypeOK
<1>1. TypeOK'
  BY MountWork DEF IInv
<1>2. /\ UNCHANGED <<vol, dev, maps, conn, own, rolled>>
      /\ th[o].pc = "mount" /\ th[o].pc \in Attaching /\ th[o].pc # "reserve"
  BY DEF MountDevice, Attaching
<1>c. th[o].cur \in MountsOf(o)
  BY <1>2, CurType DEF IInv, Works
<1>g. Grows
  BY <1>2 DEF Grows
<1>s. \A p \in Owners : p # o /\ Keeps(p) =>
              vol'[CurVol(p)].status = vol[CurVol(p)].status
  BY <1>2
<1>i. Existing(o) /\ Lasts(o) /\ Unmounted(o) /\ Reached(o)
  BY DEF IInv, Inv
<1>m. \A m : m \in MountsOf(o)' <=> m \in MountsOf(o)
  BY DEF MountsOf
<1>n. own'[o].state # "none"
  BY <1>2, Requested
<1>3. CASE /\ mounted' = mounted \cup {th[o].cur[2]}
           /\ Becomes(o, [th[o] EXCEPT !.pc = "next", !.cur = NoMap])
  <2>1. th'[o].pc = "next" /\ \A q \in Owners : q # o => th'[q] = th[q]
    <3>1. [th[o] EXCEPT !.pc = "next", !.cur = NoMap].pc = "next"
      BY <1>t DEF Thread
    <3> QED BY <1>3, <1>t, <3>1, BecomesType
  <2>2. \A n \in Mounts : n \notin MountsOf(o) =>
              (n[2] \in mounted' <=> n[2] \in mounted)
    BY <1>3, <1>c, RowApart
  <2>3. Beside(o)
    BY <1>2, <2>1, <2>2, BesideStep
  <2>4. Existing(o)'
    BY <1>2, <1>i, <1>m DEF Existing
  <2>5. Lasts(o)'
    <3> SUFFICES ASSUME NEW n \in maps, n \in MountsOf(o), n[2] \in mounted',
                        VolumeOf[n[2]] \notin rolled
                 PROVE  Connected(VolumeOf[n[2]], HostOf[o])
      BY <1>2, <1>m DEF Lasts, Connected
    <3>1. CASE n[2] \in mounted
      BY <1>i, <3>1 DEF Lasts
    <3>2. CASE n[2] = th[o].cur[2]
      BY <1>2, <1>i, <3>2 DEF Reached, CurVol
    <3> QED BY <1>3, <3>1, <3>2
  <2>6. Unmounted(o)' /\ Reached(o)'
    BY <1>2, <1>3, <1>i, <1>m, <2>1 DEF Unmounted, Reached, Leaving
  <2>7. ASSUME NEW p \in Owners, p # o PROVE Cut(p, o)'
    <3>1. th'[p] = th[p] /\ (Keeps(p)' => Keeps(p)) /\ CurVol(p)' = CurVol(p)
      BY <2>3, <2>7 DEF Beside, Keeps, CurVol
    <3>2. th[o].pc \notin {"reserve", "undo"}
      BY <1>2
    <3> QED BY <1>2, <1>m, <2>7, <3>1, <3>2, CutElsewhere DEF Cut
  <2>8. th'[o].pc \in Attaching \cup {"undo", "begin"}
    BY <2>1 DEF Attaching
  <2> QED BY <1>1, <1>g, <1>n, <1>s, <2>3, <2>4, <2>5, <2>6, <2>7, <2>8, AttachOn
<1>4. CASE /\ Becomes(o, [th[o] EXCEPT !.pc = "begin", !.why = "attach"])
           /\ UNCHANGED mounted
  <2>1. /\ th'[o].pc = "begin" /\ th'[o].cur = th[o].cur
        /\ \A q \in Owners : q # o => th'[q] = th[q]
    <3> DEFINE t == [th[o] EXCEPT !.pc = "begin", !.why = "attach"]
    <3>1. t.pc = "begin" /\ t.cur = th[o].cur
      BY <1>t DEF Thread
    <3>2. Becomes(o, t)
      BY <1>4
    <3> HIDE DEF t
    <3> QED BY <1>t, <3>1, <3>2, BecomesType
  <2>2. Beside(o)
    BY <1>2, <1>4, <2>1 DEF Beside
  <2>3. /\ Existing(o)' /\ Lasts(o)'
        /\ \A p \in Owners : p # o => Cut(p, o)'
    BY <1>2, <1>4, <1>g, <2>2, AttachSame
  <2>4. Unmounted(o)' /\ Reached(o)'
    BY <1>2, <1>4, <1>i, <2>1 DEF Unmounted, Reached, Attaching
  <2>5. th'[o].pc \in Attaching \cup {"undo", "begin"}
    BY <2>1
  <2> QED BY <1>1, <1>g, <1>n, <1>s, <2>2, <2>3, <2>4, <2>5, AttachOn
<1> QED BY <1>3, <1>4 DEF MountDevice

LEMMA UndoInv ==
    ASSUME IInv, NEW o \in Owners, Undo(o)
    PROVE  Inv'
<1>1. TypeOK'
  BY UndoWork DEF IInv
<1>2. UNCHANGED <<mounted, maps, conn, own>> /\ th[o].pc = "undo"
  BY DEF Undo
<1>3. /\ th'[o].pc \in {"undo", "drop"} /\ th'[o].cur = th[o].cur
      /\ \A q \in Owners : q # o => th'[q] = th[q]
  BY UndoThread DEF IInv
<1>c. /\ th[o].cur \in MountsOf(o) /\ th[o].cur \in maps
      /\ th[o].cur[1] \in Containers
      /\ CurVol(o) \in Volumes /\ CurHost(o) \in Hosts
  BY <1>2, CurType DEF IInv, Work, Held, Works
<1>r. /\ rolled \subseteq rolled'
      /\ \A n \in maps : n # th[o].cur /\ VolumeOf[n[2]] = CurVol(o)
            => CurVol(o) \in rolled'
  <2>1. rolled' = rolled \cup {v \in {CurVol(o)} : MapsOn(v) \ {th[o].cur} # {}}
    BY DEF Undo
  <2>2. ASSUME NEW n \in maps, n # th[o].cur, VolumeOf[n[2]] = CurVol(o)
        PROVE  CurVol(o) \in rolled'
    <3>1. n \in MapsOn(CurVol(o)) \ {th[o].cur}
      BY <2>2 DEF MapsOn
    <3>2. MapsOn(CurVol(o)) \ {th[o].cur} # {}
      BY <3>1
    <3> QED BY <2>1, <3>2
  <2> QED BY <2>1, <2>2
<1>4. /\ \A v \in Volumes : v # CurVol(o) => vol'[v] = vol[v]
      /\ \A h \in Hosts, v \in Volumes :
            v # CurVol(o) => (v \in dev'[h] <=> v \in dev[h])
      /\ vol'[CurVol(o)].status = "none" => vol[CurVol(o)].status = "none"
  <2>1. CASE \E s \in {Head(th[o].undo)} : UndoStep(o, s)
    BY <1>c, <2>1, UndoStepType DEF IInv
  <2>2. CASE UNCHANGED <<vol, dev>>
    BY <2>2
  <2> QED BY <2>1, <2>2 DEF Undo
<1>5. vol[CurVol(o)].status # "none"
  BY <1>c DEF IInv, Inv, Existing, CurVol
<1>6. \A v \in Volumes : vol[v].status = "none" <=> vol'[v].status = "none"
  BY <1>4, <1>5
<1>7. Beside(o)
  BY <1>2, <1>3, <1>6, <1>r, BesideStep
<1>8. th'[o].pc \notin Leaving /\ th'[o].pc \notin Attaching
  BY <1>3 DEF Leaving, Attaching
<1>9. \A p \in Owners : Alone(o, p)' /\ Alone(p, o)' /\ Cut(o, p)'
  BY <1>8 DEF Alone, Cut, Keeps
<1>10. ASSUME NEW p \in Owners PROVE Lasts(p)'
  <2> SUFFICES ASSUME NEW m \in maps, m \in MountsOf(p), m[2] \in mounted,
                      VolumeOf[m[2]] \notin rolled'
               PROVE  Connected(VolumeOf[m[2]], HostOf[p])'
    BY <1>2 DEF Lasts, MountsOf
  <2>1. th[o].cur[2] \notin mounted
    BY <1>2 DEF IInv, Inv, Unmounted
  <2>2. VolumeOf[m[2]] # CurVol(o)
    BY <1>r, <2>1
  <2>3. VolumeOf[m[2]] \in Volumes /\ HostOf[p] \in Hosts
    BY MountType, VolumesAssumption DEF MountsOf
  <2>4. Connected(VolumeOf[m[2]], HostOf[p])
    BY <1>r DEF IInv, Inv, Lasts
  <2> QED BY <1>4, <2>2, <2>3, <2>4 DEF Connected
<1>11. Mine(o)'
  <2>1. own'[o].state # "none"
    BY <1>2, Requested
  <2>2. Existing(o)'
    <3> SUFFICES ASSUME NEW m \in MountsOf(o), m \in maps
                 PROVE  vol'[VolumeOf[m[2]]].status # "none"
      BY <1>2, <1>8 DEF Existing, MountsOf
    <3>1. VolumeOf[m[2]] \in Volumes
      BY MountType DEF MountsOf
    <3>2. vol[VolumeOf[m[2]]].status # "none"
      BY DEF IInv, Inv, Existing
    <3> QED BY <1>6, <3>1, <3>2
  <2>3. Unmounted(o)'
    BY <1>2, <1>3, <1>8 DEF IInv, Inv, Unmounted
  <2>4. Reserved(o)' /\ Reached(o)' /\ Untouched(o)'
    BY <1>3, <1>8, <2>1 DEF Reserved, Keeps, Reached, Untouched
  <2> QED BY <1>10, <2>2, <2>3, <2>4 DEF Mine
<1>12. ASSUME NEW p \in Owners, p # o
       PROVE  Reserved(p)' /\ Reached(p)' /\ Cut(p, o)'
  <2>1. th'[p] = th[p] /\ (Keeps(p)' => Keeps(p)) /\ CurVol(p)' = CurVol(p)
    BY <1>7, <1>12 DEF Beside, Keeps, CurVol
  <2>2. th[p].pc \in Works /\ CurVol(p) \notin rolled' =>
           CurVol(p) \in Volumes /\ CurVol(p) # CurVol(o)
    <3> SUFFICES ASSUME th[p].pc \in Works, CurVol(p) \notin rolled'
                 PROVE  CurVol(p) \in Volumes /\ CurVol(p) # CurVol(o)
      OBVIOUS
    <3>1. th[p].cur \in maps /\ th[p].cur \in MountsOf(p) /\ CurVol(p) \in Volumes
      BY CurType DEF IInv, Work, Held
    <3>2. th[p].cur # th[o].cur
      BY <1>12, <1>c, <3>1 DEF MountsOf
    <3> QED BY <1>r, <3>1, <3>2 DEF CurVol
  <2>3. Reserved(p)'
    <3> SUFFICES ASSUME Keeps(p)' PROVE vol'[CurVol(p)].status = "detaching"
      BY <2>1 DEF Reserved
    <3>1. CurVol(p) # CurVol(o) /\ CurVol(p) \in Volumes
      BY <2>1, <2>2 DEF Keeps, Leaving, Works, Detaching
    <3>2. vol[CurVol(p)].status = "detaching"
      BY <2>1, DeletableFree
    <3> QED BY <1>4, <3>1, <3>2
  <2>4. Reached(p)'
    <3> SUFFICES ASSUME th[p].pc \in {"connect", "attach", "mount"},
                        CurVol(p) \notin rolled'
                 PROVE  /\ th[p].pc = "connect" =>
                              HostOf[p] \in vol'[CurVol(p)].exports
                        /\ th[p].pc # "connect" => Connected(CurVol(p), HostOf[p])'
      BY <2>1 DEF Reached
    <3>1. CurVol(p) # CurVol(o) /\ CurVol(p) \in Volumes
      BY <2>2 DEF Works
    <3>2. Reached(p) /\ CurVol(p) \notin rolled /\ HostOf[p] \in Hosts
      BY <1>r, VolumesAssumption DEF IInv, Inv
    <3>3. CurVol(p)' = CurVol(p)
      BY <2>1
    <3> QED BY <1>4, <3>1, <3>2, <3>3 DEF Reached, Connected
  <2>5. Cut(p, o)'
    <3>1. Cut(p, o)
      BY DEF IInv, Inv
    <3>2. Keeps(p)' => CurVol(p) # CurVol(o)
      BY <2>1, <2>2 DEF Keeps, Leaving, Works, Detaching
    <3>3. \A m : m \in MountsOf(o)' <=> m \in MountsOf(o)
      BY DEF MountsOf
    <3> QED BY <1>2, <2>1, <3>1, <3>2, <3>3 DEF Cut, CurVol
  <2> QED BY <2>3, <2>4, <2>5
<1> QED BY <1>1, <1>7, <1>9, <1>10, <1>11, <1>12, LocalStep

-----------------------------------------------------------------------------
(* The requests, and Cinder's own steps                                     *)

\* The volumes made for a request are of that request alone.
LEMMA AutoApart ==
    ASSUME NEW o \in Owners, NEW p \in Owners, p # o, NEW v \in AutoVols(p)
    PROVE  v \notin AutoVols(o)
<1> SUFFICES ASSUME v \in AutoVols(o) PROVE FALSE
  OBVIOUS
<1>1. PICK m \in MountsOf(p) : m[2] \in AutoRemove /\ v = VolumeOf[m[2]]
  BY DEF AutoVols
<1>2. PICK n \in MountsOf(o) : n[2] \in AutoRemove /\ v = VolumeOf[n[2]]
  BY DEF AutoVols
<1>3. m[2] = n[2]
  BY <1>1, <1>2, VolumesAssumption
<1>4. m \in Mounts /\ m \notin MountsOf(o)
  BY Apart
<1> QED BY <1>2, <1>3, <1>4, RowApart

\* A request touches the volumes made for it, which nobody else knows.
LEMMA RequestBeside ==
    ASSUME IInv, NEW o \in Owners, own[o].state = "none",
           UNCHANGED <<dev, mounted, maps, conn, rolled>>,
           \A q \in Owners : q # o => th'[q] = th[q],
           \A q \in Owners : own'[q].state = "none" => own[q].state = "none",
           \A v \in Volumes :
              /\ vol'[v].exports = vol[v].exports
              /\ vol'[v] = vol[v] \/ (v \in AutoVols(o) /\ vol'[v].status # "none")
    PROVE  /\ Beside(o) /\ Grows
           /\ \A p \in Owners : p # o /\ Keeps(p) =>
                 vol'[CurVol(p)].status = vol[CurVol(p)].status
<1>1. \A v \in AutoVols(o) : vol[v].status = "none"
  BY DEF IInv, Inv, Untouched
<1>2. ASSUME NEW p \in Owners, p # o, NEW v \in AutoVols(p)
      PROVE  vol'[v].status = vol[v].status
  <2>1. v \notin AutoVols(o)
    BY <1>2, AutoApart
  <2>2. v \in Volumes
    BY MountType DEF AutoVols, MountsOf
  <2> QED BY <2>1, <2>2
<1>3. Beside(o)
  BY <1>2 DEF Beside
<1>4. ASSUME NEW p \in Owners, p # o, Keeps(p)
      PROVE  vol'[CurVol(p)].status = vol[CurVol(p)].status
  BY <1>1, <1>4, DeletableFree
<1> QED BY <1>3, <1>4 DEF Grows

LEMMA RequestInv ==
    ASSUME IInv, NEW o \in Owners, Request(o)
    PROVE  Inv'
<1>t. /\ th \in [Owners -> Thread] /\ vol \in [Volumes -> Volume]
      /\ own \in [Owners -> Owner]
  BY DEF IInv, TypeOK
<1>1. TypeOK'
  BY RequestType DEF IInv, API
<1>2. /\ UNCHANGED <<dev, mounted, maps, conn, rolled>> /\ own[o].state = "none"
      /\ vol' = Created(AutoVols(o))
      /\ \A m \in MountsOf(o) : Usable(m[2])
  BY DEF Request
<1>3. /\ own'[o].state # "none"
      /\ \A q \in Owners : q # o => own'[q] = own[q]
  BY <1>t DEF Request, Owner
<1>4. \A v \in Volumes :
         /\ vol'[v].exports = vol[v].exports
         /\ v \notin AutoVols(o) => vol'[v] = vol[v]
         /\ v \in AutoVols(o) => vol'[v].status = "creating"
  BY <1>2, <1>t DEF Created, Volume
<1>5. /\ th[o].pc = "idle"
      /\ \A m \in MountsOf(o) : m \notin maps /\ m[2] \notin mounted
  BY <1>2 DEF IInv, Inv, Untouched
<1>6. CASE Becomes(o, [th[o] EXCEPT !.pc = "wait", !.todo = MountsOf(o)])
  <2>1. th'[o].pc = "wait" /\ \A q \in Owners : q # o => th'[q] = th[q]
    <3>1. [th[o] EXCEPT !.pc = "wait", !.todo = MountsOf(o)].pc = "wait"
      BY <1>t DEF Thread
    <3> QED BY <1>6, <1>t, <3>1, BecomesType
  <2>2. /\ Beside(o) /\ Grows
        /\ \A p \in Owners : p # o /\ Keeps(p) =>
              vol'[CurVol(p)].status = vol[CurVol(p)].status
    BY <1>2, <1>3, <1>4, <2>1, RequestBeside
  <2>m. \A m : m \in MountsOf(o)' <=> m \in MountsOf(o)
    BY DEF MountsOf
  <2>3. Existing(o)'
    <3> SUFFICES ASSUME NEW m \in MountsOf(o)
                 PROVE  vol'[VolumeOf[m[2]]].status # "none"
      BY <2>m DEF Existing
    <3>1. VolumeOf[m[2]] \in Volumes
      BY MountType DEF MountsOf
    <3>2. VolumeOf[m[2]] \in AutoVols(o) \/ vol[VolumeOf[m[2]]].status # "none"
      BY <1>2 DEF Usable, AutoVols
    <3> QED BY <1>4, <3>1, <3>2
  <2>4. Unmounted(o)' /\ Reached(o)' /\ Lasts(o)'
    BY <1>2, <1>5, <2>1, <2>m DEF Unmounted, Reached, Lasts, Leaving
  <2>5. \A p \in Owners : p # o => Cut(p, o)'
    BY <1>2, <1>5, <2>m DEF Cut
  <2>6. th'[o].pc \in Attaching \cup {"undo", "begin"}
    BY <2>1 DEF Attaching
  <2> QED BY <1>1, <1>3, <2>2, <2>3, <2>4, <2>5, <2>6, AttachOn
<1>7. CASE UNCHANGED th
  <2>1. /\ Beside(o) /\ Grows
        /\ \A p \in Owners : p # o /\ Keeps(p) =>
              vol'[CurVol(p)].status = vol[CurVol(p)].status
    BY <1>2, <1>3, <1>4, <1>7, RequestBeside
  <2>2. th'[o].pc \notin Busy /\ th[o].pc \notin {"reserve", "undo"}
    BY <1>5, <1>7 DEF Busy, Attaching, Leaving
  <2> QED BY <1>1, <1>2, <1>3, <2>1, <2>2, QuietStep
<1> QED BY <1>6, <1>7 DEF Request

LEMMA RefusedInv ==
    ASSUME IInv, NEW o \in Owners, RequestRefused(o)
    PROVE  Inv'
<1>t. /\ th \in [Owners -> Thread] /\ vol \in [Volumes -> Volume]
      /\ own \in [Owners -> Owner]
  BY DEF IInv, TypeOK
<1>1. TypeOK'
  BY RequestType DEF IInv, API
<1>2. /\ UNCHANGED <<dev, mounted, maps, conn, th, rolled>>
      /\ own[o].state = "none"
  BY DEF RequestRefused
<1>3. /\ own'[o].state # "none"
      /\ \A q \in Owners : q # o => own'[q] = own[q]
  BY <1>t DEF RequestRefused, Owner
<1>4. \A v \in Volumes :
         /\ vol'[v].exports = vol[v].exports
         /\ vol'[v] = vol[v] \/ (v \in AutoVols(o) /\ vol'[v].status # "none")
  <2>1. PICK vs \in SUBSET AutoVols(o), s \in {"creating", "deleting"} :
           vol' = [v \in Volumes |->
                    IF v \in vs THEN [vol[v] EXCEPT !.status = s] ELSE vol[v]]
    BY DEF RequestRefused, Created
  <2> QED BY <1>t, <2>1 DEF Volume
<1>5. th[o].pc = "idle"
  BY <1>2 DEF IInv, Inv, Untouched
<1>6. /\ Beside(o) /\ Grows
      /\ \A p \in Owners : p # o /\ Keeps(p) =>
            vol'[CurVol(p)].status = vol[CurVol(p)].status
  BY <1>2, <1>3, <1>4, RequestBeside
<1>7. th'[o].pc \notin Busy /\ th[o].pc \notin {"reserve", "undo"}
  BY <1>2, <1>5 DEF Busy, Attaching, Leaving
<1> QED BY <1>1, <1>2, <1>3, <1>6, <1>7, QuietStep

LEMMA RequestDeleteInv ==
    ASSUME IInv, NEW o \in Owners, RequestDelete(o)
    PROVE  Inv'
<1>t. th \in [Owners -> Thread] /\ own \in [Owners -> Owner]
  BY DEF IInv, TypeOK
<1>1. TypeOK'
  BY RequestType DEF IInv, API
<1>2. /\ UNCHANGED <<vol, dev, mounted, maps, conn, rolled>>
      /\ own[o].state \in {"ready", "error"} /\ th[o].pc = "idle"
  BY DEF RequestDelete
<1>3. PICK f \in BOOLEAN :
         /\ own' = [own EXCEPT ![o] = [own[o] EXCEPT !.deleting = TRUE,
                                                !.forced = @ \/ f]]
         /\ Becomes(o, [Idle EXCEPT !.pc = "docker",
                          !.why = IF f THEN "force" ELSE "delete"])
  BY DEF RequestDelete
<1>4. /\ own'[o].state = own[o].state
      /\ \A q \in Owners : q # o => own'[q] = own[q]
  <2> DEFINE w == [own[o] EXCEPT !.deleting = TRUE, !.forced = @ \/ f]
  <2>1. w.state = own[o].state
    BY <1>t DEF Owner
  <2>2. own' = [own EXCEPT ![o] = w]
    BY <1>3
  <2> HIDE DEF w
  <2> QED BY <1>t, <2>1, <2>2
<1>5. /\ th'[o].pc = "docker"
      /\ \A q \in Owners : q # o => th'[q] = th[q]
  <2> DEFINE t == [Idle EXCEPT !.pc = "docker",
                          !.why = IF f THEN "force" ELSE "delete"]
  <2>1. t.pc = "docker"
    BY DEF Idle
  <2>2. Becomes(o, t)
    BY <1>3
  <2> HIDE DEF t
  <2> QED BY <1>t, <2>1, <2>2, BecomesType
<1>6. Beside(o) /\ Grows
  BY <1>2, <1>4, <1>5 DEF Beside, Grows
<1>7. th'[o].pc \notin Busy /\ th[o].pc \notin {"reserve", "undo"}
  BY <1>2, <1>5 DEF Busy, Attaching, Leaving
<1>8. own'[o].state # "none"
  BY <1>2, <1>4
<1> QED BY <1>1, <1>2, <1>6, <1>7, <1>8, QuietStep

\* Only the owner's row changes, whatever its thread is doing.
LEMMA HostlessInv ==
    ASSUME IInv, NEW o \in Owners, DeleteHostless(o)
    PROVE  Inv'
<1>1. UNCHANGED <<vol, dev, mounted, maps, conn, th, rolled>>
  BY DEF DeleteHostless
<1>2. \A q \in Owners : own'[q].state = "none" => own[q].state = "none"
  BY DEF DeleteHostless, IInv, TypeOK, Owner
<1>3. ASSUME NEW p \in Owners PROVE Untouched(p)'
  BY <1>1, <1>2 DEF IInv, Inv, Untouched, MountsOf, AutoVols
<1> QED BY <1>1, <1>3 DEF IInv, Inv, Existing, Unmounted, Reserved, Keeps, CurVol,
        Alone, Cut, Reached, Lasts, Connected, MountsOf

LEMMA CinderInv ==
    ASSUME IInv, NEW v \in Volumes, CinderCreates(v) \/ CinderDeletes(v)
    PROVE  Inv'
<1>1. UNCHANGED <<dev, mounted, maps, conn, own, th, rolled>>
  BY DEF CinderCreates, CinderDeletes
<1>2. \A u \in Volumes :
         /\ vol'[u].exports = vol[u].exports
         /\ vol[u].status = "none" <=> vol'[u].status = "none"
         /\ vol[u].status = "detaching" => vol'[u].status = "detaching"
  <2>1. /\ vol[v].status \in {"creating", "deleting"}
        /\ \E s \in {"available", "error", "gone"} : SetStatus(v, s)
    BY DEF CinderCreates, CinderDeletes
  <2>2. PICK s \in {"available", "error", "gone"} : SetStatus(v, s)
    BY <2>1
  <2>3. s \in Statuses
    BY DEF Statuses
  <2>4. /\ vol'[v].status = s
        /\ \A u \in Volumes : /\ vol'[u].exports = vol[u].exports
                              /\ u # v => vol'[u] = vol[u]
    BY <2>2, <2>3, SetStatusType DEF IInv, TypeOK
  <2> QED BY <2>1, <2>4
<1>m. \A p \in Owners : \A m \in MountsOf(p) : VolumeOf[m[2]] \in Volumes
  BY MountType DEF MountsOf
<1>3. ASSUME NEW p \in Owners PROVE Untouched(p)' /\ Existing(p)' /\ Unmounted(p)'
  <2>1. Untouched(p) /\ Existing(p) /\ Unmounted(p)
    BY DEF IInv, Inv
  <2>2. AutoVols(p) \subseteq Volumes
    BY MountType DEF AutoVols, MountsOf
  <2>3. Untouched(p)'
    BY <1>1, <1>2, <2>1, <2>2 DEF Untouched, MountsOf, AutoVols
  <2>4. Existing(p)'
    BY <1>1, <1>2, <1>m, <2>1 DEF Existing, MountsOf
  <2>5. Unmounted(p)'
    BY <1>1, <2>1 DEF Unmounted, MountsOf
  <2> QED BY <2>3, <2>4, <2>5
<1>4. ASSUME NEW p \in Owners PROVE Reserved(p)' /\ Reached(p)' /\ Lasts(p)'
  <2>1. CurVol(p)' = CurVol(p) /\ (Keeps(p)' <=> Keeps(p))
    BY <1>1 DEF CurVol, Keeps
  <2>2. Reserved(p)'
    BY <1>2, <2>1, DeletableFree DEF Reserved
  <2>3. th[p].pc \in {"connect", "attach", "mount"} => CurVol(p) \in Volumes
    BY CurType DEF IInv, Works
  <2>4. Reached(p)'
    BY <1>1, <1>2, <2>1, <2>3 DEF IInv, Inv, Reached, Connected
  <2>5. Lasts(p)'
    BY <1>1, <1>2, <1>m DEF IInv, Inv, Lasts, Connected, MountsOf
  <2> QED BY <2>2, <2>4, <2>5
<1>5. ASSUME NEW p \in Owners, NEW q \in Owners PROVE Alone(p, q)' /\ Cut(p, q)'
  BY <1>1 DEF IInv, Inv, Alone, Cut, Keeps, CurVol, MountsOf
<1> QED BY <1>3, <1>4, <1>5 DEF Inv

LEMMA InvInit == Init => IInv
<1> SUFFICES ASSUME Init PROVE IInv
  OBVIOUS
<1>1. TypeOK /\ Work
  BY WorkInit
<1>2. \A o \in Owners : th[o].pc = "idle" /\ own[o].state = "none"
  BY DEF Init, Idle
<1>3. maps = {} /\ mounted = {}
  BY DEF Init
<1>4. \A o \in Owners : \A v \in AutoVols(o) : vol[v].status = "none"
  <2> SUFFICES ASSUME NEW o \in Owners, NEW v \in AutoVols(o)
               PROVE  vol[v].status = "none"
    OBVIOUS
  <2>1. v \in Volumes /\ v \in AutoVolumes
    BY MountType DEF AutoVols, AutoVolumes, MountsOf
  <2> QED BY <2>1 DEF Init
<1>5. ASSUME NEW o \in Owners PROVE Mine(o) /\ \A p \in Owners : Alone(o, p) /\ Cut(o, p)
  <2>1. Untouched(o) /\ Existing(o) /\ Lasts(o)
    BY <1>2, <1>3, <1>4 DEF Untouched, Existing, Lasts, Attaching
  <2>2. ~Keeps(o)
    BY <1>2 DEF Keeps, Leaving
  <2>3. Unmounted(o) /\ Reached(o)
    BY <1>2, <1>3 DEF Unmounted, Reached, Leaving, Attaching
  <2>4. Reserved(o) /\ \A p \in Owners : Alone(o, p) /\ Cut(o, p)
    BY <2>2 DEF Reserved, Alone, Cut
  <2> QED BY <2>1, <2>3, <2>4 DEF Mine
<1> QED BY <1>1, <1>5 DEF IInv, Inv, Mine

LEMMA StepInv ==
    ASSUME IInv, NEW o \in Owners, Step(o)
    PROVE  Inv'
<1>1. CASE WaitAvailable(o)
  BY <1>1, WaitAvailableInv
<1>2. CASE WaitTimeout(o)
  BY <1>2, WaitTimeoutInv
<1>3. CASE AttachNext(o)
  BY <1>3, AttachNextInv
<1>4. CASE Reserve(o)
  BY <1>4, ReserveInv
<1>5. CASE InitializeConnection(o)
  BY <1>5, InitializeInv
<1>6. CASE ConnectVolume(o)
  BY <1>6, ConnectInv
<1>7. CASE CinderAttach(o)
  BY <1>7, CinderAttachInv
<1>8. CASE MountDevice(o)
  BY <1>8, MountInv
<1>9. CASE Undo(o)
  BY <1>9, UndoInv
<1>10. CASE DropMapping(o)
  BY <1>10, DropInv
<1>11. CASE \/ Build(o) \/ DockerDelete(o) \/ Failed(o) \/ Finish(o)
            \/ DeletionTimeout(o)
  BY <1>11, OwnerInv
<1>12. CASE DetachNext(o)
  BY <1>12, DetachNextInv
<1>13. CASE Unmount(o)
  BY <1>13, UnmountInv
<1>14. CASE BeginDetaching(o)
  BY <1>14, BeginInv
<1>15. CASE KeepConnection(o)
  BY <1>15, KeepInv
<1>16. CASE DisconnectVolume(o)
  BY <1>16, DisconnectInv
<1>17. CASE TerminateConnection(o)
  BY <1>17, TerminateInv
<1>18. CASE Detach(o)
  BY <1>18, DetachInv
<1>19. CASE DestroyMapping(o)
  BY <1>19, DestroyInv
<1>20. CASE DeleteVolume(o)
  BY <1>20, DeleteInv
<1> QED BY <1>1, <1>2, <1>3, <1>4, <1>5, <1>6, <1>7, <1>8, <1>9, <1>10, <1>11,
           <1>12, <1>13, <1>14, <1>15, <1>16, <1>17, <1>18, <1>19, <1>20 DEF Step

LEMMA InvStep == IInv /\ [Next]_vars => IInv'
<1> SUFFICES ASSUME IInv, [Next]_vars PROVE IInv'
  OBVIOUS
<1>1. TypeOK' /\ Work'
  BY WorkStep DEF IInv
<1>2. CASE UNCHANGED vars
  BY <1>2 DEF vars, IInv, Inv, Untouched, Existing, Unmounted, Reserved, Keeps,
     CurVol, Alone, Cut, Reached, Lasts, Connected, MountsOf, AutoVols, TypeOK,
     Work, Recorded, Held, Queued
<1>3. ASSUME NEW o \in Owners, API(o) PROVE Inv'
  BY <1>3, RequestInv, RefusedInv, RequestDeleteInv, HostlessInv DEF API
<1>4. ASSUME NEW o \in Owners, Step(o) PROVE Inv'
  BY <1>4, StepInv
<1>5. ASSUME NEW v \in Volumes, CinderCreates(v) \/ CinderDeletes(v) PROVE Inv'
  BY <1>5, CinderInv
<1> QED BY <1>1, <1>2, <1>3, <1>4, <1>5 DEF Next, IInv

\* A container whose volume is mounted keeps its host's connection to it,
\* whatever owners attach, detach, fail and are deleted on the same volume, in
\* any interleaving and with any of the modelled faults, unless the roll-back
\* of a failed attach met another mapping of the volume (detach_volume,
\* _volume_connection_keep).
THEOREM MountedStaysConnected == Spec => []MountedIsConnected
<1>1. Init => IInv
  BY InvInit
<1>2. IInv /\ [Next]_vars => IInv'
  BY InvStep
<1>3. IInv => MountedIsConnected
  <2> SUFFICES ASSUME IInv, NEW m \in maps, m[2] \in mounted,
                      VolumeOf[m[2]] \notin rolled
               PROVE  Connected(VolumeOf[m[2]], HostOfMap(m))
    BY DEF MountedIsConnected
  <2>1. m \in Mounts
    BY DEF IInv, TypeOK
  <2>2. OwnerOf[m[1]] \in Owners /\ m \in MountsOf(OwnerOf[m[1]])
    BY <2>1, MountType DEF MountsOf
  <2>3. Lasts(OwnerOf[m[1]])
    BY <2>2 DEF IInv, Inv
  <2> QED BY <2>2, <2>3 DEF Lasts, HostOfMap
<1> QED BY <1>1, <1>2, <1>3, PTL DEF Spec

-----------------------------------------------------------------------------
(* What a deletion releases                                                 *)

\* An owner whose attachments are those of its mappings: never deleted by
\* force, and on its way to a host or with one.  A creation that fails before
\* the claim leaves the owner without a host, and only the API removes it.
Clean(o) ==
    /\ ~own[o].forced
    /\ \/ own[o].host
       \/ th[o].pc \in Attaching \cup {"build"}
       \/ own[o].state = "none"

\* The owner gets its host when its volumes are attached; a deletion needs one,
\* and one by force is remembered.
Stage(o) ==
    /\ own[o].state = "none" => ~own[o].host
    /\ own[o].host => th[o].pc \notin Attaching \cup {"build", "undo", "drop"}
    /\ own[o].host /\ th[o].pc \in Detaching => th[o].why # "attach"
    /\ th[o].why = "delete" => own[o].host
    /\ th[o].why = "force" \/ th[o].then = "list" => own[o].forced

\* A deletion has every mapping of its owner before it.
Cover(o) ==
    th[o].why = "delete" =>
        /\ th[o].pc \in {"list", "delete"} => MapsOf(o) \subseteq th[o].todo
        /\ th[o].pc \in Detaching
              => MapsOf(o) \subseteq th[o].todo \cup {th[o].cur}
        /\ th[o].pc = "gone" => MapsOf(o) = {}

\* A row is detached with its last mapping.
Sole(o) ==
    th[o].pc \in {"unmount", "begin"} \cup Leaving =>
        \A n \in maps : n[2] = th[o].cur[2] => n = th[o].cur

\* The mappings of o, without the one its thread is about to remove.
Current(o) == {m \in MapsOf(o) : th[o].pc = "destroy" => m # th[o].cur}

\* The attachments of o to a volume, and the rows they may come from.
Attachments(o, v) == {c \in vol[v].attached : OwnerOf[c] = o}

Sources(o, v) ==
    {r \in conn : /\ VolumeOf[r] = v
                  /\ \E m \in Current(o) : m[2] = r
                  /\ th[o].pc = "attach" => r # th[o].cur[2]}

\* There are no more attachments than rows: a row whose container is not the
\* attached one is detached only when it is the volume's only attachment.
Bound(o) ==
    \A v \in Volumes :
        /\ IsFiniteSet(Attachments(o, v))
        /\ Cardinality(Attachments(o, v)) <= Cardinality(Sources(o, v))

\* What is mounted has a mapping.
Mapped(o) ==
    \A m \in MountsOf(o) : m[2] \in mounted => \E n \in Current(o) : n[2] = m[2]

Tidy(o) == Cover(o) /\ Sole(o) /\ Bound(o) /\ Mapped(o)

Released(o) ==
    /\ Stage(o)
    /\ own[o].state = "none" => \A v \in Volumes : Attachments(o, v) = {}
    /\ Clean(o) => Tidy(o)

\* The rows of the mappings are finitely many.
LEMMA RowsFinite ==
    ASSUME NEW S, \A r \in S : \E m \in Mounts : m[2] = r
    PROVE  IsFiniteSet(S)
<1> DEFINE D == {m \in Mounts : m[2] \in S}
<1> DEFINE f == [m \in D |-> m[2]]
<1>1. IsFiniteSet(D)
  <2>1. D \subseteq Mounts
    OBVIOUS
  <2> QED BY <2>1, FS_Subset, VolumesAssumption
<1>2. f \in Surjection(D, S)
  BY DEF Surjection
<1> HIDE DEF f, D
<1> QED BY <1>1, <1>2, FS_Surjection

LEMMA SourcesFinite ==
    ASSUME TypeOK, NEW o \in Owners, NEW v \in Volumes
    PROVE  IsFiniteSet(Sources(o, v))
<1>1. \A r \in Sources(o, v) : \E m \in Mounts : m[2] = r
  BY DEF Sources, Current, MapsOf, TypeOK
<1> QED BY <1>1, RowsFinite

LEMMA NewSourcesFinite ==
    ASSUME TypeOK', NEW o \in Owners, NEW v \in Volumes
    PROVE  IsFiniteSet(Sources(o, v)')
<1>1. \A r \in Sources(o, v)' : \E m \in Mounts : m[2] = r
  BY DEF Sources, Current, MapsOf, TypeOK
<1> QED BY <1>1, RowsFinite

\* A step that adds no attachment and takes away no row.
LEMMA BoundKeeps ==
    ASSUME TypeOK', NEW o \in Owners, Bound(o),
           \A v \in Volumes : /\ Attachments(o, v)' \subseteq Attachments(o, v)
                              /\ Sources(o, v) \subseteq Sources(o, v)'
    PROVE  Bound(o)'
<1> SUFFICES ASSUME NEW v \in Volumes
             PROVE  /\ IsFiniteSet(Attachments(o, v)')
                    /\ Cardinality(Attachments(o, v)')
                          <= Cardinality(Sources(o, v)')
  BY DEF Bound
<1> PICK a, b, c, d : /\ a = Attachments(o, v) /\ b = Attachments(o, v)'
                      /\ c = Sources(o, v) /\ d = Sources(o, v)'
  OBVIOUS
<1>1. IsFiniteSet(a) /\ Cardinality(a) <= Cardinality(c) /\ b \subseteq a
  BY DEF Bound
<1>2. IsFiniteSet(d) /\ c \subseteq d
  BY NewSourcesFinite
<1>3. IsFiniteSet(b) /\ Cardinality(b) <= Cardinality(a)
  BY <1>1, FS_Subset
<1>4. IsFiniteSet(c) /\ Cardinality(c) <= Cardinality(d)
  BY <1>2, FS_Subset
<1>5. /\ Cardinality(a) \in Nat /\ Cardinality(b) \in Nat
      /\ Cardinality(c) \in Nat /\ Cardinality(d) \in Nat
  BY <1>1, <1>2, <1>3, <1>4, FS_CardinalityType
<1> QED BY <1>1, <1>3, <1>4, <1>5

LEMMA MappedKeeps ==
    ASSUME NEW o \in Owners, Mapped(o),
           \A m \in MountsOf(o) : m[2] \in mounted' => m[2] \in mounted,
           \A m \in MountsOf(o), n \in Current(o) :
              m[2] \in mounted' /\ n[2] = m[2] =>
                 \E k \in Current(o)' : k[2] = m[2]
    PROVE  Mapped(o)'
<1>1. \A m : m \in MountsOf(o)' <=> m \in MountsOf(o)
  BY DEF MountsOf
<1> QED BY <1>1 DEF Mapped

\* A step after which o neither attaches nor removes a mapping.
LEMMA RowsKeep ==
    ASSUME TypeOK, TypeOK', NEW o \in Owners, Bound(o), Mapped(o),
           \A m \in MapsOf(o) : m \in maps',
           \A m \in MountsOf(o) : /\ m[2] \in conn => m[2] \in conn'
                                  /\ m[2] \in mounted' => m[2] \in mounted,
           th'[o].pc \notin {"attach", "destroy"},
           \A v \in Volumes : vol'[v].attached \subseteq vol[v].attached
    PROVE  Bound(o)' /\ Mapped(o)'
<1>1. \A m \in Current(o) : m \in Current(o)' /\ m \in MountsOf(o)
  BY DEF Current, MapsOf, MountsOf, TypeOK
<1>2. ASSUME NEW v \in Volumes
      PROVE  /\ Attachments(o, v)' \subseteq Attachments(o, v)
             /\ Sources(o, v) \subseteq Sources(o, v)'
  <2>1. Attachments(o, v)' \subseteq Attachments(o, v)
    BY DEF Attachments
  <2>2. Sources(o, v) \subseteq Sources(o, v)'
    BY <1>1 DEF Sources
  <2> QED BY <2>1, <2>2
<1>3. Bound(o)'
  BY <1>2, BoundKeeps
<1>4. Mapped(o)'
  BY <1>1, MappedKeeps
<1> QED BY <1>3, <1>4

\* A step of o beside the others.
Aside(o) ==
    /\ \A p \in Owners : p # o => th'[p] = th[p] /\ own'[p] = own[p]
    /\ \A m \in Mounts : m \notin MountsOf(o) =>
          /\ m \in maps' <=> m \in maps
          /\ m[2] \in mounted' => m[2] \in mounted
          /\ m[2] \in conn' <=> m[2] \in conn
    /\ \A v \in Volumes : \A c \in vol'[v].attached :
          c \in vol[v].attached \/ OwnerOf[c] = o

LEMMA OtherReleased ==
    ASSUME IInv, TypeOK', NEW o \in Owners, NEW p \in Owners, p # o, Aside(o),
           Released(p)
    PROVE  Released(p)'
<1>t. TypeOK /\ Held(p)
  BY DEF IInv, Work
<1>1. /\ th'[p] = th[p] /\ own'[p] = own[p]
      /\ \A m \in MountsOf(p) : /\ m \in Mounts
                                /\ m \in maps' <=> m \in maps
                                /\ m[2] \in mounted' => m[2] \in mounted
                                /\ m[2] \in conn' <=> m[2] \in conn
  BY Apart DEF Aside
<1>2. \A m : m \in MapsOf(p)' <=> m \in MapsOf(p)
  BY <1>1, <1>t DEF MapsOf, MountsOf, TypeOK
<1>3. MapsOf(p)' = MapsOf(p)
  BY <1>2
<1>4. Current(p)' = Current(p)
  BY <1>1, <1>3 DEF Current
<1>5. \A m \in Current(p) : m \in MountsOf(p)
  BY <1>t DEF Current, MapsOf, MountsOf, TypeOK
<1>6. ASSUME NEW v \in Volumes
      PROVE  /\ Attachments(p, v)' \subseteq Attachments(p, v)
             /\ Sources(p, v) \subseteq Sources(p, v)'
  <2>1. Attachments(p, v)' \subseteq Attachments(p, v)
    BY DEF Attachments, Aside
  <2>2. Sources(p, v) \subseteq Sources(p, v)'
    BY <1>1, <1>4, <1>5 DEF Sources
  <2> QED BY <2>1, <2>2
<1>7. Stage(p)'
  BY <1>1 DEF Released, Stage
<1>8. own'[p].state = "none" => \A v \in Volumes : Attachments(p, v)' = {}
  BY <1>1, <1>6 DEF Released
<1>9. ASSUME Clean(p)' PROVE Tidy(p)'
  <2>1. Tidy(p)
    BY <1>1, <1>9 DEF Released, Clean
  <2>2. Cover(p)'
    BY <1>1, <1>3, <2>1 DEF Tidy, Cover
  <2>3. Sole(p)'
    <3> SUFFICES ASSUME th[p].pc \in {"unmount", "begin"} \cup Leaving,
                        NEW n \in maps', n[2] = th[p].cur[2]
                 PROVE  n = th[p].cur
      BY <1>1 DEF Sole
    <3>1. th[p].cur \in MountsOf(p)
      BY <1>t DEF Held, Works, Detaching, Leaving
    <3>2. n \in Mounts
      BY DEF TypeOK
    <3>3. n \in MountsOf(p)
      BY <3>1, <3>2, RowApart
    <3>4. n \in maps
      BY <1>1, <3>3
    <3> QED BY <2>1, <3>4 DEF Tidy, Sole
  <2>4. Bound(p)'
    BY <1>6, <2>1, BoundKeeps DEF Tidy
  <2>5. Mapped(p)'
    BY <1>1, <1>4, <2>1, MappedKeeps DEF Tidy
  <2> QED BY <2>2, <2>3, <2>4, <2>5 DEF Tidy
<1> QED BY <1>7, <1>8, <1>9 DEF Released

\* A thread that goes on attaching.
LEMMA AttachingOn ==
    ASSUME IInv, NEW o \in Owners, Released(o), th[o].pc \in Attaching,
           th'[o].pc \in Attaching \cup {"build"},
           th'[o].why = th[o].why, th'[o].then = th[o].then,
           own'[o] = own[o], Bound(o) /\ Mapped(o) => Bound(o)' /\ Mapped(o)'
    PROVE  Released(o)'
<1>1. own[o].state # "none"
  BY Requested DEF Attaching
<1>2. Stage(o) /\ ~own[o].host
  BY DEF Released, Stage
<1>3. Stage(o)' /\ Cover(o)'
  BY <1>1, <1>2 DEF Stage, Cover
<1>4. Sole(o)'
  BY DEF Sole, Attaching, Leaving
<1>5. Clean(o)' => Clean(o)
  BY DEF Clean
<1> QED BY <1>1, <1>3, <1>4, <1>5 DEF Released, Tidy

\* A creation that is given up: the owner has no host and gets none.
LEMMA GivenUp ==
    ASSUME IInv, NEW o \in Owners, Released(o), ~own[o].host,
           th[o].pc # "idle", own'[o] = own[o],
           th'[o].pc \notin Attaching \cup {"build"}, th'[o].why # "delete",
           th'[o].why = "force" => th[o].why = "force",
           th'[o].then = "list" => th[o].then = "list"
    PROVE  Released(o)'
<1>1. own[o].state # "none"
  BY Requested
<1>2. Stage(o)'
  BY <1>1 DEF Released, Stage
<1>3. ~Clean(o)'
  BY <1>1 DEF Clean
<1> QED BY <1>1, <1>2, <1>3 DEF Released

LEMMA WaitReleased ==
    ASSUME IInv, TypeOK', NEW o \in Owners, Released(o),
           WaitAvailable(o) \/ WaitTimeout(o)
    PROVE  Released(o)' /\ Aside(o)
<1>t. th \in [Owners -> Thread] /\ th[o] \in Thread /\ vol \in [Volumes -> Volume]
  BY DEF IInv, TypeOK
<1>p. th[o].pc = "wait" /\ UNCHANGED <<dev, mounted, maps, conn, own, rolled>>
  BY DEF WaitAvailable, WaitTimeout
<1>h. ~own[o].host
  BY <1>p DEF Released, Stage, Attaching
<1>1. CASE WaitAvailable(o)
  <2>1. PICK t : /\ Becomes(o, t) /\ t.pc \in {"wait", "next"}
                 /\ t.why = th[o].why /\ t.then = th[o].then
    <3>1. CASE Becomes(o, [th[o] EXCEPT !.pc = "next", !.todo = MountsOf(o)])
      <4>1. PICK t : t = [th[o] EXCEPT !.pc = "next", !.todo = MountsOf(o)]
        OBVIOUS
      <4>2. t.pc = "next" /\ t.why = th[o].why /\ t.then = th[o].then
        BY <4>1, <1>t DEF Thread
      <4> QED BY <3>1, <4>1, <4>2
    <3>2. CASE \E m \in th[o].todo : Becomes(o, [th[o] EXCEPT !.todo = @ \ {m}])
      <4>0. PICK m \in th[o].todo : Becomes(o, [th[o] EXCEPT !.todo = @ \ {m}])
        BY <3>2
      <4>1. PICK t : t = [th[o] EXCEPT !.todo = @ \ {m}]
        OBVIOUS
      <4>2. t.pc = "wait" /\ t.why = th[o].why /\ t.then = th[o].then
        BY <4>1, <1>t, <1>p DEF Thread
      <4> QED BY <4>0, <4>1, <4>2
    <3> QED BY <1>1, <3>1, <3>2 DEF WaitAvailable
  <2>2. /\ th'[o] = t
        /\ \A q \in Owners : q # o => th'[q] = th[q]
    BY <2>1, <1>t, BecomesType
  <2>3. UNCHANGED vol
    BY <1>1 DEF WaitAvailable
  <2>4. Aside(o)
    BY <1>p, <2>2, <2>3 DEF Aside
  <2>5. Bound(o) /\ Mapped(o) => Bound(o)' /\ Mapped(o)'
    BY <1>p, <2>1, <2>2, <2>3, RowsKeep DEF IInv, MapsOf
  <2> QED BY <1>p, <2>1, <2>2, <2>4, <2>5, AttachingOn DEF Attaching
<1>2. CASE WaitTimeout(o)
  <2>1. Becomes(o, Failing(th[o], MapsOf(o), TRUE, "idle", FALSE))
    BY <1>2 DEF WaitTimeout
  <2>2. MapsOf(o) \in SUBSET Mounts
    BY DEF IInv, TypeOK, MapsOf
  <2>3. /\ th'[o].pc = "list" /\ th'[o].why = "fail" /\ th'[o].then = "idle"
        /\ \A q \in Owners : q # o => th'[q] = th[q]
    BY <1>t, <2>1, <2>2, FailingType
  <2>4. \A v \in Volumes : vol'[v].attached = vol[v].attached
    BY <1>2, <1>t DEF WaitTimeout, Volume
  <2>5. Aside(o)
    BY <1>p, <2>3, <2>4 DEF Aside
  <2> QED BY <1>p, <1>h, <2>3, <2>5, GivenUp DEF Attaching
<1> QED BY <1>1, <1>2

LEMMA AttachNextReleased ==
    ASSUME IInv, TypeOK', NEW o \in Owners, Released(o), AttachNext(o)
    PROVE  Released(o)' /\ Aside(o)
<1>t. th \in [Owners -> Thread] /\ th[o] \in Thread
  BY DEF IInv, TypeOK
<1>p. th[o].pc = "next" /\ UNCHANGED <<vol, dev, mounted, conn, own, rolled>>
  BY DEF AttachNext
<1>q. th[o].todo \subseteq MountsOf(o)
  BY DEF IInv, Work, Queued
<1>1. PICK t : /\ Becomes(o, t) /\ t.pc \in {"next", "reserve", "build"}
               /\ t.why = th[o].why /\ t.then = th[o].then
  <2>1. CASE Goto(o, "build")
    <3>1. PICK t : t = [th[o] EXCEPT !.pc = "build"]
      OBVIOUS
    <3>2. t.pc = "build" /\ t.why = th[o].why /\ t.then = th[o].then
      BY <3>1, <1>t DEF Thread
    <3> QED BY <2>1, <3>1, <3>2 DEF Goto
  <2>2. CASE \E m \in th[o].todo : Becomes(o, [th[o] EXCEPT !.todo = @ \ {m}])
    <3>0. PICK m \in th[o].todo : Becomes(o, [th[o] EXCEPT !.todo = @ \ {m}])
      BY <2>2
    <3>1. PICK t : t = [th[o] EXCEPT !.todo = @ \ {m}]
      OBVIOUS
    <3>2. t.pc = "next" /\ t.why = th[o].why /\ t.then = th[o].then
      BY <3>1, <1>t, <1>p DEF Thread
    <3> QED BY <3>0, <3>1, <3>2
  <2>3. CASE \E m \in th[o].todo :
               Becomes(o, [th[o] EXCEPT !.todo = @ \ {m}, !.cur = m,
                                        !.pc = "reserve"])
    <3>0. PICK m \in th[o].todo :
            Becomes(o, [th[o] EXCEPT !.todo = @ \ {m}, !.cur = m,
                                     !.pc = "reserve"])
      BY <2>3
    <3>1. PICK t : t = [th[o] EXCEPT !.todo = @ \ {m}, !.cur = m,
                                     !.pc = "reserve"]
      OBVIOUS
    <3>2. t.pc = "reserve" /\ t.why = th[o].why /\ t.then = th[o].then
      BY <3>1, <1>t DEF Thread
    <3> QED BY <3>0, <3>1, <3>2
  <2> QED BY <2>1, <2>2, <2>3 DEF AttachNext
<1>2. /\ th'[o] = t
      /\ \A q \in Owners : q # o => th'[q] = th[q]
  BY <1>1, <1>t, BecomesType
<1>3. /\ maps \subseteq maps'
      /\ \A m \in maps' : m \in maps \/ m \in MountsOf(o)
  BY <1>q DEF AttachNext
<1>4. Aside(o)
  BY <1>p, <1>2, <1>3 DEF Aside
<1>5. Bound(o) /\ Mapped(o) => Bound(o)' /\ Mapped(o)'
  BY <1>p, <1>1, <1>2, <1>3, RowsKeep DEF IInv, MapsOf
<1> QED BY <1>p, <1>1, <1>2, <1>4, <1>5, AttachingOn DEF Attaching

\* Before the volume is attached.
LEMMA ReserveReleased ==
    ASSUME IInv, TypeOK', NEW o \in Owners, Released(o),
           Reserve(o) \/ InitializeConnection(o) \/ ConnectVolume(o)
    PROVE  Released(o)' /\ Aside(o)
<1>t. th \in [Owners -> Thread] /\ th[o] \in Thread /\ vol \in [Volumes -> Volume]
  BY DEF IInv, TypeOK
<1>p. /\ th[o].pc \in {"reserve", "init", "connect"}
      /\ UNCHANGED <<mounted, maps, own, rolled>>
  BY DEF Reserve, InitializeConnection, ConnectVolume
<1>h. ~own[o].host
  BY <1>p DEF Released, Stage, Attaching
<1>c. /\ th[o].cur \in maps /\ th[o].cur \in MountsOf(o)
      /\ CurVol(o) \in Volumes /\ CurHost(o) \in Hosts
  BY <1>p, CurType DEF IInv, Work, Held, Works
<1>u. th[o].cur[2] \notin conn
  BY <1>p DEF IInv, Inv, Unmounted
<1>v. \A v \in Volumes : vol'[v].attached = vol[v].attached
  <2>1. CASE UNCHANGED vol
    BY <2>1
  <2>2. CASE SetStatus(CurVol(o), "attaching")
    BY <1>c, <1>t, <2>2, SetStatusType DEF Statuses
  <2>3. CASE vol' = [vol EXCEPT ![CurVol(o)].exports = @ \cup {CurHost(o)}]
    BY <1>c, <1>t, <2>3 DEF Volume
  <2> QED BY <2>1, <2>2, <2>3 DEF Reserve, InitializeConnection, ConnectVolume
<1>1. CASE \E s \in Seq(UndoSteps) : Undoing(o, s) /\ UNCHANGED conn
  <2>1. PICK s \in Seq(UndoSteps) : Undoing(o, s)
    BY <1>1
  <2>2. /\ th'[o].pc = "undo" /\ th'[o].why = th[o].why
        /\ th'[o].then = th[o].then
        /\ \A q \in Owners : q # o => th'[q] = th[q]
    BY <1>t, <2>1, UndoingType
  <2>3. th[o].why # "delete"
    BY <1>h DEF Released, Stage
  <2>4. Aside(o)
    BY <1>1, <1>p, <1>v, <2>2 DEF Aside
  <2> QED BY <1>p, <1>h, <2>2, <2>3, <2>4, GivenUp DEF Attaching
<1>2. CASE UNCHANGED conn /\ \E p \in {"init", "connect"} : Goto(o, p)
  <2>1. PICK p \in {"init", "connect"} : Goto(o, p)
    BY <1>2
  <2>2. /\ th'[o].pc = p /\ th'[o].why = th[o].why /\ th'[o].then = th[o].then
        /\ \A q \in Owners : q # o => th'[q] = th[q]
    BY <1>t, <2>1, GotoType DEF PCs
  <2>3. Aside(o)
    BY <1>2, <1>p, <1>v, <2>2 DEF Aside
  <2>4. Bound(o) /\ Mapped(o) => Bound(o)' /\ Mapped(o)'
    BY <1>2, <1>p, <1>v, <2>2, RowsKeep DEF IInv, MapsOf
  <2> QED BY <1>p, <2>2, <2>3, <2>4, AttachingOn DEF Attaching
<1>3. CASE conn' = conn \cup {th[o].cur[2]} /\ Goto(o, "attach")
  <2>1. /\ th'[o].pc = "attach" /\ th'[o].cur = th[o].cur
        /\ th'[o].why = th[o].why /\ th'[o].then = th[o].then
        /\ \A q \in Owners : q # o => th'[q] = th[q]
    BY <1>t, <1>3, GotoType DEF PCs
  <2>2. Aside(o)
    BY <1>3, <1>c, <1>p, <1>v, <2>1, RowApart DEF Aside
  <2>3. Current(o)' = Current(o)
    BY <1>p, <2>1 DEF Current, MapsOf
  <2>4. ASSUME NEW v \in Volumes
        PROVE  /\ Attachments(o, v)' \subseteq Attachments(o, v)
               /\ Sources(o, v) \subseteq Sources(o, v)'
    BY <1>v, <1>3, <1>u, <2>1, <2>3 DEF Attachments, Sources
  <2>5. Bound(o) /\ Mapped(o) => Bound(o)' /\ Mapped(o)'
    BY <1>p, <2>3, <2>4, BoundKeeps, MappedKeeps
  <2> QED BY <1>p, <2>1, <2>2, <2>5, AttachingOn DEF Attaching
<1>s. <<>> \in Seq(UndoSteps) /\ <<"terminate">> \in Seq(UndoSteps)
  BY DEF UndoSteps
<1> QED BY <1>1, <1>2, <1>3, <1>s DEF Reserve, InitializeConnection, ConnectVolume

\* One more attachment and one more row.
LEMMA BoundGrows ==
    ASSUME TypeOK, TypeOK', NEW o \in Owners, Bound(o), NEW u \in Volumes,
           NEW c, NEW r, r \notin Sources(o, u), r \in Sources(o, u)',
           \A v \in Volumes :
              /\ Attachments(o, v)' \subseteq
                    Attachments(o, v) \cup (IF v = u THEN {c} ELSE {})
              /\ Sources(o, v) \subseteq Sources(o, v)'
    PROVE  Bound(o)'
<1> SUFFICES ASSUME NEW v \in Volumes
             PROVE  /\ IsFiniteSet(Attachments(o, v)')
                    /\ Cardinality(Attachments(o, v)')
                          <= Cardinality(Sources(o, v)')
  BY DEF Bound
<1> PICK a, b, s, d : /\ a = Attachments(o, v) /\ b = Attachments(o, v)'
                      /\ s = Sources(o, v) /\ d = Sources(o, v)'
  OBVIOUS
<1>1. IsFiniteSet(a) /\ Cardinality(a) <= Cardinality(s)
  BY DEF Bound
<1>2. IsFiniteSet(d) /\ s \subseteq d
  BY NewSourcesFinite
<1>3. IsFiniteSet(s) /\ Cardinality(s) <= Cardinality(d)
  BY <1>2, FS_Subset
<1>4. Cardinality(a) \in Nat /\ Cardinality(s) \in Nat /\ Cardinality(d) \in Nat
  BY <1>1, <1>2, <1>3, FS_CardinalityType
<1>5. CASE v # u
  <2>1. b \subseteq a
    BY <1>5
  <2>2. IsFiniteSet(b) /\ Cardinality(b) <= Cardinality(a) /\ Cardinality(b) \in Nat
    BY <1>1, <2>1, FS_Subset, FS_CardinalityType
  <2> QED BY <1>1, <1>3, <1>4, <2>2
<1>6. CASE v = u
  <2>1. PICK e : e = a \cup {c}
    OBVIOUS
  <2>2. b \subseteq e
    BY <1>6, <2>1
  <2>3. IsFiniteSet(e) /\ Cardinality(e) <= Cardinality(a) + 1
    <3>1. /\ IsFiniteSet(e)
          /\ Cardinality(e) = IF c \in a THEN Cardinality(a) ELSE Cardinality(a) + 1
      BY <1>1, <2>1, FS_AddElement
    <3> QED BY <1>4, <3>1
  <2>4. /\ IsFiniteSet(b) /\ Cardinality(b) <= Cardinality(e)
        /\ Cardinality(b) \in Nat /\ Cardinality(e) \in Nat
    BY <2>2, <2>3, FS_Subset, FS_CardinalityType
  <2>5. PICK k : k = s \cup {r}
    OBVIOUS
  <2>6. k \subseteq d /\ r \notin s
    BY <1>2, <1>6, <2>5
  <2>7. Cardinality(k) = Cardinality(s) + 1
    BY <1>3, <2>5, <2>6, FS_AddElement
  <2>8. Cardinality(k) <= Cardinality(d)
    BY <1>2, <2>6, FS_Subset
  <2> QED BY <1>1, <1>4, <2>3, <2>4, <2>7, <2>8
<1> QED BY <1>5, <1>6

LEMMA CinderAttachReleased ==
    ASSUME IInv, TypeOK', NEW o \in Owners, Released(o), CinderAttach(o)
    PROVE  Released(o)' /\ Aside(o)
<1>t. th \in [Owners -> Thread] /\ th[o] \in Thread /\ vol \in [Volumes -> Volume]
  BY DEF IInv, TypeOK
<1>p. th[o].pc = "attach" /\ UNCHANGED <<dev, mounted, maps, conn, own, rolled>>
  BY DEF CinderAttach
<1>h. ~own[o].host
  BY <1>p DEF Released, Stage, Attaching
<1>c. /\ th[o].cur \in maps /\ th[o].cur \in MountsOf(o)
      /\ CurVol(o) \in Volumes
  BY <1>p, CurType DEF IInv, Work, Held, Works
<1>u. th[o].cur[2] \in conn
  BY <1>p DEF IInv, Inv, Unmounted
<1>v. /\ \A v \in Volumes : v # CurVol(o) => vol'[v].attached = vol[v].attached
      /\ vol'[CurVol(o)].attached
            \subseteq vol[CurVol(o)].attached \cup {th[o].cur[1]}
  <2>1. CASE UNCHANGED vol
    BY <2>1
  <2>2. CASE vol' = [vol EXCEPT ![CurVol(o)] = [vol[CurVol(o)] EXCEPT
                        !.status = "in-use",
                        !.attached = @ \cup {th[o].cur[1]}]]
    <3> PICK w : w = [vol[CurVol(o)] EXCEPT !.status = "in-use",
                                            !.attached = @ \cup {th[o].cur[1]}]
      OBVIOUS
    <3>1. w.attached = vol[CurVol(o)].attached \cup {th[o].cur[1]}
      BY <1>t, <1>c DEF Volume
    <3> QED BY <2>2, <3>1, <1>t, <1>c
  <2> QED BY <2>1, <2>2 DEF CinderAttach
<1>o. OwnerOf[th[o].cur[1]] = o
  BY <1>c DEF MountsOf
<1>1. CASE Undoing(o, <<"disconnect", "terminate", "detach">>)
  <2>1. <<"disconnect", "terminate", "detach">> \in Seq(UndoSteps)
    BY DEF UndoSteps
  <2>2. /\ th'[o].pc = "undo" /\ th'[o].why = th[o].why
        /\ th'[o].then = th[o].then
        /\ \A q \in Owners : q # o => th'[q] = th[q]
    BY <1>1, <1>t, <2>1, UndoingType
  <2>3. th[o].why # "delete"
    BY <1>h DEF Released, Stage
  <2>4. Aside(o)
    BY <1>o, <1>p, <1>v, <2>2 DEF Aside
  <2> QED BY <1>p, <1>h, <2>2, <2>3, <2>4, GivenUp DEF Attaching
<1>2. CASE Goto(o, "mount")
  <2>1. /\ th'[o].pc = "mount" /\ th'[o].cur = th[o].cur
        /\ th'[o].why = th[o].why /\ th'[o].then = th[o].then
        /\ \A q \in Owners : q # o => th'[q] = th[q]
    BY <1>t, <1>2, GotoType DEF PCs
  <2>2. Aside(o)
    BY <1>o, <1>p, <1>v, <2>1 DEF Aside
  <2>3. Current(o)' = Current(o) /\ th[o].cur \in Current(o)
    BY <1>p, <1>c, <2>1 DEF Current, MapsOf, MountsOf
  <2>4. PICK u, c, r : u = CurVol(o) /\ c = th[o].cur[1] /\ r = th[o].cur[2]
    OBVIOUS
  <2>5. \A v \in Volumes :
              /\ Attachments(o, v)' \subseteq
                    Attachments(o, v) \cup (IF v = u THEN {c} ELSE {})
              /\ Sources(o, v) \subseteq Sources(o, v)'
    BY <1>v, <1>p, <2>1, <2>3, <2>4 DEF Attachments, Sources
  <2>6. r \notin Sources(o, u) /\ r \in Sources(o, u)' /\ u \in Volumes
    BY <1>c, <1>p, <1>u, <2>1, <2>3, <2>4 DEF Sources, CurVol
  <2>8. Bound(o) => Bound(o)'
    BY <2>5, <2>6, BoundGrows DEF IInv
  <2>7. Mapped(o) => Mapped(o)'
    BY <1>p, <2>3, MappedKeeps
  <2> QED BY <1>p, <2>1, <2>2, <2>7, <2>8, AttachingOn DEF Attaching
<1> QED BY <1>1, <1>2 DEF CinderAttach

LEMMA MountReleased ==
    ASSUME IInv, TypeOK', NEW o \in Owners, Released(o), MountDevice(o)
    PROVE  Released(o)' /\ Aside(o)
<1>t. th \in [Owners -> Thread] /\ th[o] \in Thread
  BY DEF IInv, TypeOK
<1>p. th[o].pc = "mount" /\ UNCHANGED <<vol, dev, maps, conn, own, rolled>>
  BY DEF MountDevice
<1>h. ~own[o].host
  BY <1>p DEF Released, Stage, Attaching
<1>c. th[o].cur \in maps /\ th[o].cur \in MountsOf(o)
  BY <1>p DEF IInv, Work, Held, Works
<1>1. CASE /\ mounted' = mounted \cup {th[o].cur[2]}
           /\ Becomes(o, [th[o] EXCEPT !.pc = "next", !.cur = NoMap])
  <2> PICK t : t = [th[o] EXCEPT !.pc = "next", !.cur = NoMap]
    OBVIOUS
  <2>1. t.pc = "next" /\ t.why = th[o].why /\ t.then = th[o].then
    BY <1>t DEF Thread
  <2>2. th'[o] = t /\ \A q \in Owners : q # o => th'[q] = th[q]
    BY <1>1, <1>t, BecomesType
  <2>3. Aside(o)
    BY <1>1, <1>c, <1>p, <2>2, RowApart DEF Aside
  <2>4. Current(o)' = Current(o) /\ th[o].cur \in Current(o)
    BY <1>p, <1>c, <2>1, <2>2 DEF Current, MapsOf, MountsOf
  <2>5. \A v \in Volumes : /\ Attachments(o, v)' \subseteq Attachments(o, v)
                           /\ Sources(o, v) \subseteq Sources(o, v)'
    BY <1>p, <2>1, <2>2, <2>4 DEF Attachments, Sources
  <2>6. \A m : m \in MountsOf(o)' <=> m \in MountsOf(o)
    BY DEF MountsOf
  <2>7. Mapped(o) => Mapped(o)'
    BY <1>1, <2>4, <2>6 DEF Mapped
  <2>8. Bound(o) => Bound(o)'
    BY <2>5, BoundKeeps
  <2> QED BY <1>p, <2>1, <2>2, <2>3, <2>7, <2>8, AttachingOn DEF Attaching
<1>2. CASE /\ UNCHANGED mounted
           /\ Becomes(o, [th[o] EXCEPT !.pc = "begin", !.why = "attach"])
  <2> PICK t : t = [th[o] EXCEPT !.pc = "begin", !.why = "attach"]
    OBVIOUS
  <2>1. t.pc = "begin" /\ t.why = "attach" /\ t.then = th[o].then
    BY <1>t DEF Thread
  <2>2. th'[o] = t /\ \A q \in Owners : q # o => th'[q] = th[q]
    BY <1>2, <1>t, BecomesType
  <2>3. Aside(o)
    BY <1>2, <1>p, <2>2 DEF Aside
  <2> QED BY <1>p, <1>h, <2>1, <2>2, <2>3, GivenUp DEF Attaching
<1> QED BY <1>1, <1>2 DEF MountDevice

\* Cinder takes attachments away.
LEMMA RemainingLess ==
    ASSUME NEW v, NEW c
    PROVE  Remaining(v, c) \subseteq vol[v].attached
BY DEF Remaining

LEMMA UndoReleased ==
    ASSUME IInv, TypeOK', NEW o \in Owners, Released(o), Undo(o)
    PROVE  Released(o)' /\ Aside(o)
<1>t. TypeOK /\ Work /\ vol \in [Volumes -> Volume]
  BY DEF IInv, TypeOK
<1>p. th[o].pc = "undo" /\ UNCHANGED <<mounted, maps, conn, own>>
  BY DEF Undo
<1>h. ~own[o].host
  BY <1>p DEF Released, Stage
<1>c. /\ th[o].cur[1] \in Containers
      /\ CurVol(o) \in Volumes /\ CurHost(o) \in Hosts
  BY <1>p, <1>t, CurType DEF Works
<1>1. /\ th'[o].pc \in {"undo", "drop"}
      /\ th'[o].why = th[o].why /\ th'[o].then = th[o].then
      /\ \A q \in Owners : q # o => th'[q] = th[q]
  BY <1>t, UndoThread
<1>2. \A v \in Volumes : vol'[v].attached \subseteq vol[v].attached
  <2>1. CASE UNCHANGED vol
    BY <2>1
  <2>2. CASE vol' = [vol EXCEPT ![CurVol(o)].exports = @ \ {CurHost(o)}]
    BY <1>c, <1>t, <2>2 DEF Volume
  <2>3. CASE CinderDetach(CurVol(o), th[o].cur[1])
    <3>1. /\ vol'[CurVol(o)].attached = Remaining(CurVol(o), th[o].cur[1])
          /\ \A u \in Volumes : u # CurVol(o) => vol'[u] = vol[u]
      BY <1>c, <1>t, <2>3, CinderDetachType
    <3> QED BY <1>c, <3>1, RemainingLess
  <2>4. CASE SetStatus(CurVol(o), Rest(CurVol(o), vol[CurVol(o)].attached))
    <3>1. Rest(CurVol(o), vol[CurVol(o)].attached) \in Statuses
      BY DEF Rest, Statuses
    <3> QED BY <1>c, <1>t, <2>4, <3>1, SetStatusType
  <2>5. (\E s : UndoStep(o, s)) \/ UNCHANGED vol
    BY DEF Undo
  <2> QED BY <2>1, <2>2, <2>3, <2>4, <2>5 DEF UndoStep
<1>3. th[o].why # "delete"
  BY <1>h DEF Released, Stage
<1>4. Aside(o)
  BY <1>p, <1>1, <1>2 DEF Aside
<1> QED BY <1>p, <1>h, <1>1, <1>3, <1>4, GivenUp DEF Attaching

LEMMA DropReleased ==
    ASSUME IInv, TypeOK', NEW o \in Owners, Released(o), DropMapping(o)
    PROVE  Released(o)' /\ Aside(o)
<1>t. th \in [Owners -> Thread] /\ vol \in [Volumes -> Volume]
  BY DEF IInv, TypeOK
<1>p. /\ th[o].pc = "drop" /\ UNCHANGED <<dev, mounted, own, rolled>>
      /\ RemoveMap(th[o].cur)
  BY DEF DropMapping
<1>h. ~own[o].host
  BY <1>p DEF Released, Stage
<1>c. th[o].cur \in MountsOf(o) /\ CurVol(o) \in Volumes
  BY <1>p, CurType DEF IInv, Works
<1>1. /\ th'[o].pc = "list" /\ th'[o].why = "fail" /\ th'[o].then = "idle"
      /\ \A q \in Owners : q # o => th'[q] = th[q]
  <2> DEFINE s == {n \in MapsOf(o) \ {th[o].cur} : n[1] = th[o].cur[1]}
  <2> DEFINE b == o \in Capsules
  <2>1. s \in SUBSET Mounts
    BY DEF MapsOf, IInv, TypeOK
  <2>2. Becomes(o, Failing(th[o], s, TRUE, "idle", b))
    BY DEF DropMapping
  <2>3. b \in BOOLEAN
    OBVIOUS
  <2> HIDE DEF s, b
  <2> QED BY <1>t, <2>1, <2>2, <2>3, FailingType
<1>2. \A v \in Volumes : vol'[v].attached = vol[v].attached
  <2>1. UNCHANGED vol \/ SetStatus(CurVol(o), "deleting")
    BY DEF DropMapping, CurVol
  <2> QED BY <1>c, <1>t, <2>1, SetStatusType DEF Statuses
<1>3. Aside(o)
  BY <1>p, <1>c, <1>1, <1>2, RemoveMapBeside DEF Aside
<1> QED BY <1>p, <1>h, <1>1, <1>3, GivenUp DEF Attaching

\* A step that only changes the owner's row and its thread.
LEMMA QuietReleased ==
    ASSUME IInv, TypeOK', NEW o \in Owners, Released(o),
           UNCHANGED <<vol, mounted, maps, conn>>,
           th'[o].pc \in {"idle", "docker", "list", "gone"},
           own'[o].state # "none", Stage(o)', Cover(o)', Clean(o)' => Clean(o)
    PROVE  Released(o)'
<1>1. Sole(o)'
  BY DEF Sole, Leaving
<1>2. Bound(o) /\ Mapped(o) => Bound(o)' /\ Mapped(o)'
  BY RowsKeep DEF IInv, MapsOf
<1> QED BY <1>1, <1>2 DEF Released, Tidy

\* What the owner's row keeps of a step that ends with thread t.
LEMMA OwnerReleased ==
    ASSUME IInv, TypeOK', NEW o \in Owners, Released(o),
           UNCHANGED <<vol, mounted, maps, conn>>,
           th'[o].pc \in {"idle", "list"}, th[o].pc \notin {"idle"} \cup Attaching,
           own'[o].state = "none" => own[o].state = "none",
           own'[o].forced = own[o].forced,
           own'[o].host => own[o].host \/ th[o].pc = "build",
           th'[o].why = "delete" => /\ th[o].why = "delete"
                                    /\ own'[o].host = own[o].host
                                    /\ th'[o].todo = MapsOf(o),
           th'[o].why = "force" => own[o].forced,
           th'[o].then = "list" => own[o].forced
    PROVE  Released(o)'
<1>1. own[o].state # "none" /\ own'[o].state # "none"
  BY Requested
<1>2. Stage(o)'
  BY <1>1 DEF Released, Stage, Attaching, Detaching
<1>3. Cover(o)'
  BY DEF Cover, Detaching, MapsOf
<1>4. Clean(o)' => Clean(o)
  BY <1>1 DEF Clean, Attaching
<1> QED BY <1>1, <1>2, <1>3, <1>4, QuietReleased

LEMMA BuildReleased ==
    ASSUME IInv, TypeOK', NEW o \in Owners, Released(o),
           Build(o) \/ DockerDelete(o) \/ Failed(o) \/ Finish(o)
              \/ DeletionTimeout(o)
    PROVE  Released(o)' /\ Aside(o)
<1>t. th \in [Owners -> Thread] /\ th[o] \in Thread
  BY DEF IInv, TypeOK
<1>w. own \in [Owners -> Owner] /\ own[o] \in Owner
  BY DEF IInv, TypeOK
<1>m. MapsOf(o) \in SUBSET Mounts
  BY DEF MapsOf, IInv, TypeOK
<1>1. /\ th'[o].pc \in {"idle", "list"}
      /\ \A q \in Owners : q # o => th'[q] = th[q]
      /\ \A q \in Owners : own'[q].state = "none" => own[q].state = "none"
      /\ UNCHANGED <<vol, dev, mounted, maps, conn, rolled>>
  BY OwnerSteps DEF IInv
<1>p. th[o].pc \in {"build", "docker", "gone"}
  BY DEF Build, DockerDelete, Failed, Finish, DeletionTimeout
<1>s. Stage(o)
  BY DEF Released
<1>2. PICK w : own' = [own EXCEPT ![o] = w] /\ w.forced = own[o].forced
           /\ (w.host => own[o].host \/ th[o].pc = "build")
           /\ (w.host = own[o].host \/ th[o].pc # "docker")
  <2>1. CASE UNCHANGED own
    <3> PICK w : w = own[o]
      OBVIOUS
    <3>1. own' = [own EXCEPT ![o] = w]
      BY <2>1, <1>w
    <3> QED BY <3>1
  <2>2. CASE Build(o) /\ own' = [own EXCEPT ![o] = [own[o] EXCEPT
                                    !.state = "ready", !.host = TRUE]]
    <3> PICK w : w = [own[o] EXCEPT !.state = "ready", !.host = TRUE]
      OBVIOUS
    <3>1. w.forced = own[o].forced
      BY <1>w DEF Owner
    <3> QED BY <2>2, <3>1 DEF Build
  <2>3. CASE Build(o) /\ own' = [own EXCEPT ![o].host = TRUE]
    <3> PICK w : w = [own[o] EXCEPT !.host = TRUE]
      OBVIOUS
    <3>1. w.forced = own[o].forced
      BY <1>w DEF Owner
    <3> QED BY <2>3, <3>1 DEF Build
  <2>4. CASE \E d : own' = [own EXCEPT ![o].deleting = d]
    <3>1. PICK d : own' = [own EXCEPT ![o].deleting = d]
      BY <2>4
    <3> PICK w : w = [own[o] EXCEPT !.deleting = d]
      OBVIOUS
    <3>2. w.forced = own[o].forced /\ w.host = own[o].host
      BY <1>w DEF Owner
    <3> QED BY <3>1, <3>2
  <2>5. CASE Failed(o) /\ own' = [own EXCEPT ![o] = [own[o] EXCEPT
                             !.state = "error", !.host = @ /\ ~th[o].unset]]
    <3> PICK w : w = [own[o] EXCEPT !.state = "error",
                                    !.host = @ /\ ~th[o].unset]
      OBVIOUS
    <3>1. w.forced = own[o].forced /\ w.host = (own[o].host /\ ~th[o].unset)
      BY <1>w DEF Owner
    <3> QED BY <2>5, <3>1 DEF Failed
  <2>6. CASE Finish(o) /\ own' = [own EXCEPT ![o] = [own[o] EXCEPT
                                   !.state = "gone", !.deleting = FALSE]]
    <3> PICK w : w = [own[o] EXCEPT !.state = "gone", !.deleting = FALSE]
      OBVIOUS
    <3>1. w.forced = own[o].forced /\ w.host = own[o].host
      BY <1>w DEF Owner
    <3> QED BY <2>6, <3>1
  <2>7. CASE Build(o)
    BY <2>7, <2>1, <2>2, <2>3 DEF Build
  <2>8. CASE DockerDelete(o)
    BY <2>8, <2>1, <2>4 DEF DockerDelete
  <2>9. CASE Failed(o)
    BY <2>9, <2>1, <2>5 DEF Failed
  <2>10. CASE Finish(o)
    BY <2>10, <2>6 DEF Finish
  <2>11. CASE DeletionTimeout(o)
    <3>1. own' = [own EXCEPT ![o].deleting = @ /\ th[o].why = "fail"]
      BY <2>11 DEF DeletionTimeout
    <3>2. own' = [own EXCEPT ![o].deleting = (own[o].deleting /\ th[o].why = "fail")]
      BY <3>1
    <3> QED BY <2>4, <3>2
  <2> QED BY <2>7, <2>8, <2>9, <2>10, <2>11
<1>3. own'[o] = w /\ \A q \in Owners : q # o => own'[q] = own[q]
  BY <1>2, <1>w
<1>4. Aside(o)
  BY <1>1, <1>3 DEF Aside
<1>i. Becomes(o, Idle) => th'[o].why = "attach" /\ th'[o].then = "idle"
  BY <1>t, IdleType
<1>f. \A u \in BOOLEAN, k \in {"idle", "list"}, b \in BOOLEAN :
         Becomes(o, Failing(th[o], MapsOf(o), u, k, b))
            => th'[o].why = "fail" /\ th'[o].then = k
  BY <1>t, <1>m, FailingType
<1>5. /\ th'[o].why = "delete" => /\ th[o].why = "delete"
                                  /\ own'[o].host = own[o].host
                                  /\ th'[o].todo = MapsOf(o)
      /\ th'[o].why = "force" => own[o].forced
      /\ th'[o].then = "list" => own[o].forced
  <2>1. CASE Build(o)
    BY <2>1, <1>i, <1>f DEF Build
  <2>2. CASE DockerDelete(o)
    <3>1. CASE Becomes(o, [th[o] EXCEPT !.pc = "list", !.todo = MapsOf(o)])
      <4> PICK t : t = [th[o] EXCEPT !.pc = "list", !.todo = MapsOf(o)]
        OBVIOUS
      <4>1. t.why = th[o].why /\ t.then = th[o].then /\ t.todo = MapsOf(o)
        BY <1>t DEF Thread
      <4>2. th'[o] = t
        BY <3>1, <1>t, BecomesType
      <4>3. th[o].pc = "docker"
        BY <2>2 DEF DockerDelete
      <4> QED BY <4>1, <4>2, <4>3, <1>s, <1>2, <1>3 DEF Stage
    <3>2. CASE Becomes(o, Failing(th[o], MapsOf(o), FALSE,
                     IF th[o].why = "force" THEN "list" ELSE "idle", FALSE))
      <4>1. PICK k \in {"idle", "list"} :
               k = IF th[o].why = "force" THEN "list" ELSE "idle"
        OBVIOUS
      <4>2. th'[o].why = "fail" /\ th'[o].then = k
        BY <3>2, <4>1, <1>f
      <4> QED BY <4>1, <4>2, <1>s DEF Stage
    <3> QED BY <2>2, <3>1, <3>2 DEF DockerDelete
  <2>3. CASE Failed(o)
    <3>1. CASE /\ th[o].then = "list"
               /\ Becomes(o, [Idle EXCEPT !.pc = "list", !.why = "force",
                                          !.todo = MapsOf(o)])
      <4>1. own[o].forced
        BY <1>s, <3>1 DEF Stage
      <4> PICK t : t = [Idle EXCEPT !.pc = "list", !.why = "force",
                                    !.todo = MapsOf(o)]
        OBVIOUS
      <4>2. t.why = "force"
        BY DEF Idle
      <4>3. th'[o] = t
        BY <3>1, <1>t, BecomesType
      <4> QED BY <4>1, <4>2, <4>3
    <3> QED BY <2>3, <3>1, <1>i DEF Failed
  <2>4. CASE Finish(o)
    BY <2>4, <1>i DEF Finish
  <2>5. CASE DeletionTimeout(o)
    <3>1. PICK k \in {"idle", "list"} :
             k = IF th[o].why = "fail" THEN th[o].then ELSE "idle"
      BY <1>t DEF Thread
    <3>2. Becomes(o, Failing(th[o], MapsOf(o), TRUE, k, th[o].part))
             /\ th[o].part \in BOOLEAN
      BY <2>5, <3>1, <1>t DEF DeletionTimeout, Thread
    <3>3. th'[o].why = "fail" /\ th'[o].then = k
      BY <3>2, <1>f
    <3> QED BY <3>1, <3>3, <1>s DEF Stage
  <2> QED BY <2>1, <2>2, <2>3, <2>4, <2>5
<1>6. th[o].pc \notin {"idle"} \cup Attaching
  BY <1>p DEF Attaching
<1>7. own'[o].forced = own[o].forced /\ (own'[o].host => own[o].host \/ th[o].pc = "build")
  BY <1>2, <1>3
<1> QED BY <1>1, <1>4, <1>5, <1>6, <1>7, OwnerReleased

\* A step of a detach that goes on, and the owner with it.
LEMMA DetachingOn ==
    ASSUME IInv, NEW o \in Owners, Released(o),
           th[o].pc \in Detaching \cup {"list", "delete"},
           th'[o].pc \in Detaching \cup {"list", "delete", "gone"},
           th'[o].why = th[o].why, th'[o].then = th[o].then, own'[o] = own[o],
           own[o].host /\ ~own[o].forced /\ th[o].why # "attach" /\ Tidy(o)
              => Tidy(o)'
    PROVE  Released(o)'
<1>1. own[o].state # "none"
  BY Requested DEF Detaching
<1>2. th[o].pc \in {"list", "delete"} => th[o].why # "attach"
  BY DEF IInv, Work, Queued
<1>3. own[o].host => th[o].why # "attach"
  BY <1>2 DEF Released, Stage
<1>4. Stage(o)'
  <2>1. th'[o].pc \notin Attaching \cup {"build", "undo", "drop"}
    BY DEF Attaching, Detaching
  <2> QED BY <1>1, <1>3, <2>1 DEF Released, Stage
<1>5. Clean(o)' => own[o].host /\ ~own[o].forced
  BY <1>1 DEF Clean, Attaching, Detaching
<1>6. Clean(o)' => Clean(o)
  BY <1>5 DEF Clean
<1> QED BY <1>1, <1>3, <1>4, <1>5, <1>6 DEF Released

LEMMA OnReleased ==
    ASSUME IInv, TypeOK', NEW o \in Owners, Released(o),
           th[o].pc \in {"unmount", "begin"} \cup Leaving,
           NEW p \in {"begin"} \cup Leaving, Goto(o, p),
           UNCHANGED <<maps, conn, own>>,
           \A m \in MountsOf(o) : m[2] \in mounted' => m[2] \in mounted,
           \A v \in Volumes : vol'[v].attached = vol[v].attached
    PROVE  Released(o)'
<1>1. /\ th'[o].pc = p /\ th'[o].cur = th[o].cur /\ th'[o].todo = th[o].todo
      /\ th'[o].why = th[o].why /\ th'[o].then = th[o].then
  BY GotoType DEF IInv, TypeOK, PCs, Leaving
<1>2. th[o].pc \in Detaching /\ p \in Detaching /\ p \notin {"attach", "destroy"}
  BY DEF Detaching, Leaving
<1>3. Cover(o) => Cover(o)'
  BY <1>1, <1>2 DEF Cover, MapsOf, Detaching
<1>4. Sole(o) => Sole(o)'
  BY <1>1 DEF Sole
<1>5. Bound(o) /\ Mapped(o) => Bound(o)' /\ Mapped(o)'
  BY <1>1, <1>2, RowsKeep DEF IInv, MapsOf
<1> QED BY <1>1, <1>2, <1>3, <1>4, <1>5, DetachingOn DEF Tidy

LEMMA RaiseReleased ==
    ASSUME IInv, TypeOK', NEW o \in Owners, Released(o), th[o].pc # "idle",
           Raise(o), UNCHANGED <<mounted, maps, conn>>,
           \A v \in Volumes : vol'[v].attached = vol[v].attached
    PROVE  Released(o)'
<1>t. th \in [Owners -> Thread] /\ own \in [Owners -> Owner]
  BY DEF IInv, TypeOK
<1>1. /\ own'[o].state = own[o].state /\ own'[o].host = own[o].host
      /\ own'[o].forced = own[o].forced
      /\ \/ /\ th'[o].pc = "gone"
            /\ th'[o].why = "fail" /\ th'[o].then = th[o].then
         \/ /\ th'[o].pc = "idle"
            /\ th'[o].why = "attach" /\ th'[o].then = "idle"
  BY <1>t, RaiseType
<1>2. own[o].state # "none"
  BY Requested
<1>3. Stage(o)'
  BY <1>1, <1>2 DEF Released, Stage, Attaching, Detaching
<1>4. Clean(o)' => Clean(o)
  BY <1>1, <1>2 DEF Clean, Attaching
<1>5. Cover(o)' /\ Sole(o)'
  BY <1>1 DEF Cover, Sole, Leaving
<1>6. Bound(o) /\ Mapped(o) => Bound(o)' /\ Mapped(o)'
  BY <1>1, RowsKeep DEF IInv, MapsOf
<1> QED BY <1>1, <1>2, <1>3, <1>4, <1>5, <1>6 DEF Released, Tidy

LEMMA FailedReleased ==
    ASSUME IInv, TypeOK', NEW o \in Owners, Released(o), th[o].pc \in Detaching,
           DetachFailed(o), UNCHANGED <<mounted, maps, conn>>,
           \A v \in Volumes : vol'[v].attached = vol[v].attached
    PROVE  Released(o)'
<1>t. th \in [Owners -> Thread] /\ own \in [Owners -> Owner]
  BY DEF IInv, TypeOK
<1>1. CASE Raise(o)
  BY <1>1, RaiseReleased DEF Detaching
<1>2. CASE /\ th[o].why \in {"attach", "force"} /\ UNCHANGED own
           /\ \/ th[o].why = "attach" /\ Goto(o, "drop")
              \/ th[o].why = "force" /\ Goto(o, "destroy")
  <2>1. /\ th'[o].why = th[o].why /\ th'[o].then = th[o].then
        /\ th[o].why = "attach" => th'[o].pc = "drop"
        /\ th[o].why = "force" => th'[o].pc = "destroy"
    BY <1>2, <1>t, GotoType DEF PCs
  <2>2. th[o].why = "attach" => ~own[o].host
    BY DEF Released, Stage
  <2>3. own[o].state # "none"
    BY Requested DEF Detaching
  <2>4. Stage(o)'
    BY <1>2, <2>1, <2>2, <2>3 DEF Released, Stage, Attaching, Detaching
  <2>5. ~Clean(o)'
    <3>1. CASE th[o].why = "attach"
      BY <1>2, <2>1, <2>2, <2>3, <3>1 DEF Clean, Attaching
    <3>2. CASE th[o].why = "force"
      BY <1>2, <3>2 DEF Clean, Released, Stage
    <3> QED BY <1>2, <3>1, <3>2
  <2> QED BY <1>2, <2>3, <2>4, <2>5 DEF Released
<1> QED BY <1>1, <1>2 DEF DetachFailed

\* The steps before the detach.
LEMMA LeaveReleased ==
    ASSUME IInv, TypeOK', NEW o \in Owners, Released(o),
           \/ Unmount(o) \/ BeginDetaching(o) \/ KeepConnection(o)
           \/ DisconnectVolume(o) \/ TerminateConnection(o)
    PROVE  Released(o)' /\ Aside(o)
<1>t. th \in [Owners -> Thread] /\ own \in [Owners -> Owner]
         /\ vol \in [Volumes -> Volume]
  BY DEF IInv, TypeOK
<1>p. /\ th[o].pc \in {"unmount", "begin", "keep", "disconnect", "terminate"}
      /\ UNCHANGED <<maps, conn, rolled>>
  BY DEF Unmount, BeginDetaching, KeepConnection, DisconnectVolume,
         TerminateConnection
<1>d. th[o].pc \in Detaching /\ th[o].pc \in {"unmount", "begin"} \cup Leaving
  BY <1>p DEF Detaching, Leaving
<1>c. /\ th[o].cur \in MountsOf(o)
      /\ CurVol(o) \in Volumes /\ CurHost(o) \in Hosts
  BY <1>d, CurType DEF IInv, Works
<1>v. \A v \in Volumes : vol'[v].attached = vol[v].attached
  <2>1. CASE UNCHANGED vol
    BY <2>1
  <2>2. CASE \E s \in {"detaching", "in-use"} : SetStatus(CurVol(o), s)
    BY <1>c, <1>t, <2>2, SetStatusType DEF Statuses
  <2>3. CASE vol' = [vol EXCEPT ![CurVol(o)].exports = @ \ {CurHost(o)}]
    BY <1>c, <1>t, <2>3 DEF Volume
  <2> QED BY <2>1, <2>2, <2>3 DEF Unmount, BeginDetaching, KeepConnection,
             DisconnectVolume, TerminateConnection
<1>m. UNCHANGED mounted \/ mounted' = mounted \ {th[o].cur[2]}
  BY DEF Unmount, BeginDetaching, KeepConnection, DisconnectVolume,
         TerminateConnection
<1>1. \/ DetachFailed(o) /\ UNCHANGED mounted
      \/ UNCHANGED own /\ \E p \in {"begin"} \cup Leaving : Goto(o, p)
  BY DEF Unmount, BeginDetaching, KeepConnection, DisconnectVolume,
         TerminateConnection, Leaving
<1>2. \A q \in Owners : q # o => th'[q] = th[q] /\ own'[q] = own[q]
  <2>1. CASE DetachFailed(o)
    BY <2>1, <1>t, DetachFailedType
  <2>2. CASE UNCHANGED own /\ \E p \in {"begin"} \cup Leaving : Goto(o, p)
    BY <2>2, <1>t, BecomesType DEF Goto
  <2> QED BY <1>1, <2>1, <2>2
<1>3. Aside(o)
  BY <1>p, <1>v, <1>m, <1>2 DEF Aside
<1>4. Released(o)'
  <2>1. CASE DetachFailed(o) /\ UNCHANGED mounted
    BY <2>1, <1>p, <1>d, <1>v, FailedReleased
  <2>2. CASE UNCHANGED own /\ \E p \in {"begin"} \cup Leaving : Goto(o, p)
    <3>1. PICK p \in {"begin"} \cup Leaving : Goto(o, p)
      BY <2>2
    <3>2. \A m \in MountsOf(o) : m[2] \in mounted' => m[2] \in mounted
      BY <1>m
    <3> QED BY <2>2, <3>1, <3>2, <1>p, <1>d, <1>v, OnReleased
  <2> QED BY <1>1, <2>1, <2>2
<1> QED BY <1>3, <1>4

\* The attachment of a row is taken away with the row, or none is left.
LEMMA BoundShrinks ==
    ASSUME TypeOK, TypeOK', NEW o \in Owners, Bound(o), NEW u \in Volumes,
           NEW c, NEW r,
           \A v \in Volumes : v # u =>
              /\ Attachments(o, v)' \subseteq Attachments(o, v)
              /\ Sources(o, v) \subseteq Sources(o, v)',
           Sources(o, u) \ {r} \subseteq Sources(o, u)',
           \/ Attachments(o, u)' = {}
           \/ c \in Attachments(o, u) /\ Attachments(o, u)' = Attachments(o, u) \ {c}
    PROVE  Bound(o)'
<1> SUFFICES ASSUME NEW v \in Volumes
             PROVE  /\ IsFiniteSet(Attachments(o, v)')
                    /\ Cardinality(Attachments(o, v)')
                          <= Cardinality(Sources(o, v)')
  BY DEF Bound
<1> PICK a, b, s, d : /\ a = Attachments(o, v) /\ b = Attachments(o, v)'
                      /\ s = Sources(o, v) /\ d = Sources(o, v)'
  OBVIOUS
<1>1. IsFiniteSet(a) /\ Cardinality(a) <= Cardinality(s)
  BY DEF Bound
<1>2. IsFiniteSet(s) /\ IsFiniteSet(d)
  BY SourcesFinite, NewSourcesFinite
<1>4. Cardinality(a) \in Nat /\ Cardinality(s) \in Nat /\ Cardinality(d) \in Nat
  BY <1>1, <1>2, FS_CardinalityType
<1>5. CASE v # u
  <2>1. b \subseteq a /\ s \subseteq d
    BY <1>5
  <2>2. IsFiniteSet(b) /\ Cardinality(b) <= Cardinality(a) /\ Cardinality(b) \in Nat
    BY <1>1, <2>1, FS_Subset, FS_CardinalityType
  <2>3. Cardinality(s) <= Cardinality(d)
    BY <1>2, <2>1, FS_Subset
  <2> QED BY <1>1, <1>4, <2>2, <2>3
<1>6. CASE v = u /\ b = {}
  <2>1. IsFiniteSet(b) /\ Cardinality(b) = 0
    BY <1>6, FS_EmptySet
  <2> QED BY <1>4, <2>1
<1>7. CASE v = u /\ c \in a /\ b = a \ {c}
  <2>1. IsFiniteSet(b) /\ Cardinality(b) = Cardinality(a) - 1
    BY <1>1, <1>7, FS_RemoveElement
  <2>2. PICK e : e = s \ {r}
    OBVIOUS
  <2>3. e \subseteq d
    BY <1>7, <2>2
  <2>4. Cardinality(e) >= Cardinality(s) - 1 /\ Cardinality(e) \in Nat
    <3>1. /\ IsFiniteSet(e)
          /\ Cardinality(e) = IF r \in s THEN Cardinality(s) - 1 ELSE Cardinality(s)
      BY <1>2, <2>2, FS_RemoveElement
    <3> QED BY <1>4, <3>1, FS_CardinalityType
  <2>5. Cardinality(e) <= Cardinality(d)
    BY <1>2, <2>3, FS_Subset
  <2> QED BY <1>1, <1>4, <2>1, <2>4, <2>5
<1> QED BY <1>5, <1>6, <1>7

LEMMA DetachReleased ==
    ASSUME IInv, TypeOK', NEW o \in Owners, Released(o), Detach(o)
    PROVE  Released(o)' /\ Aside(o)
<1>t. th \in [Owners -> Thread] /\ own \in [Owners -> Owner]
         /\ vol \in [Volumes -> Volume]
  BY DEF IInv, TypeOK
<1>p. th[o].pc = "detach" /\ UNCHANGED <<dev, mounted, maps, conn, rolled>>
  BY DEF Detach
<1>d. th[o].pc \in Detaching /\ th[o].pc \in Leaving
  BY <1>p DEF Detaching, Leaving
<1>c. /\ th[o].cur \in MountsOf(o) /\ th[o].cur \in maps
      /\ th[o].cur[1] \in Containers
      /\ CurVol(o) \in Volumes
  BY <1>d, CurType DEF IInv, Work, Held, Works
<1>1. CASE DetachFailed(o) /\ UNCHANGED vol
  <2>1. \A q \in Owners : q # o => th'[q] = th[q] /\ own'[q] = own[q]
    BY <1>1, <1>t, DetachFailedType
  <2>2. Aside(o)
    BY <1>1, <1>p, <2>1 DEF Aside
  <2> QED BY <1>1, <1>p, <1>d, <2>2, FailedReleased
<1>2. CASE /\ ~DetachRefused(CurVol(o), th[o].cur[1])
           /\ CinderDetach(CurVol(o), th[o].cur[1])
           /\ Goto(o, IF th[o].why = "attach" THEN "drop" ELSE "destroy")
           /\ UNCHANGED own
  <2> PICK u, c, r : u = CurVol(o) /\ c = th[o].cur[1] /\ r = th[o].cur[2]
    OBVIOUS
  <2>1. PICK p : p = IF th[o].why = "attach" THEN "drop" ELSE "destroy"
    OBVIOUS
  <2>2. p \in PCs /\ Goto(o, p)
    BY <1>2, <2>1 DEF PCs
  <2>3. /\ th'[o].pc = p
        /\ th'[o].cur = th[o].cur /\ th'[o].todo = th[o].todo
        /\ th'[o].why = th[o].why /\ th'[o].then = th[o].then
        /\ \A q \in Owners : q # o => th'[q] = th[q]
    BY <1>t, <2>2, GotoType
  <2>4. /\ vol'[u].attached = Remaining(u, c)
        /\ \A v \in Volumes : v # u => vol'[v] = vol[v]
    BY <1>c, <1>t, <1>2, CinderDetachType
  <2>5. \A v \in Volumes : vol'[v].attached \subseteq vol[v].attached
    BY <1>c, <2>4, RemainingLess
  <2>6. Aside(o)
    BY <1>2, <1>p, <2>3, <2>5 DEF Aside
  <2>7. CASE th[o].why = "attach"
    <3>1. ~own[o].host
      BY <1>d, <2>7 DEF Released, Stage
    <3> QED BY <1>2, <1>p, <2>1, <2>3, <2>6, <2>7, <3>1, GivenUp DEF Attaching
  <2>8. CASE th[o].why # "attach"
    <3>1. p = "destroy"
      BY <2>1, <2>8
    <3>2. ASSUME Tidy(o) PROVE Tidy(o)'
      <4>1. Sole(o) /\ Bound(o) /\ Mapped(o) /\ Cover(o)
        BY <3>2 DEF Tidy
      <4>2. \A n \in maps : n[2] = r => n = th[o].cur
        BY <1>d, <4>1 DEF Sole
      <4>3. \A m \in Current(o) : m[2] # r => m \in Current(o)'
        BY <1>p, <2>3 DEF Current, MapsOf
      <4>4. VolumeOf[r] = u /\ OwnerOf[c] = o
        BY <1>c DEF CurVol, MountsOf
      <4>5. ASSUME NEW v \in Volumes
            PROVE  Sources(o, v) \ {r} \subseteq Sources(o, v)'
        BY <1>p, <2>3, <3>1, <4>3 DEF Sources
      <4>6. ASSUME NEW v \in Volumes, v # u
            PROVE  /\ Attachments(o, v)' \subseteq Attachments(o, v)
                   /\ Sources(o, v) \subseteq Sources(o, v)'
        <5>1. r \notin Sources(o, v)
          BY <4>4, <4>6 DEF Sources
        <5>2. Attachments(o, v)' \subseteq Attachments(o, v)
          BY <2>5 DEF Attachments
        <5> QED BY <4>5, <5>1, <5>2
      <4>7. \/ Attachments(o, u)' = {}
            \/ /\ c \in Attachments(o, u)
               /\ Attachments(o, u)' = Attachments(o, u) \ {c}
        <5>1. CASE c \in vol[u].attached
          <6>1. vol'[u].attached = vol[u].attached \ {c}
            BY <2>4, <5>1 DEF Remaining
          <6> QED BY <4>4, <5>1, <6>1 DEF Attachments
        <5>2. CASE c \notin vol[u].attached
          <6>1. vol'[u].attached = {}
            BY <2>4, <5>2 DEF Remaining
          <6> QED BY <6>1 DEF Attachments
        <5> QED BY <5>1, <5>2
      <4>8. Bound(o)'
        BY <1>c, <4>1, <4>5, <4>6, <4>7, BoundShrinks DEF IInv
      <4>9. r \notin mounted
        BY <1>d DEF IInv, Inv, Unmounted
      <4>10. Mapped(o)'
        BY <1>p, <4>1, <4>3, <4>9, MappedKeeps
      <4>11. Cover(o)'
        BY <1>d, <1>p, <2>3, <3>1, <4>1 DEF Cover, MapsOf, Detaching
      <4>12. Sole(o)'
        BY <2>3, <3>1 DEF Sole, Leaving
      <4> QED BY <4>8, <4>10, <4>11, <4>12 DEF Tidy
    <3> QED BY <1>2, <1>d, <2>3, <2>6, <3>1, <3>2, DetachingOn DEF Detaching
  <2> QED BY <2>7, <2>8
<1> QED BY <1>1, <1>2 DEF Detach

\* The next mapping of a row is the last one, or another one stays.
LEMMA LastOfRow ==
    ASSUME TypeOK, NEW m \in maps
    PROVE  Cardinality({n \in maps : n[2] = m[2]}) = 1
              <=> \A n \in maps : n[2] = m[2] => n = m
<1> DEFINE S == {n \in maps : n[2] = m[2]}
<1>1. IsFiniteSet(S)
  <2>1. S \subseteq Mounts
    BY DEF TypeOK
  <2> QED BY <2>1, FS_Subset, VolumesAssumption
<1>2. m \in S
  OBVIOUS
<1>3. Cardinality(S) = 1 <=> \E x : S = {x}
  <2> HIDE DEF S
  <2> QED BY <1>1, FS_Singleton
<1>4. (\E x : S = {x}) <=> \A n \in S : n = m
  <2> HIDE DEF S
  <2> QED BY <1>2
<1> QED BY <1>3, <1>4

LEMMA DetachNextReleased ==
    ASSUME IInv, TypeOK', NEW o \in Owners, Released(o), DetachNext(o)
    PROVE  Released(o)' /\ Aside(o)
<1>t. th \in [Owners -> Thread] /\ th[o] \in Thread /\ TypeOK
  BY DEF IInv, TypeOK
<1>p. /\ th[o].pc = "list"
      /\ UNCHANGED <<vol, dev, mounted, maps, conn, own, rolled>>
  BY DEF DetachNext
<1>q. th[o].todo \subseteq maps /\ th[o].todo \subseteq MountsOf(o)
  BY <1>p DEF IInv, Work, Queued
<1>a. \A q \in Owners : q # o => th'[q] = th[q]
  BY DetachNextWork DEF IInv
<1>1. Aside(o)
  BY <1>p, <1>a DEF Aside
<1>2. CASE th[o].todo = {} /\ Goto(o, "gone")
  <2>1. /\ th'[o].pc = "gone"
        /\ th'[o].why = th[o].why /\ th'[o].then = th[o].then
    BY <1>t, <1>2, GotoType DEF PCs
  <2>2. Cover(o) => Cover(o)'
    BY <1>2, <1>p, <2>1 DEF Cover, MapsOf, Detaching
  <2>3. Sole(o)'
    BY <2>1 DEF Sole, Leaving
  <2>4. Bound(o) /\ Mapped(o) => Bound(o)' /\ Mapped(o)'
    BY <1>p, <1>t, <2>1, RowsKeep DEF MapsOf
  <2> QED BY <1>1, <1>p, <2>1, <2>2, <2>3, <2>4, DetachingOn DEF Tidy
<1>3. CASE th[o].todo # {} \/ ~Goto(o, "gone")
  <2>1. PICK m \in th[o].todo :
            Becomes(o, [th[o] EXCEPT !.todo = @ \ {m}, !.cur = m,
                     !.last = Cardinality(MapsOn(VolumeOf[m[2]])) = 1,
                     !.pc = IF Cardinality({n \in maps : n[2] = m[2]}) = 1
                               THEN "unmount" ELSE "destroy"])
    BY <1>3 DEF DetachNext
  <2>2. PICK l, p : /\ l = (Cardinality(MapsOn(VolumeOf[m[2]])) = 1)
                    /\ p = IF Cardinality({n \in maps : n[2] = m[2]}) = 1
                           THEN "unmount" ELSE "destroy"
    OBVIOUS
  <2>3. PICK t : t = [th[o] EXCEPT !.todo = @ \ {m}, !.cur = m, !.last = l, !.pc = p]
    OBVIOUS
  <2>4. /\ t.pc = p /\ t.cur = m /\ t.todo = th[o].todo \ {m}
        /\ t.why = th[o].why /\ t.then = th[o].then
    BY <1>t, <2>3 DEF Thread
  <2>5. th'[o] = t
    BY <1>t, <2>1, <2>2, <2>3, BecomesType
  <2>6. m \in maps /\ m \in MountsOf(o)
    BY <1>q
  <2>7. p = "unmount" <=> \A n \in maps : n[2] = m[2] => n = m
    BY <1>t, <2>2, <2>6, LastOfRow
  <2>8. p \in {"unmount", "destroy"}
    BY <2>2
  <2>9. Cover(o) => Cover(o)'
    BY <1>p, <2>4, <2>5, <2>8 DEF Cover, MapsOf, Detaching
  <2>10. Sole(o)'
    BY <1>p, <2>4, <2>5, <2>7, <2>8 DEF Sole, Leaving
  <2>11. Bound(o) /\ Mapped(o) => Bound(o)' /\ Mapped(o)'
    <3>1. CASE p = "unmount"
      BY <1>p, <1>t, <2>4, <2>5, <3>1, RowsKeep DEF MapsOf
    <3>2. CASE p = "destroy"
      <4>1. PICK k \in maps : k[2] = m[2] /\ k # m
        BY <2>7, <3>2
      <4>2. k \in Mounts /\ k \in MountsOf(o)
        BY <1>t, <2>6, <4>1, RowApart DEF TypeOK
      <4>3. k \in Current(o)'
        BY <1>p, <2>4, <2>5, <4>1, <4>2 DEF Current, MapsOf, MountsOf
      <4>4. \A n \in Current(o) : n # m => n \in Current(o)'
        BY <1>p, <2>4, <2>5 DEF Current, MapsOf
      <4>5. \A n \in Current(o) : \E j \in Current(o)' : j[2] = n[2]
        BY <4>1, <4>3, <4>4
      <4>6. \A v \in Volumes : /\ Attachments(o, v)' \subseteq Attachments(o, v)
                               /\ Sources(o, v) \subseteq Sources(o, v)'
        <5>1. th'[o].pc # "attach"
          BY <2>4, <2>5, <3>2
        <5> QED BY <1>p, <4>5, <5>1 DEF Attachments, Sources
      <4>7. Bound(o) => Bound(o)'
        BY <4>6, BoundKeeps
      <4>8. Mapped(o) => Mapped(o)'
        BY <1>p, <4>5, MappedKeeps
      <4> QED BY <4>7, <4>8
    <3> QED BY <2>8, <3>1, <3>2
  <2> QED BY <1>1, <1>p, <2>4, <2>5, <2>8, <2>9, <2>10, <2>11, DetachingOn
          DEF Tidy, Detaching
<1> QED BY <1>2, <1>3

LEMMA DestroyReleased ==
    ASSUME IInv, TypeOK', NEW o \in Owners, Released(o), DestroyMapping(o)
    PROVE  Released(o)' /\ Aside(o)
<1>t. th \in [Owners -> Thread] /\ th[o] \in Thread /\ TypeOK
  BY DEF IInv, TypeOK
<1>p. /\ th[o].pc = "destroy" /\ UNCHANGED <<vol, dev, mounted, own, rolled>>
      /\ RemoveMap(th[o].cur)
  BY DEF DestroyMapping
<1>c. th[o].cur \in MountsOf(o)
  BY <1>p, CurType DEF IInv, Works, Detaching
<1>1. /\ th'[o].pc \in {"list", "delete"} /\ th'[o].todo = th[o].todo
      /\ th'[o].why = th[o].why /\ th'[o].then = th[o].then
      /\ \A q \in Owners : q # o => th'[q] = th[q]
  <2> PICK t : t = IF th[o].cur[2] \in AutoRemove /\ th[o].last
                   THEN [th[o] EXCEPT !.pc = "delete"]
                   ELSE [th[o] EXCEPT !.pc = "list", !.cur = NoMap, !.last = FALSE]
    OBVIOUS
  <2>1. Becomes(o, t)
    BY DEF DestroyMapping
  <2>2. /\ t.pc \in {"list", "delete"} /\ t.todo = th[o].todo
        /\ t.why = th[o].why /\ t.then = th[o].then
    BY <1>t DEF Thread
  <2> QED BY <1>t, <2>1, <2>2, BecomesType
<1>2. Aside(o)
  BY <1>p, <1>c, <1>1, RemoveMapBeside DEF Aside
<1>3. maps' = maps \ {th[o].cur}
  BY <1>p DEF RemoveMap
<1>4. MapsOf(o)' = MapsOf(o) \ {th[o].cur}
  BY <1>3 DEF MapsOf
<1>5. Current(o)' = Current(o)
  BY <1>p, <1>1, <1>4 DEF Current
<1>6. \A m \in Current(o) : m[2] \in conn => m[2] \in conn'
  BY <1>p DEF RemoveMap, Current, MapsOf
<1>7. Cover(o) => Cover(o)'
  BY <1>p, <1>1, <1>4 DEF Cover, Detaching
<1>8. Sole(o)'
  BY <1>1 DEF Sole, Leaving
<1>9. \A v \in Volumes : /\ Attachments(o, v)' \subseteq Attachments(o, v)
                         /\ Sources(o, v) \subseteq Sources(o, v)'
  BY <1>p, <1>1, <1>5, <1>6 DEF Attachments, Sources
<1>10. Bound(o) => Bound(o)'
  BY <1>9, BoundKeeps
<1>11. Mapped(o) => Mapped(o)'
  BY <1>p, <1>5, MappedKeeps
<1> QED BY <1>p, <1>1, <1>2, <1>7, <1>8, <1>10, <1>11, DetachingOn
        DEF Tidy, Detaching

LEMMA DeleteVolumeReleased ==
    ASSUME IInv, TypeOK', NEW o \in Owners, Released(o), DeleteVolume(o)
    PROVE  Released(o)' /\ Aside(o)
<1>t. th \in [Owners -> Thread] /\ th[o] \in Thread /\ vol \in [Volumes -> Volume]
         /\ own \in [Owners -> Owner]
  BY DEF IInv, TypeOK
<1>p. th[o].pc = "delete" /\ UNCHANGED <<dev, mounted, maps, conn, rolled>>
  BY DEF DeleteVolume
<1>c. CurVol(o) \in Volumes
  BY <1>p, CurType DEF IInv
<1>1. CASE /\ Becomes(o, [th[o] EXCEPT !.pc = "list", !.cur = NoMap,
                                       !.last = FALSE,
                                       !.await = @ \cup {th[o].cur[2]}])
           /\ SetStatus(CurVol(o), "deleting") /\ UNCHANGED own
  <2> PICK t : t = [th[o] EXCEPT !.pc = "list", !.cur = NoMap, !.last = FALSE,
                                 !.await = @ \cup {th[o].cur[2]}]
    OBVIOUS
  <2>1. /\ t.pc = "list" /\ t.todo = th[o].todo
        /\ t.why = th[o].why /\ t.then = th[o].then
    BY <1>t DEF Thread
  <2>2. th'[o] = t /\ \A q \in Owners : q # o => th'[q] = th[q]
    BY <1>1, <1>t, BecomesType
  <2>3. \A v \in Volumes : vol'[v].attached = vol[v].attached
    BY <1>1, <1>c, <1>t, SetStatusType DEF Statuses
  <2>4. Aside(o)
    BY <1>1, <1>p, <2>2, <2>3 DEF Aside
  <2>5. Cover(o) => Cover(o)'
    BY <1>p, <2>1, <2>2 DEF Cover, Detaching, MapsOf
  <2>6. Sole(o)'
    BY <2>1, <2>2 DEF Sole, Leaving
  <2>7. Bound(o) /\ Mapped(o) => Bound(o)' /\ Mapped(o)'
    BY <1>p, <2>1, <2>2, <2>3, RowsKeep DEF IInv, MapsOf
  <2> QED BY <1>1, <1>p, <2>1, <2>2, <2>4, <2>5, <2>6, <2>7, DetachingOn DEF Tidy
<1>2. CASE Raise(o) /\ UNCHANGED vol
  <2>1. \A q \in Owners : q # o => th'[q] = th[q] /\ own'[q] = own[q]
    BY <1>2, <1>t, RaiseType
  <2>2. Aside(o)
    BY <1>2, <1>p, <2>1 DEF Aside
  <2> QED BY <1>2, <1>p, <2>2, RaiseReleased
<1> QED BY <1>1, <1>2 DEF DeleteVolume

\* Before its request an owner has nothing; after it, its volumes are to come.
LEMMA RequestReleased ==
    ASSUME IInv, TypeOK', NEW o \in Owners, Released(o),
           Request(o) \/ RequestRefused(o)
    PROVE  Released(o)' /\ Aside(o)
<1>t. th \in [Owners -> Thread] /\ th[o] \in Thread /\ vol \in [Volumes -> Volume]
         /\ own \in [Owners -> Owner] /\ own[o] \in Owner
  BY DEF IInv, TypeOK
<1>p. own[o].state = "none" /\ UNCHANGED <<dev, mounted, maps, conn, rolled>>
  BY DEF Request, RequestRefused
<1>n. /\ th[o].pc = "idle" /\ ~own[o].host
      /\ \A m \in MountsOf(o) : m \notin maps /\ m[2] \notin mounted
      /\ \A v \in Volumes : Attachments(o, v) = {}
  BY <1>p DEF IInv, Inv, Untouched, Released, Stage
<1>v. \A v \in Volumes : vol'[v].attached = vol[v].attached
  <2>1. CASE \E vs : vol' = Created(vs)
    BY <1>t, <2>1 DEF Created, Volume
  <2>2. CASE \E vs : vol' = [v \in Volumes |->
                    IF v \in vs THEN [vol[v] EXCEPT !.status = "deleting"]
                    ELSE vol[v]]
    BY <1>t, <2>2 DEF Volume
  <2> QED BY <2>1, <2>2 DEF Request, RequestRefused
<1>1. PICK s : /\ own' = [own EXCEPT ![o].state = s] /\ s # "none"
  BY DEF Request, RequestRefused
<1>2. /\ own'[o].state = s /\ own'[o].host = own[o].host
      /\ own'[o].forced = own[o].forced
      /\ \A q \in Owners : q # o => own'[q] = own[q]
  BY <1>1, <1>t DEF Owner
<1>3. /\ th'[o].pc \in {"idle", "wait"}
      /\ th'[o].why = th[o].why /\ th'[o].then = th[o].then
      /\ \A q \in Owners : q # o => th'[q] = th[q]
  <2>1. CASE UNCHANGED th
    BY <1>n, <2>1
  <2>2. CASE Becomes(o, [th[o] EXCEPT !.pc = "wait", !.todo = MountsOf(o)])
    <3> PICK t : t = [th[o] EXCEPT !.pc = "wait", !.todo = MountsOf(o)]
      OBVIOUS
    <3>1. t.pc = "wait" /\ t.why = th[o].why /\ t.then = th[o].then
      BY <1>t DEF Thread
    <3> QED BY <1>t, <2>2, <3>1, BecomesType
  <2> QED BY <2>1, <2>2 DEF Request, RequestRefused
<1>4. Aside(o)
  BY <1>p, <1>v, <1>2, <1>3 DEF Aside
<1>5. Stage(o)'
  BY <1>1, <1>2, <1>3, <1>n DEF Released, Stage, Detaching
<1>6. Cover(o)' /\ Sole(o)'
  BY <1>3 DEF Cover, Sole, Leaving, Detaching
<1>7. Mapped(o)'
  BY <1>p, <1>n DEF Mapped, MountsOf
<1>8. ASSUME NEW v \in Volumes PROVE Attachments(o, v)' = {}
  BY <1>n, <1>v DEF Attachments
<1>9. Bound(o)'
  <2> SUFFICES ASSUME NEW v \in Volumes
               PROVE  /\ IsFiniteSet(Attachments(o, v)')
                      /\ Cardinality(Attachments(o, v)')
                            <= Cardinality(Sources(o, v)')
    BY DEF Bound
  <2>1. IsFiniteSet(Attachments(o, v)') /\ Cardinality(Attachments(o, v)') = 0
    BY <1>8, FS_EmptySet
  <2>2. Cardinality(Sources(o, v)') \in Nat
    BY NewSourcesFinite, FS_CardinalityType
  <2> QED BY <2>1, <2>2
<1> QED BY <1>4, <1>5, <1>6, <1>7, <1>8, <1>9 DEF Released, Tidy

LEMMA RequestDeleteReleased ==
    ASSUME IInv, TypeOK', NEW o \in Owners, Released(o),
           RequestDelete(o) \/ DeleteHostless(o)
    PROVE  Released(o)' /\ Aside(o)
<1>t. th \in [Owners -> Thread] /\ th[o] \in Thread
         /\ own \in [Owners -> Owner] /\ own[o] \in Owner
  BY DEF IInv, TypeOK
<1>p. UNCHANGED <<vol, dev, mounted, maps, conn, rolled>>
  BY DEF RequestDelete, DeleteHostless
<1>n. own[o].state # "none"
  BY DEF RequestDelete, DeleteHostless
<1>1. CASE RequestDelete(o)
  <2>1. PICK force \in BOOLEAN :
          /\ own' = [own EXCEPT ![o] = [own[o] EXCEPT !.deleting = TRUE,
                                                 !.forced = @ \/ force]]
          /\ Becomes(o, [Idle EXCEPT !.pc = "docker",
                       !.why = IF force THEN "force" ELSE "delete"])
    BY <1>1 DEF RequestDelete
  <2>2. PICK w : w = [own[o] EXCEPT !.deleting = TRUE, !.forced = @ \/ force]
    OBVIOUS
  <2>3. /\ w.state = own[o].state /\ w.host = own[o].host
        /\ w.forced = (own[o].forced \/ force)
    BY <1>t, <2>2 DEF Owner
  <2>4. own'[o] = w /\ \A q \in Owners : q # o => own'[q] = own[q]
    BY <1>t, <2>1, <2>2
  <2>5. PICK t : t = [Idle EXCEPT !.pc = "docker",
                       !.why = IF force THEN "force" ELSE "delete"]
    OBVIOUS
  <2>6. /\ t.pc = "docker" /\ t.then = "idle"
        /\ t.why = IF force THEN "force" ELSE "delete"
    BY <2>5 DEF Idle
  <2>7. th'[o] = t /\ \A q \in Owners : q # o => th'[q] = th[q]
    BY <1>t, <2>1, <2>5, BecomesType
  <2>8. Aside(o)
    BY <1>p, <2>4, <2>7 DEF Aside
  <2>9. own[o].host
    BY <1>1 DEF RequestDelete
  <2>10. Stage(o)'
    BY <1>n, <2>3, <2>4, <2>6, <2>7, <2>9 DEF Stage, Attaching, Detaching
  <2>11. Clean(o)' => Clean(o)
    BY <2>3, <2>4, <2>9 DEF Clean
  <2>12. Cover(o)'
    BY <2>6, <2>7 DEF Cover, Detaching
  <2>13. own'[o].state # "none" /\ th'[o].pc = "docker"
    BY <1>n, <2>3, <2>4, <2>6, <2>7
  <2> QED BY <1>p, <2>8, <2>10, <2>11, <2>12, <2>13, QuietReleased
<1>2. CASE DeleteHostless(o)
  <2>1. own' = [own EXCEPT ![o].state = "gone"] /\ UNCHANGED th /\ ~own[o].host
    BY <1>2 DEF DeleteHostless
  <2>2. /\ own'[o].state = "gone" /\ own'[o].host = own[o].host
        /\ own'[o].forced = own[o].forced
        /\ \A q \in Owners : q # o => own'[q] = own[q]
    BY <1>t, <2>1 DEF Owner
  <2>3. Aside(o)
    BY <1>p, <2>1, <2>2 DEF Aside
  <2>4. Stage(o)'
    BY <2>1, <2>2 DEF Released, Stage
  <2>5. Clean(o)' => Clean(o)
    BY <2>1, <2>2 DEF Clean
  <2>6. MapsOf(o)' = MapsOf(o) /\ Current(o)' = Current(o)
    BY <1>p, <2>1 DEF MapsOf, Current
  <2>7. \A v \in Volumes : /\ Attachments(o, v)' \subseteq Attachments(o, v)
                           /\ Sources(o, v) \subseteq Sources(o, v)'
    BY <1>p, <2>1, <2>6 DEF Attachments, Sources
  <2>8. Tidy(o) => Tidy(o)'
    <3>1. Cover(o) => Cover(o)'
      BY <2>1, <2>6 DEF Cover
    <3>2. Sole(o) => Sole(o)'
      BY <1>p, <2>1 DEF Sole
    <3>3. Bound(o) => Bound(o)'
      BY <2>7, BoundKeeps
    <3>4. Mapped(o) => Mapped(o)'
      BY <1>p, <2>6, MappedKeeps
    <3> QED BY <3>1, <3>2, <3>3, <3>4 DEF Tidy
  <2> QED BY <2>2, <2>3, <2>4, <2>5, <2>8 DEF Released
<1> QED BY <1>1, <1>2

\* Cinder on its own changes no attachment.
LEMMA CinderReleased ==
    ASSUME IInv, TypeOK', NEW o \in Owners, Released(o),
           UNCHANGED <<dev, mounted, maps, conn, own, th, rolled>>,
           \A v \in Volumes : vol'[v].attached = vol[v].attached
    PROVE  Released(o)'
<1>1. /\ MapsOf(o)' = MapsOf(o) /\ Current(o)' = Current(o)
      /\ Clean(o)' <=> Clean(o)
  BY DEF MapsOf, Current, Clean
<1>2. \A v \in Volumes : /\ Attachments(o, v)' = Attachments(o, v)
                         /\ Sources(o, v) \subseteq Sources(o, v)'
  BY <1>1 DEF Attachments, Sources
<1>3. Tidy(o) => Tidy(o)'
  <2>1. Cover(o) => Cover(o)'
    BY <1>1 DEF Cover
  <2>2. Sole(o) => Sole(o)'
    BY DEF Sole
  <2>3. Bound(o) => Bound(o)'
    BY <1>2, BoundKeeps
  <2>4. Mapped(o) => Mapped(o)'
    BY <1>1, MappedKeeps
  <2> QED BY <2>1, <2>2, <2>3, <2>4 DEF Tidy
<1>4. Stage(o)'
  BY DEF Released, Stage
<1> QED BY <1>1, <1>2, <1>3, <1>4 DEF Released

RInv == IInv /\ \A o \in Owners : Released(o)

LEMMA ReleasedInit == Init => RInv
<1> SUFFICES ASSUME Init PROVE RInv
  OBVIOUS
<1>1. IInv
  BY InvInit
<1> SUFFICES ASSUME NEW o \in Owners PROVE Released(o)
  BY <1>1 DEF RInv
<1>2. /\ th[o].pc = "idle" /\ th[o].why = "attach" /\ th[o].then = "idle"
      /\ own[o].state = "none" /\ ~own[o].host /\ maps = {} /\ mounted = {}
  BY DEF Init, Idle
<1>3. \A v \in Volumes : Attachments(o, v) = {}
  BY DEF Init, Attachments
<1>4. Stage(o) /\ Cover(o) /\ Sole(o)
  BY <1>2 DEF Stage, Cover, Sole, Attaching, Detaching, Leaving
<1>5. Mapped(o)
  BY <1>2 DEF Mapped
<1>6. Bound(o)
  <2> SUFFICES ASSUME NEW v \in Volumes
               PROVE  /\ IsFiniteSet(Attachments(o, v))
                      /\ Cardinality(Attachments(o, v))
                            <= Cardinality(Sources(o, v))
    BY DEF Bound
  <2>1. IsFiniteSet(Attachments(o, v)) /\ Cardinality(Attachments(o, v)) = 0
    BY <1>3, FS_EmptySet
  <2>2. Cardinality(Sources(o, v)) \in Nat
    BY <1>1, SourcesFinite, FS_CardinalityType DEF IInv
  <2> QED BY <2>1, <2>2
<1> QED BY <1>3, <1>4, <1>5, <1>6 DEF Released, Tidy

LEMMA ReleasedStep == RInv /\ [Next]_vars => RInv'
<1> SUFFICES ASSUME RInv, [Next]_vars PROVE RInv'
  OBVIOUS
<1>i. IInv /\ IInv' /\ TypeOK'
  BY InvStep DEF RInv, IInv
<1>1. CASE UNCHANGED vars
  <2>1. UNCHANGED <<vol, dev, mounted, maps, conn, own, th, rolled>>
    BY <1>1 DEF vars
  <2>2. \A o \in Owners : Released(o)'
    BY <1>i, <2>1, CinderReleased DEF RInv
  <2> QED BY <1>i, <2>2 DEF RInv
<1>2. ASSUME NEW v \in Volumes, CinderCreates(v) \/ CinderDeletes(v) PROVE RInv'
  <2>1. /\ UNCHANGED <<dev, mounted, maps, conn, own, th, rolled>>
        /\ \E s \in Statuses : SetStatus(v, s)
    BY <1>2 DEF CinderCreates, CinderDeletes, Statuses
  <2>2. \A u \in Volumes : vol'[u].attached = vol[u].attached
    BY <1>i, <2>1, SetStatusType DEF IInv, TypeOK
  <2>3. \A o \in Owners : Released(o)'
    BY <1>i, <2>1, <2>2, CinderReleased DEF RInv
  <2> QED BY <1>i, <2>3 DEF RInv
<1>3. ASSUME NEW o \in Owners, API(o) \/ Step(o) PROVE RInv'
  <2>r. Released(o)
    BY DEF RInv
  <2>a. Released(o)' /\ Aside(o)
    <3>1. CASE Request(o) \/ RequestRefused(o)
      BY <1>i, <2>r, <3>1, RequestReleased
    <3>2. CASE RequestDelete(o) \/ DeleteHostless(o)
      BY <1>i, <2>r, <3>2, RequestDeleteReleased
    <3>3. CASE WaitAvailable(o) \/ WaitTimeout(o)
      BY <1>i, <2>r, <3>3, WaitReleased
    <3>4. CASE AttachNext(o)
      BY <1>i, <2>r, <3>4, AttachNextReleased
    <3>5. CASE Reserve(o) \/ InitializeConnection(o) \/ ConnectVolume(o)
      BY <1>i, <2>r, <3>5, ReserveReleased
    <3>6. CASE CinderAttach(o)
      BY <1>i, <2>r, <3>6, CinderAttachReleased
    <3>7. CASE MountDevice(o)
      BY <1>i, <2>r, <3>7, MountReleased
    <3>8. CASE Undo(o)
      BY <1>i, <2>r, <3>8, UndoReleased
    <3>9. CASE DropMapping(o)
      BY <1>i, <2>r, <3>9, DropReleased
    <3>10. CASE \/ Build(o) \/ DockerDelete(o) \/ Failed(o) \/ Finish(o)
                \/ DeletionTimeout(o)
      BY <1>i, <2>r, <3>10, BuildReleased
    <3>11. CASE DetachNext(o)
      BY <1>i, <2>r, <3>11, DetachNextReleased
    <3>12. CASE \/ Unmount(o) \/ BeginDetaching(o) \/ KeepConnection(o)
                \/ DisconnectVolume(o) \/ TerminateConnection(o)
      BY <1>i, <2>r, <3>12, LeaveReleased
    <3>13. CASE Detach(o)
      BY <1>i, <2>r, <3>13, DetachReleased
    <3>14. CASE DestroyMapping(o)
      BY <1>i, <2>r, <3>14, DestroyReleased
    <3>15. CASE DeleteVolume(o)
      BY <1>i, <2>r, <3>15, DeleteVolumeReleased
    <3> QED BY <1>3, <3>1, <3>2, <3>3, <3>4, <3>5, <3>6, <3>7, <3>8, <3>9,
               <3>10, <3>11, <3>12, <3>13, <3>14, <3>15 DEF API, Step
  <2>b. ASSUME NEW p \in Owners PROVE Released(p)'
    BY <1>i, <2>a, OtherReleased DEF RInv
  <2> QED BY <1>i, <2>b DEF RInv
<1> QED BY <1>1, <1>2, <1>3 DEF Next

\* When the compute service removes the row of an owner whose deletion was
\* never forced, nothing of it is left: none of its containers is attached to a
\* volume in Cinder, none has a mapping or a mount; for any owners, mounts,
\* volumes, hosts and faults, and whatever failed, was rolled back or deleted
\* before (_do_container_delete, _detach_volumes, _fail_container).
THEOREM DeletedReleasesAll == Spec => DeleteReleases
<1>1. Init => RInv
  BY ReleasedInit
<1>2. RInv /\ [Next]_vars => RInv'
  BY ReleasedStep
<1>3. RInv /\ [Next]_vars =>
        [\A o \in Owners : Finish(o) /\ ~own[o].forced =>
            \A m \in MountsOf(o) :
               /\ m \notin maps /\ m[2] \notin mounted
               /\ m[1] \notin vol[VolumeOf[m[2]]].attached]_vars
  <2> SUFFICES ASSUME RInv, NEW o \in Owners, Finish(o), ~own[o].forced,
                      NEW m \in MountsOf(o)
               PROVE  /\ m \notin maps /\ m[2] \notin mounted
                      /\ m[1] \notin vol[VolumeOf[m[2]]].attached
    OBVIOUS
  <2>1. Released(o) /\ th[o].pc = "gone" /\ th[o].why \in {"delete", "force"}
    BY DEF RInv, Finish
  <2>2. th[o].why = "delete" /\ own[o].host
    BY <2>1 DEF Released, Stage
  <2>3. Cover(o) /\ Bound(o) /\ Mapped(o)
    BY <2>1, <2>2 DEF Released, Clean, Tidy
  <2>4. MapsOf(o) = {} /\ Current(o) = {}
    BY <2>1, <2>2, <2>3 DEF Cover, Current
  <2>5. m \in Mounts /\ OwnerOf[m[1]] = o /\ VolumeOf[m[2]] \in Volumes
    BY MountType DEF MountsOf
  <2>6. m \notin maps /\ m[2] \notin mounted
    BY <2>3, <2>4, <2>5 DEF MapsOf, Mapped
  <2>7. PICK v : v = VolumeOf[m[2]]
    OBVIOUS
  <2>8. Sources(o, v) = {}
    BY <2>4 DEF Sources
  <2>9. IsFiniteSet(Attachments(o, v)) /\ Cardinality(Attachments(o, v)) <= 0
    BY <2>3, <2>5, <2>7, <2>8, FS_EmptySet DEF Bound
  <2>10. Cardinality(Attachments(o, v)) = 0
    BY <2>9, FS_CardinalityType
  <2>11. Attachments(o, v) = {}
    BY <2>9, <2>10, FS_EmptySet
  <2> QED BY <2>5, <2>6, <2>7, <2>11 DEF Attachments
<1> QED BY <1>1, <1>2, <1>3, PTL DEF Spec, DeleteReleases

=============================================================================
