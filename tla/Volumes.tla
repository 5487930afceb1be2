------------------------------- MODULE Volumes -------------------------------
(***************************************************************************)
(* The Cinder volumes of containers and capsules: from the request of the  *)
(* API (_build_requested_volumes) through _attach_volumes, CinderWorkflow  *)
(* and the mounting of the device, to _fail_container, _detach_volumes and *)
(* the deletion.                                                           *)
(*                                                                         *)
(* An owner is what a request creates: a container, or a capsule with the  *)
(* containers inside it.  A row is a Volume object of the database; the    *)
(* containers of a capsule that mount the same volume share its row, every *)
(* mount of a plain container has a row of its own.  A mapping is a pair   *)
(* <<container, row>>.  Cinder, os-brick and mount(8) are external and     *)
(* modelled from how the code uses them.                                   *)
(*                                                                         *)
(* The compute service runs one thread per owner at a time                 *)
(* (utils.synchronized on the uuid); threads of different owners, on one   *)
(* host or on several, interleave at every call to Cinder, to the host and *)
(* to the database.  Restarts of the service (_remount_volume) are not in  *)
(* this module.                                                            *)
(***************************************************************************)
EXTENDS Integers, FiniteSets, Sequences

CONSTANTS
    Owners,         \* containers and capsules
    Capsules,       \* the owners that are capsules
    Containers,     \* the containers mounting volumes
    OwnerOf,        \* [Containers -> Owners]
    Rows,           \* objects.Volume
    Volumes,        \* Cinder volumes
    VolumeOf,       \* [Rows -> Volumes], cinder_volume_id
    Mounts,         \* the mappings requested, a set of <<container, row>>
    AutoRemove,     \* the rows whose volume the API creates ("size")
    Multiattach,    \* the Cinder volumes with the multiattach flag
    Hosts,
    HostOf,         \* [Owners -> Hosts], what the scheduler chooses
    Faults          \* the calls that may fail, see AllFaults

\* "schedule": NoValidHost; "cinder": a call to Cinder; "device": os-brick,
\* mount and umount; "build": the rest of the creation and Docker's removal.
AllFaults == {"schedule", "cinder", "device", "build"}

ASSUME VolumesAssumption ==
    /\ Capsules \subseteq Owners
    /\ OwnerOf \in [Containers -> Owners]
    /\ VolumeOf \in [Rows -> Volumes]
    /\ Mounts \subseteq Containers \X Rows
    /\ AutoRemove \subseteq Rows
    /\ IsFiniteSet(Mounts)
    \* The API creates a volume for each of them.
    /\ \A r, s \in AutoRemove : VolumeOf[r] = VolumeOf[s] => r = s
    /\ Multiattach \subseteq Volumes
    /\ HostOf \in [Owners -> Hosts]
    /\ Faults \subseteq AllFaults
    \* A row belongs to one request, and only a capsule's containers share it.
    /\ \A m, n \in Mounts : m[2] = n[2] =>
          /\ OwnerOf[m[1]] = OwnerOf[n[1]]
          /\ m[1] # n[1] => OwnerOf[m[1]] \in Capsules
    /\ \A o \in Owners \ Capsules : \A c, d \in Containers :
          OwnerOf[c] = o /\ OwnerOf[d] = o => c = d

VARIABLES
    vol,      \* Cinder: status, attachments, hosts the volume is exported to
    dev,      \* [Hosts -> the volumes whose device is connected]
    mounted,  \* the rows whose mount point is mounted, on their owner's host
    maps,     \* VolumeMapping rows
    conn,     \* the rows whose connection_info is saved
    own,      \* the owner's row: its status, host and deletion (and, as a
              \* history, whether a deletion was ever forced)
    th,       \* the thread working for the owner
    rolled    \* history: volumes with a roll-back while another had a mapping

vars == <<vol, dev, mounted, maps, conn, own, th, rolled>>

Statuses == {"none", "creating", "available", "attaching", "in-use",
             "detaching", "error", "deleting", "gone"}

PCs == {"idle", "wait", "next", "reserve", "init", "connect", "attach",
        "mount", "undo", "drop", "build", "docker", "list", "unmount", "begin",
        "keep", "disconnect", "terminate", "detach", "destroy", "delete",
        "gone"}

UndoSteps == {"disconnect", "terminate", "detach", "unreserve"}

NoMap == <<>>

\* why: the code a detach runs for.  "attach": the roll-back of a mount;
\* "fail": _fail_container; "delete" and "force": _do_container_delete.
\* then: where a thread continues after _fail_container.
Thread == [pc : PCs, cur : Mounts \cup {NoMap}, todo : SUBSET Mounts,
           undo : Seq(UndoSteps), why : {"attach", "fail", "delete", "force"},
           last : BOOLEAN, await : SUBSET Rows, unset : BOOLEAN,
           then : {"idle", "list"}, part : BOOLEAN]

Idle == [pc |-> "idle", cur |-> NoMap, todo |-> {}, undo |-> <<>>,
         why |-> "attach", last |-> FALSE, await |-> {}, unset |-> FALSE,
         then |-> "idle", part |-> FALSE]

Volume == [status : Statuses, attached : SUBSET Containers,
           exports : SUBSET Hosts]

Owner == [state : {"none", "creating", "ready", "error", "gone"},
          host : BOOLEAN, deleting : BOOLEAN, forced : BOOLEAN]

\* Type invariant.
TypeOK ==
    /\ vol \in [Volumes -> Volume]
    /\ dev \in [Hosts -> SUBSET Volumes]
    /\ mounted \subseteq Rows
    /\ maps \subseteq Mounts
    /\ conn \subseteq Rows
    /\ own \in [Owners -> Owner]
    /\ th \in [Owners -> Thread]
    /\ rolled \subseteq Volumes

-----------------------------------------------------------------------------
(* Helpers                                                                  *)

MountsOf(o) == {m \in Mounts : OwnerOf[m[1]] = o}

HostOfMap(m) == HostOf[OwnerOf[m[1]]]

\* VolumeMapping.list_by_cinder_volume.
MapsOn(v) == {m \in maps : VolumeOf[m[2]] = v}

\* The volume and the host of the mapping a thread works on.
CurVol(o) == VolumeOf[th[o].cur[2]]

CurHost(o) == HostOf[o]

\* The thread of o continues as t, or just at pc.
Becomes(o, t) == th' = [th EXCEPT ![o] = t]

Goto(o, pc) == Becomes(o, [th[o] EXCEPT !.pc = pc])

SetStatus(v, s) == vol' = [vol EXCEPT ![v].status = s]

\* The status of a volume nobody reserves.
Rest(v, attached) == IF attached = {} THEN "available" ELSE "in-use"

\* The maps left of an owner, or of one container of a capsule.
MapsOf(o) == {m \in maps : OwnerOf[m[1]] = o}

\* _fail_container begins: it detaches the volumes in scope.
Failing(t, scope, unset, then, part) ==
    [t EXCEPT !.pc = "list", !.why = "fail", !.todo = scope, !.await = {},
              !.cur = NoMap, !.undo = <<>>, !.unset = unset, !.then = then,
              !.part = part]

\* is_volume_available.
IsAvailable(v) ==
    \/ vol[v].status = "available"
    \/ vol[v].status = "in-use" /\ v \in Multiattach

\* Cinder accepts the deletion of a volume that is not in use.
Deletable(v) == vol[v].status \in {"available", "error"} /\ vol[v].attached = {}

\* Removing a mapping, and its row with the last one (VolumeMapping.destroy).
RemoveMap(m) ==
    /\ maps' = maps \ {m}
    /\ conn' = IF \E n \in maps \ {m} : n[2] = m[2] THEN conn ELSE conn \ {m[2]}

-----------------------------------------------------------------------------
(* The API                                                                  *)

\* search_volume and ensure_volume_usable, on what Cinder answers at that time.
Usable(r) ==
    \/ r \in AutoRemove
    \/ LET v == VolumeOf[r]
       IN /\ vol[v].status \notin {"none", "gone"}
          /\ vol[v].attached = {} \/ v \in Multiattach

AutoVols(o) ==
    {VolumeOf[m[2]] : m \in {n \in MountsOf(o) : n[2] \in AutoRemove}}

Created(vs) == [v \in Volumes |->
    IF v \in vs THEN [vol[v] EXCEPT !.status = "creating"] ELSE vol[v]]

\* _build_requested_volumes, then the scheduler: without a host the owner is in
\* error, and the volumes just created are left alone.
Request(o) ==
    /\ own[o].state = "none"
    /\ \A m \in MountsOf(o) : Usable(m[2])
    /\ vol' = Created(AutoVols(o))
    /\ \/ /\ own' = [own EXCEPT ![o].state = "creating"]
          /\ Becomes(o, [th[o] EXCEPT !.pc = "wait", !.todo = MountsOf(o)])
       \/ /\ "schedule" \in Faults
          /\ own' = [own EXCEPT ![o].state = "error"]
          /\ UNCHANGED th
    /\ UNCHANGED <<dev, mounted, maps, conn, rolled>>

\* A volume of the request is missing or in use: the rows of a capsule are
\* removed and the volumes made for it deleted; a container's row stays, without
\* a host.
RequestRefused(o) ==
    /\ own[o].state = "none"
    /\ \E m \in MountsOf(o) : ~Usable(m[2])
    /\ \E vs \in SUBSET AutoVols(o) :
          IF o \in Capsules
          THEN /\ vol' = [v \in Volumes |->
                    IF v \in vs THEN [vol[v] EXCEPT !.status = "deleting"]
                    ELSE vol[v]]
               /\ own' = [own EXCEPT ![o].state = "gone"]
          ELSE /\ vol' = Created(vs)
               /\ own' = [own EXCEPT ![o].state = "creating"]
    /\ UNCHANGED <<dev, mounted, maps, conn, th, rolled>>

\* An owner with a host is deleted by the compute service; only containers
\* have a force flag.
RequestDelete(o) ==
    /\ own[o].state \in {"ready", "error"} /\ own[o].host
    /\ th[o].pc = "idle"
    /\ \E force \in IF o \in Capsules THEN {FALSE} ELSE BOOLEAN :
          /\ own' = [own EXCEPT ![o] = [own[o] EXCEPT !.deleting = TRUE,
                                                 !.forced = @ \/ force]]
          /\ Becomes(o, [Idle EXCEPT !.pc = "docker",
                       !.why = IF force THEN "force" ELSE "delete"])
    /\ UNCHANGED <<vol, dev, mounted, maps, conn, rolled>>

\* The rows of an owner without a host are removed by the API, whatever a
\* thread is doing for it.
DeleteHostless(o) ==
    /\ own[o].state \in {"creating", "error"} /\ ~own[o].host
    /\ own' = [own EXCEPT ![o].state = "gone"]
    /\ UNCHANGED <<vol, dev, mounted, maps, conn, th, rolled>>

-----------------------------------------------------------------------------
(* container_create: waiting for the volumes and attaching them             *)

\* One poll of _wait_for_volumes_available that finds a volume available.
WaitAvailable(o) ==
    /\ th[o].pc = "wait"
    /\ \/ /\ th[o].todo = {}
          /\ Becomes(o, [th[o] EXCEPT !.pc = "next", !.todo = MountsOf(o)])
       \/ \E m \in th[o].todo :
            /\ IsAvailable(VolumeOf[m[2]])
            /\ Becomes(o, [th[o] EXCEPT !.todo = @ \ {m}])
    /\ UNCHANGED <<vol, dev, mounted, maps, conn, own, rolled>>

\* The time is over, or a volume is in error: the volumes made for the request
\* are deleted and the owner fails.
WaitTimeout(o) ==
    /\ th[o].pc = "wait"
    /\ \E m \in th[o].todo : ~IsAvailable(VolumeOf[m[2]])
    /\ vol' = [v \in Volumes |->
                 IF v \in AutoVols(o) /\ Deletable(v)
                 THEN [vol[v] EXCEPT !.status = "deleting"] ELSE vol[v]]
    /\ Becomes(o, Failing(th[o], MapsOf(o), TRUE, "idle", FALSE))
    /\ UNCHANGED <<dev, mounted, maps, conn, own, rolled>>

\* _attach_volumes: the mapping is created first.  A container of a capsule
\* uses the volume another one of the capsule attached.  The order of the
\* mounts is that of the request, any one here.
AttachNext(o) ==
    /\ th[o].pc = "next"
    /\ \/ /\ th[o].todo = {}
          /\ Goto(o, "build")
          /\ UNCHANGED maps
       \/ \E m \in th[o].todo :
            /\ maps' = maps \cup {m}
            /\ IF m[2] \in conn
               THEN Becomes(o, [th[o] EXCEPT !.todo = @ \ {m}])
               ELSE Becomes(o, [th[o] EXCEPT !.todo = @ \ {m}, !.cur = m,
                                             !.pc = "reserve"])
    /\ UNCHANGED <<vol, dev, mounted, conn, own, rolled>>

\* A failure in attach_volume: the steps of its handlers, unreserve_volume last
\* whatever failed.
Undoing(o, steps) ==
    Becomes(o, [th[o] EXCEPT !.pc = "undo",
                             !.undo = Append(steps, "unreserve")])

Reserve(o) ==
    /\ th[o].pc = "reserve"
    /\ LET v == CurVol(o)
       IN \/ /\ IsAvailable(v)
             /\ SetStatus(v, "attaching")
             /\ Goto(o, "init")
          \/ /\ ~IsAvailable(v) \/ "cinder" \in Faults
             /\ Undoing(o, <<>>)
             /\ UNCHANGED vol
    /\ UNCHANGED <<dev, mounted, maps, conn, own, rolled>>

InitializeConnection(o) ==
    /\ th[o].pc = "init"
    /\ \/ /\ vol' = [vol EXCEPT ![CurVol(o)].exports = @ \cup {CurHost(o)}]
          /\ Goto(o, "connect")
       \/ /\ "cinder" \in Faults
          /\ Undoing(o, <<"terminate">>)
          /\ UNCHANGED vol
    /\ UNCHANGED <<dev, mounted, maps, conn, own, rolled>>

\* os-brick connects the device; connection_info is saved before the volume is
\* attached in Cinder.
ConnectVolume(o) ==
    /\ th[o].pc = "connect"
    /\ \/ /\ dev' = [dev EXCEPT ![CurHost(o)] = @ \cup {CurVol(o)}]
          /\ conn' = conn \cup {th[o].cur[2]}
          /\ Goto(o, "attach")
       \/ /\ "device" \in Faults
          /\ Undoing(o, <<"terminate">>)
          /\ UNCHANGED <<dev, conn>>
    /\ UNCHANGED <<vol, mounted, maps, own, rolled>>

\* Cinder attaches a volume that is reserved or free, a second time only with
\* multiattach.
Attachable(v) ==
    /\ vol[v].status \in {"attaching", "available"} \/ IsAvailable(v)
    /\ vol[v].attached = {} \/ v \in Multiattach

\* A call that failed may have been carried out.
CinderAttach(o) ==
    /\ th[o].pc = "attach"
    /\ LET v == CurVol(o)
           done == vol' = [vol EXCEPT ![v] = [vol[v] EXCEPT !.status = "in-use",
                                       !.attached = @ \cup {th[o].cur[1]}]]
           failed == Undoing(o, <<"disconnect", "terminate", "detach">>)
       IN \/ Attachable(v) /\ done /\ Goto(o, "mount")
          \/ Attachable(v) /\ "cinder" \in Faults /\ done /\ failed
          \/ /\ ~Attachable(v) \/ "cinder" \in Faults
             /\ failed
             /\ UNCHANGED vol
    /\ UNCHANGED <<dev, mounted, maps, conn, own, rolled>>

\* do_mount; a device that cannot be mounted is detached again, in the way of
\* every other detach.
MountDevice(o) ==
    /\ th[o].pc = "mount"
    /\ \/ /\ mounted' = mounted \cup {th[o].cur[2]}
          /\ Becomes(o, [th[o] EXCEPT !.pc = "next", !.cur = NoMap])
       \/ /\ "device" \in Faults
          /\ Becomes(o, [th[o] EXCEPT !.pc = "begin", !.why = "attach"])
          /\ UNCHANGED mounted
    /\ UNCHANGED <<vol, dev, maps, conn, own, rolled>>

\* CinderAPI.detach: the attachment of this container, else none is named and
\* Cinder takes the only one there is.
Remaining(v, c) ==
    IF c \in vol[v].attached THEN vol[v].attached \ {c} ELSE {}

DetachRefused(v, c) ==
    c \notin vol[v].attached /\ Cardinality(vol[v].attached) > 1

CinderDetach(v, c) ==
    vol' = [vol EXCEPT ![v] = [vol[v] EXCEPT !.attached = Remaining(v, c),
                                        !.status = Rest(v, Remaining(v, c))]]

\* One step of the handlers of attach_volume and _do_attach_volume.
UndoStep(o, step) ==
    LET v == CurVol(o)
        h == CurHost(o)
    IN \/ /\ step = "disconnect"
          /\ dev' = [dev EXCEPT ![h] = @ \ {v}]
          /\ UNCHANGED vol
       \/ /\ step = "terminate"
          /\ vol' = [vol EXCEPT ![v].exports = @ \ {h}]
          /\ UNCHANGED dev
       \/ /\ step = "detach" /\ ~DetachRefused(v, th[o].cur[1])
          /\ CinderDetach(v, th[o].cur[1])
          /\ UNCHANGED dev
       \/ /\ step = "unreserve"
          /\ IF vol[v].status = "attaching"
             THEN SetStatus(v, Rest(v, vol[v].attached)) ELSE UNCHANGED vol
          /\ UNCHANGED dev

UndoFails(o, step) ==
    \/ step = "disconnect" /\ "device" \in Faults
    \/ step # "disconnect" /\ "cinder" \in Faults
    \/ step = "detach" /\ DetachRefused(CurVol(o), th[o].cur[1])

Undo(o) ==
    /\ th[o].pc = "undo"
    /\ rolled' = rolled \cup {v \in {CurVol(o)} : MapsOn(v) \ {th[o].cur} # {}}
    /\ LET step == Head(th[o].undo)
           go(rest) == Becomes(o, [th[o] EXCEPT !.undo = rest,
                                 !.pc = IF rest = <<>> THEN "drop" ELSE "undo"])
       IN \/ UndoStep(o, step) /\ go(Tail(th[o].undo))
          \/ /\ UndoFails(o, step)
             /\ go(IF step = "unreserve" THEN <<>> ELSE <<"unreserve">>)
             /\ UNCHANGED <<vol, dev>>
    /\ UNCHANGED <<mounted, maps, conn, own>>

\* The handler of _attach_volume, and _fail_container for the container whose
\* volume it is: the row of a capsule is not touched.
DropMapping(o) ==
    /\ th[o].pc = "drop"
    /\ LET m == th[o].cur
           v == VolumeOf[m[2]]
       IN /\ IF m[2] \in AutoRemove /\ Deletable(v)
             THEN SetStatus(v, "deleting") ELSE UNCHANGED vol
          /\ RemoveMap(m)
          /\ Becomes(o, Failing(th[o],
                      {n \in MapsOf(o) \ {m} : n[1] = m[1]}, TRUE, "idle",
                      o \in Capsules))
    /\ UNCHANGED <<dev, mounted, own, rolled>>

\* The claim, the image and Docker: the owner gets its host with the claim and
\* may lose it when a later step fails.  Without its row, saving the claim
\* raises and nothing is undone.
Build(o) ==
    /\ th[o].pc = "build"
    /\ \/ /\ own[o].state = "gone"
          /\ Becomes(o, Idle)
          /\ UNCHANGED own
       \/ /\ own[o].state # "gone"
          /\ own' = [own EXCEPT ![o] = [own[o] EXCEPT !.state = "ready",
                                                      !.host = TRUE]]
          /\ Becomes(o, Idle)
       \/ /\ own[o].state # "gone" /\ "build" \in Faults
          /\ own' = [own EXCEPT ![o].host = TRUE]
          /\ \E unset \in BOOLEAN :
               Becomes(o, Failing(th[o], MapsOf(o), unset, "idle", FALSE))
    /\ UNCHANGED <<vol, dev, mounted, maps, conn, rolled>>

-----------------------------------------------------------------------------
(* _detach_volumes and the deletion                                         *)

\* The removal of the Docker container(s); a failure fails the owner, and ends
\* the deletion unless it is forced.
DockerDelete(o) ==
    /\ th[o].pc = "docker"
    /\ \/ /\ Becomes(o, [th[o] EXCEPT !.pc = "list", !.todo = MapsOf(o)])
          /\ UNCHANGED own
       \/ /\ "build" \in Faults
          /\ LET forced == th[o].why = "force"
             IN /\ Becomes(o, Failing(th[o], MapsOf(o), FALSE,
                              IF forced THEN "list" ELSE "idle", FALSE))
                /\ own' = [own EXCEPT ![o].deleting = forced]
    /\ UNCHANGED <<vol, dev, mounted, maps, conn, rolled>>

\* The next mapping: how many there are for the Cinder volume, and whether it
\* is the last one of the row.
DetachNext(o) ==
    /\ th[o].pc = "list"
    /\ \/ /\ th[o].todo = {}
          /\ Goto(o, "gone")
       \/ \E m \in th[o].todo :
            Becomes(o, [th[o] EXCEPT !.todo = @ \ {m}, !.cur = m,
                     !.last = Cardinality(MapsOn(VolumeOf[m[2]])) = 1,
                     !.pc = IF Cardinality({n \in maps : n[2] = m[2]}) = 1
                               THEN "unmount" ELSE "destroy"])
    /\ UNCHANGED <<vol, dev, mounted, maps, conn, own, rolled>>

\* An exception that leaves _detach_volumes: _fail_container goes on without
\* the rest, a deletion ends.
Raise(o) ==
    IF th[o].why = "fail"
    THEN /\ Becomes(o, [th[o] EXCEPT !.pc = "gone", !.todo = {}, !.await = {},
                                     !.cur = NoMap, !.last = FALSE])
         /\ UNCHANGED own
    ELSE /\ Becomes(o, Idle)
         /\ own' = [own EXCEPT ![o].deleting = FALSE]

\* Mutant: the exception is swallowed whether the deletion is forced or not.
DetachFailed_Swallowed(o) ==
    \/ th[o].why = "attach" /\ Goto(o, "drop") /\ UNCHANGED own
    \/ th[o].why \in {"force", "delete"} /\ Goto(o, "destroy") /\ UNCHANGED own
    \/ th[o].why = "fail" /\ Raise(o)

\* An exception in the driver's detach: logged after a failed mount, and
\* swallowed by a forced deletion, which then removes the mapping.
DetachFailed(o) ==
    \/ th[o].why = "attach" /\ Goto(o, "drop") /\ UNCHANGED own
    \/ th[o].why = "force" /\ Goto(o, "destroy") /\ UNCHANGED own
    \/ th[o].why \in {"fail", "delete"} /\ Raise(o)

Unmount(o) ==
    /\ th[o].pc = "unmount"
    /\ \/ /\ mounted' = mounted \ {th[o].cur[2]}
          /\ Goto(o, "begin")
          /\ UNCHANGED own
       \/ /\ "device" \in Faults
          /\ DetachFailed(o)
          /\ UNCHANGED mounted
    /\ UNCHANGED <<vol, dev, maps, conn, rolled>>

\* Cinder begins to detach a volume in use, and no other.
BeginDetaching(o) ==
    /\ th[o].pc = "begin"
    /\ LET v == CurVol(o)
       IN \/ /\ vol[v].status = "in-use"
             /\ SetStatus(v, "detaching")
             /\ Goto(o, "keep")
             /\ UNCHANGED own
          \/ /\ vol[v].status # "in-use" \/ "cinder" \in Faults
             /\ DetachFailed(o)
             /\ UNCHANGED vol
    /\ UNCHANGED <<dev, mounted, maps, conn, rolled>>

\* Mutant: the mapping being detached is taken for one of another container.
VolumeConnectionKeep_Own(v, h) ==
    Cardinality({m \in MapsOn(v) : HostOfMap(m) = h}) > 2

\* _volume_connection_keep: another mapping of the volume on this host.
VolumeConnectionKeep(v, h) ==
    Cardinality({m \in MapsOn(v) : HostOfMap(m) = h}) # 1

KeepConnection(o) ==
    /\ th[o].pc = "keep"
    /\ Goto(o, IF VolumeConnectionKeep(CurVol(o), CurHost(o))
               THEN "detach" ELSE "disconnect")
    /\ UNCHANGED <<vol, dev, mounted, maps, conn, own, rolled>>

DisconnectVolume(o) ==
    /\ th[o].pc = "disconnect"
    /\ \/ /\ dev' = [dev EXCEPT ![CurHost(o)] = @ \ {CurVol(o)}]
          /\ Goto(o, "terminate")
          /\ UNCHANGED <<vol, own>>
       \/ /\ "device" \in Faults
          /\ SetStatus(CurVol(o), "in-use")
          /\ DetachFailed(o)
          /\ UNCHANGED dev
    /\ UNCHANGED <<mounted, maps, conn, rolled>>

TerminateConnection(o) ==
    /\ th[o].pc = "terminate"
    /\ \/ /\ vol' = [vol EXCEPT ![CurVol(o)].exports = @ \ {CurHost(o)}]
          /\ Goto(o, "detach")
          /\ UNCHANGED own
       \/ /\ "cinder" \in Faults
          /\ DetachFailed(o)
          /\ UNCHANGED vol
    /\ UNCHANGED <<dev, mounted, maps, conn, rolled>>

Detach(o) ==
    /\ th[o].pc = "detach"
    /\ LET v == CurVol(o)
           c == th[o].cur[1]
       IN \/ /\ ~DetachRefused(v, c)
             /\ CinderDetach(v, c)
             /\ Goto(o, IF th[o].why = "attach" THEN "drop" ELSE "destroy")
             /\ UNCHANGED own
          \/ /\ DetachRefused(v, c) \/ "cinder" \in Faults
             /\ DetachFailed(o)
             /\ UNCHANGED vol
    /\ UNCHANGED <<dev, mounted, maps, conn, rolled>>

DestroyMapping(o) ==
    /\ th[o].pc = "destroy"
    /\ RemoveMap(th[o].cur)
    /\ Becomes(o, IF th[o].cur[2] \in AutoRemove /\ th[o].last
                  THEN [th[o] EXCEPT !.pc = "delete"]
                  ELSE [th[o] EXCEPT !.pc = "list", !.cur = NoMap,
                                     !.last = FALSE])
    /\ UNCHANGED <<vol, dev, mounted, own, rolled>>

DeleteVolume(o) ==
    /\ th[o].pc = "delete"
    /\ LET v == CurVol(o)
       IN \/ /\ Deletable(v)
             /\ SetStatus(v, "deleting")
             /\ Becomes(o, [th[o] EXCEPT !.pc = "list", !.cur = NoMap,
                                         !.last = FALSE,
                                         !.await = @ \cup {th[o].cur[2]}])
             /\ UNCHANGED own
          \/ /\ ~Deletable(v) \/ "cinder" \in Faults
             /\ Raise(o)
             /\ UNCHANGED vol
    /\ UNCHANGED <<dev, mounted, maps, conn, rolled>>

Deleted(o) == \A r \in th[o].await : vol[VolumeOf[r]].status = "gone"

\* The end of _fail_container; saving an owner that is gone raises.
Failed(o) ==
    /\ th[o].pc = "gone" /\ th[o].why = "fail" /\ Deleted(o)
    /\ own' = IF th[o].part \/ own[o].state = "gone" THEN own
              ELSE [own EXCEPT ![o] = [own[o] EXCEPT !.state = "error",
                                                !.host = @ /\ ~th[o].unset]]
    /\ Becomes(o, IF th[o].then = "list" /\ own[o].state # "gone"
                  THEN [Idle EXCEPT !.pc = "list", !.why = "force",
                                    !.todo = MapsOf(o)]
                  ELSE Idle)
    /\ UNCHANGED <<vol, dev, mounted, maps, conn, rolled>>

\* The end of _do_container_delete: the claim, the allocation and the row.
Finish(o) ==
    /\ th[o].pc = "gone" /\ th[o].why \in {"delete", "force"} /\ Deleted(o)
    /\ own' = [own EXCEPT ![o] = [own[o] EXCEPT !.state = "gone",
                                                !.deleting = FALSE]]
    /\ Becomes(o, Idle)
    /\ UNCHANGED <<vol, dev, mounted, maps, conn, rolled>>

\* _wait_for_volumes_deleted gives up: the owner fails and loses its host.
DeletionTimeout(o) ==
    /\ th[o].pc = "gone" /\ ~Deleted(o)
    /\ LET t == th[o]
       IN /\ Becomes(o, Failing(t, MapsOf(o), TRUE,
                      IF t.why = "fail" THEN t.then ELSE "idle", t.part))
          /\ own' = [own EXCEPT ![o].deleting = @ /\ t.why = "fail"]
    /\ UNCHANGED <<vol, dev, mounted, maps, conn, rolled>>

-----------------------------------------------------------------------------
(* Cinder on its own (external)                                             *)

CinderCreates(v) ==
    /\ vol[v].status = "creating"
    /\ \E s \in {"available", "error"} :
          (s = "error" => "cinder" \in Faults) /\ SetStatus(v, s)
    /\ UNCHANGED <<dev, mounted, maps, conn, own, th, rolled>>

CinderDeletes(v) ==
    /\ vol[v].status = "deleting"
    /\ SetStatus(v, "gone")
    /\ UNCHANGED <<dev, mounted, maps, conn, own, th, rolled>>

-----------------------------------------------------------------------------
AutoVolumes == {VolumeOf[r] : r \in AutoRemove}

Init ==
    /\ vol = [v \in Volumes |->
                [status |-> IF v \in AutoVolumes THEN "none" ELSE "available",
                 attached |-> {}, exports |-> {}]]
    /\ dev = [h \in Hosts |-> {}]
    /\ mounted = {}
    /\ maps = {}
    /\ conn = {}
    /\ own = [o \in Owners |-> [state |-> "none", host |-> FALSE,
                                deleting |-> FALSE, forced |-> FALSE]]
    /\ th = [o \in Owners |-> Idle]
    /\ rolled = {}

API(o) ==
    Request(o) \/ RequestRefused(o) \/ RequestDelete(o) \/ DeleteHostless(o)

Step(o) ==
    \/ WaitAvailable(o) \/ WaitTimeout(o) \/ AttachNext(o) \/ Reserve(o)
    \/ InitializeConnection(o) \/ ConnectVolume(o) \/ CinderAttach(o)
    \/ MountDevice(o) \/ Undo(o) \/ DropMapping(o) \/ Build(o)
    \/ DockerDelete(o) \/ DetachNext(o) \/ Unmount(o) \/ BeginDetaching(o)
    \/ KeepConnection(o) \/ DisconnectVolume(o) \/ TerminateConnection(o)
    \/ Detach(o) \/ DestroyMapping(o) \/ DeleteVolume(o) \/ Failed(o)
    \/ Finish(o) \/ DeletionTimeout(o)

Next ==
    \/ \E o \in Owners : API(o) \/ Step(o)
    \/ \E v \in Volumes : CinderCreates(v) \/ CinderDeletes(v)

Spec == Init /\ [][Next]_vars

-----------------------------------------------------------------------------
(* Properties                                                               *)

\* The volume is usable on the host: exported to it, its device connected.
Connected(v, h) == h \in vol[v].exports /\ v \in dev[h]

\* A container whose volume is mounted keeps the connection of its host to the
\* volume, whatever other containers attach and detach meanwhile, on this host
\* or another (detach_volume, _volume_connection_keep).  The exception the code
\* makes is named by rolled: the handlers of a failed attach disconnect and
\* unreserve the volume without looking for other mappings.
MountedIsConnected ==
    \A m \in maps : m[2] \in mounted /\ VolumeOf[m[2]] \notin rolled
        => Connected(VolumeOf[m[2]], HostOfMap(m))

\* An owner whose deletion was never forced leaves nothing behind: when the
\* compute service removes its row, none of its containers is attached to a
\* volume in Cinder, has a mapping or a mount, whatever failed before
\* (_do_container_delete, _detach_volumes, _fail_container).
DeleteReleases ==
    [][\A o \in Owners : Finish(o) /\ ~own[o].forced =>
          \A m \in MountsOf(o) :
             /\ m \notin maps /\ m[2] \notin mounted
             /\ m[1] \notin vol[VolumeOf[m[2]]].attached]_vars

=============================================================================
