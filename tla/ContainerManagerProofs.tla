----------------------- MODULE ContainerManagerProofs -----------------------
(***************************************************************************)
(* Proofs about ContainerManager, for any set of requests and faults and   *)
(* any bounds: its type invariant; that a task state belongs to the thread *)
(* that assigned it; that a row a user may operate on has Docker's id; and *)
(* that a container's row goes only after Docker's container.              *)
(***************************************************************************)
EXTENDS ContainerManager, TLAPS

-----------------------------------------------------------------------------
(* Assigning to a copy and saving it                                        *)

\* Assignments to the fields of a copy, and save(), give a copy.
LEMMA SettersType ==
    ASSUME NEW c \in Copies
    PROVE  /\ \A s \in Statuses : SetStatus(c, s) \in Copies
           /\ \A t \in Tasks : SetTask(c, t) \in Copies
           /\ \A h \in BOOLEAN : SetHost(c, h) \in Copies
           /\ \A i \in 0..MaxIds : SetCid(c, i) \in Copies
           /\ Clean(c) \in Copies
<1>1. ASSUME NEW s \in Statuses PROVE SetStatus(c, s) \in Copies
  BY <1>1 DEF SetStatus, Copies, Fields
<1>2. ASSUME NEW t \in Tasks PROVE SetTask(c, t) \in Copies
  BY <1>2 DEF SetTask, Copies, Fields
<1>3. ASSUME NEW h \in BOOLEAN PROVE SetHost(c, h) \in Copies
  BY <1>3 DEF SetHost, Copies, Fields
<1>4. ASSUME NEW i \in 0..MaxIds PROVE SetCid(c, i) \in Copies
  BY <1>4 DEF SetCid, Copies, Fields
<1>5. Clean(c) \in Copies
  BY DEF Clean, Copies
<1> QED BY <1>1, <1>2, <1>3, <1>4, <1>5

\* What inspecting Docker, and the sync, make of a copy is a copy.
LEMMA InspectedType ==
    ASSUME NEW c \in Copies, NEW d
    PROVE  Inspected(c, d) \in Copies
<1>1. \A s \in Statuses : SetStatus(c, s) \in Copies
  BY SettersType
<1> QED BY <1>1 DEF Inspected, Statuses

LEMMA SyncedType ==
    ASSUME NEW c \in Copies, NEW s \in Statuses
    PROVE  Synced(c, s) \in Copies
<1> DEFINE d == IF c.status = s THEN c ELSE SetStatus(c, s)
<1>1. d \in Copies
  BY SettersType
<1>2. Synced(c, s) = IF d.host THEN d ELSE SetHost(d, TRUE)
  BY DEF Synced
<1> HIDE DEF d
<1> QED BY <1>1, <1>2, SettersType

\* Constants of the model are of their types.
LEMMA ConstantsType ==
    /\ NoCopy \in Copies
    /\ Idle \in Workers
    /\ NoDocker \in Dockers
    /\ SyncIdle \in Syncs
<1>0. 0 \in 0..MaxIds
  BY BoundsAssumption
<1>1. NoCopy \in Copies
  BY <1>0 DEF NoCopy, Copies, Statuses, Tasks, NoTask
<1>2. NoDocker \in Dockers
  BY <1>0 DEF NoDocker, Dockers, DockerStates
<1>3. Idle \in Workers
  BY <1>1 DEF Idle, Workers, Pcs, WorkerOps, TaskOf
<1>4. SyncIdle \in Syncs
  BY <1>1, <1>2 DEF SyncIdle, Syncs
<1> QED BY <1>1, <1>2, <1>3, <1>4

\* Reading the row gives a clean copy; saving a copy gives a row.
LEMMA RowType ==
    ASSUME row \in Rows
    PROVE  /\ Snapshot \in Copies
           /\ Gone \in Rows
           /\ \A c \in Copies : Saved(c) \in Rows
<1>1. Snapshot \in Copies
  BY DEF Snapshot, Copies, Rows
<1>2. Gone \in Rows
  BY DEF Gone, Rows
<1>3. ASSUME NEW c \in Copies PROVE Saved(c) \in Rows
  BY <1>3 DEF Saved, Copies, Rows
<1> QED BY <1>1, <1>2, <1>3

\* A call built from its parts is a call.
LEMMA CallType ==
    ASSUME NEW id \in 0..(MaxRequests + 1), NEW op \in CallOps,
           NEW phase \in {"api", "cast", "save"}, NEW c \in Copies
    PROVE  Call(id, op, phase, c) \in Calls
BY DEF Call, Calls

\* Changes to a call give a call.
LEMMA CallExceptType ==
    ASSUME NEW c \in Calls, NEW d \in Copies
    PROVE  /\ Forced(c) \in Calls
           /\ [c EXCEPT !.op = "stop"] \in Calls
           /\ [c EXCEPT !.phase = "api"] \in Calls
           /\ [c EXCEPT !.phase = "cast"] \in Calls
           /\ \A b \in BOOLEAN : [c EXCEPT !.phase = "api", !.run = b] \in Calls
           /\ \A b \in BOOLEAN : [c EXCEPT !.force = b] \in Calls
           /\ \A b \in BOOLEAN : [c EXCEPT !.run = b] \in Calls
           /\ [c EXCEPT !.phase = "cast", !.copy = d] \in Calls
           /\ [c EXCEPT !.phase = "save", !.copy = d] \in Calls
           /\ c.copy \in Copies
<1>1. "stop" \in CallOps
  BY DEF CallOps, AllOps
<1>2. /\ Forced(c) \in Calls /\ c.copy \in Copies
      /\ [c EXCEPT !.op = "stop"] \in Calls
  BY <1>1 DEF Forced, Calls
<1>3. [c EXCEPT !.phase = "api"] \in Calls /\ [c EXCEPT !.phase = "cast"] \in Calls
  BY DEF Calls
<1>4. \A b \in BOOLEAN : /\ [c EXCEPT !.phase = "api", !.run = b] \in Calls
                         /\ [c EXCEPT !.force = b] \in Calls
                         /\ [c EXCEPT !.run = b] \in Calls
  BY DEF Calls
<1>5. /\ [c EXCEPT !.phase = "cast", !.copy = d] \in Calls
      /\ [c EXCEPT !.phase = "save", !.copy = d] \in Calls
  BY DEF Calls
<1> QED BY <1>1, <1>2, <1>3, <1>4, <1>5

\* A thread that jumps is a thread.
LEMMA GotoType ==
    ASSUME worker \in Workers, NEW pc \in Pcs
    PROVE  /\ Goto(pc) \in Workers
           /\ worker.copy \in Copies
BY DEF Goto, Workers

\* save() leaves a row and a thread.
LEMMA SaveAndGoType ==
    ASSUME row \in Rows, NEW c \in Copies, NEW w \in Workers, SaveAndGo(c, w)
    PROVE  row' \in Rows /\ worker' \in Workers
<1>1. Saved(c) \in Rows
  BY RowType
<1>2. Clean(c) \in Copies
  BY SettersType
<1>3. [w EXCEPT !.copy = Clean(c)] \in Workers
  BY <1>2 DEF Workers
<1> QED BY <1>1, <1>3, ConstantsType DEF SaveAndGo

\* What a driver operation makes of Docker and of the status is well typed.
LEMMA EffectsType ==
    ASSUME docker \in Dockers, worker \in Workers, NEW op, NEW e \in Effects(op)
    PROVE  e[1] \in Dockers /\ e[2] \in Statuses
<1>1. worker.copy.status \in Statuses
  BY DEF Workers, Copies
<1>2. \A d \in Dockers : Ended(d) \in Dockers
  BY FlagsAssumption DEF Ended, Dockers, DockerStates
<1>3. /\ [docker EXCEPT !.state = "running"] \in Dockers
      /\ [docker EXCEPT !.state = "paused"] \in Dockers
  BY DEF Dockers, DockerStates
<1>4. {"Running", "Stopped", "Paused"} \subseteq Statuses
  BY DEF Statuses
<1> QED BY <1>1, <1>2, <1>3, <1>4 DEF Effects

-----------------------------------------------------------------------------
(* The type invariant                                                       *)

\* What the bounds spent so far are.
UsedType ==
    [requests : 0..MaxRequests, ids : 0..MaxIds, crashes : 0..MaxCrashes,
     vanish : 0..MaxVanish]

\* The types of what steps change.
StepTypes ==
    /\ row \in Rows
    /\ docker \in Dockers
    /\ calls \subseteq Calls
    /\ worker \in Workers
    /\ sync \in Syncs
    /\ svc \in {"down", "init", "up"}
    /\ initial \in Copies
    /\ used \in [requests : 0..MaxRequests, ids : 0..MaxIds,
                  crashes : 0..MaxCrashes, vanish : 0..MaxVanish]

\* The steps of API handlers keep the types.
LEMMA ApiType ==
    ASSUME StepTypes,
           \/ \E op \in Ops : ApiRequest(op)
           \/ \E c \in calls : ApiStep(c)
    PROVE  StepTypes'
<1>1. ASSUME NEW op \in Ops, ApiRequest(op) PROVE StepTypes'
  <2>1. used' \in UsedType /\ NextId \in 0..(MaxRequests + 1)
    <3>1. used \in UsedType /\ used.requests < MaxRequests
      BY <1>1 DEF ApiRequest, StepTypes, UsedType
    <3>2. used' = [used EXCEPT !.requests = @ + 1]
      BY <1>1 DEF ApiRequest
    <3>3. used.requests + 1 \in 0..MaxRequests
      BY <3>1, BoundsAssumption DEF UsedType
    <3> QED BY <3>1, <3>2, <3>3, BoundsAssumption DEF UsedType, NextId
  <2>2. Snapshot \in Copies
    BY RowType DEF StepTypes
  <2> DEFINE c == Call(NextId, op, "cast", Snapshot)
             d == Call(NextId, "delete", "api", Snapshot)
  <2>3. d \in Calls
    BY <2>1, <2>2, CallType DEF CallOps, AllOps
  <2>4. op \notin {"delete", "delete_force", "delete_after_stop"} => c \in Calls
    BY <2>1, <2>2, CallType, OpsAssumption DEF CallOps
  <2>5. [c EXCEPT !.op = "stop"] \in Calls
    BY <2>1, <2>2 DEF Call, Calls, CallOps, AllOps
  <2>6. calls' \subseteq Calls
    <3>1. CASE op = "delete"
      BY <1>1, <2>3, <3>1 DEF ApiRequest, StepTypes
    <3>2. CASE op = "delete_force"
      BY <1>1, <2>2, <2>3, <3>2, CallExceptType DEF ApiRequest, StepTypes
    <3>3. CASE op = "delete_after_stop"
      BY <1>1, <2>3, <2>5, <3>3 DEF ApiRequest, StepTypes
    <3>4. CASE op = "rebuild"
      <4>1. [c EXCEPT !.phase = "api", !.run = row.status = "Running"] \in Calls
        BY <2>2, <2>4, <3>4, CallExceptType
      <4> QED BY <1>1, <3>4, <4>1 DEF ApiRequest, StepTypes
    <3>5. CASE op = "reboot"
      BY <1>1, <2>2, <2>4, <3>5, CallExceptType DEF ApiRequest, StepTypes
    <3>6. CASE op \notin {"delete", "delete_force", "delete_after_stop",
                          "rebuild", "reboot"}
      BY <1>1, <2>4, <3>6 DEF ApiRequest, StepTypes
    <3> QED BY <3>1, <3>2, <3>3, <3>4, <3>5, <3>6
  <2> QED BY <1>1, <2>1, <2>6 DEF ApiRequest, StepTypes, UsedType
<1>2. ASSUME NEW c \in calls, ApiStep(c) PROVE StepTypes'
  <2>1. c \in Calls /\ c.copy \in Copies
    BY <1>2 DEF StepTypes, Calls
  <2>2. \A s \in Statuses : SetStatus(c.copy, s) \in Copies
    BY <2>1, SettersType
  <2>3. {"Error", "Deleting", "Rebuilding", "Restarting"} \subseteq Statuses
    BY DEF Statuses
  <2>4. CASE ApiCreate(c)
    <3>1. row' \in Rows
      BY <2>2, <2>3, <2>4, RowType DEF ApiCreate, StepTypes
    <3>2. calls' \subseteq Calls
      BY <2>1, <2>4, CallExceptType DEF ApiCreate, Replace, Drop, StepTypes
    <3> QED BY <2>4, <3>1, <3>2 DEF ApiCreate, StepTypes
  <2>5. CASE ApiDelete(c)
    <3>1. row' \in Rows
      BY <2>5, RowType DEF ApiDelete, StepTypes
    <3>2. [c EXCEPT !.phase = "cast", !.copy = SetStatus(@, "Deleting")] \in Calls
      BY <2>1, <2>2, <2>3, CallExceptType
    <3>3. calls' \subseteq Calls
      BY <2>5, <3>2 DEF ApiDelete, Replace, Drop, StepTypes
    <3> QED BY <2>5, <3>1, <3>3 DEF ApiDelete, StepTypes
  <2>6. CASE ApiTransition(c)
    <3> DEFINE d == SetStatus(c.copy, IF c.op = "rebuild" THEN "Rebuilding"
                                      ELSE "Restarting")
    <3>1. d \in Copies /\ Clean(d) \in Copies
      BY <2>2, <2>3, SettersType
    <3>2. row' \in Rows
      BY <2>6, <3>1, RowType DEF ApiTransition, StepTypes
    <3>3. [c EXCEPT !.phase = "cast", !.copy = Clean(d)] \in Calls
      BY <2>1, <3>1, CallExceptType
    <3>4. calls' \subseteq Calls
      BY <2>6, <3>3 DEF ApiTransition, Replace, Drop, StepTypes
    <3> QED BY <2>6, <3>2, <3>4 DEF ApiTransition, StepTypes
  <2> QED BY <1>2, <2>4, <2>5, <2>6 DEF ApiStep
<1> QED BY <1>1, <1>2

\* The steps of the thread that holds the lock keep the types.
LEMMA WorkerType ==
    ASSUME StepTypes, WorkerStep
    PROVE  StepTypes'
<1>0. /\ worker \in Workers /\ worker.copy \in Copies
      /\ \A pc \in Pcs : Goto(pc) \in Workers
  BY GotoType DEF StepTypes, Workers
<1>1. /\ \A s \in Statuses : SetStatus(worker.copy, s) \in Copies
      /\ \A t \in Tasks : SetTask(worker.copy, t) \in Copies
      /\ \A h \in BOOLEAN : SetHost(worker.copy, h) \in Copies
      /\ \A i \in 0..MaxIds : SetCid(worker.copy, i) \in Copies
  BY <1>0, SettersType
<1>2. \A w \in Workers :
        /\ [w EXCEPT !.own = TRUE] \in Workers
        /\ [w EXCEPT !.unset = TRUE] \in Workers
        /\ \A f \in BOOLEAN : [w EXCEPT !.failed = f] \in Workers
        /\ [w EXCEPT !.own = FALSE] \in Workers
        /\ [w EXCEPT !.op = "start", !.own = FALSE] \in Workers
        /\ \A c \in Copies : [w EXCEPT !.copy = c] \in Workers
        /\ \A c \in Copies : [w EXCEPT !.unset = TRUE, !.copy = c] \in Workers
  <2>1. "start" \in WorkerOps
    BY DEF WorkerOps, TaskOf
  <2> QED BY <2>1 DEF Workers
<1>3. ASSUME NEW c \in Copies, NEW w \in Workers, SaveAndGo(c, w),
             UNCHANGED <<docker, calls, sync, svc, initial, used>>
      PROVE  StepTypes'
  BY <1>3, SaveAndGoType DEF StepTypes
<1>4. ASSUME worker' \in Workers, UNCHANGED row,
             UNCHANGED <<docker, calls, sync, svc, initial, used>>
      PROVE  StepTypes'
  BY <1>4 DEF StepTypes
<1>5. ASSUME worker' \in Workers, docker' \in Dockers,
             UNCHANGED <<row, calls, sync, svc, initial, used>>
      PROVE  StepTypes'
  BY <1>5 DEF StepTypes
<1>6. /\ {"begin", "pull", "create", "createSave", "rebuilt", "remove",
          "docker", "started", "notfound", "fail", "finish", "destroy"}
           \subseteq Pcs
      /\ {"Error", "Created", "Deleted"} \subseteq Statuses
      /\ NoTask \in Tasks
      /\ Idle \in Workers
  BY ConstantsType DEF Pcs, Statuses, NoTask, Tasks
<1>10. CASE Claim
  <2>1. SetHost(SetStatus(worker.copy, "Error"), FALSE) \in Copies
    BY <1>1, <1>6, SettersType
  <2> QED BY <1>0, <1>1, <1>3, <1>4, <1>6, <1>10, <2>1 DEF Claim
<1>11. CASE Begin
  <2>1. BodyOf(worker.op) \in Pcs
    BY <1>6 DEF BodyOf
  <2>2. TaskOf[worker.op] \in Tasks
    BY <1>0 DEF Workers, WorkerOps, TaskOf, Tasks
  <2>3. [Goto(BodyOf(worker.op)) EXCEPT !.own = TRUE] \in Workers
    BY <1>0, <1>2, <2>1
  <2> QED BY <1>0, <1>1, <1>3, <1>4, <1>11, <2>1, <2>2, <2>3 DEF Begin
<1>12. CASE Pull
  BY <1>0, <1>3, <1>4, <1>6, <1>12 DEF Pull
<1>13. CASE Create
  <2>1. CASE worker' = [Goto("fail") EXCEPT !.unset = TRUE]
             /\ UNCHANGED <<docker, used>>
    BY <1>0, <1>2, <1>4, <1>6, <1>13, <2>1 DEF Create
  <2>2. CASE used.ids < MaxIds
             /\ used' = [used EXCEPT !.ids = @ + 1]
             /\ docker' = [state |-> "created", id |-> used.ids + 1]
             /\ LET c == SetCid(worker.copy, used.ids + 1)
                IN \/ worker' = [Goto("createSave") EXCEPT
                         !.copy = Inspected(c, docker')]
                   \/ worker' = [Goto("fail") EXCEPT !.unset = TRUE, !.copy = c]
    <3>1. used \in UsedType /\ used.ids + 1 \in 0..MaxIds
      BY <2>2, BoundsAssumption DEF StepTypes, UsedType
    <3>2. docker' \in Dockers /\ used' \in UsedType
      BY <2>2, <3>1 DEF Dockers, DockerStates, UsedType
    <3> DEFINE c == SetCid(worker.copy, used.ids + 1)
    <3>3. c \in Copies /\ c.status \in Statuses
      BY <1>1, <3>1 DEF Copies
    <3>5. Inspected(c, docker') \in Copies
      BY <3>3, InspectedType
    <3>6. worker' \in Workers
      <4>1. Goto("createSave") \in Workers /\ Goto("fail") \in Workers
        BY <1>0, <1>6
      <4>2. CASE worker' = [Goto("createSave") EXCEPT
                         !.copy = Inspected(c, docker')]
        <5> HIDE DEF c
        <5> QED BY <1>2, <3>5, <4>1, <4>2
      <4>3. CASE worker' = [Goto("fail") EXCEPT !.unset = TRUE, !.copy = c]
        <5> HIDE DEF c
        <5> QED BY <1>2, <3>3, <4>1, <4>3
      <4> QED BY <2>2, <4>2, <4>3
    <3> QED BY <1>13, <3>2, <3>6 DEF Create, StepTypes, UsedType
  <2> QED BY <1>13, <2>1, <2>2 DEF Create
<1>14. CASE CreateSave
  BY <1>0, <1>3, <1>6, <1>14 DEF CreateSave
<1>15. CASE Rebuilt
  BY <1>0, <1>1, <1>3, <1>6, <1>15 DEF Rebuilt
<1>16. CASE Remove
  <2>1. docker' \in Dockers
    BY <1>16 DEF Remove, StepTypes, Dockers, DockerStates
  <2>2. worker' \in Workers
    <3>1. PICK pc \in Pcs : \/ worker' = Goto(pc)
                            \/ worker' = [Goto(pc) EXCEPT !.failed = TRUE]
      BY <1>6, <1>16 DEF Remove
    <3> QED BY <1>0, <1>2, <3>1
  <2> QED BY <1>5, <1>16, <2>1, <2>2 DEF Remove
<1>17. CASE DriverCall
  <2>1. Raise \in Workers
    BY <1>0, <1>2, <1>6 DEF Raise
  <2>2. CASE worker' = Raise /\ UNCHANGED docker
    BY <1>4, <1>17, <2>1, <2>2 DEF DriverCall
  <2>3. CASE worker' = Goto("notfound") /\ UNCHANGED docker
    BY <1>0, <1>4, <1>6, <1>17, <2>3 DEF DriverCall
  <2>4. CASE \E e \in Effects(DriverOp) :
                /\ docker' = e[1]
                /\ worker' = [Goto(IF DriverOp = "start" THEN "started"
                                   ELSE "finish")
                                EXCEPT !.copy = Performed(@, e[2])]
    <3>1. PICK e \in Effects(DriverOp) :
                /\ docker' = e[1]
                /\ worker' = [Goto(IF DriverOp = "start" THEN "started"
                                   ELSE "finish")
                                EXCEPT !.copy = Performed(@, e[2])]
      BY <2>4
    <3>2. e[1] \in Dockers /\ e[2] \in Statuses
      BY EffectsType DEF StepTypes
    <3> DEFINE g == Goto(IF DriverOp = "start" THEN "started" ELSE "finish")
    <3>3. g \in Workers /\ g.copy \in Copies
      BY <1>0, <1>6 DEF Workers
    <3>4. Performed(g.copy, e[2]) \in Copies
      BY <3>2, <3>3, SettersType DEF Performed
    <3>5. worker' \in Workers
      BY <1>2, <3>1, <3>3, <3>4
    <3> QED BY <1>5, <1>17, <3>1, <3>2, <3>5 DEF DriverCall
  <2> QED BY <1>17, <2>2, <2>3, <2>4 DEF DriverCall
<1>18. CASE Started
  BY <1>0, <1>3, <1>6, <1>18 DEF Started
<1>19. CASE NotFound
  <2>1. MissingStatus(worker.copy) \in Copies
    BY <1>0, <1>1, <1>6 DEF MissingStatus
  <2>2. Raise \in Workers
    BY <1>0, <1>2, <1>6 DEF Raise
  <2> QED BY <1>3, <1>19, <2>1, <2>2 DEF NotFound
<1>20. CASE Fail
  <2> DEFINE c == SetStatus(worker.copy, "Error")
             d == IF worker.unset THEN SetHost(c, FALSE) ELSE c
             w == [Goto("finish") EXCEPT
                     !.failed = ~(worker.op = "delete" /\ worker.force)]
  <2>1. d \in Copies
    BY <1>1, <1>6, SettersType
  <2>2. w \in Workers
    BY <1>0, <1>2, <1>6
  <2>3. SaveAndGo(d, w)
    BY <1>20 DEF Fail
  <2> QED BY <1>3, <1>20, <2>1, <2>2, <2>3 DEF Fail
<1>21. CASE Finish
  <2>1. AfterTask \in Workers
    BY <1>0, <1>2, <1>6 DEF AfterTask
  <2> QED BY <1>1, <1>3, <1>4, <1>6, <1>21, <2>1 DEF Finish
<1>22. CASE Destroy
  BY <1>6, <1>22, RowType DEF Destroy, StepTypes
<1> QED
  BY <1>10, <1>11, <1>12, <1>13, <1>14, <1>15, <1>16, <1>17, <1>18, <1>19,
     <1>20, <1>21, <1>22 DEF WorkerStep

\* The steps that write the row without the lock keep the types.
LEMMA UnlockedType ==
    ASSUME StepTypes,
           \/ \E c \in calls : ShowStep(c)
           \/ SyncStep
           \/ DeleteUnused
    PROVE  StepTypes'
<1>1. /\ Snapshot \in Copies
      /\ \A c \in Copies : Saved(c) \in Rows
      /\ SyncIdle \in Syncs
      /\ \A c \in Copies, s \in Statuses : SetStatus(c, s) \in Copies
      /\ \A c \in Copies : MissingStatus(c) \in Copies
  BY RowType, SettersType, ConstantsType DEF StepTypes, MissingStatus, Statuses
<1>2. \A s \in Statuses, d \in Dockers : ListStatus(s, d) \in Statuses
  BY DEF ListStatus, Statuses
<1>3. ASSUME NEW c \in calls, ShowStep(c) PROVE StepTypes'
  <2>1. c \in Calls /\ c.copy \in Copies /\ c.copy.status \in Statuses
    BY <1>3 DEF StepTypes, Calls, Copies
  <2>2. CASE ShowInspect(c)
    <3> DEFINE missing == MissingStatus(c.copy)
               seen == Inspected(c.copy, docker)
    <3>1. missing \in Copies /\ seen \in Copies
      BY <1>1, <2>1, InspectedType
    <3>2. row' \in Rows
      BY <1>1, <2>2, <3>1 DEF ShowInspect, StepTypes
    <3>3. [c EXCEPT !.phase = "save", !.copy = seen] \in Calls
      BY <2>1, <3>1, CallExceptType
    <3>4. calls' \subseteq Calls
      BY <2>2, <3>3 DEF ShowInspect, Replace, Drop, StepTypes
    <3> QED BY <2>2, <3>2, <3>4 DEF ShowInspect, StepTypes
  <2>3. CASE ShowSave(c)
    BY <1>1, <2>1, <2>3 DEF ShowSave, Drop, StepTypes
  <2> QED BY <1>3, <2>2, <2>3 DEF ShowStep
<1>4. CASE SyncStep
  <2>1. /\ sync \in Syncs /\ sync.all \in Copies /\ sync.local \in Copies
        /\ sync.seen \in Dockers /\ sync.local.status \in Statuses
    BY DEF StepTypes, Syncs, Copies
  <2>2. CASE SyncRead
    <3>1. sync' \in Syncs
      BY <1>1, <2>2 DEF SyncRead, Syncs
    <3> QED BY <2>2, <3>1 DEF SyncRead, StepTypes
  <2>3. CASE SyncDocker
    <3>1. sync' \in Syncs
      BY <2>1, <2>3 DEF SyncDocker, Syncs, StepTypes
    <3> QED BY <2>3, <3>1 DEF SyncDocker, StepTypes
  <2>4. CASE SyncLocal
    <3> DEFINE listed == row.exists /\ (row.host \/ sync.seen.state # "absent")
               missing == row.status \notin Unstable /\ ~Found(Snapshot, sync.seen)
               populated == /\ row.status \notin Unstable /\ ~missing
                            /\ row.task = NoTask
               local == IF populated
                        THEN SetStatus(Snapshot, ListStatus(row.status, sync.seen))
                        ELSE Snapshot
    <3>1. row.status \in Statuses
      BY DEF StepTypes, Rows
    <3>2. local \in Copies
      BY <1>1, <1>2, <2>1, <3>1
    <3>3. missing \in BOOLEAN
      OBVIOUS
    <3>4. sync' = IF ~listed THEN SyncIdle
                  ELSE [sync EXCEPT !.pc = "write", !.missing = missing,
                                    !.local = local]
      BY <2>4 DEF SyncLocal
    <3> HIDE DEF listed, missing, populated, local
    <3>5. sync' \in Syncs
      BY <1>1, <2>1, <3>2, <3>3, <3>4 DEF Syncs
    <3> QED BY <2>4, <3>5 DEF SyncLocal, StepTypes
  <2>5. CASE SyncWrite
    <3> DEFINE c == Synced(sync.all, sync.local.status)
               rest == IF sync.missing /\ sync.local.host
                       THEN [sync EXCEPT !.pc = "missing"] ELSE SyncIdle
    <3>1. c \in Copies
      BY <2>1, SyncedType
    <3>2. rest \in Syncs
      BY <1>1, <2>1 DEF Syncs
    <3>3. row' \in {row, Saved(c)} /\ sync' \in {rest, SyncIdle}
      BY <2>5 DEF SyncWrite
    <3> HIDE DEF c, rest
    <3> QED BY <1>1, <2>5, <3>1, <3>2, <3>3 DEF SyncWrite, StepTypes
  <2>6. CASE SyncMissing
    <3>1. row' \in {row, Saved(SetStatus(sync.local, "Deleted")),
                    Saved(SetStatus(sync.local, "Error"))}
      BY <2>6 DEF SyncMissing
    <3>2. row' \in Rows
      BY <1>1, <2>1, <3>1 DEF StepTypes, Statuses
    <3> QED BY <1>1, <2>6, <3>2 DEF SyncMissing, StepTypes
  <2> QED BY <1>4, <2>2, <2>3, <2>4, <2>5, <2>6 DEF SyncStep
<1>5. CASE DeleteUnused
  <2> DEFINE c == Forced(Call(0, "delete", "cast", Snapshot))
  <2>1. 0 \in 0..(MaxRequests + 1) /\ "delete" \in CallOps
    BY BoundsAssumption DEF CallOps, AllOps
  <2>2. c \in Calls
    BY <1>1, <2>1, CallType, CallExceptType
  <2> QED BY <1>5, <2>2 DEF DeleteUnused, StepTypes
<1> QED BY <1>3, <1>4, <1>5

\* Taking a cast, the loss and the start of zun-compute and what Docker does on
\* its own keep the types.
LEMMA ServiceType ==
    ASSUME StepTypes,
           \/ \E c \in calls : WorkerTake(c)
           \/ Crash \/ StartService \/ InitContainer
           \/ DockerExit \/ DockerVanish
    PROVE  StepTypes'
<1>1. /\ Snapshot \in Copies
      /\ \A c \in Copies : Saved(c) \in Rows
      /\ Idle \in Workers /\ SyncIdle \in Syncs /\ NoCopy \in Copies
  BY RowType, ConstantsType DEF StepTypes
<1>2. ASSUME NEW c \in calls, WorkerTake(c) PROVE StepTypes'
  <2>1. c \in Calls /\ c.op \in WorkerOps
    BY <1>2 DEF StepTypes, WorkerTake
  <2>2. worker' \in Workers
    BY <1>1, <1>2, <2>1 DEF WorkerTake, Workers, Pcs, Calls
  <2> QED BY <1>2, <2>2 DEF WorkerTake, Drop, StepTypes
<1>3. CASE Crash
  <2>1. calls' \subseteq calls
    BY <1>3 DEF Crash
  <2>2. used \in UsedType /\ used.crashes + 1 \in 0..MaxCrashes
    BY <1>3, BoundsAssumption DEF Crash, StepTypes, UsedType
  <2>3. used' \in UsedType
    BY <1>3, <2>2 DEF Crash, UsedType
  <2> QED BY <1>1, <1>3, <2>1, <2>3 DEF Crash, StepTypes, UsedType
<1>4. CASE StartService
  BY <1>1, <1>4 DEF StartService, StepTypes
<1>5. CASE InitContainer
  <2> DEFINE retry == RetryOf(initial)
             c == IF retry = {} THEN initial ELSE SetTask(initial, NoTask)
             failed == SetStatus(c, "Error")
             spawned == {Spawned(op, c) : op \in retry}
                          \cup IF Restores(c) THEN {Spawned("start", c)} ELSE {}
             again == {Spawned(op, Clean(failed)) : op \in retry}
  <2>1. NoTask \in Tasks /\ "Error" \in Statuses
    BY DEF NoTask, Tasks, Statuses
  <2>2. initial \in Copies /\ SetTask(initial, NoTask) \in Copies
    BY <2>1, SettersType DEF StepTypes
  <2>3. c \in Copies /\ failed \in Copies /\ Clean(failed) \in Copies
    BY <2>1, <2>2, SettersType
  <2>4. retry \subseteq CallOps /\ "start" \in CallOps
    BY DEF RetryOf, Retried, CallOps, AllOps
  <2>5. \A op \in CallOps, d \in Copies : Spawned(op, d) \in Calls
    <3>1. 0 \in 0..(MaxRequests + 1)
      BY BoundsAssumption
    <3>2. \A op \in CallOps, d \in Copies : Call(0, op, "cast", d) \in Calls
      BY <3>1, CallType
    <3> QED BY <3>2, CallExceptType DEF Spawned
  <2>6. spawned \subseteq Calls /\ again \subseteq Calls
    <3> HIDE DEF retry, c, failed
    <3> QED BY <2>3, <2>4, <2>5
  <2>7. Saved(SetStatus(SetTask(initial, NoTask), "Error")) \in Rows
        /\ Saved(failed) \in Rows
    BY <1>1, <2>1, <2>2, <2>3, SettersType
  <2>8. /\ calls' \in {calls, calls \cup spawned, calls \cup again}
        /\ row' \in {row, Saved(SetStatus(SetTask(initial, NoTask), "Error")),
                     Saved(failed)}
        /\ svc' \in {"up", "down"}
        /\ initial' = NoCopy
        /\ UNCHANGED <<docker, worker, sync, used>>
    <3> HIDE DEF retry, c, failed
    <3> QED BY <1>5 DEF InitContainer, retry, c, failed
  <2> HIDE DEF retry, c, failed, spawned, again
  <2> QED BY <1>1, <2>6, <2>7, <2>8 DEF StepTypes
<1>6. CASE DockerExit
  <2>1. docker' \in Dockers
    BY <1>6, FlagsAssumption DEF DockerExit, Ended, StepTypes, Dockers, DockerStates
  <2> QED BY <1>6, <2>1 DEF DockerExit, StepTypes
<1>7. CASE DockerVanish
  <2>1. docker' \in Dockers
    BY <1>7 DEF DockerVanish, StepTypes, Dockers, DockerStates
  <2>2. used \in UsedType /\ used.vanish + 1 \in 0..MaxVanish
    BY <1>7, BoundsAssumption DEF DockerVanish, StepTypes, UsedType
  <2>3. used' \in UsedType
    BY <1>7, <2>2 DEF DockerVanish, UsedType
  <2> QED BY <1>7, <2>1, <2>3 DEF DockerVanish, StepTypes, UsedType
<1> QED BY <1>2, <1>3, <1>4, <1>5, <1>6, <1>7

\* Every step keeps the types.
LEMMA TypeStep ==
    ASSUME TypeOK, [Next]_vars
    PROVE  TypeOK'
<1>1. CASE UNCHANGED vars
  BY <1>1 DEF vars, TypeOK
<1>2. CASE Next
  <2>1. StepTypes /\ Step /\ auto_remove' \in AutoRemove
    BY <1>2 DEF Next, TypeOK, StepTypes
  <2>2. StepTypes' => TypeOK'
    BY <2>1 DEF StepTypes, TypeOK
  <2>3. CASE Terminated
    BY <2>1, <2>2, <2>3 DEF Terminated, changing, StepTypes
  <2> QED
    BY <2>1, <2>2, <2>3, ApiType, WorkerType, UnlockedType, ServiceType DEF Step
<1> QED BY <1>1, <1>2

\* The initial states are well typed.
LEMMA InitType == Init => TypeOK
<1> SUFFICES ASSUME Init PROVE TypeOK
  OBVIOUS
<1>1. 1 \in 0..MaxRequests /\ 1 \in 0..(MaxRequests + 1) /\ 0 \in 0..MaxIds
      /\ 0 \in 0..MaxCrashes /\ 0 \in 0..MaxVanish
  BY BoundsAssumption
<1>2. row \in Rows
  BY <1>1 DEF Init, Rows, Statuses, Tasks, NoTask
<1>3. Call(1, "create", "api", NoCopy) \in Calls
  BY <1>1, CallType, ConstantsType DEF CallOps
<1>4. calls \subseteq Calls
  BY <1>3, ConstantsType, CallExceptType DEF Init
<1>5. used \in UsedType
  BY <1>1 DEF Init, UsedType
<1> QED BY <1>2, <1>4, <1>5, ConstantsType DEF Init, TypeOK, UsedType

\* The specification keeps every variable in its type: no handler, thread,
\* periodic task or restart writes a status, a task state or an id that the
\* others do not know.
THEOREM TypeCorrect == Spec => []TypeOK
<1>1. Init => TypeOK
  BY InitType
<1>2. TypeOK /\ [Next]_vars => TypeOK'
  BY TypeStep
<1> QED BY <1>1, <1>2, PTL DEF Spec

-----------------------------------------------------------------------------
(* The task state belongs to the thread that assigned it                    *)

\* The thread: what it owns it remembers, and it never carries an assignment to
\* the task state that is not saved, except into _update_task_state.
ThreadInv ==
    /\ worker.own => /\ worker.copy.task = TaskOf[worker.op]
                     /\ worker.pc \notin {"idle", "claim", "begin", "destroy"}
    /\ "task" \in worker.copy.dirty =>
          worker.pc = "begin" /\ worker.copy.task = NoTask

\* No other copy of the row can write a task state, except the ones that
\* init_containers hands to the threads it spawns: these reset it.
CopiesInv ==
    /\ \A c \in calls : "task" \in c.copy.dirty =>
          /\ c.phase = "cast" /\ c.op \notin {"create", "show"}
          /\ c.copy.task = NoTask
    /\ "task" \notin sync.all.dirty
    /\ "task" \notin sync.local.dirty
    /\ initial.dirty = {}

\* A service that is not up has been lost, and has no thread.
DownInv ==
    svc # "up" => worker.pc = "idle" /\ ~worker.own /\ used.crashes # 0

\* The inductive strengthening of TaskStateOwned.
OwnedInv == TypeOK /\ TaskStateOwned /\ ThreadInv /\ CopiesInv /\ DownInv

\* Assignments to the other fields leave the task state of a copy alone.
LEMMA SettersTask ==
    ASSUME NEW c \in Copies
    PROVE  /\ \A s : /\ SetStatus(c, s).task = c.task
                     /\ "task" \in SetStatus(c, s).dirty => "task" \in c.dirty
           /\ \A h : /\ SetHost(c, h).task = c.task
                     /\ "task" \in SetHost(c, h).dirty => "task" \in c.dirty
           /\ \A i : /\ SetCid(c, i).task = c.task
                     /\ "task" \in SetCid(c, i).dirty => "task" \in c.dirty
           /\ MissingStatus(c).task = c.task
           /\ "task" \in MissingStatus(c).dirty => "task" \in c.dirty
           /\ Clean(c).task = c.task /\ Clean(c).dirty = {}
           /\ \A t \in Tasks : /\ SetTask(c, t).task = t
                               /\ c.task # t => "task" \in SetTask(c, t).dirty
<1>1. \A s : /\ SetStatus(c, s).task = c.task
             /\ "task" \in SetStatus(c, s).dirty => "task" \in c.dirty
  BY DEF SetStatus, Copies
<1>2. \A h : /\ SetHost(c, h).task = c.task
             /\ "task" \in SetHost(c, h).dirty => "task" \in c.dirty
  BY DEF SetHost, Copies
<1>3. \A i : /\ SetCid(c, i).task = c.task
             /\ "task" \in SetCid(c, i).dirty => "task" \in c.dirty
  BY DEF SetCid, Copies
<1>4. Clean(c).task = c.task /\ Clean(c).dirty = {}
  BY DEF Clean, Copies
<1>5. \A t \in Tasks : /\ SetTask(c, t).task = t
                       /\ c.task # t => "task" \in SetTask(c, t).dirty
  BY DEF SetTask, Copies
<1> QED BY <1>1, <1>2, <1>3, <1>4, <1>5 DEF MissingStatus

\* Nor does what inspecting Docker and the sync assign.
LEMMA PopulatedTask ==
    ASSUME NEW c \in Copies
    PROVE  /\ \A d : /\ Inspected(c, d).task = c.task
                     /\ "task" \in Inspected(c, d).dirty => "task" \in c.dirty
           /\ \A s \in Statuses :
                 "task" \in Synced(c, s).dirty => "task" \in c.dirty
<1>1. \A d : /\ Inspected(c, d).task = c.task
             /\ "task" \in Inspected(c, d).dirty => "task" \in c.dirty
  BY SettersTask DEF Inspected
<1>2. ASSUME NEW s \in Statuses, "task" \in Synced(c, s).dirty
      PROVE  "task" \in c.dirty
  <2> DEFINE d == IF c.status = s THEN c ELSE SetStatus(c, s)
  <2>1. d \in Copies /\ ("task" \in d.dirty => "task" \in c.dirty)
    BY SettersType, SettersTask
  <2>2. Synced(c, s) = IF d.host THEN d ELSE SetHost(d, TRUE)
    BY DEF Synced
  <2> HIDE DEF d
  <2>3. "task" \in SetHost(d, TRUE).dirty => "task" \in d.dirty
    BY <2>1, SettersTask
  <2> QED BY <1>2, <2>1, <2>2, <2>3
<1> QED BY <1>1, <1>2

\* save() writes the task state of a copy that assigned it, and no other.
LEMMA SavedTask ==
    ASSUME NEW c
    PROVE  /\ Saved(c).exists = TRUE
           /\ "task" \in c.dirty => Saved(c).task = c.task
           /\ "task" \notin c.dirty => Saved(c).task = row.task
BY DEF Saved

\* Copies just read, and the ones that stand for none, have no changes.
LEMMA CleanCopies ==
    /\ Snapshot.dirty = {} /\ NoCopy.dirty = {}
    /\ SyncIdle.all = NoCopy /\ SyncIdle.local = NoCopy
    /\ Idle.copy = NoCopy /\ Idle.own = FALSE /\ Idle.pc = "idle"
BY DEF Snapshot, NoCopy, SyncIdle, Idle

\* No operation's task state is that of an idle container.
LEMMA TaskOfType ==
    ASSUME NEW op \in WorkerOps
    PROVE  TaskOf[op] \in Tasks /\ TaskOf[op] # NoTask
BY DEF WorkerOps, TaskOf, Tasks, NoTask

\* The copy that a changed call carries.
LEMMA CallCopy ==
    ASSUME NEW c \in Calls, NEW d
    PROVE  /\ [c EXCEPT !.phase = "cast"].copy = c.copy
           /\ [c EXCEPT !.phase = "cast", !.copy = d].copy = d
           /\ [c EXCEPT !.phase = "save", !.copy = d].copy = d
           /\ [c EXCEPT !.phase = "save", !.copy = d].op = c.op
BY DEF Calls

\* Destroying the row.
LEMMA GoneExists ==
    ASSUME row \in Rows
    PROVE  Gone.exists = FALSE
BY DEF Gone, Rows

\* A step that leaves the thread alone, and the task state of an existing row,
\* keeps the ownership.
LEMMA OthersKeep ==
    ASSUME OwnedInv, UNCHANGED worker, used'.crashes = used.crashes,
           row'.exists => row.exists /\ row'.task = row.task
    PROVE  TaskStateOwned' /\ ThreadInv'
BY DEF OwnedInv, TaskStateOwned, ThreadInv

\* API handlers do not write the task state.
LEMMA OwnedApi ==
    ASSUME OwnedInv,
           \/ \E op \in Ops : ApiRequest(op)
           \/ \E c \in calls : ApiStep(c)
    PROVE  (TaskStateOwned /\ ThreadInv /\ CopiesInv /\ DownInv)'
<1>1. ASSUME NEW op \in Ops, ApiRequest(op)
      PROVE  (TaskStateOwned /\ ThreadInv /\ CopiesInv /\ DownInv)'
  <2>1. used'.crashes = used.crashes /\ UNCHANGED <<row, worker, sync, svc, initial>>
    BY <1>1 DEF ApiRequest, OwnedInv, TypeOK
  <2>2. \A c \in calls' : c \in calls \/ c.copy.dirty = {}
    <3> DEFINE c == Call(NextId, op, "cast", Snapshot)
               d == Call(NextId, "delete", "api", Snapshot)
               forced == Forced(d)
               stop == [c EXCEPT !.op = "stop"]
               rebuild == [c EXCEPT !.phase = "api", !.run = row.status = "Running"]
               reboot == [c EXCEPT !.phase = "api"]
    <3>1. /\ c.copy = Snapshot /\ d.copy = Snapshot /\ forced.copy = Snapshot
          /\ stop.copy = Snapshot /\ rebuild.copy = Snapshot
          /\ reboot.copy = Snapshot
      BY DEF Call, Forced
    <3>2. calls' \subseteq calls \cup {c, d, forced, stop, rebuild, reboot}
      BY <1>1 DEF ApiRequest
    <3> HIDE DEF c, d, forced, stop, rebuild, reboot
    <3> QED BY <3>1, <3>2, CleanCopies
  <2>3. CopiesInv'
    BY <2>1, <2>2 DEF OwnedInv, CopiesInv
  <2> QED BY <2>1, <2>3, OthersKeep DEF OwnedInv, DownInv
<1>2. ASSUME NEW c \in calls, ApiStep(c)
      PROVE  (TaskStateOwned /\ ThreadInv /\ CopiesInv /\ DownInv)'
  <2>1. /\ c \in Calls /\ c.copy \in Copies /\ "task" \notin c.copy.dirty
        /\ UNCHANGED <<worker, sync, svc, initial, used>>
    BY <1>2 DEF ApiStep, ApiCreate, ApiDelete, ApiTransition, OwnedInv, TypeOK,
                Calls, CopiesInv
  <2>2. \A s \in Statuses : /\ SetStatus(c.copy, s) \in Copies
                            /\ "task" \notin SetStatus(c.copy, s).dirty
                            /\ "task" \notin Clean(SetStatus(c.copy, s)).dirty
    BY <2>1, SettersTask, SettersType
  <2>3. {"Error", "Deleting", "Rebuilding", "Restarting"} \subseteq Statuses
    BY DEF Statuses
  <2>4. row'.exists => row.exists /\ row'.task = row.task
    <3>1. \/ row' = row \/ row' = Gone
          \/ row.exists /\ \E s \in Statuses : row' = Saved(SetStatus(c.copy, s))
      BY <1>2, <2>3 DEF ApiStep, ApiCreate, ApiDelete, ApiTransition
    <3>2. ~Gone.exists
      BY GoneExists DEF OwnedInv, TypeOK
    <3> QED BY <2>2, <3>1, <3>2, SavedTask
  <2>5. \A d \in calls' : d \in calls \/ "task" \notin d.copy.dirty
    <3>1. \/ Drop(c) \/ Replace(c, [c EXCEPT !.phase = "cast"])
          \/ \E s \in Statuses :
                \E e \in {SetStatus(c.copy, s), Clean(SetStatus(c.copy, s))} :
                   Replace(c, [c EXCEPT !.phase = "cast", !.copy = e])
      BY <1>2, <2>3 DEF ApiStep, ApiCreate, ApiDelete, ApiTransition
    <3>2. CASE Drop(c)
      BY <3>2 DEF Drop
    <3>3. ASSUME NEW e, Replace(c, e), "task" \notin e.copy.dirty
          PROVE  \A d \in calls' : d \in calls \/ "task" \notin d.copy.dirty
      BY <3>3 DEF Replace
    <3>4. "task" \notin [c EXCEPT !.phase = "cast"].copy.dirty
      BY <2>1, CallCopy
    <3>5. \A s \in Statuses :
             \A e \in {SetStatus(c.copy, s), Clean(SetStatus(c.copy, s))} :
                "task" \notin [c EXCEPT !.phase = "cast", !.copy = e].copy.dirty
      BY <2>1, <2>2, CallCopy
    <3> QED BY <3>1, <3>2, <3>3, <3>4, <3>5
  <2>6. CopiesInv'
    BY <2>1, <2>5 DEF OwnedInv, CopiesInv
  <2> QED BY <2>1, <2>4, <2>6, OthersKeep DEF OwnedInv, DownInv
<1> QED BY <1>1, <1>2

\* The writers without the lock do not write the task state.
LEMMA OwnedUnlocked ==
    ASSUME OwnedInv,
           \/ \E c \in calls : ShowStep(c)
           \/ SyncStep
           \/ DeleteUnused
    PROVE  (TaskStateOwned /\ ThreadInv /\ CopiesInv /\ DownInv)'
<1>1. ASSUME NEW c \in calls, ShowStep(c)
      PROVE  (TaskStateOwned /\ ThreadInv /\ CopiesInv /\ DownInv)'
  <2>1. /\ c \in Calls /\ c.copy \in Copies /\ "task" \notin c.copy.dirty
        /\ UNCHANGED <<worker, sync, svc, initial, used>>
    BY <1>1 DEF ShowStep, ShowInspect, ShowSave, OwnedInv, TypeOK, Calls, CopiesInv
  <2>2. "task" \notin MissingStatus(c.copy).dirty
        /\ "task" \notin Inspected(c.copy, docker).dirty
    BY <2>1, SettersTask, PopulatedTask
  <2>3. row'.exists => row.exists /\ row'.task = row.task
    BY <1>1, <2>1, <2>2, SavedTask DEF ShowStep, ShowInspect, ShowSave
  <2>4. \A d \in calls' : d \in calls \/ "task" \notin d.copy.dirty
    <3>1. Drop(c) \/ Replace(c, [c EXCEPT !.phase = "save",
                                          !.copy = Inspected(c.copy, docker)])
      BY <1>1 DEF ShowStep, ShowInspect, ShowSave
    <3>2. CASE Drop(c)
      BY <3>2 DEF Drop
    <3>3. ASSUME NEW e, Replace(c, e), "task" \notin e.copy.dirty
          PROVE  \A d \in calls' : d \in calls \/ "task" \notin d.copy.dirty
      BY <3>3 DEF Replace
    <3>4. "task" \notin [c EXCEPT !.phase = "save",
                                  !.copy = Inspected(c.copy, docker)].copy.dirty
      BY <2>1, <2>2, CallCopy
    <3> QED BY <3>1, <3>2, <3>3, <3>4
  <2>5. CopiesInv'
    BY <2>1, <2>4 DEF OwnedInv, CopiesInv
  <2> QED BY <2>1, <2>3, <2>5, OthersKeep DEF OwnedInv, DownInv
<1>2. CASE SyncStep
  <2>1. /\ sync \in Syncs /\ sync.all \in Copies /\ sync.local \in Copies
        /\ "task" \notin sync.all.dirty /\ "task" \notin sync.local.dirty
        /\ UNCHANGED <<calls, worker, svc, initial, used>>
    BY <1>2 DEF SyncStep, SyncRead, SyncDocker, SyncLocal, SyncWrite,
                SyncMissing, OwnedInv, TypeOK, Syncs, CopiesInv
  <2>2. /\ "task" \notin Synced(sync.all, sync.local.status).dirty
        /\ \A s : "task" \notin SetStatus(sync.local, s).dirty
    <3>1. sync.local.status \in Statuses
      BY <2>1 DEF Copies
    <3>2. "task" \notin Synced(sync.all, sync.local.status).dirty
      BY <2>1, <3>1, PopulatedTask
    <3>3. \A s : "task" \notin SetStatus(sync.local, s).dirty
      BY <2>1, SettersTask
    <3> QED BY <3>2, <3>3
  <2>3. row'.exists => row.exists /\ row'.task = row.task
    <3>1. \/ row' = row
          \/ row.exists /\ row' = Saved(Synced(sync.all, sync.local.status))
          \/ row.exists /\ \E s : row' = Saved(SetStatus(sync.local, s))
      BY <1>2 DEF SyncStep, SyncRead, SyncDocker, SyncLocal, SyncWrite, SyncMissing
    <3> QED BY <2>2, <3>1, SavedTask
  <2>4. Snapshot \in Copies /\ \A s : "task" \notin SetStatus(Snapshot, s).dirty
    BY RowType, SettersTask, CleanCopies DEF OwnedInv, TypeOK
  <2>5. "task" \notin sync'.all.dirty /\ "task" \notin sync'.local.dirty
    <3>1. CASE SyncRead
      BY <3>1, CleanCopies DEF SyncRead, SyncIdle
    <3>2. CASE SyncDocker
      BY <2>1, <3>2 DEF SyncDocker, Syncs
    <3>3. CASE SyncLocal
      BY <2>1, <2>4, <3>3, CleanCopies DEF SyncLocal, Syncs
    <3>4. CASE SyncWrite
      BY <2>1, <3>4, CleanCopies DEF SyncWrite, Syncs
    <3>5. CASE SyncMissing
      BY <3>5, CleanCopies DEF SyncMissing
    <3> QED BY <1>2, <3>1, <3>2, <3>3, <3>4, <3>5 DEF SyncStep
  <2> QED BY <2>1, <2>3, <2>5, OthersKeep DEF OwnedInv, DownInv, CopiesInv
<1>3. CASE DeleteUnused
  <2>1. \A c \in calls' : c \in calls \/ c.copy.dirty = {}
    BY <1>3, CleanCopies DEF DeleteUnused, Call, Forced
  <2>2. CopiesInv'
    BY <1>3, <2>1 DEF DeleteUnused, OwnedInv, CopiesInv
  <2> QED BY <1>3, <2>2, OthersKeep DEF DeleteUnused, OwnedInv, DownInv
<1> QED BY <1>1, <1>2, <1>3

\* The fields of a thread that jumps.
LEMMA GotoFields ==
    ASSUME worker \in Workers, NEW pc \in Pcs
    PROVE  /\ Goto(pc) \in Workers /\ Goto(pc).pc = pc
           /\ Goto(pc).copy = worker.copy
           /\ Goto(pc).own = worker.own /\ Goto(pc).op = worker.op
BY DEF Goto, Workers

\* The fields of a thread that jumps noting a failure.
LEMMA FailedFields ==
    ASSUME worker \in Workers, NEW pc \in Pcs, NEW b \in BOOLEAN, NEW w,
           w = [Goto(pc) EXCEPT !.failed = b]
    PROVE  /\ w \in Workers /\ w.pc = pc /\ w.copy = worker.copy
           /\ w.own = worker.own /\ w.op = worker.op
<1> DEFINE g == Goto(pc)
<1>1. /\ g \in Workers /\ g.pc = pc /\ g.copy = worker.copy
      /\ g.own = worker.own /\ g.op = worker.op
  BY GotoFields
<1>2. w = [g EXCEPT !.failed = b]
  OBVIOUS
<1> HIDE DEF g
<1> QED BY <1>1, <1>2 DEF Workers

\* The pcs between _update_task_state's yield and its finally.
Body == Pcs \ {"idle", "claim", "begin", "destroy"}

\* A thread moves on within the body of its operation, carrying no assignment
\* to the task state, with or without saving its copy.
LEMMA BodyKeeps ==
    ASSUME OwnedInv, NEW c \in Copies, NEW w \in Workers, w.pc \in Body,
           w.own = worker.own, w.op = worker.op,
           c.task = worker.copy.task, "task" \notin c.dirty,
           \/ SaveAndGo(c, w)
           \/ worker' = w /\ w.copy = c /\ UNCHANGED row,
           UNCHANGED <<calls, sync, svc, initial>>,
           used'.crashes = used.crashes, worker.pc # "idle"
    PROVE  (TaskStateOwned /\ ThreadInv /\ CopiesInv /\ DownInv)'
<1>1. CopiesInv' /\ DownInv'
  BY DEF OwnedInv, CopiesInv, DownInv
<1>2. CASE worker' = w /\ w.copy = c /\ UNCHANGED row
  BY <1>1, <1>2 DEF OwnedInv, TaskStateOwned, ThreadInv, Body
<1>3. CASE SaveAndGo(c, w) /\ row.exists
  <2>1. row' = Saved(c) /\ worker' = [w EXCEPT !.copy = Clean(c)]
    BY <1>3 DEF SaveAndGo, Body
  <2>2. worker'.own = worker.own /\ worker'.op = worker.op /\ worker'.pc = w.pc
        /\ worker'.copy = Clean(c)
    BY <2>1 DEF Workers
  <2>3. worker'.copy.task = worker.copy.task /\ worker'.copy.dirty = {}
    BY <2>2, SettersTask
  <2>4. row'.task = row.task
    BY <2>1, SavedTask
  <2> QED BY <1>1, <1>3, <2>2, <2>3, <2>4 DEF OwnedInv, TaskStateOwned, ThreadInv, Body
<1>4. CASE SaveAndGo(c, w) /\ ~row.exists
  <2>1. row' = row /\ worker' = Idle
    BY <1>4 DEF SaveAndGo
  <2> QED BY <1>1, <1>4, <2>1, CleanCopies DEF TaskStateOwned, ThreadInv
<1> QED BY <1>2, <1>3, <1>4

\* A thread that ends, or leaves its operation, owning nothing.
LEMMA LeaveKeeps ==
    ASSUME OwnedInv, UNCHANGED <<calls, sync, svc, initial>>,
           used'.crashes = used.crashes, worker.pc # "idle",
           ~worker'.own, "task" \notin worker'.copy.dirty,
           \/ ~worker.own /\ (row'.exists => row.exists /\ row'.task = row.task)
           \/ row'.exists => row'.task = NoTask
    PROVE  (TaskStateOwned /\ ThreadInv /\ CopiesInv /\ DownInv)'
BY DEF OwnedInv, TaskStateOwned, ThreadInv, CopiesInv, DownInv

\* The thread that holds the lock keeps the task state it assigned.
LEMMA OwnedWorker ==
    ASSUME OwnedInv, WorkerStep
    PROVE  (TaskStateOwned /\ ThreadInv /\ CopiesInv /\ DownInv)'
<1>0. /\ TypeOK /\ worker \in Workers /\ worker.copy \in Copies
      /\ worker.op \in WorkerOps /\ row \in Rows
      /\ worker.pc # "idle"
      /\ UNCHANGED <<calls, sync, svc, initial>> /\ used'.crashes = used.crashes
  BY DEF OwnedInv, TypeOK, Workers, WorkerStep, Claim, Begin, Pull, Create,
         CreateSave, Rebuilt, Remove, DriverCall, Started, NotFound, Fail, Finish,
         Destroy
<1>1. worker.pc # "begin" => "task" \notin worker.copy.dirty
  BY DEF OwnedInv, ThreadInv
<1>2. \A s, h : /\ SetStatus(worker.copy, s).task = worker.copy.task
                /\ SetHost(worker.copy, h).task = worker.copy.task
                /\ SetCid(worker.copy, h).task = worker.copy.task
                /\ MissingStatus(worker.copy).task = worker.copy.task
                /\ "task" \in SetStatus(worker.copy, s).dirty => "task" \in worker.copy.dirty
                /\ "task" \in SetHost(worker.copy, h).dirty => "task" \in worker.copy.dirty
                /\ "task" \in SetCid(worker.copy, h).dirty => "task" \in worker.copy.dirty
                /\ "task" \in MissingStatus(worker.copy).dirty => "task" \in worker.copy.dirty
  BY <1>0, SettersTask
<1>3. \A pc \in Body : pc \in Pcs /\ Goto(pc) \in Workers /\ Goto(pc).pc = pc
        /\ Goto(pc).copy = worker.copy /\ Goto(pc).own = worker.own
        /\ Goto(pc).op = worker.op
  BY <1>0, GotoFields DEF Body
<1>4. {"pull", "create", "createSave", "rebuilt", "remove", "docker", "started",
       "notfound", "fail", "finish"} \subseteq Body
  BY DEF Body, Pcs
<1>5. \A s \in Statuses : SetStatus(worker.copy, s) \in Copies
  BY <1>0, SettersType
<1>6. {"Error", "Created", "Deleted"} \subseteq Statuses
  BY DEF Statuses
<1>10. CASE Claim
  <2>1. ~worker.own /\ worker.pc = "claim" /\ "task" \notin worker.copy.dirty
    BY <1>10 DEF Claim, OwnedInv, ThreadInv
  <2>2. /\ Goto("begin") \in Workers /\ Goto("begin").pc = "begin"
        /\ Goto("begin").own = worker.own /\ Goto("begin").copy = worker.copy
    BY <1>0, GotoFields DEF Pcs
  <2>3. CASE SaveAndGo(SetHost(SetStatus(worker.copy, "Error"), FALSE), Idle)
    <3> DEFINE e == SetStatus(worker.copy, "Error")
               c == SetHost(e, FALSE)
    <3>1. c \in Copies /\ "task" \notin c.dirty
      <4>1. e \in Copies /\ "task" \notin e.dirty
        BY <1>2, <1>5, <1>6, <2>1
      <4> HIDE DEF e
      <4> QED BY <4>1, SettersTask, SettersType
    <3> HIDE DEF c
    <3>2. worker' = Idle
      BY <2>3, CleanCopies DEF SaveAndGo, c
    <3>3. row' = row \/ (row.exists /\ row' = Saved(c))
      BY <2>3 DEF SaveAndGo, c
    <3>4. row'.exists => row.exists /\ row'.task = row.task
      BY <3>1, <3>3, SavedTask
    <3>5. ~worker'.own /\ "task" \notin worker'.copy.dirty
      BY <3>2, CleanCopies
    <3> QED BY <1>0, <2>1, <3>4, <3>5, LeaveKeeps
  <2>4. CASE SaveAndGo(SetHost(worker.copy, TRUE), Goto("begin"))
    <3> DEFINE c == SetHost(worker.copy, TRUE)
    <3>1. c \in Copies /\ "task" \notin c.dirty /\ Clean(c).dirty = {}
      BY <1>0, <1>2, <2>1, SettersTask, SettersType
    <3> HIDE DEF c
    <3>2. worker' = Idle \/ worker' = [Goto("begin") EXCEPT !.copy = Clean(c)]
      BY <2>2, <2>4 DEF SaveAndGo, c
    <3>3. row' = row \/ (row.exists /\ row' = Saved(c))
      BY <2>4 DEF SaveAndGo, c
    <3>4. row'.exists => row.exists /\ row'.task = row.task
      BY <3>1, <3>3, SavedTask
    <3>5. ~worker'.own /\ "task" \notin worker'.copy.dirty
      BY <2>1, <2>2, <3>1, <3>2, CleanCopies DEF Workers
    <3> QED BY <1>0, <2>1, <3>4, <3>5, LeaveKeeps
  <2>5. CASE worker' = Goto("begin") /\ UNCHANGED row
    BY <1>0, <2>1, <2>2, <2>5, LeaveKeeps
  <2> QED BY <1>10, <2>3, <2>4, <2>5 DEF Claim
<1>11. CASE Begin
  <2>1. /\ worker.pc = "begin" /\ ~worker.own
        /\ BodyOf(worker.op) \in Body
    BY <1>11, <1>4 DEF Begin, OwnedInv, ThreadInv, BodyOf
  <2>2. CASE worker.copy.task # NoTask
    <3>1. "task" \notin worker.copy.dirty
      BY <2>2 DEF OwnedInv, ThreadInv
    <3>2. worker' = Goto(BodyOf(worker.op)) /\ UNCHANGED row
      BY <1>11, <2>2 DEF Begin
    <3> QED BY <1>0, <1>3, <2>1, <3>1, <3>2, BodyKeeps
  <2>3. CASE worker.copy.task = NoTask
    <3> DEFINE t == TaskOf[worker.op]
               c == SetTask(worker.copy, t)
               w == [Goto(BodyOf(worker.op)) EXCEPT !.own = TRUE]
    <3>1. t \in Tasks /\ t # NoTask
      BY <1>0, TaskOfType
    <3>2. c \in Copies /\ c.task = t /\ "task" \in c.dirty
          /\ Clean(c).task = t /\ Clean(c).dirty = {}
      BY <1>0, <2>3, <3>1, SettersTask, SettersType
    <3>3. w \in Workers /\ w.own = TRUE /\ w.op = worker.op /\ w.pc \in Body
      <4> DEFINE g == Goto(BodyOf(worker.op))
      <4>1. g \in Workers /\ g.pc \in Body /\ g.op = worker.op
        BY <1>3, <2>1
      <4>2. w = [g EXCEPT !.own = TRUE]
        OBVIOUS
      <4> HIDE DEF g, w
      <4> QED BY <4>1, <4>2 DEF Workers
    <3>4. SaveAndGo(c, w)
      BY <1>11, <2>3 DEF Begin
    <3> HIDE DEF c, w
    <3>5. CASE row.exists
      <4>1. row' = Saved(c) /\ worker' = [w EXCEPT !.copy = Clean(c)]
        BY <3>3, <3>4, <3>5 DEF SaveAndGo, Body
      <4>2. worker'.own = TRUE /\ worker'.op = worker.op /\ worker'.pc = w.pc
            /\ worker'.copy = Clean(c)
        BY <3>3, <4>1 DEF Workers
      <4>3. row'.task = t
        BY <3>2, <4>1, SavedTask
      <4>4. TaskStateOwned' /\ ThreadInv'
        BY <3>2, <3>3, <4>2, <4>3 DEF TaskStateOwned, ThreadInv, Body
      <4> QED BY <1>0, <4>4 DEF OwnedInv, CopiesInv, DownInv
    <3>6. CASE ~row.exists
      <4>1. worker' = Idle /\ row' = row
        BY <3>4, <3>6 DEF SaveAndGo
      <4>2. ~worker'.own /\ "task" \notin worker'.copy.dirty
        BY <4>1, CleanCopies
      <4> QED BY <1>0, <2>1, <3>6, <4>1, <4>2, LeaveKeeps
    <3> QED BY <3>5, <3>6
  <2> QED BY <2>2, <2>3
<1>12. CASE Pull
  <2>1. "task" \notin worker.copy.dirty
    BY <1>1, <1>12 DEF Pull
  <2>2. \/ SaveAndGo(worker.copy, Goto("create"))
        \/ worker' = Goto("fail") /\ UNCHANGED row
    BY <1>12 DEF Pull
  <2> QED BY <1>0, <1>3, <1>4, <2>1, <2>2, BodyKeeps
<1>13. CASE Create
  <2>1. "task" \notin worker.copy.dirty
    BY <1>1, <1>13 DEF Create
  <2>2. UNCHANGED row
    BY <1>13 DEF Create
  <2>3. CASE worker' = [Goto("fail") EXCEPT !.unset = TRUE]
    <3> DEFINE w == [Goto("fail") EXCEPT !.unset = TRUE]
    <3>1. /\ w \in Workers /\ w.pc \in Body /\ w.own = worker.own
          /\ w.op = worker.op /\ w.copy = worker.copy
      <4> DEFINE g == Goto("fail")
      <4>1. /\ g \in Workers /\ g.pc = "fail" /\ "fail" \in Body
            /\ g.own = worker.own /\ g.op = worker.op /\ g.copy = worker.copy
        BY <1>3, <1>4
      <4>2. w = [g EXCEPT !.unset = TRUE]
        OBVIOUS
      <4> HIDE DEF g, w
      <4> QED BY <4>1, <4>2 DEF Workers
    <3> HIDE DEF w
    <3> QED BY <1>0, <2>1, <2>2, <2>3, <3>1, BodyKeeps DEF w
  <2>4. CASE \E i \in 0..MaxIds :
               LET c == SetCid(worker.copy, i)
               IN \/ worker' = [Goto("createSave") EXCEPT
                         !.copy = Inspected(c, docker')]
                  \/ worker' = [Goto("fail") EXCEPT !.unset = TRUE, !.copy = c]
    <3>1. PICK i \in 0..MaxIds :
               LET c == SetCid(worker.copy, i)
               IN \/ worker' = [Goto("createSave") EXCEPT
                         !.copy = Inspected(c, docker')]
                  \/ worker' = [Goto("fail") EXCEPT !.unset = TRUE, !.copy = c]
      BY <2>4
    <3> DEFINE c == SetCid(worker.copy, i)
               d == Inspected(c, docker')
    <3>2. c \in Copies /\ "task" \notin c.dirty /\ c.task = worker.copy.task
      BY <1>0, <1>2, <2>1, SettersType
    <3>4. d \in Copies /\ "task" \notin d.dirty /\ d.task = worker.copy.task
      <4> HIDE DEF c
      <4> QED BY <3>2, InspectedType, PopulatedTask
    <3>5. CASE worker' = [Goto("createSave") EXCEPT !.copy = d]
      <4> HIDE DEF d
      <4> DEFINE w == [Goto("createSave") EXCEPT !.copy = d]
      <4>1. /\ w \in Workers /\ w.pc \in Body /\ w.own = worker.own
            /\ w.op = worker.op /\ w.copy = d
        <5> DEFINE g == Goto("createSave")
        <5>1. /\ g \in Workers /\ g.pc = "createSave" /\ "createSave" \in Body
              /\ g.own = worker.own /\ g.op = worker.op
          BY <1>3, <1>4
        <5>2. w = [g EXCEPT !.copy = d]
          OBVIOUS
        <5> HIDE DEF g, w
        <5> QED BY <3>4, <5>1, <5>2 DEF Workers
      <4> HIDE DEF w
      <4> QED BY <1>0, <2>2, <3>4, <3>5, <4>1, BodyKeeps DEF w
    <3>6. CASE worker' = [Goto("fail") EXCEPT !.unset = TRUE, !.copy = c]
      <4> HIDE DEF c
      <4> DEFINE w == [Goto("fail") EXCEPT !.unset = TRUE, !.copy = c]
      <4>1. /\ w \in Workers /\ w.pc \in Body /\ w.own = worker.own
            /\ w.op = worker.op /\ w.copy = c
        <5> DEFINE g == Goto("fail")
        <5>1. /\ g \in Workers /\ g.pc = "fail" /\ "fail" \in Body
              /\ g.own = worker.own /\ g.op = worker.op
          BY <1>3, <1>4
        <5>2. w = [g EXCEPT !.unset = TRUE, !.copy = c]
          OBVIOUS
        <5> HIDE DEF g, w
        <5> QED BY <3>2, <5>1, <5>2 DEF Workers
      <4> HIDE DEF w
      <4> QED BY <1>0, <2>2, <3>2, <3>6, <4>1, BodyKeeps DEF w
    <3> QED BY <3>1, <3>5, <3>6
  <2>5. used.ids < MaxIds => used.ids + 1 \in 0..MaxIds
    BY BoundsAssumption, <1>0 DEF TypeOK
  <2> QED BY <1>13, <2>3, <2>4, <2>5 DEF Create
<1>14. CASE CreateSave
  <2>1. "task" \notin worker.copy.dirty
    BY <1>1, <1>14 DEF CreateSave
  <2>2. \E pc \in Body : SaveAndGo(worker.copy, Goto(pc))
    BY <1>4, <1>14 DEF CreateSave
  <2> QED BY <1>0, <1>3, <2>1, <2>2, BodyKeeps
<1>15. CASE Rebuilt
  <2> DEFINE c == SetStatus(worker.copy, "Created")
  <2>1. c \in Copies /\ "task" \notin c.dirty /\ c.task = worker.copy.task
    BY <1>1, <1>2, <1>5, <1>6, <1>15 DEF Rebuilt
  <2>2. \E pc \in Body : SaveAndGo(c, Goto(pc))
    BY <1>4, <1>15 DEF Rebuilt
  <2> HIDE DEF c
  <2> QED BY <1>0, <1>3, <2>1, <2>2, BodyKeeps
<1>16. CASE Remove
  <2>1. "task" \notin worker.copy.dirty /\ UNCHANGED row
    BY <1>1, <1>16 DEF Remove
  <2>3. PICK pc \in Body, b \in BOOLEAN :
           worker' = Goto(pc) \/ worker' = [Goto(pc) EXCEPT !.failed = b]
    BY <1>4, <1>16 DEF Remove
  <2>4. /\ worker' \in Workers /\ worker'.pc \in Body /\ worker'.own = worker.own
        /\ worker'.op = worker.op /\ worker'.copy = worker.copy
    BY <1>0, <1>3, <2>3, FailedFields
  <2> QED BY <1>0, <2>1, <2>4, BodyKeeps
<1>17. CASE DriverCall
  <2>1. "task" \notin worker.copy.dirty /\ UNCHANGED row
    BY <1>1, <1>17 DEF DriverCall
  <2>2. CASE worker' = Raise
    <3>1. PICK pc \in Body, b \in BOOLEAN : worker' = [Goto(pc) EXCEPT !.failed = b]
      BY <1>4, <2>2 DEF Raise
    <3>2. /\ worker' \in Workers /\ worker'.pc \in Body /\ worker'.own = worker.own
          /\ worker'.op = worker.op /\ worker'.copy = worker.copy
      BY <1>0, <1>3, <3>1, FailedFields
    <3> QED BY <1>0, <2>1, <3>2, BodyKeeps
  <2>3. CASE worker' = Goto("notfound")
    BY <1>0, <1>3, <1>4, <2>1, <2>3, BodyKeeps
  <2>4. CASE \E e \in Effects(DriverOp) :
                worker' = [Goto(IF DriverOp = "start" THEN "started"
                                   ELSE "finish")
                                EXCEPT !.copy = Performed(@, e[2])]
    <3>1. PICK pc \in Body, s \in Statuses :
             worker' = [Goto(pc) EXCEPT !.copy = Performed(@, s)]
      BY <1>4, <2>4, <1>0, EffectsType DEF TypeOK
    <3>2. worker' = [Goto(pc) EXCEPT !.copy = Performed(worker.copy, s)]
      BY <1>3, <3>1
    <3> DEFINE c == Performed(worker.copy, s)
    <3>3. c \in Copies /\ "task" \notin c.dirty /\ c.task = worker.copy.task
      BY <1>0, <1>2, <1>5, <2>1 DEF Performed
    <3> HIDE DEF c
    <3>4. /\ worker' \in Workers /\ worker'.pc \in Body /\ worker'.own = worker.own
          /\ worker'.op = worker.op /\ worker'.copy = c
      <4> DEFINE g == Goto(pc)
      <4>1. /\ g \in Workers /\ g.pc \in Body /\ g.own = worker.own
            /\ g.op = worker.op
        BY <1>3
      <4>2. worker' = [g EXCEPT !.copy = c]
        BY <3>2 DEF c
      <4> HIDE DEF g
      <4> QED BY <3>3, <4>1, <4>2 DEF Workers
    <3> QED BY <1>0, <2>1, <3>3, <3>4, BodyKeeps
  <2> QED BY <1>17, <2>2, <2>3, <2>4 DEF DriverCall
<1>18. CASE Started
  <2>1. "task" \notin worker.copy.dirty
    BY <1>1, <1>18 DEF Started
  <2>2. SaveAndGo(worker.copy, Goto("finish"))
    BY <1>18 DEF Started
  <2> QED BY <1>0, <1>3, <1>4, <2>1, <2>2, BodyKeeps
<1>19. CASE NotFound
  <2> DEFINE c == MissingStatus(worker.copy)
  <2>1. c \in Copies /\ "task" \notin c.dirty /\ c.task = worker.copy.task
    <3>1. c \in Copies
      BY <1>0, <1>5, <1>6 DEF MissingStatus
    <3> QED BY <1>1, <1>2, <1>19, <3>1 DEF NotFound
  <2>2. /\ Raise \in Workers /\ Raise.pc \in Body /\ Raise.own = worker.own
        /\ Raise.op = worker.op
    <3>1. PICK pc \in Body, b \in BOOLEAN : Raise = [Goto(pc) EXCEPT !.failed = b]
      BY <1>4 DEF Raise
    <3> QED BY <1>0, <1>3, <3>1, FailedFields
  <2>3. SaveAndGo(c, Raise)
    BY <1>19 DEF NotFound
  <2> HIDE DEF c
  <2> QED BY <1>0, <1>19, <2>1, <2>2, <2>3, BodyKeeps
<1>20. CASE Fail
  <2> DEFINE e == SetStatus(worker.copy, "Error")
             c == IF worker.unset THEN SetHost(e, FALSE) ELSE e
             w == [Goto("finish") EXCEPT
                     !.failed = ~(worker.op = "delete" /\ worker.force)]
  <2>1. e \in Copies /\ "task" \notin e.dirty /\ e.task = worker.copy.task
    BY <1>1, <1>2, <1>5, <1>6, <1>20 DEF Fail
  <2>2. c \in Copies /\ "task" \notin c.dirty /\ c.task = worker.copy.task
    <3> HIDE DEF e
    <3> QED BY <2>1, SettersTask, SettersType
  <2>3. w \in Workers /\ w.pc \in Body /\ w.own = worker.own /\ w.op = worker.op
    <3>1. PICK b \in BOOLEAN : w = [Goto("finish") EXCEPT !.failed = b]
      OBVIOUS
    <3>2. "finish" \in Body /\ "finish" \in Pcs
      BY <1>3, <1>4
    <3> HIDE DEF w
    <3> QED BY <1>0, <3>1, <3>2, FailedFields
  <2>4. SaveAndGo(c, w)
    BY <1>20 DEF Fail
  <2> HIDE DEF c, w
  <2> QED BY <1>0, <2>2, <2>3, <2>4, BodyKeeps
<1>21. CASE Finish
  <2>1. "task" \notin worker.copy.dirty
    BY <1>1, <1>21 DEF Finish
  <2>2. /\ AfterTask \in Workers
        /\ AfterTask = Idle \/ (AfterTask.copy = worker.copy /\ ~AfterTask.own)
    <3> DEFINE d == Goto("destroy")
               g == Goto("begin")
    <3>1. d \in Workers /\ g \in Workers /\ d.copy = worker.copy /\ g.copy = worker.copy
      BY <1>0, GotoFields DEF Pcs
    <3>2. AfterTask \in {Idle, [d EXCEPT !.own = FALSE],
                         [g EXCEPT !.op = "start", !.own = FALSE]}
      BY DEF AfterTask
    <3> HIDE DEF d, g
    <3>3. "start" \in WorkerOps
      BY DEF WorkerOps, TaskOf
    <3>4. CASE AfterTask = Idle
      BY <3>4, ConstantsType
    <3>5. CASE AfterTask = [d EXCEPT !.own = FALSE]
      BY <3>1, <3>5 DEF Workers
    <3>6. CASE AfterTask = [g EXCEPT !.op = "start", !.own = FALSE]
      BY <3>1, <3>3, <3>6 DEF Workers
    <3> QED BY <3>2, <3>4, <3>5, <3>6
  <2>3. AfterTask.own = FALSE /\ "task" \notin AfterTask.copy.dirty
    BY <2>1, <2>2, CleanCopies DEF Workers
  <2>4. CASE worker.own
    <3> DEFINE c == SetTask(worker.copy, NoTask)
    <3>1. NoTask \in Tasks /\ worker.copy.task # NoTask
      BY <1>0, <2>4, TaskOfType DEF OwnedInv, ThreadInv, Tasks, NoTask
    <3>2. /\ c \in Copies /\ c.task = NoTask /\ "task" \in c.dirty
          /\ Clean(c) \in Copies /\ Clean(c).dirty = {}
      BY <1>0, <3>1, SettersTask, SettersType
    <3> HIDE DEF c
    <3>3. SaveAndGo(c, AfterTask)
      BY <1>21, <2>4 DEF Finish, c
    <3>4. row'.exists => row'.task = NoTask
      BY <3>2, <3>3, SavedTask DEF SaveAndGo
    <3>5. worker' = Idle \/ worker' = [AfterTask EXCEPT !.copy = Clean(c)]
      BY <3>3 DEF SaveAndGo
    <3>6. ~worker'.own /\ "task" \notin worker'.copy.dirty
      BY <2>2, <2>3, <3>2, <3>5, CleanCopies DEF Workers
    <3> QED BY <1>0, <3>4, <3>6, LeaveKeeps
  <2>5. CASE ~worker.own
    <3>1. worker' = AfterTask /\ UNCHANGED row
      BY <1>21, <2>5 DEF Finish
    <3> QED BY <1>0, <2>3, <2>5, <3>1, LeaveKeeps
  <2> QED BY <2>4, <2>5
<1>22. CASE Destroy
  <2>1. worker' = Idle /\ ~worker.own
    BY <1>22 DEF Destroy, OwnedInv, ThreadInv
  <2>2. row'.exists => row.exists /\ row'.task = row.task
    BY <1>0, <1>22, GoneExists DEF Destroy
  <2>3. ~worker'.own /\ "task" \notin worker'.copy.dirty
    BY <2>1, CleanCopies
  <2> QED BY <1>0, <2>1, <2>2, <2>3, LeaveKeeps
<1> QED
  BY <1>10, <1>11, <1>12, <1>13, <1>14, <1>15, <1>16, <1>17, <1>18, <1>19,
     <1>20, <1>21, <1>22 DEF WorkerStep

\* Taking a cast, losing and starting zun-compute: a thread starts without
\* owning anything, a lost one owns nothing any more, and only init_containers
\* resets a task state it did not assign.
LEMMA OwnedService ==
    ASSUME OwnedInv,
           \/ \E c \in calls : WorkerTake(c)
           \/ Crash \/ StartService \/ InitContainer
           \/ DockerExit \/ DockerVanish
    PROVE  (TaskStateOwned /\ ThreadInv /\ CopiesInv /\ DownInv)'
<1>0. TypeOK /\ used \in UsedType
  BY DEF OwnedInv, TypeOK, UsedType
<1>1. ASSUME NEW c \in calls, WorkerTake(c)
      PROVE  (TaskStateOwned /\ ThreadInv /\ CopiesInv /\ DownInv)'
  <2>1. ~worker.own /\ svc = "up" /\ UNCHANGED <<row, sync, svc, initial, used>>
    BY <1>1 DEF WorkerTake, OwnedInv, ThreadInv
  <2>2. /\ worker'.own = FALSE /\ worker'.copy = c.copy
        /\ worker'.pc = IF c.op = "create" THEN "claim" ELSE "begin"
    BY <1>1 DEF WorkerTake, Idle
  <2>3. ThreadInv'
    BY <1>1, <2>2 DEF OwnedInv, CopiesInv, ThreadInv
  <2>4. TaskStateOwned'
    BY <2>1, <2>2 DEF OwnedInv, TaskStateOwned
  <2>5. CopiesInv'
    BY <1>1, <2>1 DEF WorkerTake, Drop, OwnedInv, CopiesInv
  <2> QED BY <2>1, <2>3, <2>4, <2>5 DEF DownInv
<1>2. CASE Crash
  <2>1. used'.crashes # 0
    BY <1>0, <1>2, BoundsAssumption DEF Crash, UsedType
  <2>2. /\ worker' = Idle /\ calls' \subseteq calls /\ sync' = SyncIdle
        /\ initial' = NoCopy
    BY <1>2 DEF Crash
  <2> QED BY <2>1, <2>2, CleanCopies
          DEF OwnedInv, TaskStateOwned, ThreadInv, CopiesInv, DownInv
<1>3. CASE StartService
  <2>1. initial'.dirty = {} /\ UNCHANGED <<row, calls, worker, sync, used>>
    BY <1>3, CleanCopies DEF StartService
  <2>2. TaskStateOwned' /\ ThreadInv'
    BY <2>1, OthersKeep
  <2> QED BY <1>3, <2>1, <2>2 DEF StartService, OwnedInv, CopiesInv, DownInv
<1>4. CASE InitContainer
  <2> DEFINE retry == RetryOf(initial)
             c == IF retry = {} THEN initial ELSE SetTask(initial, NoTask)
             failed == SetStatus(c, "Error")
             spawned == {Spawned(op, c) : op \in retry}
                          \cup IF Restores(c) THEN {Spawned("start", c)} ELSE {}
             again == {Spawned(op, Clean(failed)) : op \in retry}
  <2>1. ~worker.own /\ worker.pc = "idle" /\ used.crashes # 0
        /\ initial.dirty = {} /\ initial \in Copies
    BY <1>0, <1>4 DEF InitContainer, OwnedInv, DownInv, CopiesInv, TypeOK
  <2>2. /\ calls' \in {calls, calls \cup spawned, calls \cup again}
        /\ initial' = NoCopy /\ UNCHANGED <<worker, sync, used>>
    <3> HIDE DEF retry, c, failed
    <3> QED BY <1>4 DEF InitContainer, retry, c, failed
  <2>3. NoTask \in Tasks /\ "Error" \in Statuses
    BY DEF NoTask, Tasks, Statuses
  <2>4. c \in Copies /\ ("task" \in c.dirty => c.task = NoTask)
    BY <2>1, <2>3, SettersTask, SettersType
  <2>5. failed \in Copies /\ Clean(failed).dirty = {}
    <3> HIDE DEF c
    <3> QED BY <2>3, <2>4, SettersTask, SettersType
  <2>6. \A op, d : /\ Spawned(op, d).copy = d /\ Spawned(op, d).op = op
                   /\ Spawned(op, d).phase = "cast"
    BY DEF Spawned, Call
  <2>7. retry \cap {"create", "show"} = {}
    BY DEF RetryOf, Retried
  <2> HIDE DEF retry, c, failed
  <2>8. \A x \in calls' : "task" \in x.copy.dirty =>
          /\ x.phase = "cast" /\ x.op \notin {"create", "show"}
          /\ x.copy.task = NoTask
    <3>1. \A x \in calls : "task" \in x.copy.dirty =>
            /\ x.phase = "cast" /\ x.op \notin {"create", "show"}
            /\ x.copy.task = NoTask
      BY DEF OwnedInv, CopiesInv
    <3>2. \A x \in spawned : x.phase = "cast" /\ x.op \notin {"create", "show"}
                             /\ x.copy = c
      BY <2>6, <2>7
    <3>3. \A x \in again : x.copy = Clean(failed)
      BY <2>6
    <3> HIDE DEF spawned, again
    <3> QED BY <2>2, <2>4, <2>5, <3>1, <3>2, <3>3
  <2>9. CopiesInv'
    BY <2>2, <2>8, CleanCopies DEF OwnedInv, CopiesInv
  <2>10. TaskStateOwned' /\ ThreadInv' /\ DownInv'
    BY <2>1, <2>2 DEF OwnedInv, TaskStateOwned, ThreadInv, DownInv
  <2> QED BY <2>9, <2>10
<1>5. CASE DockerExit \/ DockerVanish
  <2>1. used'.crashes = used.crashes
        /\ UNCHANGED <<row, calls, worker, sync, svc, initial>>
    BY <1>0, <1>5 DEF DockerExit, DockerVanish, UsedType
  <2>2. TaskStateOwned' /\ ThreadInv'
    BY <2>1, OthersKeep
  <2> QED BY <2>1, <2>2 DEF OwnedInv, CopiesInv, DownInv
<1> QED BY <1>1, <1>2, <1>3, <1>4, <1>5

\* Every step keeps the strengthened invariant.
LEMMA OwnedStep ==
    ASSUME OwnedInv, [Next]_vars
    PROVE  OwnedInv'
<1>1. TypeOK'
  BY TypeStep DEF OwnedInv
<1>2. CASE UNCHANGED vars
  BY <1>1, <1>2 DEF vars, OwnedInv, TaskStateOwned, ThreadInv, CopiesInv, DownInv
<1>3. CASE Terminated
  BY <1>1, <1>3
     DEF Terminated, changing, OwnedInv, TaskStateOwned, ThreadInv, CopiesInv, DownInv
<1>4. CASE \/ \E op \in Ops : ApiRequest(op)
           \/ \E c \in calls : ApiStep(c)
  BY <1>1, <1>4, OwnedApi DEF OwnedInv
<1>5. CASE WorkerStep
  BY <1>1, <1>5, OwnedWorker DEF OwnedInv
<1>6. CASE \/ \E c \in calls : ShowStep(c)
           \/ SyncStep
           \/ DeleteUnused
  BY <1>1, <1>6, OwnedUnlocked DEF OwnedInv
<1>7. CASE \/ \E c \in calls : WorkerTake(c)
           \/ Crash \/ StartService \/ InitContainer
           \/ DockerExit \/ DockerVanish
  BY <1>1, <1>7, OwnedService DEF OwnedInv
<1> QED BY <1>2, <1>3, <1>4, <1>5, <1>6, <1>7 DEF Next, Step

\* A task state belongs to the thread that assigned it: API handlers, container
\* show, the periodic tasks and threads with stale copies never overwrite it,
\* and while zun-compute is not lost none is left behind.
THEOREM TaskStateOwnership == Spec => []TaskStateOwned
<1>1. Init => OwnedInv
  <2> SUFFICES ASSUME Init PROVE OwnedInv
    OBVIOUS
  <2>1. TypeOK
    BY InitType
  <2>2. \A c \in calls : c.copy.dirty = {}
    BY CleanCopies DEF Init, Call
  <2>3. worker.own = FALSE /\ worker.copy.dirty = {} /\ sync = SyncIdle
        /\ initial.dirty = {} /\ svc = "up" /\ row.task = NoTask
    BY CleanCopies DEF Init
  <2> QED BY <2>1, <2>2, <2>3, CleanCopies
          DEF OwnedInv, TaskStateOwned, ThreadInv, CopiesInv, DownInv
<1>2. OwnedInv /\ [Next]_vars => OwnedInv'
  BY OwnedStep
<1>3. OwnedInv => TaskStateOwned
  BY DEF OwnedInv
<1> QED BY <1>1, <1>2, <1>3, PTL DEF Spec

-----------------------------------------------------------------------------
(* A status that users act on comes with an id                              *)

\* The statuses that OperableHasId speaks of.
Operable == {"Created", "Running", "Stopped", "Paused", "Dead"}

\* A copy that stands beside a row with container_id id: it assigns no NULL, an
\* id it has not assigned itself was read from the row, and it has one when its
\* status is operable.
Knows(c, id) ==
    /\ "cid" \in c.dirty => c.cid # 0
    /\ c.cid # 0 => "cid" \in c.dirty \/ id # 0
    /\ c.status \in Operable => c.cid # 0

\* The inductive strengthening of OperableHasId: whoever holds a copy knows,
\* and a thread past driver.create has the id that Docker answered with.
IdInv ==
    /\ OperableHasId
    /\ \A c \in calls : Knows(c.copy, row.cid)
    /\ Knows(worker.copy, row.cid)
    /\ worker.pc \in {"createSave", "rebuilt"} => worker.copy.cid # 0
    /\ Knows(sync.all, row.cid) /\ Knows(sync.local, row.cid)
    /\ Knows(initial, row.cid)

\* A row never loses its id, so a copy that knew still does.
LEMMA KnowsOn ==
    ASSUME NEW c, NEW i, NEW j, Knows(c, i), i # 0 => j # 0
    PROVE  Knows(c, j)
BY DEF Knows

\* Assignments to a copy that knows.
LEMMA SettersKnow ==
    ASSUME NEW c \in Copies, NEW i, Knows(c, i)
    PROVE  /\ \A s \in Statuses : (s \in Operable => c.cid # 0)
                 => Knows(SetStatus(c, s), i) /\ SetStatus(c, s).cid = c.cid
           /\ \A t \in Tasks : Knows(SetTask(c, t), i)
           /\ \A h \in BOOLEAN : Knows(SetHost(c, h), i)
           /\ \A k \in 0..MaxIds : k # 0 =>
                 Knows(SetCid(c, k), i) /\ SetCid(c, k).cid = k
           /\ Knows(MissingStatus(c), i)
<1>1. ASSUME NEW s \in Statuses, s \in Operable => c.cid # 0
      PROVE  Knows(SetStatus(c, s), i) /\ SetStatus(c, s).cid = c.cid
  BY <1>1 DEF Knows, SetStatus, Copies
<1>2. ASSUME NEW t \in Tasks PROVE Knows(SetTask(c, t), i)
  BY <1>2 DEF Knows, SetTask, Copies
<1>3. ASSUME NEW h \in BOOLEAN PROVE Knows(SetHost(c, h), i)
  BY <1>3 DEF Knows, SetHost, Copies
<1>4. ASSUME NEW k \in 0..MaxIds, k # 0
      PROVE  Knows(SetCid(c, k), i) /\ SetCid(c, k).cid = k
  BY <1>4 DEF Knows, SetCid, Copies
<1>5. Knows(MissingStatus(c), i)
  BY <1>1 DEF MissingStatus, Statuses, Operable
<1> QED BY <1>1, <1>2, <1>3, <1>4, <1>5

\* Inspecting the container that a copy names.
LEMMA InspectedKnows ==
    ASSUME NEW c \in Copies, NEW i, NEW d, Knows(c, i), c.cid # 0
    PROVE  Knows(Inspected(c, d), i) /\ Inspected(c, d).cid = c.cid
<1>1. \A s \in Statuses :
         Knows(SetStatus(c, s), i) /\ SetStatus(c, s).cid = c.cid
  BY SettersKnow
<1> QED BY <1>1 DEF Inspected, Statuses

\* save() of a copy that knows: the row is operable with an id only, keeps its
\* id, and the copy still knows.
LEMMA SavedKnows ==
    ASSUME row \in Rows, OperableHasId, NEW c \in Copies, Knows(c, row.cid)
    PROVE  /\ Saved(c).status \in Operable => Saved(c).cid # 0
           /\ row.cid # 0 => Saved(c).cid # 0
           /\ Knows(Clean(c), Saved(c).cid)
           /\ Clean(c).cid = c.cid
<1>1. /\ Saved(c).status = IF "status" \in c.dirty THEN c.status ELSE row.status
      /\ Saved(c).cid = IF "cid" \in c.dirty THEN c.cid ELSE row.cid
  BY DEF Saved
<1>2. Clean(c).cid = c.cid /\ Clean(c).status = c.status /\ Clean(c).dirty = {}
  BY DEF Clean, Copies
<1> QED BY <1>1, <1>2 DEF Knows, OperableHasId, Operable

\* Copies just read know what the row knows; the ones that stand for none know
\* nothing.
LEMMA ReadKnows ==
    ASSUME row \in Rows, OperableHasId, NEW i
    PROVE  /\ Knows(Snapshot, row.cid) /\ Knows(NoCopy, i)
           /\ Snapshot.cid = row.cid /\ Snapshot.status = row.status
BY DEF Snapshot, NoCopy, Knows, OperableHasId, Operable

\* What a step does to the row: it leaves it alone, destroys it, or saves a
\* copy that knows.
LEMMA RowKnows ==
    ASSUME row \in Rows, OperableHasId,
           \/ row' = row \/ row' = Gone
           \/ \E c \in Copies : Knows(c, row.cid) /\ row' = Saved(c)
    PROVE  OperableHasId' /\ (row.cid # 0 => row'.cid # 0)
<1>1. CASE row' = row
  BY <1>1 DEF OperableHasId
<1>2. CASE row' = Gone
  BY <1>2 DEF OperableHasId, Gone, Rows
<1>3. CASE \E c \in Copies : Knows(c, row.cid) /\ row' = Saved(c)
  BY <1>3, SavedKnows DEF OperableHasId, Operable
<1> QED BY <1>1, <1>2, <1>3

\* The thread goes on as w, with or without saving its copy.
LEMMA ThreadKnows ==
    ASSUME TypeOK, IdInv, NEW c \in Copies, NEW w \in Workers,
           Knows(c, row.cid),
           w.pc \in {"createSave", "rebuilt"} => c.cid # 0,
           \/ SaveAndGo(c, w)
           \/ worker' = w /\ w.copy = c /\ UNCHANGED row,
           UNCHANGED <<calls, sync, initial>>
    PROVE  IdInv'
<1>0. row \in Rows /\ OperableHasId
  BY DEF TypeOK, IdInv
<1>1. OperableHasId' /\ (row.cid # 0 => row'.cid # 0)
  BY <1>0, RowKnows DEF SaveAndGo
<1>2. /\ \A x \in calls' : Knows(x.copy, row'.cid)
      /\ Knows(sync'.all, row'.cid) /\ Knows(sync'.local, row'.cid)
      /\ Knows(initial', row'.cid)
  BY <1>1, KnowsOn DEF IdInv
<1>3. /\ Knows(worker'.copy, row'.cid)
      /\ worker'.pc \in {"createSave", "rebuilt"} => worker'.copy.cid # 0
  <2>1. CASE worker' = w /\ w.copy = c /\ UNCHANGED row
    BY <2>1
  <2>2. CASE worker' = Idle
    BY <2>2, <1>0, ReadKnows, CleanCopies
  <2>3. CASE row' = Saved(c) /\ worker' = [w EXCEPT !.copy = Clean(c)]
    <3>1. worker'.copy = Clean(c) /\ worker'.pc = w.pc
      BY <2>3 DEF Workers
    <3> QED BY <1>0, <2>3, <3>1, SavedKnows
  <2> QED BY <2>1, <2>2, <2>3 DEF SaveAndGo
<1> QED BY <1>1, <1>2, <1>3 DEF IdInv

\* Steps of others than the thread: the copies they add know.
LEMMA OthersKnow ==
    ASSUME TypeOK, IdInv,
           \/ row' = row \/ row' = Gone
           \/ \E c \in Copies : Knows(c, row.cid) /\ row' = Saved(c),
           \A x \in calls' : x \in calls \/ Knows(x.copy, row'.cid),
           \/ sync' = sync
           \/ (Knows(sync'.all, row'.cid) /\ Knows(sync'.local, row'.cid)),
           initial' = initial \/ Knows(initial', row'.cid),
           \/ worker' = worker
           \/ (worker'.pc \notin {"createSave", "rebuilt"}
                 /\ Knows(worker'.copy, row'.cid))
    PROVE  IdInv'
<1>0. row \in Rows /\ OperableHasId
  BY DEF TypeOK, IdInv
<1>1. OperableHasId' /\ (row.cid # 0 => row'.cid # 0)
  BY <1>0, RowKnows
<1>2. \A x \in calls' : Knows(x.copy, row'.cid)
  BY <1>1, KnowsOn DEF IdInv
<1>3. Knows(sync'.all, row'.cid) /\ Knows(sync'.local, row'.cid)
  BY <1>1, KnowsOn DEF IdInv
<1>4. Knows(initial', row'.cid)
  BY <1>1, KnowsOn DEF IdInv
<1>5. /\ Knows(worker'.copy, row'.cid)
      /\ worker'.pc \in {"createSave", "rebuilt"} => worker'.copy.cid # 0
  BY <1>1, KnowsOn DEF IdInv
<1> QED BY <1>1, <1>2, <1>3, <1>4, <1>5 DEF IdInv

\* API handlers cast what they read.
LEMMA IdApi ==
    ASSUME TypeOK, IdInv,
           \/ \E op \in Ops : ApiRequest(op)
           \/ \E c \in calls : ApiStep(c)
    PROVE  IdInv'
<1>0. row \in Rows /\ OperableHasId
  BY DEF TypeOK, IdInv
<1>1. ASSUME NEW op \in Ops, ApiRequest(op) PROVE IdInv'
  <2> DEFINE c == Call(NextId, op, "cast", Snapshot)
             d == Call(NextId, "delete", "api", Snapshot)
             forced == Forced(d)
             stop == [c EXCEPT !.op = "stop"]
             rebuild == [c EXCEPT !.phase = "api", !.run = row.status = "Running"]
             reboot == [c EXCEPT !.phase = "api"]
  <2>1. /\ c.copy = Snapshot /\ d.copy = Snapshot /\ forced.copy = Snapshot
        /\ stop.copy = Snapshot /\ rebuild.copy = Snapshot
        /\ reboot.copy = Snapshot
    BY DEF Call, Forced
  <2>2. /\ calls' \subseteq calls \cup {c, d, forced, stop, rebuild, reboot}
        /\ UNCHANGED <<row, worker, sync, initial>>
    BY <1>1 DEF ApiRequest
  <2>3. Knows(Snapshot, row.cid)
    BY <1>0, ReadKnows
  <2> HIDE DEF c, d, forced, stop, rebuild, reboot
  <2>4. \A x \in calls' : x \in calls \/ Knows(x.copy, row'.cid)
    BY <2>1, <2>2, <2>3
  <2> QED BY <2>2, <2>4, OthersKnow
<1>2. ASSUME NEW c \in calls, ApiStep(c) PROVE IdInv'
  <2>1. /\ c \in Calls /\ c.copy \in Copies /\ Knows(c.copy, row.cid)
        /\ UNCHANGED <<worker, sync, initial>>
    BY <1>2 DEF ApiStep, ApiCreate, ApiDelete, ApiTransition, TypeOK, Calls, IdInv
  <2> DEFINE S == {"Error", "Deleting", "Rebuilding", "Restarting"}
  <2>2. \A s \in S : /\ SetStatus(c.copy, s) \in Copies
                     /\ Knows(SetStatus(c.copy, s), row.cid)
    BY <2>1, SettersType, SettersKnow DEF Statuses, Operable
  <2>3. \/ row' = row \/ row' = Gone
        \/ \E s \in S : row' = Saved(SetStatus(c.copy, s))
    BY <1>2 DEF ApiStep, ApiCreate, ApiDelete, ApiTransition
  <2>4. \/ Drop(c)
        \/ (UNCHANGED row /\ Replace(c, [c EXCEPT !.phase = "cast"]))
        \/ \E s \in S :
             \/ /\ UNCHANGED row
                /\ Replace(c, [c EXCEPT !.phase = "cast",
                                        !.copy = SetStatus(c.copy, s)])
             \/ /\ row' = Saved(SetStatus(c.copy, s))
                /\ Replace(c, [c EXCEPT !.phase = "cast",
                                        !.copy = Clean(SetStatus(c.copy, s))])
    BY <1>2 DEF ApiStep, ApiCreate, ApiDelete, ApiTransition
  <2>5. \A x \in calls' : x \in calls \/ Knows(x.copy, row'.cid)
    <3>1. CASE Drop(c)
      BY <3>1 DEF Drop
    <3>2. CASE UNCHANGED row /\ Replace(c, [c EXCEPT !.phase = "cast"])
      BY <2>1, <3>2, CallCopy DEF Replace
    <3>3. ASSUME NEW e, Knows(e, row'.cid),
                 Replace(c, [c EXCEPT !.phase = "cast", !.copy = e])
          PROVE  \A x \in calls' : x \in calls \/ Knows(x.copy, row'.cid)
      <4> DEFINE d == [c EXCEPT !.phase = "cast", !.copy = e]
      <4>1. d.copy = e
        BY <2>1, CallCopy
      <4>2. calls' = (calls \ {c}) \cup {d}
        BY <3>3 DEF Replace
      <4> HIDE DEF d
      <4> QED BY <3>3, <4>1, <4>2
    <3>4. \A s \in S : row' = Saved(SetStatus(c.copy, s))
                          => Knows(Clean(SetStatus(c.copy, s)), row'.cid)
      BY <1>0, <2>2, SavedKnows
    <3> HIDE DEF S
    <3> QED BY <2>2, <2>4, <3>1, <3>2, <3>3, <3>4
  <2> HIDE DEF S
  <2> QED BY <2>1, <2>2, <2>3, <2>5, OthersKnow
<1> QED BY <1>1, <1>2

\* The thread writes an operable status only of a container it found.
LEMMA IdWorker ==
    ASSUME TypeOK, IdInv, WorkerStep
    PROVE  IdInv'
<1> DEFINE id == row.cid
           me == worker.copy
<1>0. /\ worker \in Workers /\ me \in Copies /\ Knows(me, id)
      /\ row \in Rows /\ OperableHasId
      /\ UNCHANGED <<calls, sync, initial>>
  BY DEF TypeOK, Workers, IdInv, WorkerStep, Claim, Begin, Pull, Create,
         CreateSave, Rebuilt, Remove, DriverCall, Started, NotFound, Fail, Finish,
         Destroy
<1>1. \A s \in Statuses :
         /\ SetStatus(me, s) \in Copies
         /\ (s \in Operable => me.cid # 0) =>
               Knows(SetStatus(me, s), id) /\ SetStatus(me, s).cid = me.cid
  BY <1>0, SettersType, SettersKnow
<1>2. \A pc \in Pcs : /\ Goto(pc) \in Workers /\ Goto(pc).pc = pc
                      /\ Goto(pc).copy = me
  BY <1>0, GotoFields
<1>3. Pcs = {"idle", "claim", "begin", "pull", "create", "createSave", "rebuilt",
             "remove", "docker", "started", "notfound", "fail", "finish",
             "destroy"}
  BY DEF Pcs
<1>4. {"Error", "Created", "Deleted"} \subseteq Statuses /\ "Error" \notin Operable
      /\ Idle \in Workers /\ Idle.pc = "idle"
  BY ConstantsType, CleanCopies DEF Statuses, Operable
<1>5. ASSUME NEW pc \in Pcs \ {"createSave", "rebuilt"},
             \/ worker' = Goto(pc)
             \/ \E b \in BOOLEAN : worker' = [Goto(pc) EXCEPT !.failed = b],
             UNCHANGED row
      PROVE  IdInv'
  <2>1. worker' \in Workers /\ worker'.pc = pc /\ worker'.copy = me
    BY <1>0, <1>2, <1>5, FailedFields
  <2> QED BY <1>0, <1>5, <2>1, ThreadKnows
<1> HIDE DEF me
<1>10. CASE Claim
  <2>1. CASE SaveAndGo(SetHost(SetStatus(me, "Error"), FALSE), Idle)
    <3> DEFINE e == SetStatus(me, "Error")
               c == SetHost(e, FALSE)
    <3>1. e \in Copies /\ Knows(e, id)
      BY <1>1, <1>4
    <3>2. c \in Copies /\ Knows(c, id)
      <4> HIDE DEF e
      <4> QED BY <3>1, SettersType, SettersKnow
    <3> HIDE DEF c
    <3> QED BY <1>0, <1>4, <2>1, <3>2, ThreadKnows DEF c
  <2>2. CASE SaveAndGo(SetHost(me, TRUE), Goto("begin"))
    <3>1. SetHost(me, TRUE) \in Copies /\ Knows(SetHost(me, TRUE), id)
      BY <1>0, SettersType, SettersKnow
    <3>2. Goto("begin") \in Workers /\ Goto("begin").pc = "begin"
      BY <1>2, <1>3
    <3> QED BY <1>0, <2>2, <3>1, <3>2, ThreadKnows
  <2>3. CASE worker' = Goto("begin") /\ UNCHANGED row
    BY <1>3, <1>5, <2>3
  <2> QED BY <1>10, <2>1, <2>2, <2>3 DEF Claim, me
<1>11. CASE Begin
  <2>1. BodyOf(worker.op) \in Pcs \ {"createSave", "rebuilt"}
    BY <1>3 DEF BodyOf
  <2>2. CASE worker' = Goto(BodyOf(worker.op)) /\ UNCHANGED row
    BY <1>5, <2>1, <2>2
  <2>3. CASE SaveAndGo(SetTask(me, TaskOf[worker.op]),
                       [Goto(BodyOf(worker.op)) EXCEPT !.own = TRUE])
    <3> DEFINE c == SetTask(me, TaskOf[worker.op])
               g == Goto(BodyOf(worker.op))
               w == [g EXCEPT !.own = TRUE]
    <3>1. TaskOf[worker.op] \in Tasks
      BY <1>0, TaskOfType DEF Workers
    <3>2. c \in Copies /\ Knows(c, id)
      BY <1>0, <3>1, SettersType, SettersKnow
    <3>3. w \in Workers /\ w.pc \notin {"createSave", "rebuilt"}
      <4>1. g \in Workers /\ g.pc \notin {"createSave", "rebuilt"}
        BY <1>2, <2>1
      <4> HIDE DEF g
      <4> QED BY <4>1 DEF Workers
    <3>4. SaveAndGo(c, w)
      BY <2>3
    <3> HIDE DEF c, w
    <3> QED BY <1>0, <3>2, <3>3, <3>4, ThreadKnows
  <2> QED BY <1>11, <2>2, <2>3 DEF Begin, me
<1>12. CASE Pull
  <2>1. \/ worker' = Goto("fail") /\ UNCHANGED row
        \/ SaveAndGo(me, Goto("create"))
    BY <1>12 DEF Pull, me
  <2>2. Goto("create") \in Workers /\ Goto("create").pc = "create"
    BY <1>2, <1>3
  <2> QED BY <1>0, <1>3, <1>5, <2>1, <2>2, ThreadKnows
<1>13. CASE Create
  <2>1. UNCHANGED row
    BY <1>13 DEF Create
  <2>2. CASE worker' = [Goto("fail") EXCEPT !.unset = TRUE]
    <3> DEFINE g == Goto("fail")
    <3>1. g \in Workers /\ g.pc = "fail" /\ g.copy = me
      BY <1>2, <1>3
    <3>2. worker' = [g EXCEPT !.unset = TRUE]
      BY <2>2
    <3> HIDE DEF g
    <3>3. worker' \in Workers /\ worker'.pc = "fail" /\ worker'.copy = me
      BY <3>1, <3>2 DEF Workers
    <3> QED BY <1>0, <2>1, <3>3, ThreadKnows
  <2>3. CASE used.ids < MaxIds
             /\ LET c == SetCid(me, used.ids + 1)
                IN \/ worker' = [Goto("createSave") EXCEPT
                         !.copy = Inspected(c, docker')]
                   \/ worker' = [Goto("fail") EXCEPT !.unset = TRUE, !.copy = c]
    <3> DEFINE i == used.ids + 1
               c == SetCid(me, i)
               d == Inspected(c, docker')
    <3>1. i \in 0..MaxIds /\ i # 0
      BY <2>3, BoundsAssumption DEF TypeOK
    <3>2. c \in Copies /\ Knows(c, id) /\ c.cid # 0
      BY <1>0, <3>1, SettersType, SettersKnow
    <3>3. d \in Copies /\ Knows(d, id) /\ d.cid # 0
      <4> HIDE DEF c
      <4> QED BY <3>2, InspectedType, InspectedKnows
    <3>4. CASE worker' = [Goto("createSave") EXCEPT !.copy = d]
      <4> DEFINE g == Goto("createSave")
      <4>1. g \in Workers /\ worker' = [g EXCEPT !.copy = d]
        BY <1>2, <1>3, <3>4
      <4> HIDE DEF g, d
      <4>2. worker' \in Workers /\ worker'.copy = d
        BY <3>3, <4>1 DEF Workers
      <4> QED BY <1>0, <2>1, <3>3, <4>2, ThreadKnows
    <3>5. CASE worker' = [Goto("fail") EXCEPT !.unset = TRUE, !.copy = c]
      <4> DEFINE g == Goto("fail")
      <4>1. g \in Workers /\ worker' = [g EXCEPT !.unset = TRUE, !.copy = c]
        BY <1>2, <1>3, <3>5
      <4> HIDE DEF g, c
      <4>2. worker' \in Workers /\ worker'.copy = c
        BY <3>2, <4>1 DEF Workers
      <4> QED BY <1>0, <2>1, <3>2, <4>2, ThreadKnows
    <3> QED BY <2>3, <3>4, <3>5
  <2> QED BY <1>13, <2>2, <2>3 DEF Create, me
<1>14. CASE CreateSave
  <2>1. me.cid # 0
    BY <1>14 DEF CreateSave, IdInv, me
  <2>2. \E pc \in Pcs : SaveAndGo(me, Goto(pc))
    BY <1>3, <1>14 DEF CreateSave, me
  <2> QED BY <1>0, <1>2, <2>1, <2>2, ThreadKnows
<1>15. CASE Rebuilt
  <2>1. me.cid # 0
    BY <1>15 DEF Rebuilt, IdInv, me
  <2>2. \E pc \in Pcs : SaveAndGo(SetStatus(me, "Created"), Goto(pc))
    BY <1>3, <1>15 DEF Rebuilt, me
  <2>3. /\ SetStatus(me, "Created") \in Copies
        /\ Knows(SetStatus(me, "Created"), id)
        /\ SetStatus(me, "Created").cid # 0
    BY <1>1, <1>4, <2>1
  <2> QED BY <1>0, <1>2, <2>2, <2>3, ThreadKnows
<1>16. CASE Remove
  <2>1. PICK pc \in Pcs \ {"createSave", "rebuilt"} :
           \/ worker' = Goto(pc)
           \/ \E b \in BOOLEAN : worker' = [Goto(pc) EXCEPT !.failed = b]
    BY <1>3, <1>16 DEF Remove
  <2> QED BY <1>5, <1>16, <2>1 DEF Remove
<1>17. CASE DriverCall
  <2>0. UNCHANGED row
    BY <1>17 DEF DriverCall
  <2>1. CASE worker' = Raise \/ worker' = Goto("notfound")
    <3>1. PICK pc \in Pcs \ {"createSave", "rebuilt"} :
             \/ worker' = Goto(pc)
             \/ \E b \in BOOLEAN : worker' = [Goto(pc) EXCEPT !.failed = b]
      BY <1>3, <2>1 DEF Raise
    <3> QED BY <1>5, <2>0, <3>1
  <2>2. CASE /\ DriverOp \in NetworkOps \/ Found(me, docker)
             /\ \E e \in Effects(DriverOp) :
                   worker' = [Goto(IF DriverOp = "start" THEN "started"
                                   ELSE "finish")
                                EXCEPT !.copy = Performed(@, e[2])]
    <3>1. PICK pc \in {"started", "finish"}, s \in Statuses :
             worker' = [Goto(pc) EXCEPT !.copy = Performed(@, s)]
      BY <2>2, EffectsType DEF TypeOK
    <3> DEFINE g == Goto(pc)
               c == Performed(me, s)
    <3>2. g \in Workers /\ g.pc = pc /\ g.copy = me
      BY <1>2, <1>3
    <3>3. worker' = [g EXCEPT !.copy = c]
      BY <3>1, <3>2
    <3>4. c \in Copies /\ Knows(c, id)
      BY <1>0, <1>1, <2>2 DEF Performed, Found
    <3> HIDE DEF g, c
    <3>5. worker' \in Workers /\ worker'.copy = c /\ worker'.pc = pc
      BY <3>2, <3>3, <3>4 DEF Workers
    <3> QED BY <1>0, <2>0, <3>4, <3>5, ThreadKnows
  <2> QED BY <1>17, <2>1, <2>2 DEF DriverCall, me
<1>18. CASE Started
  <2>1. SaveAndGo(me, Goto("finish"))
    BY <1>18 DEF Started, me
  <2>2. Goto("finish") \in Workers /\ Goto("finish").pc = "finish"
    BY <1>2, <1>3
  <2> QED BY <1>0, <2>1, <2>2, ThreadKnows
<1>19. CASE NotFound
  <2>1. MissingStatus(me) \in Copies /\ Knows(MissingStatus(me), id)
    BY <1>0, <1>1, <1>4, SettersKnow DEF MissingStatus
  <2>2. PICK pc \in {"fail", "finish"}, b \in BOOLEAN :
           Raise = [Goto(pc) EXCEPT !.failed = b]
    BY DEF Raise
  <2>3. Raise \in Workers /\ Raise.pc = pc
    <3>1. pc \in Pcs
      BY <1>3
    <3> QED BY <1>0, <2>2, <3>1, FailedFields
  <2>4. SaveAndGo(MissingStatus(me), Raise)
    BY <1>19 DEF NotFound, me
  <2> DEFINE c == MissingStatus(me)
             w == Raise
  <2>5. /\ c \in Copies /\ Knows(c, id) /\ w \in Workers /\ SaveAndGo(c, w)
        /\ w.pc \notin {"createSave", "rebuilt"}
    BY <2>1, <2>2, <2>3, <2>4
  <2> HIDE DEF c, w
  <2> QED BY <1>0, <2>5, ThreadKnows
<1>20. CASE Fail
  <2> DEFINE e == SetStatus(me, "Error")
             c == IF worker.unset THEN SetHost(e, FALSE) ELSE e
             w == [Goto("finish") EXCEPT
                     !.failed = ~(worker.op = "delete" /\ worker.force)]
  <2>1. e \in Copies /\ Knows(e, id)
    BY <1>1, <1>4
  <2>2. c \in Copies /\ Knows(c, id)
    <3> HIDE DEF e
    <3> QED BY <2>1, SettersType, SettersKnow
  <2>3. w \in Workers /\ w.pc = "finish"
    <3>1. "finish" \in Pcs /\ \E b \in BOOLEAN : w = [Goto("finish") EXCEPT !.failed = b]
      BY <1>3
    <3> HIDE DEF w
    <3> QED BY <1>0, <3>1, FailedFields
  <2>4. SaveAndGo(c, w)
    BY <1>20 DEF Fail, me
  <2> HIDE DEF c, w
  <2> QED BY <1>0, <2>2, <2>3, <2>4, ThreadKnows
<1>21. CASE Finish
  <2>1. /\ AfterTask \in Workers /\ AfterTask.pc \in {"idle", "begin", "destroy"}
        /\ AfterTask = Idle \/ AfterTask.copy = me
    <3> DEFINE d == Goto("destroy")
               g == Goto("begin")
    <3>1. /\ d \in Workers /\ g \in Workers /\ d.copy = me /\ g.copy = me
          /\ d.pc = "destroy" /\ g.pc = "begin" /\ "start" \in WorkerOps
      BY <1>2, <1>3 DEF WorkerOps, TaskOf
    <3>2. AfterTask \in {Idle, [d EXCEPT !.own = FALSE],
                         [g EXCEPT !.op = "start", !.own = FALSE]}
      BY DEF AfterTask
    <3> HIDE DEF d, g
    <3>3. CASE AfterTask = Idle
      BY <1>4, <3>3
    <3>4. CASE AfterTask = [d EXCEPT !.own = FALSE]
      BY <3>1, <3>4 DEF Workers
    <3>5. CASE AfterTask = [g EXCEPT !.op = "start", !.own = FALSE]
      BY <3>1, <3>5 DEF Workers
    <3> QED BY <3>2, <3>3, <3>4, <3>5
  <2>2. CASE SaveAndGo(SetTask(me, NoTask), AfterTask)
    <3>1. SetTask(me, NoTask) \in Copies /\ Knows(SetTask(me, NoTask), id)
      BY <1>0, SettersType, SettersKnow DEF NoTask, Tasks
    <3> QED BY <1>0, <2>1, <2>2, <3>1, ThreadKnows
  <2>3. CASE worker' = AfterTask /\ UNCHANGED row
    <3>1. Knows(NoCopy, id) /\ NoCopy \in Copies
      BY <1>0, ReadKnows, ConstantsType
    <3> QED BY <1>0, <2>1, <2>3, <3>1, ThreadKnows, CleanCopies
  <2> QED BY <1>21, <2>2, <2>3 DEF Finish, me
<1>22. CASE Destroy
  <2>1. worker' = Idle /\ (row' = row \/ row' = Gone)
    BY <1>22 DEF Destroy
  <2>2. Knows(NoCopy, row'.cid)
    BY <1>0, ReadKnows
  <2> QED BY <1>0, <2>1, <2>2, OthersKnow, CleanCopies
<1> QED
  BY <1>10, <1>11, <1>12, <1>13, <1>14, <1>15, <1>16, <1>17, <1>18, <1>19,
     <1>20, <1>21, <1>22 DEF WorkerStep

\* The writers without the lock write the status of a container they found in
\* Docker under the id of their copy.
LEMMA IdUnlocked ==
    ASSUME TypeOK, IdInv,
           \/ \E c \in calls : ShowStep(c)
           \/ SyncStep
           \/ DeleteUnused
    PROVE  IdInv'
<1>0. /\ row \in Rows /\ OperableHasId /\ Snapshot \in Copies
      /\ Knows(Snapshot, row.cid) /\ Knows(NoCopy, row'.cid)
      /\ Snapshot.cid = row.cid
  BY RowType, ReadKnows DEF TypeOK, IdInv
<1>1. ASSUME NEW c \in calls, ShowStep(c) PROVE IdInv'
  <2> DEFINE missing == MissingStatus(c.copy)
             seen == Inspected(c.copy, docker)
             d == [c EXCEPT !.phase = "save", !.copy = seen]
  <2>1. /\ c \in Calls /\ c.copy \in Copies /\ Knows(c.copy, row.cid)
        /\ UNCHANGED <<worker, sync, initial>>
    BY <1>1 DEF ShowStep, ShowInspect, ShowSave, TypeOK, Calls, IdInv
  <2>2. missing \in Copies /\ Knows(missing, row.cid)
    BY <2>1, SettersType, SettersKnow DEF MissingStatus, Statuses
  <2>3. c.copy.cid # 0 => Knows(seen, row.cid)
    BY <2>1, InspectedKnows
  <2>4. d.copy = seen
    BY <2>1, CallCopy
  <2>5. \/ row' = row \/ row' = Saved(missing) \/ row' = Saved(c.copy)
    BY <1>1 DEF ShowStep, ShowInspect, ShowSave
  <2>6. \/ Drop(c)
        \/ (c.copy.cid # 0 /\ UNCHANGED row /\ Replace(c, d))
    BY <1>1 DEF ShowStep, ShowInspect, ShowSave
  <2> HIDE DEF missing, seen, d
  <2>7. \A x \in calls' : x \in calls \/ Knows(x.copy, row'.cid)
    BY <2>3, <2>4, <2>6 DEF Drop, Replace
  <2> QED BY <2>1, <2>2, <2>5, <2>7, OthersKnow
<1>2. CASE SyncStep
  <2>1. /\ sync \in Syncs /\ sync.all \in Copies /\ sync.local \in Copies
        /\ sync.local.status \in Statuses
        /\ Knows(sync.all, row.cid) /\ Knows(sync.local, row.cid)
        /\ UNCHANGED <<calls, worker, initial>>
    BY <1>2 DEF SyncStep, SyncRead, SyncDocker, SyncLocal, SyncWrite,
                SyncMissing, TypeOK, Syncs, Copies, IdInv
  <2>2. SyncIdle.all = NoCopy /\ SyncIdle.local = NoCopy
    BY CleanCopies
  <2>3. CASE SyncRead
    <3>1. UNCHANGED row /\ sync'.all = Snapshot /\ sync'.local = NoCopy
      BY <2>3 DEF SyncRead, SyncIdle
    <3> QED BY <1>0, <2>1, <3>1, OthersKnow
  <2>4. CASE SyncDocker
    <3>1. UNCHANGED row /\ sync'.all = sync.all /\ sync'.local = sync.local
      BY <2>1, <2>4 DEF SyncDocker, Syncs
    <3> QED BY <2>1, <3>1, OthersKnow
  <2>5. CASE SyncLocal
    <3> DEFINE s == ListStatus(row.status, sync.seen)
               populated == Found(Snapshot, sync.seen)
    <3>1. UNCHANGED row
      BY <2>5 DEF SyncLocal
    <3>2. \/ sync' = SyncIdle
          \/ /\ sync'.all = sync.all
             /\ \/ sync'.local = Snapshot
                \/ populated /\ sync'.local = SetStatus(Snapshot, s)
      BY <2>1, <2>5 DEF SyncLocal, Syncs
    <3>3. populated => Knows(SetStatus(Snapshot, s), row.cid)
      <4>1. s \in Statuses
        BY DEF ListStatus, Statuses, TypeOK, Rows
      <4>2. populated => Snapshot.cid # 0
        BY DEF Found
      <4> QED BY <1>0, <4>1, <4>2, SettersKnow
    <3> HIDE DEF s, populated
    <3>4. Knows(sync'.all, row'.cid) /\ Knows(sync'.local, row'.cid)
      BY <1>0, <2>1, <2>2, <3>1, <3>2, <3>3
    <3> QED BY <2>1, <3>1, <3>4, OthersKnow
  <2>6. CASE SyncWrite
    <3> DEFINE c == Synced(sync.all, sync.local.status)
    <3>1. c \in Copies
      BY <2>1, SyncedType
    <3>2. sync.all.cid # 0 => Knows(c, row.cid)
      <4> DEFINE e == IF sync.all.status = sync.local.status THEN sync.all
                      ELSE SetStatus(sync.all, sync.local.status)
      <4>1. sync.all.cid # 0 => e \in Copies /\ Knows(e, row.cid)
        BY <2>1, SettersType, SettersKnow
      <4>2. c = IF e.host THEN e ELSE SetHost(e, TRUE)
        BY DEF Synced
      <4> HIDE DEF e, c
      <4> QED BY <4>1, <4>2, SettersKnow
    <3>3. row' = row \/ (sync.all.cid # 0 /\ row' = Saved(c))
      BY <2>6 DEF SyncWrite
    <3>4. \/ sync' = SyncIdle
          \/ sync'.all = sync.all /\ sync'.local = sync.local
      BY <2>1, <2>6 DEF SyncWrite, Syncs
    <3> HIDE DEF c
    <3>5. \/ row' = row \/ row' = Gone
          \/ \E x \in Copies : Knows(x, row.cid) /\ row' = Saved(x)
      BY <3>1, <3>2, <3>3
    <3>6. row.cid # 0 => row'.cid # 0
      BY <1>0, <3>5, RowKnows
    <3>7. Knows(sync'.all, row'.cid) /\ Knows(sync'.local, row'.cid)
      BY <1>0, <2>1, <2>2, <3>4, <3>6, KnowsOn
    <3> QED BY <2>1, <3>5, <3>7, OthersKnow
  <2>7. CASE SyncMissing
    <3>1. /\ \/ row' = row
             \/ \E s \in {"Deleted", "Error"} : row' = Saved(SetStatus(sync.local, s))
          /\ sync' = SyncIdle
      BY <2>7 DEF SyncMissing
    <3>2. \A s \in {"Deleted", "Error"} :
             /\ SetStatus(sync.local, s) \in Copies
             /\ Knows(SetStatus(sync.local, s), row.cid)
      BY <2>1, SettersType, SettersKnow DEF Statuses, Operable
    <3>3. Knows(sync'.all, row'.cid) /\ Knows(sync'.local, row'.cid)
      BY <1>0, <2>2, <3>1
    <3>4. \/ row' = row \/ row' = Gone
          \/ \E x \in Copies : Knows(x, row.cid) /\ row' = Saved(x)
      BY <3>1, <3>2
    <3> QED BY <2>1, <3>3, <3>4, OthersKnow
  <2> QED BY <1>2, <2>3, <2>4, <2>5, <2>6, <2>7 DEF SyncStep
<1>3. CASE DeleteUnused
  <2>1. /\ UNCHANGED <<row, worker, sync, initial>>
        /\ \A x \in calls' : x \in calls \/ x.copy = Snapshot
    BY <1>3 DEF DeleteUnused, Call, Forced
  <2>2. \A x \in calls' : x \in calls \/ Knows(x.copy, row'.cid)
    BY <1>0, <2>1
  <2> QED BY <2>1, <2>2, OthersKnow
<1> QED BY <1>1, <1>2, <1>3

\* A cast is taken with the copy it carries; init_containers hands on the copy
\* it read.
LEMMA IdService ==
    ASSUME TypeOK, IdInv,
           \/ \E c \in calls : WorkerTake(c)
           \/ Crash \/ StartService \/ InitContainer
           \/ DockerExit \/ DockerVanish
    PROVE  IdInv'
<1>0. /\ row \in Rows /\ OperableHasId /\ Knows(Snapshot, row.cid)
      /\ \A i : Knows(NoCopy, i)
  BY ReadKnows DEF TypeOK, IdInv
<1>1. ASSUME NEW c \in calls, WorkerTake(c) PROVE IdInv'
  <2>1. /\ UNCHANGED <<row, sync, initial>> /\ calls' \subseteq calls
        /\ worker'.copy = c.copy /\ worker'.pc \in {"claim", "begin"}
    BY <1>1 DEF WorkerTake, Drop, Idle
  <2>2. Knows(worker'.copy, row'.cid)
    BY <2>1 DEF IdInv
  <2> QED BY <2>1, <2>2, OthersKnow
<1>2. CASE Crash
  <2>1. /\ UNCHANGED row /\ worker' = Idle /\ calls' \subseteq calls
        /\ sync' = SyncIdle /\ initial' = NoCopy
    BY <1>2 DEF Crash
  <2>2. /\ Knows(worker'.copy, row'.cid) /\ worker'.pc = "idle"
        /\ Knows(sync'.all, row'.cid) /\ Knows(sync'.local, row'.cid)
        /\ Knows(initial', row'.cid)
    BY <1>0, <2>1, CleanCopies
  <2> QED BY <2>1, <2>2, OthersKnow
<1>3. CASE StartService
  <2>1. /\ UNCHANGED <<row, calls, worker, sync>>
        /\ initial' \in {Snapshot, NoCopy}
    BY <1>3 DEF StartService
  <2> QED BY <1>0, <2>1, OthersKnow
<1>4. CASE InitContainer
  <2> DEFINE retry == RetryOf(initial)
             c == IF retry = {} THEN initial ELSE SetTask(initial, NoTask)
             failed == SetStatus(c, "Error")
             spawned == {Spawned(op, c) : op \in retry}
                          \cup IF Restores(c) THEN {Spawned("start", c)} ELSE {}
             again == {Spawned(op, Clean(failed)) : op \in retry}
             given == SetStatus(SetTask(initial, NoTask), "Error")
  <2>1. NoTask \in Tasks /\ "Error" \in Statuses /\ "Error" \notin Operable
    BY DEF NoTask, Tasks, Statuses, Operable
  <2>2. /\ initial \in Copies /\ Knows(initial, row.cid)
        /\ SetTask(initial, NoTask) \in Copies
        /\ Knows(SetTask(initial, NoTask), row.cid)
    BY <2>1, SettersType, SettersKnow DEF TypeOK, IdInv
  <2>3. c \in Copies /\ Knows(c, row.cid)
    BY <2>2
  <2>4. failed \in Copies /\ Knows(failed, row.cid)
    <3> HIDE DEF c
    <3> QED BY <2>1, <2>3, SettersType, SettersKnow
  <2>5. given \in Copies /\ Knows(given, row.cid)
    BY <2>1, <2>2, SettersType, SettersKnow
  <2>6. /\ \/ row' = row /\ calls' \in {calls, calls \cup spawned}
           \/ row' = Saved(given) /\ calls' = calls
           \/ row' = Saved(failed) /\ calls' = calls \cup again
        /\ initial' = NoCopy /\ UNCHANGED <<worker, sync>>
    <3> HIDE DEF retry, c, failed
    <3> QED BY <1>4 DEF InitContainer, retry, c, failed
  <2>7. \A op, d : Spawned(op, d).copy = d
    BY DEF Spawned, Call
  <2> HIDE DEF retry, c, failed, given
  <2>8. \A x \in spawned : x.copy = c
    BY <2>7
  <2>9. \A x \in again : x.copy = Clean(failed)
    BY <2>7
  <2> HIDE DEF spawned, again
  <2>10. \A x \in calls' : x \in calls \/ Knows(x.copy, row'.cid)
    BY <1>0, <2>3, <2>4, <2>6, <2>8, <2>9, SavedKnows
  <2>11. \/ row' = row \/ row' = Gone
         \/ \E x \in Copies : Knows(x, row.cid) /\ row' = Saved(x)
    BY <2>4, <2>5, <2>6
  <2>12. Knows(initial', row'.cid)
    BY <1>0, <2>6
  <2> QED BY <2>6, <2>10, <2>11, <2>12, OthersKnow
<1>5. CASE DockerExit \/ DockerVanish
  BY <1>5, OthersKnow DEF DockerExit, DockerVanish
<1> QED BY <1>1, <1>2, <1>3, <1>4, <1>5

\* Every step keeps the strengthened invariant.
LEMMA IdStep ==
    ASSUME TypeOK, IdInv, [Next]_vars
    PROVE  IdInv'
<1>1. CASE UNCHANGED vars
  BY <1>1, OthersKnow DEF vars
<1>2. CASE Terminated
  BY <1>2, OthersKnow DEF Terminated, changing
<1> QED
  BY <1>1, <1>2, IdApi, IdWorker, IdUnlocked, IdService DEF Next, Step

\* No saver, however stale its copy, leaves a row in a status that users act on
\* without the id of a Docker container: status and container_id reach the row
\* from different threads and at different times.
THEOREM OperableRowsHaveIds == Spec => []OperableHasId
<1>1. Init => IdInv
  <2> SUFFICES ASSUME Init PROVE IdInv
    OBVIOUS
  <2>1. row.status = "Creating"
    BY DEF Init
  <2>2. OperableHasId
    BY <2>1 DEF OperableHasId
  <2>3. \A i : Knows(NoCopy, i)
    BY DEF Knows, NoCopy, Operable
  <2>4. \A c \in calls : c.copy = NoCopy
    BY DEF Init, Call
  <2>5. worker = Idle /\ sync = SyncIdle /\ initial = NoCopy
    BY DEF Init
  <2> QED BY <2>2, <2>3, <2>4, <2>5, CleanCopies DEF IdInv
<1>2. TypeOK /\ IdInv /\ [Next]_vars => IdInv'
  BY IdStep
<1>3. IdInv => OperableHasId
  BY DEF IdInv
<1> QED BY <1>1, <1>2, <1>3, TypeCorrect, PTL DEF Spec

-----------------------------------------------------------------------------
(* A delete removes its Docker container before it destroys the row         *)

\* The inductive strengthening of RemovedBeforeDestroy: a delete goes through
\* driver.delete, and once past it without a failure its container is not in
\* Docker, and stays out of it while the lock is held.
RemovedInv ==
    /\ worker.op = "delete" =>
          worker.pc \in {"begin", "remove", "fail", "finish", "destroy"}
    /\ worker.pc = "destroy" => worker.op = "delete"
    /\ /\ worker.op = "delete" /\ worker.pc \in {"finish", "destroy"}
       /\ worker.copy.status # "Error"
       => ~Found(worker.copy, docker)

\* Threads of other operations neither become a delete nor reach its end.
LEMMA OtherThreads ==
    ASSUME TypeOK, worker.op # "delete", worker.pc # "destroy", WorkerStep
    PROVE  worker'.op # "delete" /\ worker'.pc # "destroy"
<1>0. worker \in Workers
  BY DEF TypeOK
<1>1. \A pc \in Pcs : /\ Goto(pc) \in Workers /\ Goto(pc).pc = pc
                      /\ Goto(pc).op = worker.op
  BY <1>0, GotoFields
<1>2. {"begin", "pull", "create", "createSave", "rebuilt", "remove", "docker",
       "started", "notfound", "fail", "finish"} \subseteq Pcs
  BY DEF Pcs
<1> DEFINE Good(w) == w.op # "delete" /\ w.pc # "destroy"
<1>3. Good(Idle) /\ "start" # "delete"
  BY DEF Idle
<1>4. \A w \in Workers : \A b \in BOOLEAN, c \in Copies : Good(w) =>
        /\ Good([w EXCEPT !.own = TRUE]) /\ Good([w EXCEPT !.failed = b])
        /\ Good([w EXCEPT !.copy = c]) /\ Good([w EXCEPT !.unset = TRUE])
        /\ Good([w EXCEPT !.unset = TRUE, !.copy = c])
        /\ Good([w EXCEPT !.op = "start", !.own = FALSE])
  BY DEF Workers
<1>5. ASSUME NEW c, NEW w \in Workers, SaveAndGo(c, w), Good(w)
      PROVE  Good(worker')
  BY <1>3, <1>5 DEF SaveAndGo, Workers
<1>6. \A pc \in Pcs \ {"destroy"} : Good(Goto(pc))
  BY <1>1
<1>7. Idle \in Workers
  BY ConstantsType
<1> HIDE DEF Good
<1>10. CASE Claim
  <2>1. "begin" \in Pcs \ {"destroy"}
    BY <1>2
  <2>2. \E c : \/ SaveAndGo(c, Idle) \/ SaveAndGo(c, Goto("begin"))
              \/ worker' = Goto("begin")
    BY <1>10 DEF Claim
  <2> QED BY <1>1, <1>3, <1>5, <1>6, <1>7, <2>1, <2>2 DEF Good
<1>11. CASE Begin
  <2>1. BodyOf(worker.op) \in Pcs \ {"destroy"}
    BY <1>2 DEF BodyOf
  <2> DEFINE g == Goto(BodyOf(worker.op))
             w == [g EXCEPT !.own = TRUE]
  <2>2. g \in Workers /\ Good(g)
    BY <1>1, <1>6, <2>1
  <2>3. worker' = g \/ SaveAndGo(SetTask(worker.copy, TaskOf[worker.op]), w)
    BY <1>11 DEF Begin
  <2> HIDE DEF g
  <2>4. w \in Workers /\ Good(w)
    BY <2>2 DEF Workers, Good
  <2> HIDE DEF w
  <2> QED BY <1>5, <2>2, <2>3, <2>4 DEF Good
<1>12. CASE Pull
  BY <1>1, <1>2, <1>5, <1>6, <1>12 DEF Pull, Good
<1>13. CASE Create
  <2>1. PICK pc \in {"fail", "createSave"} : \E c :
           \/ worker' = [Goto(pc) EXCEPT !.unset = TRUE]
           \/ worker' = [Goto(pc) EXCEPT !.copy = c]
           \/ worker' = [Goto(pc) EXCEPT !.unset = TRUE, !.copy = c]
    BY <1>13 DEF Create
  <2> DEFINE g == Goto(pc)
  <2>2. g \in Workers /\ Good(g)
    BY <1>1, <1>2, <1>6, <2>1
  <2>3. \E c :
           \/ worker' = [g EXCEPT !.unset = TRUE]
           \/ worker' = [g EXCEPT !.copy = c]
           \/ worker' = [g EXCEPT !.unset = TRUE, !.copy = c]
    BY <2>1
  <2> HIDE DEF g
  <2> QED BY <2>2, <2>3 DEF Workers, Good
<1>14. CASE CreateSave
  BY <1>1, <1>2, <1>5, <1>6, <1>14 DEF CreateSave, Good
<1>15. CASE Rebuilt
  BY <1>1, <1>2, <1>5, <1>6, <1>15 DEF Rebuilt, Good
<1>16. CASE Remove \/ DriverCall
  <2>1. PICK pc \in {"fail", "pull", "finish", "started", "notfound"} : \E b, c :
           \/ worker' = Goto(pc)
           \/ worker' = [Goto(pc) EXCEPT !.failed = b]
           \/ worker' = [Goto(pc) EXCEPT !.copy = c]
    BY <1>16 DEF Remove, DriverCall, Raise
  <2> DEFINE g == Goto(pc)
  <2>2. g \in Workers /\ Good(g)
    BY <1>1, <1>2, <1>6, <2>1
  <2>3. \E b, c : \/ worker' = g \/ worker' = [g EXCEPT !.failed = b]
                  \/ worker' = [g EXCEPT !.copy = c]
    BY <2>1
  <2> HIDE DEF g
  <2> QED BY <2>2, <2>3 DEF Workers, Good
<1>18. CASE Started
  BY <1>1, <1>2, <1>5, <1>6, <1>18 DEF Started, Good
<1>19. CASE NotFound \/ Fail
  <2>1. PICK pc \in {"fail", "finish"}, b \in BOOLEAN :
           \E c : SaveAndGo(c, [Goto(pc) EXCEPT !.failed = b])
    BY <1>19 DEF NotFound, Raise, Fail
  <2> DEFINE g == Goto(pc)
             w == [g EXCEPT !.failed = b]
  <2>2. g \in Workers /\ Good(g)
    BY <1>1, <1>2, <1>6, <2>1
  <2>3. \E c : SaveAndGo(c, w)
    BY <2>1
  <2> HIDE DEF g
  <2>4. w \in Workers /\ Good(w)
    BY <2>2 DEF Workers, Good
  <2> HIDE DEF w
  <2> QED BY <1>5, <2>3, <2>4 DEF Good
<1>21. CASE Finish
  <2> DEFINE g == Goto("begin")
  <2>1. AfterTask = Idle \/ AfterTask = [g EXCEPT !.op = "start", !.own = FALSE]
    BY DEF AfterTask
  <2>2. g \in Workers /\ g.pc = "begin"
    BY <1>1, <1>2
  <2> HIDE DEF g
  <2>3. AfterTask \in Workers /\ Good(AfterTask)
    <3>1. "start" \in WorkerOps
      BY DEF WorkerOps, TaskOf
    <3> QED BY <1>3, <1>7, <2>1, <2>2, <3>1 DEF Workers, Good
  <2> QED BY <1>5, <1>21, <2>3 DEF Finish, Good
<1>22. CASE Destroy
  BY <1>22 DEF Destroy
<1> QED
  BY <1>10, <1>11, <1>12, <1>13, <1>14, <1>15, <1>16, <1>18, <1>19, <1>21,
     <1>22 DEF WorkerStep

\* The steps of a delete.
LEMMA DeleteThreads ==
    ASSUME TypeOK, RemovedInv, worker.op = "delete", WorkerStep
    PROVE  RemovedInv'
<1>0. worker \in Workers /\ worker.copy \in Copies /\ docker \in Dockers
  BY DEF TypeOK, Workers
<1>1. \A pc \in Pcs : /\ Goto(pc) \in Workers /\ Goto(pc).pc = pc
                      /\ Goto(pc).op = worker.op /\ Goto(pc).copy = worker.copy
  BY <1>0, GotoFields
<1>2. {"begin", "remove", "fail", "finish", "destroy"} \subseteq Pcs
  BY DEF Pcs
<1>3. Begin \/ Remove \/ Fail \/ Finish \/ Destroy
  BY DEF WorkerStep, RemovedInv, Claim, Pull, Create, CreateSave, Rebuilt,
         DriverCall, Started, NotFound
<1>4. worker' = Idle => RemovedInv'
  BY DEF Idle, RemovedInv
<1>5. \A c \in Copies : /\ Clean(c).status = c.status /\ Clean(c).cid = c.cid
                        /\ Clean(c) \in Copies
  BY DEF Clean, Copies
<1>10. CASE Begin
  <2>1. BodyOf(worker.op) = "remove"
    BY DEF BodyOf
  <2> DEFINE g == Goto("remove")
             w == [g EXCEPT !.own = TRUE]
             c == SetTask(worker.copy, TaskOf[worker.op])
  <2>2. worker' = g \/ SaveAndGo(c, w)
    BY <1>10, <2>1 DEF Begin
  <2>3. g \in Workers /\ g.pc = "remove" /\ g.op = "delete"
    BY <1>1, <1>2
  <2> HIDE DEF g, c
  <2>4. worker' = Idle \/ (worker'.pc = "remove" /\ worker'.op = "delete")
    BY <2>2, <2>3 DEF SaveAndGo, Workers
  <2> QED BY <1>4, <2>4 DEF RemovedInv
<1>11. CASE Remove
  <2>1. CASE worker' = Goto("fail")
    BY <1>1, <1>2, <2>1 DEF RemovedInv
  <2>2. CASE /\ docker' = IF Found(worker.copy, docker)
                          THEN [docker EXCEPT !.state = "absent"] ELSE docker
             /\ \/ worker' = Goto("finish")
                \/ worker' = [Goto("finish") EXCEPT !.failed = TRUE]
    <3>1. /\ worker'.pc = "finish" /\ worker'.op = "delete"
          /\ worker'.copy = worker.copy
      <4>1. "finish" \in Pcs
        BY <1>2
      <4>2. CASE worker' = Goto("finish")
        BY <1>1, <4>1, <4>2
      <4>3. CASE worker' = [Goto("finish") EXCEPT !.failed = TRUE]
        BY <1>0, <4>1, <4>3, FailedFields
      <4> QED BY <2>2, <4>2, <4>3
    <3>2. ~Found(worker.copy, docker')
      BY <1>0, <2>2 DEF Found, Dockers
    <3> QED BY <3>1, <3>2 DEF RemovedInv, Found
  <2> QED BY <1>11, <2>1, <2>2 DEF Remove
<1>12. CASE Fail
  <2> DEFINE e == SetStatus(worker.copy, "Error")
             c == IF worker.unset THEN SetHost(e, FALSE) ELSE e
             b == ~(worker.op = "delete" /\ worker.force)
             g == Goto("finish")
             w == [g EXCEPT !.failed = b]
  <2>1. SaveAndGo(c, w)
    BY <1>12 DEF Fail
  <2>2. e \in Copies /\ e.status = "Error"
    <3>1. "Error" \in Statuses
      BY DEF Statuses
    <3>2. e \in Copies
      BY <1>0, <3>1, SettersType
    <3>3. e.status = "Error"
      BY <1>0 DEF SetStatus, Copies
    <3> QED BY <3>2, <3>3
  <2>3. c \in Copies /\ c.status = "Error"
    <3> HIDE DEF e
    <3>1. SetHost(e, FALSE) \in Copies /\ SetHost(e, FALSE).status = "Error"
      BY <2>2, SettersType DEF SetHost, Copies
    <3> QED BY <2>2, <3>1
  <2>4. g \in Workers /\ g.pc = "finish" /\ g.op = "delete"
    BY <1>1, <1>2
  <2> HIDE DEF g, c, b
  <2>5. \/ worker' = Idle
        \/ (worker'.pc = "finish" /\ worker'.op = "delete" /\ worker'.copy = Clean(c))
    BY <2>1, <2>4 DEF SaveAndGo, Workers
  <2> QED BY <1>4, <1>5, <2>3, <2>5 DEF RemovedInv
<1>13. CASE Finish
  <2> DEFINE g == Goto("destroy")
             w == [g EXCEPT !.own = FALSE]
             c == SetTask(worker.copy, NoTask)
  <2>1. AfterTask = Idle \/ AfterTask = w
    BY DEF AfterTask
  <2>2. /\ g \in Workers /\ g.pc = "destroy" /\ g.op = "delete"
        /\ g.copy = worker.copy
    BY <1>1, <1>2
  <2>3. /\ c \in Copies /\ c.status = worker.copy.status
        /\ c.cid = worker.copy.cid
    <3>1. NoTask \in Tasks
      BY DEF NoTask, Tasks
    <3>2. c \in Copies
      BY <1>0, <3>1, SettersType
    <3>3. c.status = worker.copy.status /\ c.cid = worker.copy.cid
      BY <1>0 DEF SetTask, Copies
    <3> QED BY <3>2, <3>3
  <2> HIDE DEF g, c
  <2>4. /\ w \in Workers /\ w.pc = "destroy" /\ w.op = "delete"
        /\ w.copy = worker.copy
    BY <2>2 DEF Workers
  <2> HIDE DEF w
  <2>5. SaveAndGo(c, AfterTask) \/ worker' = AfterTask
    BY <1>13 DEF Finish, c
  <2>6. \/ worker' = Idle
        \/ /\ worker'.pc = "destroy" /\ worker'.op = "delete"
           /\ worker'.copy = worker.copy \/ worker'.copy = Clean(c)
    <3>1. CASE worker' = AfterTask
      BY <2>1, <2>4, <3>1
    <3>2. CASE worker' = [AfterTask EXCEPT !.copy = Clean(c)] /\ AfterTask # Idle
      BY <2>1, <2>4, <3>2 DEF Workers
    <3>3. worker' = Idle \/ worker' = [AfterTask EXCEPT !.copy = Clean(c)]
             \/ worker' = AfterTask
      BY <2>5 DEF SaveAndGo
    <3>4. AfterTask = Idle => worker' = Idle
      BY <2>5, CleanCopies DEF SaveAndGo
    <3> QED BY <3>1, <3>2, <3>3, <3>4
  <2>7. UNCHANGED docker /\ worker.pc = "finish"
    BY <1>13 DEF Finish
  <2> QED BY <1>4, <1>5, <2>3, <2>6, <2>7 DEF RemovedInv, Found
<1>14. CASE Destroy
  BY <1>4, <1>14 DEF Destroy
<1> QED BY <1>3, <1>10, <1>11, <1>12, <1>13, <1>14

\* Every step keeps the strengthened invariant: only the thread itself brings
\* a container back into Docker.
LEMMA RemovedStep ==
    ASSUME TypeOK, RemovedInv, [Next]_vars
    PROVE  RemovedInv'
<1>1. CASE UNCHANGED <<worker, docker>>
  BY <1>1 DEF RemovedInv, Found
<1>2. CASE WorkerStep
  <2>1. CASE worker.op # "delete"
    BY <1>2, <2>1, OtherThreads DEF RemovedInv
  <2> QED BY <1>2, <2>1, DeleteThreads
<1>3. ASSUME NEW c \in calls, WorkerTake(c) PROVE RemovedInv'
  <2>1. worker'.op = c.op
        /\ worker'.pc = IF c.op = "create" THEN "claim" ELSE "begin"
    BY <1>3 DEF WorkerTake, Idle
  <2> QED BY <2>1 DEF RemovedInv
<1>4. CASE Crash
  BY <1>4 DEF Crash, Idle, RemovedInv
<1>5. CASE DockerExit \/ DockerVanish
  <2>1. /\ UNCHANGED worker /\ docker.state # "absent"
        /\ docker'.id = docker.id
    BY <1>5 DEF DockerExit, DockerVanish, Ended, TypeOK, Dockers
  <2> QED BY <2>1 DEF RemovedInv, Found
<1>6. CASE \/ \E op \in Ops : ApiRequest(op)
           \/ \E c \in calls : ApiStep(c) \/ ShowStep(c)
           \/ SyncStep \/ DeleteUnused \/ StartService \/ InitContainer
           \/ Terminated
  <2>1. UNCHANGED <<worker, docker>>
    BY <1>6 DEF ApiRequest, ApiStep, ApiCreate, ApiDelete, ApiTransition,
                ShowStep, ShowInspect, ShowSave, SyncStep, SyncRead, SyncDocker,
                SyncLocal, SyncWrite, SyncMissing, DeleteUnused, StartService,
                InitContainer, Terminated, changing
  <2> QED BY <1>1, <2>1
<1> QED BY <1>1, <1>2, <1>3, <1>4, <1>5, <1>6 DEF Next, Step, vars

\* A row is destroyed only after Docker no longer has the container its delete
\* knows of, unless a forced delete went on after Docker failed it: no step of
\* another request, of a periodic task or of Docker puts it back in between.
THEOREM RemovedThenDestroyed == Spec => []RemovedBeforeDestroy
<1>1. Init => RemovedInv
  BY DEF Init, Idle, RemovedInv
<1>2. TypeOK /\ RemovedInv /\ [Next]_vars => RemovedInv'
  BY RemovedStep
<1>3. RemovedInv => RemovedBeforeDestroy
  BY DEF RemovedInv, RemovedBeforeDestroy
<1> QED BY <1>1, <1>2, <1>3, TypeCorrect, PTL DEF Spec
=============================================================================
