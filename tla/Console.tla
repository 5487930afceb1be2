------------------------------ MODULE Console -------------------------------
(***************************************************************************)
(* What a user does inside one container: attach, interactive and          *)
(* one-shot commands, files put and got, logs, top, stats and resizes, and *)
(* the sessions zun-wsproxy opens for the tokens that attach and exec hand *)
(* out.  The calls of this module take no lock: each works on the copy of  *)
(* the row its API request read, while the container is stopped, started,  *)
(* rebuilt or deleted under it.                                            *)
(*                                                                         *)
(* A thread's number also names what the thread makes: the token of an     *)
(* attach, the exec instance and its token, Docker's container of a        *)
(* rebuild and the content of a file put.                                  *)
(***************************************************************************)
EXTENDS Naturals, SequencesExt

CONSTANTS
    MaxThreads,     \* bound: requests
    MaxTyped,       \* bound: bytes a user types in one session
    MaxPrinted,     \* bound: bytes a container prints to one session
    Mixes           \* bounds, as alternatives: how many requests of every kind,
                    \* whether the sessions carry bytes, and the containers
                    \* looked at: auto_remove or not

Threads == 1..MaxThreads

\* Docker's containers: the first, and one for every rebuild.
Cids == 0..MaxThreads

Lifecycle == {"stop", "start", "rebuild", "delete"}

Queries == {"logs", "top", "stats", "resize", "exec_resize"}

Archive == {"put24", "put25", "get24", "get25"}

AllOps == {"attach", "exec", "run"} \cup Queries \cup Archive \cup Lifecycle

ASSUME ConsoleAssumption ==
    /\ MaxThreads \in Nat /\ MaxTyped \in Nat /\ MaxPrinted \in Nat
    /\ \A mix \in Mixes : mix.ops \in [AllOps -> Nat] /\ mix.bytes \in BOOLEAN
                              /\ mix.auto_remove \subseteq BOOLEAN

VARIABLES
    row,        \* the container's row: status, container_id, websocket fields
    execs,      \* the rows of exec instances
    docker,     \* Docker's containers
    command,    \* Docker's exec instances: the container, the command's state
    file,       \* one file of every container of Docker's
    job,        \* what every thread is doing
    sess,       \* the proxy's session for the token of every thread
    used        \* the bounds used up, and what the properties look back on

vars == <<row, execs, docker, command, file, job, sess, used>>

-----------------------------------------------------------------------------
(* Records *)

Statuses == {"Running", "Stopped", "Rebuilding", "Deleting", "Error", "Deleted"}

NoJob == [op |-> "none", pc |-> "idle", waiting |-> FALSE, cid |-> 0,
          status |-> "Running", token |-> 0, url |-> 0, ok |-> FALSE,
          answer |-> [content |-> 0, coded |-> FALSE]]

NoCommand == [cid |-> 0, st |-> "none"]

\* A session: where it leads; from the client to the container what is typed,
\* on the client's wire, queued (tqueue) and delivered; from the container to
\* the client what is printed, on the target's wire, queued (cqueue), framed
\* but not yet written (c_pend) and shown.
NoSession == [st |-> "none", kind |-> "none", target |-> 0,
              typed |-> 0, wire |-> <<>>, left |-> FALSE, tqueue |-> <<>>,
              got |-> <<>>,
              printed |-> 0, tbuf |-> <<>>, eof |-> FALSE, cqueue |-> <<>>,
              pend |-> <<>>, shown |-> <<>>, slow |-> FALSE, why |-> "none"]

Flat(frames) == FlattenSeq(frames)

\* The bytes a side has produced so far, numbered.
Bytes(n) == [i \in 1..n |-> i]

Init ==
    /\ execs = {}
    /\ docker = [c \in Cids |-> IF c = 0 THEN "running" ELSE "none"]
    /\ command = [e \in Threads |-> NoCommand]
    /\ file = [c \in Cids |-> [content |-> 0, coded |-> FALSE]]
    /\ job = [t \in Threads |-> NoJob]
    /\ sess = [t \in Threads |-> NoSession]
    /\ \E mix \in Mixes :
          /\ row \in [exists : {TRUE}, auto_remove : mix.auto_remove,
                      status : {"Running"}, cid : {0}, token : {0}, url : {0}]
          /\ used = [left |-> mix.ops, bytes |-> mix.bytes, threads |-> 0,
                     vanished |-> FALSE, last |-> 0, overtaken |-> FALSE]

-----------------------------------------------------------------------------
(* The requests *)

\* The statuses a container may be asked in.
VALID_STATES(op) ==
    CASE op \in {"attach", "exec", "run", "top", "stats", "resize",
                 "exec_resize", "stop"} -> {"Running"}
      [] op \in Archive -> {"Running", "Stopped"}
      [] op = "logs" -> {"Running", "Stopped", "Error"}
      [] op = "start" -> {"Stopped", "Error"}
      [] op = "rebuild" -> {"Running", "Stopped", "Error"}
      [] op = "delete" -> Statuses \ {"Paused"}

\* What zun-compute answers (an RPC call), and what it is only told (a cast).
Awaited(op) == op \notin Lifecycle

\* An API handler: the copy of the row it reads, its check of the status, and
\* the call or cast to zun-compute.  A rebuild and a delete mark the row.
Request(t, op) ==
    /\ used.threads < MaxThreads /\ t = used.threads + 1
    /\ used.left[op] > 0
    /\ row.exists
    /\ row.status \in VALID_STATES(op)
    /\ used' = [used EXCEPT !.threads = t, !.left[op] = @ - 1]
    /\ job' = [job EXCEPT ![t] =
                  [NoJob EXCEPT !.op = op, !.pc = "called", !.cid = row.cid,
                                !.waiting = Awaited(op), !.status = row.status,
                                !.token = row.token, !.url = row.url]]
    /\ UNCHANGED <<execs, docker, command, file, sess>>

Ask(t, op) == Request(t, op) /\ UNCHANGED row

Attach(t) == Ask(t, "attach")

Execute(t) == \E op \in {"exec", "run"} : Ask(t, op)

ExecuteResize(t) == Ask(t, "exec_resize")

Logs(t) == Ask(t, "logs")

Top(t) == Ask(t, "top")

Stats(t) == Ask(t, "stats")

Resize(t) == Ask(t, "resize")

\* From 1.25 on, archives travel in base64.
GetArchive(t) == \E op \in {"get24", "get25"} : Ask(t, op)

PutArchive(t) == \E op \in {"put24", "put25"} : Ask(t, op)

StartOrStop(t) == \E op \in {"start", "stop"} : Ask(t, op)

Rebuild(t) ==
    Request(t, "rebuild") /\ row' = [row EXCEPT !.status = "Rebuilding"]

\* A forced DELETE, in any status.
Delete(t) ==
    Request(t, "delete") /\ row' = [row EXCEPT !.status = "Deleting"]

Calls(t, ops, pc) == job[t].op \in ops /\ job[t].pc = pc

Go(t, pc) == job' = [job EXCEPT ![t].pc = pc]

\* The thread ends; ok when its caller is still there to take the answer.
Answer(t, answer) ==
    job' = [job EXCEPT ![t].pc = "done", ![t].ok = job[t].waiting,
                       ![t].waiting = FALSE, ![t].answer = answer]

Nothing == NoJob.answer

Fail(t) == job' = [job EXCEPT ![t].pc = "done", ![t].waiting = FALSE]

Finish(t) == job' = [job EXCEPT ![t].pc = "done"]

\* The RPC call's timeout: the API answers 504, zun-compute goes on.
RpcTimeout(t) ==
    /\ job[t].waiting
    /\ job' = [job EXCEPT ![t].waiting = FALSE]
    /\ UNCHANGED <<row, execs, docker, command, file, sess, used>>

\* save() of the fields that the thread has changed in its copy.
Saved(t, changes) ==
    [f \in DOMAIN row |-> IF f \in DOMAIN changes THEN changes[f] ELSE row[f]]

\* handle_not_found: Docker does not have the container of the thread's copy.
HandleNotFound(t) ==
    /\ row' = IF row.exists
              THEN Saved(t, [status |-> IF row.auto_remove THEN "Deleted"
                                        ELSE "Error"])
              ELSE row
    /\ used' = [used EXCEPT !.overtaken = @ \/ row.cid # job[t].cid]
    /\ Fail(t)

\* As a mutant: a container in the wrong state counts as one not found.
DockerErrorAny(t, needed) ==
    /\ docker[job[t].cid] \notin needed
    /\ HandleNotFound(t)

\* wrap_docker_error: a call about the container of the thread's copy that
\* fails, because the container is gone or is not in the state it needs.
DockerError(t, needed) ==
    /\ docker[job[t].cid] \notin needed
    /\ IF docker[job[t].cid] = "gone"
       THEN HandleNotFound(t)
       ELSE Fail(t) /\ UNCHANGED <<row, used>>

-----------------------------------------------------------------------------
(* Attach and exec *)

\* get_websocket_url: made of the copy's container_id; Docker is not asked.
get_websocket_url(t) == job[t].cid

\* As a mutant: the URL is only written by the first attach.
ContainerAttachOnce(t) ==
    /\ Calls(t, {"attach"}, "called")
    /\ row' = Saved(t, [url |-> IF row.token = 0 THEN job[t].cid ELSE row.url,
                        token |-> t])
    /\ used' = [used EXCEPT !.last = t]
    /\ Answer(t, Nothing)
    /\ UNCHANGED <<execs, docker, command, file, sess>>

\* container_attach: the URL of the copy's container and a new token, saved
\* together.
ContainerAttach(t) ==
    /\ Calls(t, {"attach"}, "called")
    /\ IF row.exists
       THEN /\ row' = Saved(t, [url |-> get_websocket_url(t), token |-> t])
            /\ used' = [used EXCEPT !.last = t]
            /\ Answer(t, Nothing)
       ELSE Fail(t) /\ UNCHANGED <<row, used>>
    /\ UNCHANGED <<execs, docker, command, file, sess>>

\* execute_create.
ExecuteCreate(t) ==
    /\ Calls(t, {"exec", "run"}, "called")
    /\ \/ /\ docker[job[t].cid] = "running"
          /\ command' = [command EXCEPT ![t] = [cid |-> job[t].cid,
                                                st |-> "created"]]
          /\ Go(t, "created")
          /\ UNCHANGED <<row, used>>
       \/ DockerError(t, {"running"}) /\ UNCHANGED command
    /\ UNCHANGED <<execs, docker, file, sess>>

\* create_exec_instance: the exec id is unique in the container.
create_exec_instance(t) == execs' = execs \cup {t}

\* The row of an interactive exec; its foreign key needs the container's row.
ExecRecord(t) ==
    /\ Calls(t, {"exec"}, "created")
    /\ IF row.exists
       THEN create_exec_instance(t) /\ Answer(t, Nothing)
       ELSE Fail(t) /\ UNCHANGED execs
    /\ UNCHANGED <<row, docker, command, file, sess, used>>

\* Docker starts an exec instance only once, in a running container.
Startable(e) == command[e].st = "created" /\ docker[command[e].cid] = "running"

\* execute_run: the command starts ...
ExecuteRun(t) ==
    /\ Calls(t, {"run"}, "created")
    /\ IF Startable(t)
       THEN /\ command' = [command EXCEPT ![t].st = "running"]
            /\ Go(t, "running")
       ELSE Fail(t) /\ UNCHANGED command
    /\ UNCHANGED <<row, execs, docker, file, sess, used>>

\* ... and is waited for until it ends,
ExecuteRunEnds(t) ==
    /\ Calls(t, {"run"}, "running")
    /\ command[t].st = "ended"
    /\ Answer(t, Nothing)
    /\ UNCHANGED <<row, execs, docker, command, file, sess, used>>

\* As a mutant: it waits for the command.
ExecuteRunForever(t) ==
    /\ Calls(t, {"run"}, "running") /\ command[t].st = "ended"
    /\ Fail(t)
    /\ UNCHANGED <<row, execs, docker, command, file, sess, used>>

\* or for execute_timeout: the thread gives up, the command goes on.
ExecuteRunTimeout(t) ==
    /\ Calls(t, {"run"}, "running")
    /\ Fail(t)
    /\ UNCHANGED <<row, execs, docker, command, file, sess, used>>

\* A command ends by itself; nothing says that it ever does.
CommandEnds(e) ==
    /\ command[e].st = "running"
    /\ command' = [command EXCEPT ![e].st = "ended"]
    /\ sess' = [sess EXCEPT ![e].eof = (sess[e].st = "open")]
    /\ UNCHANGED <<row, execs, docker, file, job, used>>

-----------------------------------------------------------------------------
(* Queries and archives.  A driver operation is the set of the states of    *)
(* Docker's container it works in.                                          *)

show_logs == {"running", "stopped"}

\* A container that is not running has no system_cpu_usage.
stats == {"running"}

top == {"running"}

resize == {"running"}

archives == {"running", "stopped"}

\* A query that Docker answers, or fails.
Query(t, op, works) ==
    /\ Calls(t, {op}, "called")
    /\ \/ docker[job[t].cid] \in works /\ Answer(t, Nothing) /\ UNCHANGED <<row, used>>
       \/ DockerError(t, works)
    /\ UNCHANGED <<execs, docker, command, file, sess>>

ContainerLogs(t) == Query(t, "logs", show_logs)

ContainerTop(t) == Query(t, "top", top)

ContainerStats(t) == Query(t, "stats", stats)

ContainerResize(t) == Query(t, "resize", resize)

\* Docker reports a command that has ended in two ways, both an Invalid.
NoSuchExec(e) == command[e].st # "running"

\* The exec instances whose terminal has a size: one that is not known, or
\* whose command has ended, is an Invalid, and the row is left alone.
execute_resize == {e \in Threads : ~NoSuchExec(e)}

ContainerExecResize(t) ==
    /\ Calls(t, {"exec_resize"}, "called")
    /\ \E e \in Threads :
          IF e \in execute_resize THEN Answer(t, Nothing) ELSE Fail(t)
    /\ UNCHANGED <<row, execs, docker, command, file, sess, used>>

encode_file_data(data) == [data EXCEPT !.coded = TRUE]

\* Decoding what nobody encoded is a Base64Exception.
decode_file_data(data) == [data EXCEPT !.coded = FALSE]

\* container_get_archive.
ContainerGetArchive(t) ==
    /\ Calls(t, {"get24", "get25"}, "called")
    /\ LET filedata == file[job[t].cid]
       IN \/ /\ docker[job[t].cid] \in archives
             /\ Answer(t, IF job[t].op = "get25" THEN encode_file_data(filedata)
                          ELSE filedata)
             /\ UNCHANGED <<row, used>>
          \/ DockerError(t, archives)
    /\ UNCHANGED <<execs, docker, command, file, sess>>

\* What the client of thread t sends.
Upload(t) == [content |-> t, coded |-> job[t].op = "put25"]

\* container_put_archive.
ContainerPutArchive(t) ==
    /\ Calls(t, {"put24", "put25"}, "called")
    /\ \/ /\ docker[job[t].cid] \in archives
          /\ file' = [file EXCEPT ![job[t].cid] =
                         IF job[t].op = "put25" THEN decode_file_data(Upload(t))
                         ELSE Upload(t)]
          /\ Answer(t, Nothing)
          /\ UNCHANGED <<row, used>>
       \/ DockerError(t, archives) /\ UNCHANGED file
    /\ UNCHANGED <<execs, docker, command, sess>>

-----------------------------------------------------------------------------
(* The container's life.  These threads hold the lock on the container for  *)
(* their whole work, one step here.                                         *)

\* Docker's container c leaves the state it runs in: its commands end, and
\* the sessions attached to it see the end of its output.
Halt(c) ==
    /\ command' = [e \in Threads |->
                      IF command[e].cid = c /\ command[e].st = "running"
                      THEN [command[e] EXCEPT !.st = "ended"] ELSE command[e]]
    /\ sess' = [t \in Threads |->
                   IF sess[t].st = "open" /\ sess[t].target = c
                   THEN [sess[t] EXCEPT !.eof = TRUE] ELSE sess[t]]

ContainerStop(t) ==
    /\ Calls(t, {"stop"}, "called")
    /\ \/ /\ docker[job[t].cid] \in {"running", "stopped"}
          /\ docker' = [docker EXCEPT ![job[t].cid] = "stopped"]
          /\ Halt(job[t].cid)
          /\ row' = IF row.exists THEN Saved(t, [status |-> "Stopped"]) ELSE row
          /\ Finish(t) /\ UNCHANGED used
       \/ DockerError(t, {"running", "stopped"}) /\ UNCHANGED <<docker, command, sess>>
    /\ UNCHANGED <<execs, file>>

ContainerStart(t) ==
    /\ Calls(t, {"start"}, "called")
    /\ \/ /\ docker[job[t].cid] \in {"running", "stopped"}
          /\ docker' = [docker EXCEPT ![job[t].cid] = "running"]
          /\ row' = IF row.exists THEN Saved(t, [status |-> "Running"]) ELSE row
          /\ Finish(t) /\ UNCHANGED used
       \/ DockerError(t, {"running", "stopped"}) /\ UNCHANGED docker
    /\ UNCHANGED <<execs, command, file, sess>>

\* A rebuild removes Docker's container and makes another.
ContainerRebuild(t) ==
    /\ Calls(t, {"rebuild"}, "called")
    /\ IF row.exists
       THEN /\ docker' = [docker EXCEPT ![job[t].cid] = "gone", ![t] = "running"]
            /\ Halt(job[t].cid)
            /\ row' = Saved(t, [status |-> "Running", cid |-> t])
       ELSE UNCHANGED <<row, docker, command, sess>>
    /\ Finish(t)
    /\ UNCHANGED <<execs, file, used>>

\* The foreign key of exec_instance, ondelete CASCADE.
CascadeExecs == execs' = {}

\* The row goes after the container of the thread's copy, and takes its exec
\* instances along.
ContainerDelete(t) ==
    /\ Calls(t, {"delete"}, "called")
    /\ docker' = [docker EXCEPT ![job[t].cid] = "gone"]
    /\ Halt(job[t].cid)
    /\ row' = [row EXCEPT !.exists = FALSE]
    /\ CascadeExecs
    /\ Finish(t)
    /\ UNCHANGED <<file, used>>

\* Somebody else removes the container from Docker.
Vanish ==
    /\ ~used.vanished /\ ~used.bytes
    /\ docker[row.cid] # "gone"
    /\ docker' = [docker EXCEPT ![row.cid] = "gone"]
    /\ Halt(row.cid)
    /\ used' = [used EXCEPT !.vanished = TRUE]
    /\ UNCHANGED <<row, execs, file, job>>

-----------------------------------------------------------------------------
(* zun-wsproxy: opening a session *)

\* The Origin header, as it compares with the Host header and allowed_origins,
\* and its scheme with that of base_url; a client that is no browser sends none.
Headers == [origin : {"absent", "host", "allowed", "other"}, proto : BOOLEAN]

VerifyOriginProto(h) == h.proto

VerifyOrigin(h) ==
    \/ h.origin = "absent"
    \/ h.origin \in {"host", "allowed"} /\ VerifyOriginProto(h)

\* The URL of the answer, with the token and the exec id, is in the user's
\* hands.
ProxyUrl(t, kind) == job[t].ok /\ job[t].op = kind

\* The user's client comes with it: the row is read once.
NewClient(t, kind, known, target) ==
    /\ ProxyUrl(t, kind)
    /\ sess[t].st = "none"
    /\ \E h \in Headers :
          sess' = [sess EXCEPT ![t] =
                     IF row.exists /\ known /\ VerifyOrigin(h)
                     THEN [NoSession EXCEPT !.st = "connecting", !.kind = kind,
                                            !.target = target]
                     ELSE [NoSession EXCEPT !.st = "closed", !.why = "refused"]]
    /\ UNCHANGED <<row, execs, docker, command, file, job, used>>

\* _new_websocket_client: the token of the last attach, and the URL saved
\* with it.
NewWebsocketClient(t) == NewClient(t, "attach", row.token = t, row.url)

\* The exec instances of the container, with their tokens.
ListByContainerId == execs

\* exec_instances is loaded when it is looked at.
LoadExecInstances == ListByContainerId

\* _new_exec_client: one of the container's exec instances, by id and token.
NewExecClient(t) ==
    NewClient(t, "exec", t \in LoadExecInstances, command[t].cid)

\* WebSocketClient.connect, to the attach socket of Docker's container.
Connect(t) ==
    /\ sess[t].st = "connecting" /\ sess[t].kind = "attach"
    /\ sess' = [sess EXCEPT ![t].st = IF docker[sess[t].target] = "running"
                                      THEN "open" ELSE "closed"]
    /\ UNCHANGED <<row, execs, docker, command, file, job, used>>

\* exec_start of the interactive command.
ExecStart(t) ==
    /\ sess[t].st = "connecting" /\ sess[t].kind = "exec"
    /\ IF Startable(t)
       THEN /\ command' = [command EXCEPT ![t].st = "running"]
            /\ sess' = [sess EXCEPT ![t].st = "open"]
       ELSE /\ sess' = [sess EXCEPT ![t].st = "closed"]
            /\ UNCHANGED command
    /\ UNCHANGED <<row, execs, docker, file, job, used>>

-----------------------------------------------------------------------------
(* zun-wsproxy: what a session carries *)

Open(t) == sess[t].st = "open"

Step(t, s) ==
    /\ sess' = [sess EXCEPT ![t] = s]
    /\ UNCHANGED <<row, execs, docker, command, file, job, used>>

\* The client's next frame, of n bytes.
Type(t, n) ==
    LET s == sess[t]
    IN /\ Open(t) /\ s.kind = "attach" /\ used.bytes /\ ~s.left
       /\ s.typed + n =< MaxTyped
       /\ Step(t, [s EXCEPT !.typed = @ + n,
                            !.wire = Append(@, [i \in 1..n |-> s.typed + i])])

\* The container's next frame.
Output(t, n) ==
    LET s == sess[t]
    IN /\ Open(t) /\ s.kind = "attach" /\ used.bytes /\ ~s.eof
       /\ s.printed + n =< MaxPrinted
       /\ Step(t, [s EXCEPT !.printed = @ + n,
                            !.tbuf = Append(@, [i \in 1..n |-> s.printed + i])])

\* The client closes its side.
ClientLeaves(t) ==
    Open(t) /\ ~sess[t].left /\ Step(t, [sess[t] EXCEPT !.left = TRUE])

\* The proxy closes the target's socket; the queues go with the session.
Closed(s, why) == [s EXCEPT !.st = "closed", !.why = why]

Going(s) == s.st = "open"

\* Queued output goes to the client, n bytes of it, the rest when it can.
SendFrames(s, n) ==
    LET out == s.pend \o Flat(s.cqueue)
    IN [s EXCEPT !.shown = @ \o SubSeq(out, 1, n),
                 !.pend = SubSeq(out, n + 1, Len(out)), !.cqueue = <<>>]

\* Frames of the client are queued for the target; a close ends the session.
RecvFrames(s) ==
    LET r == [s EXCEPT !.tqueue = @ \o s.wire, !.wire = <<>>]
    IN IF s.left THEN Closed(r, "client") ELSE r

\* As a mutant: what is left of a frame is queued again, at the end.
SendTargetLater(s, n) ==
    LET first == Head(s.tqueue)
        k == IF n < Len(first) THEN n ELSE Len(first)
        rest == SubSeq(first, k + 1, Len(first))
    IN [s EXCEPT !.got = @ \o SubSeq(first, 1, k),
                 !.tqueue = Tail(@) \o (IF rest = <<>> THEN <<>> ELSE <<rest>>)]

\* _send_buffer, for every queued frame, while the target takes bytes: n of
\* them.  A frame that is not taken whole is put back with appendleft, which
\* a list does not have: the AttributeError ends the session.
SendTarget(s, n) ==
    LET out == Flat(s.tqueue)
        r == [s EXCEPT !.got = @ \o SubSeq(out, 1, n), !.tqueue = <<>>]
    IN IF n = Len(out) THEN r ELSE Closed(r, "error")

\* One frame of the target is queued for the client; its end, read after the
\* last frame, ends the session.
RecvTarget(s) ==
    IF s.tbuf = <<>> THEN Closed(s, "target")
    ELSE [s EXCEPT !.cqueue = Append(@, Head(s.tbuf)), !.tbuf = Tail(@)]

\* The descriptors to write to: the ones something is queued for.
ToTarget(s) == s.tqueue # <<>>

ToClient(s) == s.cqueue # <<>> \/ s.pend # <<>>

\* _handle_ins_outs, in its order: c of the bytes for the client are written
\* (none when the client is not ready), and the target takes n (none when it
\* is not ready, and then nothing is tried).
HandleInsOuts(s, c, n) ==
    LET s1 == IF ToClient(s) /\ c > 0 THEN SendFrames(s, c)
              ELSE s
        s2 == IF s.wire # <<>> \/ s.left THEN RecvFrames(s1) ELSE s1
        s3 == IF Going(s2) /\ ToTarget(s) /\ n > 0 THEN SendTarget(s2, n) ELSE s2
        s4 == IF Going(s3) /\ (s.tbuf # <<>> \/ s.eof) THEN RecvTarget(s3) ELSE s3
    IN [s4 EXCEPT !.slow = @ \/ c < Len(s.pend \o Flat(s.cqueue))]

\* do_websocket_proxy: one turn of its loop.
Turn(t, c, n) ==
    /\ Open(t) /\ sess[t].kind = "attach"
    /\ HandleInsOuts(sess[t], c, n) # sess[t]
    /\ Step(t, HandleInsOuts(sess[t], c, n))

ForClient(t) == Len(sess[t].pend \o Flat(sess[t].cqueue))

ForTarget(t) ==
    IF ToTarget(sess[t]) THEN Len(Flat(sess[t].tqueue \o sess[t].wire)) ELSE 0

DoWebsocketProxy(t) ==
    \E c \in 0..ForClient(t), n \in 0..ForTarget(t) : Turn(t, c, n)

\* A turn when both sides take what there is for them.
FreeTurn(t) == Turn(t, ForClient(t), ForTarget(t))

\* The session of an exec, which websockify's own loop carries: it ends with
\* the command or the client, and the target's socket is closed.
DoProxy(t) ==
    /\ Open(t) /\ sess[t].kind = "exec"
    /\ sess[t].eof \/ sess[t].left
    /\ Step(t, Closed(sess[t], IF sess[t].eof THEN "target" ELSE "client"))

-----------------------------------------------------------------------------

ApiStep(t) ==
    \/ Attach(t) \/ Execute(t) \/ ExecuteResize(t) \/ Logs(t) \/ Top(t)
    \/ Stats(t) \/ Resize(t) \/ GetArchive(t) \/ PutArchive(t)
    \/ StartOrStop(t) \/ Rebuild(t) \/ Delete(t) \/ RpcTimeout(t)

ManagerStep(t) ==
    \/ ContainerAttach(t) \/ ExecuteCreate(t) \/ ExecRecord(t) \/ ExecuteRun(t)
    \/ ExecuteRunEnds(t) \/ ExecuteRunTimeout(t) \/ ContainerLogs(t)
    \/ ContainerTop(t) \/ ContainerStats(t) \/ ContainerResize(t)
    \/ ContainerExecResize(t) \/ ContainerGetArchive(t) \/ ContainerPutArchive(t)
    \/ ContainerStop(t) \/ ContainerStart(t) \/ ContainerRebuild(t)
    \/ ContainerDelete(t)

ProxyStep(t) ==
    \/ NewWebsocketClient(t) \/ NewExecClient(t) \/ Connect(t) \/ ExecStart(t)
    \/ DoWebsocketProxy(t) \/ DoProxy(t)

UserStep(t) ==
    \/ \E n \in {1, 2} : Type(t, n) \/ Output(t, n)
    \/ ClientLeaves(t)
    \/ CommandEnds(t)

Next ==
    \/ \E t \in Threads : ApiStep(t) \/ ManagerStep(t) \/ ProxyStep(t) \/ UserStep(t)
    \/ Vanish

\* zun-compute's threads and the proxy's loops run; clients that stay read
\* what they are sent, and containers what is typed.  No command need end.
Fairness ==
    \A t \in Threads :
        /\ WF_vars(ManagerStep(t))
        /\ WF_vars(Connect(t) \/ ExecStart(t) \/ DoProxy(t))
        /\ WF_vars(FreeTurn(t))

Spec == Init /\ [][Next]_vars /\ Fairness

-----------------------------------------------------------------------------
(* Properties *)

Data == [content : Cids, coded : BOOLEAN]

\* Every variable has its type.
TypeOK ==
    /\ row \in [exists : BOOLEAN, auto_remove : BOOLEAN, status : Statuses,
                cid : Cids, token : Cids, url : Cids]
    /\ execs \subseteq Threads
    /\ docker \in [Cids -> {"none", "running", "stopped", "gone"}]
    /\ command \in [Threads -> [cid : Cids, st : {"none", "created", "running",
                                                  "ended"}]]
    /\ file \in [Cids -> Data]
    /\ \A t \in Threads : /\ job[t].pc \in {"idle", "called", "created",
                                            "running", "done"}
                          /\ job[t].answer \in Data
                          /\ sess[t].st \in {"none", "connecting", "open",
                                             "closed"}

\* A session opened with an attach's token is on the container the attach was
\* for, and the token of the last attach is the one in the row, whatever
\* container_attach (no lock, a copy of the row) meets: other attaches, a
\* rebuild, the saves of other threads.
TokenLeads ==
    /\ row.exists => row.token = used.last
    /\ \A t \in Threads : Open(t) /\ sess[t].kind = "attach"
                             => sess[t].target = job[t].cid

\* A command a user was given a token for stays in reach for as long as the
\* container's row, in the container it was created in and for one session:
\* other commands, attaches and a rebuild in between do not displace it
\* (ExecInstance rows, unlike the one websocket_token).
ExecLeads ==
    \A t \in Threads : job[t].op = "exec" /\ job[t].ok /\ row.exists =>
        /\ t \in execs
        /\ Open(t) => /\ sess[t].target = job[t].cid
                      /\ command[t].st = "running" \/ sess[t].eof

\* While a session is open nothing typed or printed is lost, repeated or
\* overtaken between the client, the queues of do_websocket_proxy and the
\* container; once it is closed what arrived is still a prefix.
InOrder ==
    \A t \in Threads :
        LET s == sess[t]
        IN /\ Open(t) => /\ s.got \o Flat(s.tqueue \o s.wire) = Bytes(s.typed)
                         /\ s.shown \o s.pend \o Flat(s.cqueue \o s.tbuf)
                                = Bytes(s.printed)
           /\ IsPrefix(s.got, Bytes(s.typed))
           /\ IsPrefix(s.shown, Bytes(s.printed))

\* A container's last words arrive: when the end of its output closes the
\* session (CClose in _handle_ins_outs) a client that was never slow has been
\* shown everything.
LastWords ==
    \A t \in Threads :
        sess[t].why = "target" /\ sess[t].kind = "attach" /\ ~sess[t].slow
            => sess[t].shown = Bytes(sess[t].printed)

\* An archive is stored, and read by its client, as it was meant, whatever the
\* API versions of the clients that write and read (encode_data, decode_data).
ArchiveMeant ==
    /\ \A c \in Cids : ~file[c].coded
    /\ \A t \in Threads : job[t].ok /\ job[t].op \in {"get24", "get25"}
                             => job[t].answer.coded = (job[t].op = "get25")

\* A read-only call marks a row Error or Deleted (handle_not_found) only when
\* Docker has lost the row's container, unless a rebuild overtook the call.
ErrorIsReal ==
    row.exists /\ row.status \in {"Error", "Deleted"}
        => docker[row.cid] = "gone" \/ used.overtaken

\* Every call to zun-compute ends, commands that hang included
\* (execute_timeout).
CallsEnd == <>[](\A t \in Threads : job[t].pc \in {"idle", "done"})

\* What is queued is delivered, or the session ends; it ends when its
\* container stops.
Drains ==
    <>[](\A t \in Threads :
            Open(t) => /\ ~sess[t].eof
                       /\ ForClient(t) + ForTarget(t) + Len(sess[t].wire)
                             + Len(sess[t].tbuf) = 0)

\* A token leads where it was given for, an attach's and a command's.
SessionsLead == TokenLeads /\ ExecLeads

\* The bytes of a session arrive in order and to the last.
StreamKept == InOrder /\ LastWords

\* The answers of calls, and the Error they may leave in the row, are true.
AnswersTrue == ArchiveMeant /\ ErrorIsReal

\* Calls end, and what sessions queue is delivered.
ConsoleEnds == CallsEnd /\ Drains

=============================================================================
