------------------------------- MODULE Images -------------------------------
(***************************************************************************)
(* The images of one compute host: the rows of the images API and the      *)
(* images Docker holds for them, the images containers are created from    *)
(* (the Docker and the Glance image driver, the pull policies, the tar     *)
(* files kept of Glance's images, the logins of private registries), and   *)
(* the commit of a container to Glance, with the action log of the         *)
(* container committed.                                                    *)
(*                                                                         *)
(* Every request is served by a green thread of its own (two of them for   *)
(* a DELETE that stops first); threads interleave between any two calls    *)
(* of Docker, Glance, the registry and the database.  The threads about    *)
(* the container Box exclude each other by the lock on its uuid.           *)
(***************************************************************************)
EXTENDS Actions

CONSTANTS
    Refs,           \* the references, repo:tag, of a registry's images
    Contents,       \* the images themselves (Docker's image ids)
    Snap,           \* the repo:tag that containers are committed to
    None,           \* no image
    CanFail,        \* the calls that may fail (members of AllFaults)
    MaxThreads,     \* bound: threads that serve requests
    Mixes           \* bounds, as alternatives: how many requests of every kind
                    \* there are, with what containers are asked for, and how
                    \* many calls fail, zun-computes are lost, and images
                    \* changed by others

Threads == 1..MaxThreads

\* The image thread t commits, in Docker and in Glance, goes by the thread's
\* number.
Snapshots == Threads

Tags == Refs \cup {Snap}

Ids == Contents \cup Snapshots

Policies == {"always", "ifnotpresent", "never"}

AllOps == {"pull", "unpull", "create", "login", "commit", "pause", "unpause",
           "remove"}

AllFaults == {"pull", "refuse", "download", "docker", "get_image", "unpause",
              "upload", "discard", "crash"}

ASSUME ImagesAssumption ==
    /\ CanFail \subseteq AllFaults
    /\ \A mix \in Mixes :
          /\ mix.events \in Nat
          /\ mix.ops \in [AllOps -> Nat]
          /\ mix.wishes \subseteq (Tags \cup Snapshots) \X Policies \X BOOLEAN
    /\ MaxThreads \in Nat
    /\ Snap \notin Refs
    /\ None \notin Ids \cup Tags
    /\ Refs \cap Snapshots = {} /\ Contents \cap Snapshots = {}

VARIABLES
    remote,     \* the image behind every reference in its registry
    tagged,     \* the image every tag names in Docker
    held,       \* the images Docker holds, tagged or not
    glance,     \* the state of every committed image in Glance
    tar,        \* the tar files in images_directory
    rows,       \* the image rows of this host, by the thread that pulls them
    registry,   \* the registry rows, all of one name: password, encrypted
    box,        \* the container's row, and its state in Docker
    lock,       \* the thread that holds the lock on the container
    job,        \* what every thread is doing
    used        \* how far the bounds are used up, and what has gone wrong

imageVars == <<remote, tagged, held, glance, tar>>

vars == <<remote, tagged, held, glance, tar, rows, registry, box, lock, job,
          used, actions, events>>

-----------------------------------------------------------------------------
(* Records *)

NoRow == [live |-> FALSE, ref |-> None, image |-> None]

\* The file <id>.tar: the thread that truncated it last, and whether that
\* thread has written it to its end.
NoTar == [by |-> Recovery, whole |-> FALSE]

Passwords == {"old", "new"}

\* A thread: the request it serves, where it is, what was asked (ref, policy,
\* login, row), what it found (tag, image) and made, the container's status in
\* the copy it was given and what Docker said when it took the lock, whether
\* it has met no error, and whether another thread moved what it relies on.
Idle == [op |-> "none", req |-> Recovery, pc |-> "idle", ref |-> None,
         policy |-> "always", registry |-> 0, login |-> None, row |-> 0,
         tag |-> None, image |-> None, made |-> None, status |-> "none",
         before |-> "none", ok |-> TRUE, spoilt |-> FALSE]

Live(t) == job[t].pc \notin {"idle", "done", "lost"}

Go(t, pc) == job' = [job EXCEPT ![t].pc = pc]

\* The thread ends, after an exception that is logged unless ok.
Ended(j, ok) ==
    [j EXCEPT !.pc = "done", !.ok = ok, !.tag = None, !.login = None,
              !.status = "none", !.before = "none"]

End(t, ok) == job' = [job EXCEPT ![t] = Ended(job[t], ok)]

Fail(t) == End(t, FALSE)

May(fault) == fault \in CanFail /\ used.events > 0

Spend == used' = [used EXCEPT !.events = @ - 1]

TagsOf(id) == {g \in Tags : tagged[g] = id}

\* Docker moves a tag; the image it named stays, without it.
TagImage(tag, id) ==
    /\ tagged' = [tagged EXCEPT ![tag] = id]
    /\ held' = held \cup {id}

\* The other threads that rely on a tag when it moves.
Disturb(jobs, t, tag) ==
    [u \in DOMAIN jobs |->
        IF u # t /\ jobs[u].tag = tag /\ Live(u)
        THEN [jobs[u] EXCEPT !.spoilt = TRUE] ELSE jobs[u]]

-----------------------------------------------------------------------------
(* The requests *)

\* The next request, served by thread t.
Serve(t, op, j) ==
    /\ used.left[op] > 0
    /\ used.threads < MaxThreads
    /\ t = used.threads + 1
    /\ job' = [job EXCEPT ![t] = [j EXCEPT !.req = t]]
    /\ used' = [used EXCEPT !.threads = @ + 1, !.left[op] = @ - 1]

RefTaken(ref) == \E k \in Threads : rows[k].live /\ rows[k].ref = ref

\* POST /images: the row, unique by reference, and the cast.
ImagesPost(t, ref) ==
    /\ ref \in Snapshots => glance[ref] # "absent"
    /\ ~RefTaken(ref)
    /\ Serve(t, "pull", [Idle EXCEPT !.op = "pull", !.ref = ref,
                            !.pc = IF ref \in Refs THEN "pull" ELSE "find"])
    /\ rows' = [rows EXCEPT ![t] = [live |-> TRUE, ref |-> ref,
                                    image |-> None]]
    /\ UNCHANGED <<imageVars, registry, box, lock, logVars>>

\* DELETE /images: the thread is given a copy of the row.
ImagesDelete(t, k) ==
    /\ rows[k].live
    /\ Serve(t, "unpull", [Idle EXCEPT !.op = "unpull", !.row = k,
                              !.image = rows[k].image,
                              !.pc = IF rows[k].image = None THEN "destroy"
                                     ELSE "inspect"])
    /\ UNCHANGED <<imageVars, rows, registry, box, lock, logVars>>

encrypt(value) == [cipher |-> value]

decrypt(data) == data.cipher

NoRegistry == 0

\* The registry rows a name may mean; more than one is a conflict.
get_registry_by_name == {n \in DOMAIN registry : registry[n].live}

\* POST /containers, as far as its image goes: the row, with its registry,
\* and the cast.
ContainersPost(t, ref, policy, private) ==
    /\ ref \in Snapshots => glance[ref] # "absent"
    /\ \E n \in DOMAIN registry \cup {NoRegistry} :
          /\ IF private THEN get_registry_by_name = {n} ELSE n = NoRegistry
          /\ Serve(t, "create", [Idle EXCEPT !.op = "create", !.ref = ref,
                                    !.policy = policy, !.registry = n,
                                    !.pc = IF private THEN "registry"
                                           ELSE "search"])
    /\ UNCHANGED <<imageVars, rows, registry, box, lock, logVars>>

\* POST /registries: nothing keeps a second one from having the same name.
create_registry(password) ==
    registry' = Append(registry, [live |-> TRUE, password |-> encrypt(password)])

RegistriesPost(t) ==
    /\ Serve(t, "login", [Idle EXCEPT !.op = "login", !.pc = "done"])
    /\ create_registry("old")
    /\ UNCHANGED <<imageVars, rows, box, lock, logVars>>

\* PATCH /registries, with a password.
update_registry(n, password) ==
    registry' = [registry EXCEPT ![n].password = encrypt(password)]

RegistriesPatch(t, n) ==
    /\ registry[n].live
    /\ Serve(t, "login", [Idle EXCEPT !.op = "login", !.pc = "done"])
    /\ update_registry(n, "new")
    /\ UNCHANGED <<imageVars, rows, box, lock, logVars>>

\* The containers' rows that name the registry: theirs is a foreign key.
ReferenceError(n) == \E t \in Threads : job[t].registry = n

destroy_registry(n) ==
    ~ReferenceError(n) /\ registry' = [registry EXCEPT ![n].live = FALSE]

\* DELETE /registries
RegistriesDelete(t, n) ==
    /\ registry[n].live
    /\ destroy_registry(n)
    /\ Serve(t, "login", [Idle EXCEPT !.op = "login", !.pc = "done"])
    /\ UNCHANGED <<imageVars, rows, box, lock, logVars>>

ValidStates ==
    [commit |-> {"Running", "Stopped", "Paused"}, pause |-> {"Running"},
     unpause |-> {"Paused"}]

\* POST /containers/<c>/commit, pause and unpause: the state is checked in
\* the row just read, and the action recorded, before zun-compute is called.
ContainerRequest(t, op) ==
    /\ box.row \in ValidStates[op]
    /\ Serve(t, op, [Idle EXCEPT !.op = op, !.status = box.row,
                        !.pc = IF op = "commit" THEN "create" ELSE "wait"])
    /\ action_start(t, op)
    /\ UNCHANGED <<imageVars, rows, registry, box, lock, events>>

\* DELETE /containers/<c>?stop=true: two actions of one request, and two
\* threads, unless the container does not run.
ContainersDelete(t) ==
    LET thread(op) == [Idle EXCEPT !.op = op, !.req = t, !.pc = "wait"]
        entry(op) == [req |-> t, action |-> op, end |-> "open"]
    IN  /\ used.left.remove > 0
        /\ t = used.threads + 1
        /\ \/ /\ box.row = "Running"
              /\ used.threads + 1 < MaxThreads
              /\ job' = [job EXCEPT ![t] = thread("stop"),
                                    ![t + 1] = thread("delete")]
              /\ actions' = actions \o <<entry("stop"), entry("delete")>>
              /\ used' = [used EXCEPT !.threads = @ + 2, !.left.remove = @ - 1]
           \/ /\ box.row \in {"Stopped", "Error"}
              /\ used.threads < MaxThreads
              /\ job' = [job EXCEPT ![t] = thread("delete")]
              /\ action_start(t, "delete")
              /\ used' = [used EXCEPT !.threads = @ + 1, !.left.remove = @ - 1]
        /\ UNCHANGED <<imageVars, rows, registry, box, lock, events>>

-----------------------------------------------------------------------------
(* Getting an image: the image drivers *)

\* The images find_image may mean: by id, or by name, which is the name of
\* everything committed.  An image has the container format docker once
\* update_image has given it to it.
find_images(ref) ==
    {g \in Snapshots : glance[g] \in {"docker", "active"} /\ ref \in {g, Snap}}

Unique(S) == Cardinality(S) = 1

TheOne(S) == CHOOSE g \in S : TRUE

should_pull_image(policy, present) ==
    policy = "always" \/ (policy = "ifnotpresent" /\ ~present)

get_registry_by_id(n) == decrypt(registry[n].password)

\* _do_container_create_base reads the container's registry, if it has one.
GetRegistry(t) ==
    /\ job[t].pc = "registry"
    /\ job' = [job EXCEPT ![t].pc = "search",
                          ![t].login = get_registry_by_id(job[t].registry)]
    /\ UNCHANGED <<imageVars, rows, registry, box, lock, used, logVars>>

\* The Docker driver looks for the tag in Docker.
SearchDocker(t) ==
    LET ref == job[t].ref
        present == tagged[ref] # None
    IN  /\ job[t].pc = "search" /\ ref \in Refs
        /\ \/ should_pull_image(job[t].policy, present) /\ Go(t, "pull")
           \/ /\ ~should_pull_image(job[t].policy, present) /\ present
              /\ job' = [job EXCEPT ![t].pc = "make", ![t].tag = ref,
                                    ![t].image = tagged[ref]]
           \/ ~should_pull_image(job[t].policy, present) /\ ~present /\ Fail(t)
        /\ UNCHANGED <<imageVars, rows, registry, box, lock, used, logVars>>

\* DockerDriver._pull_image, also for a POST of an image.
PullDocker(t) ==
    LET ref == job[t].ref
        next == [job EXCEPT ![t].tag = ref, ![t].image = remote[ref],
                            ![t].pc = IF job[t].op = "pull" THEN "inspect"
                                      ELSE "make"]
    IN  /\ job[t].pc = "pull"
        /\ \/ /\ TagImage(ref, remote[ref])
              /\ job' = IF tagged[ref] = remote[ref] THEN next
                        ELSE Disturb(next, t, ref)
              /\ UNCHANGED used
           \/ /\ May("pull")
              /\ Fail(t) /\ Spend
              /\ UNCHANGED <<tagged, held>>
        /\ UNCHANGED <<remote, glance, tar, rows, registry, box, lock, logVars>>

_verify_md5sum_for_image(g) == glance[g] = "active" /\ tar[g].whole

\* The Glance driver looks for the tar file of the image.  A good one counts
\* as loaded, whatever Docker holds under its tag by now.
SearchGlance(t) ==
    LET found == find_images(job[t].ref)
        g == TheOne(found)
        present == Unique(found) /\ tar[g] # NoTar
        pull == should_pull_image(job[t].policy, present)
    IN  /\ job[t].pc = "search" /\ job[t].ref \notin Refs
        /\ \/ Cardinality(found) > 1 /\ Fail(t)
           \/ Cardinality(found) <= 1 /\ ~pull /\ ~present /\ Fail(t)
           \/ /\ Cardinality(found) <= 1
              /\ pull \/ (present /\ ~_verify_md5sum_for_image(g))
              /\ Go(t, "find")
           \/ /\ ~pull /\ present /\ _verify_md5sum_for_image(g)
              /\ job' = [job EXCEPT ![t].pc = "make", ![t].tag = Snap,
                                    ![t].image = g,
                                    ![t].spoilt = tagged[Snap] # g]
        /\ UNCHANGED <<imageVars, rows, registry, box, lock, used, logVars>>

\* GlanceDriver.pull_image finds the image and opens its tar file, which
\* truncates it.  An image nothing was uploaded to yet has no data.
DownloadGlance(t) ==
    LET found == find_images(job[t].ref)
        g == TheOne(found)
        opened == [tar EXCEPT ![g] = [by |-> t, whole |-> FALSE]]
    IN  /\ job[t].pc = "find"
        /\ \/ ~Unique(found) /\ Fail(t) /\ UNCHANGED <<tar, used>>
           \/ /\ Unique(found) /\ glance[g] = "docker"
              /\ tar' = opened /\ Fail(t) /\ UNCHANGED used
           \/ /\ Unique(found) /\ glance[g] = "active"
              /\ tar' = opened
              /\ job' = [job EXCEPT ![t].pc = "write", ![t].image = g]
              /\ UNCHANGED used
           \/ May("download") /\ Fail(t) /\ Spend /\ UNCHANGED tar
        /\ UNCHANGED <<remote, tagged, held, glance, rows, registry, box, lock,
                       logVars>>

\* Mutant: a file just downloaded counts as loaded.
WriteTarLoaded(t) ==
    LET g == job[t].image
    IN  /\ job[t].pc = "write"
        /\ tar' = [tar EXCEPT ![g].whole = @ \/ tar[g].by = t]
        /\ job' = [job EXCEPT ![t].tag = Snap,
                              ![t].pc = IF job[t].op = "pull" THEN "inspect"
                                        ELSE "make"]
        /\ UNCHANGED <<remote, tagged, held, glance, rows, registry, box, lock,
                       used, logVars>>

\* The file is written in place: it is whole when the thread that truncated
\* it last has come to the end.
WriteTar(t) ==
    LET g == job[t].image
    IN  /\ job[t].pc = "write"
        /\ \/ /\ tar' = [tar EXCEPT ![g].whole = @ \/ tar[g].by = t]
              /\ Go(t, "load") /\ UNCHANGED used
           \/ May("download") /\ Fail(t) /\ Spend /\ UNCHANGED tar
        /\ UNCHANGED <<remote, tagged, held, glance, rows, registry, box, lock,
                       logVars>>

\* DockerDriver.load_image: the tag is the one in the tar file.
load_image(t) ==
    LET g == job[t].image
        next == [job EXCEPT ![t].tag = Snap,
                            ![t].pc = IF job[t].op = "pull" THEN "inspect"
                                      ELSE "make"]
    IN  /\ job[t].pc = "load"
        /\ \/ /\ tar[g].whole
              /\ TagImage(Snap, g)
              /\ job' = IF tagged[Snap] = g THEN next ELSE Disturb(next, t, Snap)
           \/ ~tar[g].whole /\ Fail(t) /\ UNCHANGED <<tagged, held>>
        /\ UNCHANGED <<remote, glance, tar, rows, registry, box, lock, used,
                       logVars>>

\* read_tar_image: a name keeps its meaning without the tar file, an id of
\* Glance means nothing to Docker.
Readable(t) == job[t].ref \in Snapshots => tar[job[t].image].whole

\* DockerDriver.create: the container is made of what the tag names now.
MakeContainer(t) ==
    LET id == tagged[job[t].tag]
    IN  /\ job[t].pc = "make"
        /\ \/ /\ id # None /\ Readable(t)
              /\ job' = [job EXCEPT ![t] = [Ended(job[t], TRUE) EXCEPT !.made = id]]
           \/ (id = None \/ ~Readable(t)) /\ Fail(t)
        /\ UNCHANGED <<imageVars, rows, registry, box, lock, used, logVars>>

-----------------------------------------------------------------------------
(* The image rows *)

\* _do_image_pull asks Docker what it holds; the row takes the first of the
\* image's tags, whichever that is.
InspectPulled(t) ==
    LET id == tagged[job[t].tag]
    IN  /\ job[t].pc = "inspect" /\ job[t].op = "pull"
        /\ \/ /\ id # None /\ Readable(t)
              /\ \E first \in TagsOf(id) :
                    job' = [job EXCEPT ![t].pc = "save", ![t].image = id,
                                       ![t].tag = first]
           \/ (id = None \/ ~Readable(t)) /\ Fail(t)
        /\ UNCHANGED <<imageVars, rows, registry, box, lock, used, logVars>>

\* image.save: the row may be gone, and its new reference taken.
SaveImage(t) ==
    LET taken == \E k \in Threads \ {t} : rows[k].live /\ rows[k].ref = job[t].tag
    IN  /\ job[t].pc = "save"
        /\ \/ /\ rows[t].live /\ ~taken
              /\ rows' = [rows EXCEPT ![t].ref = job[t].tag,
                                      ![t].image = job[t].image]
              /\ End(t, TRUE)
           \/ (~rows[t].live \/ taken) /\ Fail(t) /\ UNCHANGED rows
        /\ UNCHANGED <<imageVars, registry, box, lock, used, logVars>>

\* DockerDriver.delete_image begins with the image's first tag: an image
\* that Docker does not hold, or holds without a tag, ends the thread.
InspectDeleted(t) ==
    LET id == job[t].image
    IN  /\ job[t].pc = "inspect" /\ job[t].op = "unpull"
        /\ \/ /\ TagsOf(id) # {}
              /\ \E first \in TagsOf(id) :
                    job' = [job EXCEPT ![t].pc = "untar", ![t].tag = first]
           \/ /\ TagsOf(id) = {}
              /\ job' = [job EXCEPT ![t] = [Ended(job[t], FALSE) EXCEPT
                                               !.spoilt = TRUE]]
        /\ UNCHANGED <<imageVars, rows, registry, box, lock, used, logVars>>

\* GlanceDriver.delete_image_tar; two images of that name are an error, which
\* is logged.
delete_image_tar(t) ==
    LET found == IF job[t].tag = Snap THEN find_images(Snap) ELSE {}
    IN  /\ job[t].pc = "untar"
        /\ tar' = IF Unique(found) THEN [tar EXCEPT ![TheOne(found)] = NoTar]
                  ELSE tar
        /\ Go(t, "remove")
        /\ UNCHANGED <<remote, tagged, held, glance, rows, registry, box, lock,
                       used, logVars>>

\* What Docker refuses to remove by its id: an image with several tags, and
\* one that a container was made of.
InUse(id) == Cardinality(TagsOf(id)) > 1 \/ \E t \in Threads : job[t].made = id

Removed(id) ==
    /\ held' = held \ {id}
    /\ tagged' = [g \in Tags |-> IF tagged[g] = id THEN None ELSE tagged[g]]

\* DockerDriver.delete_image of the image drivers; an error is logged.
RemoveImage(t) ==
    LET id == job[t].image
        next == [job EXCEPT ![t].pc = "destroy"]
    IN  /\ job[t].pc = "remove"
        /\ \/ /\ ~InUse(id)
              /\ Removed(id)
              /\ job' = IF TagsOf(id) = {} THEN next
                        ELSE Disturb(next, t, TheOne(TagsOf(id)))
           \/ InUse(id) /\ job' = next /\ UNCHANGED <<tagged, held>>
        /\ UNCHANGED <<remote, glance, tar, rows, registry, box, lock, used,
                       logVars>>

destroy_image(t) ==
    LET k == job[t].row
    IN  /\ job[t].pc = "destroy" /\ job[t].op = "unpull"
        /\ rows' = [rows EXCEPT ![k] = NoRow]
        /\ End(t, rows[k].live)
        /\ UNCHANGED <<imageVars, registry, box, lock, used, logVars>>

-----------------------------------------------------------------------------
(* The container: commit, pause, unpause, stop and delete *)

EventOf(op) == "compute__do_container_" \o op

TaskOf == [pause |-> "Pausing", unpause |-> "Unpausing", stop |-> "Stopping",
           delete |-> "Deleting"]

\* Manager.container_commit: Glance makes an image without data.  A refusal
\* goes back to the API, and the action stays as it is.
CreateSnapshot(t) ==
    /\ job[t].pc = "create"
    /\ \/ /\ glance' = [glance EXCEPT ![t] = "queued"]
          /\ Go(t, "wait") /\ UNCHANGED used
       \/ /\ May("refuse")
          /\ Go(t, "lost") /\ Spend /\ UNCHANGED glance
    /\ UNCHANGED <<remote, tagged, held, tar, rows, registry, box, lock,
                   logVars>>

\* The thread gets the lock.  Without an action to file its event under, it
\* ends where it is; what Glance made for it stays.
Enter(t) ==
    LET op == job[t].op
    IN  /\ job[t].pc = "wait" /\ op # "delete"
        /\ lock = None
        /\ \/ /\ FiledUnder(job[t].req) = NoAction
              /\ Fail(t)
              /\ used' = [used EXCEPT !.leaked = @ \cup ({t} \ {Recovery})]
              /\ UNCHANGED <<box, lock, events>>
           \/ /\ action_event_start(job[t].req, EventOf(op))
              /\ lock' = t
              /\ job' = [job EXCEPT ![t].before = box.docker,
                                    ![t].pc = IF op # "commit" THEN "call"
                                              ELSE IF job[t].status = "Running"
                                              THEN "pause" ELSE "commit"]
              /\ box' = IF op = "commit" THEN box
                        ELSE [box EXCEPT !.task = TaskOf[op]]
              /\ UNCHANGED used
        /\ UNCHANGED <<imageVars, rows, registry, actions>>

\* A delete reports no event; its first save finds the row or fails.
EnterDelete(t) ==
    /\ job[t].pc = "wait" /\ job[t].op = "delete"
    /\ lock = None
    /\ \/ /\ box.row # "gone"
          /\ box' = [box EXCEPT !.task = "Deleting"]
          /\ lock' = t /\ Go(t, "call")
       \/ box.row = "gone" /\ Fail(t) /\ UNCHANGED <<box, lock>>
    /\ UNCHANGED <<imageVars, rows, registry, used, logVars>>

From == [pause |-> {"Running"}, unpause |-> {"Paused"}, stop |-> {"Running"},
         delete |-> {"Stopped"}]

To == [pause |-> "Paused", unpause |-> "Running", stop |-> "Stopped",
       delete |-> "none"]

\* The driver's call.  Docker refuses what the container's state does not
\* allow.
CallDocker(t) ==
    LET op == job[t].op
    IN  /\ job[t].pc = "call"
        /\ \/ /\ box.docker \in From[op]
              /\ box' = [box EXCEPT !.docker = To[op]]
              /\ Go(t, "finish") /\ UNCHANGED used
           \/ /\ box.docker \notin From[op]
              /\ job' = [job EXCEPT ![t].pc = "finish", ![t].ok = FALSE]
              /\ UNCHANGED <<box, used>>
           \/ /\ May("docker")
              /\ job' = [job EXCEPT ![t].pc = "finish", ![t].ok = FALSE]
              /\ Spend /\ UNCHANGED box
        /\ UNCHANGED <<imageVars, rows, registry, lock, logVars>>

\* The end of pause, unpause and stop: the row, the event, the action.
Finish(t) ==
    LET op == job[t].op
        ok == job[t].ok
    IN  /\ job[t].pc = "finish" /\ op # "delete"
        /\ action_event_finish(job[t].req, EventOf(op), ok)
        /\ action_finish(job[t].req, op, ok)
        /\ box' = IF op = "commit" THEN box
                  ELSE [box EXCEPT !.task = "none",
                                   !.row = IF ok THEN To[op] ELSE @]
        /\ lock' = None
        /\ End(t, ok)
        /\ UNCHANGED <<imageVars, rows, registry, used>>

\* Mutant: the lock is kept.
FinishDeleteLocked(t) ==
    /\ job[t].pc = "finish" /\ job[t].op = "delete"
    /\ box' = [box EXCEPT !.row = "Error", !.task = "none"]
    /\ End(t, FALSE)
    /\ UNCHANGED <<imageVars, logVars, lock, rows, registry, used>>

\* The end of a delete: the row goes with its actions, or is in error.
FinishDelete(t) ==
    /\ job[t].pc = "finish" /\ job[t].op = "delete"
    /\ \/ /\ job[t].ok
          /\ box' = [box EXCEPT !.row = "gone", !.task = "none"]
          /\ CascadeActions
       \/ /\ ~job[t].ok
          /\ box' = [box EXCEPT !.row = "Error", !.task = "none"]
          /\ UNCHANGED logVars
    /\ lock' = None
    /\ End(t, job[t].ok)
    /\ UNCHANGED <<imageVars, rows, registry, used>>

\* The commit of a running container begins with a pause, whose failure
\* leaves the image in Glance.
PauseForCommit(t) ==
    /\ job[t].pc = "pause"
    /\ \/ /\ box.docker = "Running"
          /\ box' = [box EXCEPT !.docker = "Paused", !.row = "Paused"]
          /\ Go(t, "commit") /\ UNCHANGED used
       \/ /\ box.docker # "Running" \/ May("docker")
          /\ job' = [job EXCEPT ![t].pc = "finish", ![t].ok = FALSE]
          /\ used' = [used EXCEPT !.leaked = @ \cup {t},
                         !.events = IF box.docker = "Running" THEN @ - 1 ELSE @]
          /\ UNCHANGED box
    /\ UNCHANGED <<imageVars, rows, registry, lock, logVars>>

\* Mutant: a failed commit leaves the image in Glance.
CommitLeaks(t) ==
    LET next == [job EXCEPT ![t].pc = "get", ![t].tag = Snap]
    IN  /\ job[t].pc = "commit"
        /\ \/ /\ TagImage(Snap, t)
              /\ job' = Disturb(next, t, Snap)
              /\ UNCHANGED used
           \/ /\ May("docker")
              /\ job' = [job EXCEPT ![t].pc = "resume", ![t].ok = FALSE]
              /\ Spend /\ UNCHANGED <<tagged, held>>
        /\ UNCHANGED <<remote, glance, tar, rows, registry, box, lock, logVars>>

\* docker.commit moves the tag to the new image.
Commit(t) ==
    LET next == [job EXCEPT ![t].pc = "get", ![t].tag = Snap]
    IN  /\ job[t].pc = "commit"
        /\ \/ /\ TagImage(Snap, t)
              /\ job' = Disturb(next, t, Snap)
              /\ UNCHANGED used
           \/ /\ May("docker")
              /\ job' = [job EXCEPT ![t].pc = "discard", ![t].ok = FALSE]
              /\ Spend /\ UNCHANGED <<tagged, held>>
        /\ UNCHANGED <<remote, glance, tar, rows, registry, box, lock, logVars>>

\* The image is read by its tag, as a stream: a tag that is gone shows when
\* the data is uploaded.
GetImage(t) ==
    /\ job[t].pc = "get"
    /\ \/ /\ job' = [job EXCEPT ![t].pc = "resume", ![t].image = tagged[Snap]]
          /\ UNCHANGED used
       \/ /\ May("get_image")
          /\ job' = [job EXCEPT ![t].pc = "discard", ![t].ok = FALSE]
          /\ Spend
    /\ UNCHANGED <<imageVars, rows, registry, box, lock, logVars>>

\* delete_committed_image, after a failed commit ("discard") or a failed
\* upload ("undo"); it raises for an image that is gone already.
DiscardSnapshot(t) ==
    LET after(gone) == IF job[t].pc = "discard" THEN "resume"
                       ELSE IF gone THEN "unimage" ELSE "finish"
    IN  /\ job[t].pc \in {"discard", "undo"}
        /\ \/ /\ glance[t] # "absent"
              /\ glance' = [glance EXCEPT ![t] = "absent"]
              /\ Go(t, after(TRUE)) /\ UNCHANGED used
           \/ /\ glance[t] = "absent"
              /\ Go(t, after(FALSE)) /\ UNCHANGED <<glance, used>>
           \/ /\ May("discard") /\ glance[t] # "absent"
              /\ Go(t, after(FALSE))
              /\ used' = [used EXCEPT !.events = @ - 1,
                                      !.leaked = @ \cup {t}]
              /\ UNCHANGED glance
        /\ UNCHANGED <<remote, tagged, held, tar, rows, registry, box, lock,
                       logVars>>

\* Mutant: an exception skips the resumption.
ResumeUnlessFailed(t) ==
    LET on == IF job[t].ok THEN "update" ELSE "finish"
    IN  /\ job[t].pc = "resume"
        /\ Go(t, on)
        /\ box' = IF job[t].status = "Running" /\ job[t].ok
                  THEN [box EXCEPT !.docker = "Running", !.row = "Running"]
                  ELSE box
        /\ UNCHANGED <<imageVars, rows, registry, lock, used, logVars>>

\* The finally clause; its failure is logged.
Resume(t) ==
    LET on == IF job[t].ok THEN "update" ELSE "finish"
    IN  /\ job[t].pc = "resume"
        /\ Go(t, on)
        /\ \/ /\ job[t].status = "Running"
              /\ box' = [box EXCEPT !.docker = "Running", !.row = "Running"]
              /\ UNCHANGED used
           \/ job[t].status # "Running" /\ UNCHANGED <<box, used>>
           \/ /\ job[t].status = "Running" /\ May("unpause")
              /\ used' = [used EXCEPT !.events = @ - 1, !.stuck = TRUE]
              /\ UNCHANGED box
        /\ UNCHANGED <<imageVars, rows, registry, lock, logVars>>

\* upload_image_data: the format and the tag, then the data.
Upload(t) ==
    LET possible == /\ glance[t] # "absent"
                    /\ job[t].pc = "upload" => job[t].image # None
    IN  /\ job[t].pc \in {"update", "upload"}
        /\ \/ /\ possible
              /\ glance' = [glance EXCEPT ![t] = IF job[t].pc = "update"
                                                 THEN "docker" ELSE "active"]
              /\ Go(t, IF job[t].pc = "update" THEN "upload" ELSE "finish")
              /\ UNCHANGED used
           \/ /\ ~possible \/ May("upload")
              /\ job' = [job EXCEPT ![t].pc = "undo", ![t].ok = FALSE]
              /\ used' = IF possible THEN [used EXCEPT !.events = @ - 1] ELSE used
              /\ UNCHANGED glance
        /\ UNCHANGED <<remote, tagged, held, tar, rows, registry, box, lock,
                       logVars>>

\* After a failed upload the image is taken out of Docker, if it has a tag.
Unimage(t) ==
    LET next == [job EXCEPT ![t].pc = "finish"]
    IN  /\ job[t].pc = "unimage"
        /\ \/ /\ TagsOf(t) # {} /\ ~InUse(t)
              /\ Removed(t)
              /\ job' = Disturb(next, t, Snap)
           \/ /\ TagsOf(t) = {} \/ InUse(t)
              /\ job' = next /\ UNCHANGED <<tagged, held>>
        /\ UNCHANGED <<remote, glance, tar, rows, registry, box, lock, used,
                       logVars>>

-----------------------------------------------------------------------------
(* The world around *)

\* Somebody pushes another image to a reference.
Push(ref, id) ==
    /\ used.events > 0
    /\ id # remote[ref]
    /\ remote' = [remote EXCEPT ![ref] = id]
    /\ used' = [used EXCEPT !.events = @ - 1]
    /\ UNCHANGED <<tagged, held, glance, tar, rows, registry, box, lock, job,
                   logVars>>

\* Somebody deletes an image from Glance.
GlanceDelete(g) ==
    /\ used.events > 0
    /\ glance[g] # "absent"
    /\ glance' = [glance EXCEPT ![g] = "absent"]
    /\ used' = [used EXCEPT !.events = @ - 1]
    /\ UNCHANGED <<remote, tagged, held, tar, rows, registry, box, lock, job,
                   logVars>>

OpOf(task) == CHOOSE op \in DOMAIN TaskOf : TaskOf[op] = task

\* zun-compute is lost with its threads and starts again: init_containers
\* repeats what the container's task state names, with a request id of its
\* own.  A commit leaves no task state.
Crash ==
    /\ May("crash")
    /\ job' = [t \in DOMAIN job |->
                 IF t = Recovery /\ box.row # "gone" /\ box.task # "none"
                 THEN [Idle EXCEPT !.op = OpOf(box.task), !.pc = "wait",
                                   !.status = box.row]
                 ELSE IF Live(t) THEN [job[t] EXCEPT !.pc = "lost"] ELSE job[t]]
    /\ lock' = None
    /\ used' = [used EXCEPT !.events = @ - 1,
                   !.leaked = @ \cup {t \in Threads : Live(t)},
                   !.stuck = @ \/ \E t \in Threads : job[t].op = "commit" /\ Live(t)]
    /\ UNCHANGED <<imageVars, rows, registry, box, logVars>>

-----------------------------------------------------------------------------
(* The specification *)

Init ==
    /\ remote = [r \in Refs |-> CHOOSE id \in Contents : TRUE]
    /\ tagged = [g \in Tags |-> None]
    /\ held = {}
    /\ glance = [g \in Snapshots |-> "absent"]
    /\ tar = [g \in Snapshots |-> NoTar]
    /\ rows = [k \in Threads |-> NoRow]
    /\ registry = <<[live |-> TRUE, password |-> encrypt("old")]>>
    /\ box = [row |-> "Running", docker |-> "Running", task |-> "none"]
    /\ lock = None
    /\ job = [t \in Threads \cup {Recovery} |-> Idle]
    /\ \E mix \in Mixes :
          used = [threads |-> 0, left |-> mix.ops, wishes |-> mix.wishes,
                  events |-> mix.events, leaked |-> {}, stuck |-> FALSE]
    /\ actions = <<>> /\ events = <<>>

Request(t) ==
    \/ \E ref \in Refs \cup Snapshots : ImagesPost(t, ref)
    \/ \E k \in Threads : ImagesDelete(t, k)
    \/ \E <<ref, policy, private>> \in used.wishes :
          ContainersPost(t, ref, policy, private)
    \/ RegistriesPost(t)
    \/ \E n \in DOMAIN registry : RegistriesPatch(t, n) \/ RegistriesDelete(t, n)
    \/ \E op \in DOMAIN ValidStates : ContainerRequest(t, op)
    \/ ContainersDelete(t)

Step(t) ==
    \/ GetRegistry(t) \/ SearchDocker(t) \/ PullDocker(t)
    \/ SearchGlance(t) \/ DownloadGlance(t) \/ WriteTar(t) \/ load_image(t)
    \/ MakeContainer(t) \/ InspectPulled(t) \/ SaveImage(t)
    \/ InspectDeleted(t) \/ delete_image_tar(t) \/ RemoveImage(t)
    \/ destroy_image(t)
    \/ CreateSnapshot(t) \/ Enter(t) \/ EnterDelete(t) \/ CallDocker(t)
    \/ Finish(t) \/ FinishDelete(t) \/ PauseForCommit(t) \/ Commit(t)
    \/ GetImage(t) \/ DiscardSnapshot(t) \/ Resume(t) \/ Upload(t) \/ Unimage(t)

Next ==
    \/ \E t \in Threads : Request(t)
    \/ \E t \in Threads \cup {Recovery} : Step(t)
    \/ \E ref \in Refs, id \in Contents : Push(ref, id)
    \/ \E g \in Snapshots : GlanceDelete(g)
    \/ Crash

\* The green threads of a running zun-compute, and its drivers' calls, go on;
\* nobody has to make a request, and nothing has to fail.
Fairness == \A t \in Threads \cup {Recovery} : WF_vars(Step(t))

Spec == Init /\ [][Next]_vars /\ Fairness

-----------------------------------------------------------------------------
(* Properties *)

TypeOK ==
    /\ remote \in [Refs -> Contents]
    /\ tagged \in [Tags -> Ids \cup {None}]
    /\ held \subseteq Ids
    /\ glance \in [Snapshots -> {"absent", "queued", "docker", "active"}]
    /\ tar \in [Snapshots -> [by : Threads \cup {Recovery}, whole : BOOLEAN]]
    /\ rows \in [Threads -> [live : BOOLEAN, ref : Tags \cup Snapshots \cup {None},
                             image : Ids \cup {None}]]
    /\ registry \in Seq([live : BOOLEAN, password : [cipher : Passwords]])
    /\ box \in [row : {"Running", "Paused", "Stopped", "Error", "gone"},
                docker : {"Running", "Paused", "Stopped", "none"},
                task : {"none"} \cup Range(TaskOf)]
    /\ lock \in Threads \cup {Recovery, None}
    /\ \A t \in DOMAIN job :
          /\ job[t].pc \in STRING /\ job[t].policy \in Policies
          /\ job[t].login \in Passwords \cup {None}
          /\ {job[t].image, job[t].made} \subseteq Ids \cup {None}
          /\ job[t].tag \in Tags \cup {None}
    /\ actions \in Seq(ActionRow(Threads, DOMAIN TaskOf \cup {"commit"}))
    /\ events \in Seq(EventRow({EventOf(op) : op \in DOMAIN TaskOf \cup {"commit"}}))

\* A container is made of the image that was asked for, the one the registry
\* had when it was pulled or Glance's by its id, and what a commit uploads is
\* what it committed, unless another thread moved the tag on the way, or the
\* tar file was taken for loaded when Docker no longer had the image.
AsAsked ==
    /\ \A t \in Threads :
          job[t].made # None /\ ~job[t].spoilt =>
              /\ job[t].made = job[t].image
              /\ job[t].ref \in Snapshots => job[t].made = job[t].ref
    /\ \A g \in Snapshots :
          glance[g] = "active" /\ ~job[g].spoilt => job[g].image = g

\* An image in Glance without its data is on its way to have it or to be
\* deleted, but for those that the code leaves behind: of a commit that never
\* began or whose pause failed, one Glance failed to delete, and
\* those of threads lost in a crash.
SnapshotsAccounted ==
    \A g \in Snapshots :
        glance[g] \in {"queued", "docker"} => Live(g) \/ g \in used.leaked

\* A commit hands the container back in the state it found it in, whether or
\* not it succeeded, unless Docker refused to resume it.
CommitResumes ==
    [][\A t \in Threads :
          job[t].op = "commit" /\ job[t].pc = "finish" /\ job'[t].pc = "done" =>
              box.docker = job[t].before \/ used.stuck]_vars

\* A container's registry is there when its image is pulled, whoever deletes
\* registries meanwhile, and the login is one the user gave in clear.
RegistryUsable ==
    \A t \in Threads :
        job[t].registry # NoRegistry =>
            /\ registry[job[t].registry].live
            /\ job[t].pc = "pull" => job[t].login \in Passwords

\* The log tells how an operation that ran to its end went: its own action
\* and an event filed under that action say so.
LogTold ==
    \A t \in Threads :
        /\ job[t].op \in {"commit", "pause", "unpause", "stop"}
        /\ job[t].pc = "done" /\ actions # <<>>
        => \E i \in DOMAIN actions :
              /\ actions[i].req = job[t].req /\ actions[i].action = job[t].op
              /\ actions[i].end = Message(job[t].ok)
              /\ \E e \in Range(events) :
                    /\ e.action = i \/ job[t].req # t
                    /\ e.event = EventOf(job[t].op)
                    /\ e.result = Result(job[t].ok)

\* Once no more requests are made, every action is at its end, but for those
\* of deletes, which never are, as long as the container is there, the thread
\* was not lost with zun-compute, and Glance did not refuse a commit's image.
ActionsEnd ==
    <>[](\A t \in Threads :
            job[t].op \in {"commit", "pause", "unpause", "stop"} =>
                \/ \E i \in DOMAIN actions : /\ actions[i].req = job[t].req
                                             /\ actions[i].action = job[t].op
                                             /\ actions[i].end # "open"
                \/ box.row = "gone" \/ job[t].pc = "lost")

\* Once no more requests are made, the rows of all images deleted are gone,
\* however many errors Glance's files and Docker gave, unless the image had
\* lost its tag or the thread was lost with zun-compute.
DeletesEnd ==
    <>[](\A t \in Threads :
            job[t].op = "unpull" =>
                \/ ~rows[job[t].row].live
                \/ job[t].spoilt \/ job[t].pc = "lost")

\* A container is made of what was asked for, with a registry that is there,
\* and the action log tells how it went.
DoneAsAsked == AsAsked /\ RegistryUsable /\ LogTold

\* What was asked comes to its end in the action log and in the table of
\* images.
RequestsEnd == ActionsEnd /\ DeletesEnd

=============================================================================
