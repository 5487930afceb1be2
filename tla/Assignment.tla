----------------------------- MODULE Assignment -----------------------------
(***************************************************************************)
(* What the scheduling of containers promises, without queries, generations*)
(* and retries: a container is admitted or not, takes the resources of one *)
(* host in one indivisible step, is placed on the host whose resources it  *)
(* holds, and once placed leaves only after it has given them back.  A     *)
(* removal that was accepted before the container was placed does not      *)
(* wait, which is the one way in which resources are left behind.          *)
(***************************************************************************)
EXTENDS Integers, FiniteSets, FiniteSetsExt

CONSTANTS Containers, Hosts, NoHost, Need, Room

VARIABLES
    stage,   \* new, waiting, placed, failed, leaving or gone
    host,    \* the host a container is placed on
    held     \* the hosts of whose resources a container holds its need

Load(h) == MapThenSumSet(LAMBDA c : Need[c], {c \in Containers : h \in held[c]})

Init ==
    /\ stage = [c \in Containers |-> "new"]
    /\ host = [c \in Containers |-> NoHost]
    /\ held = [c \in Containers |-> {}]

Become(c, s) == stage' = [stage EXCEPT ![c] = s]

Admit(c) == stage[c] = "new" /\ Become(c, "waiting") /\ UNCHANGED <<host, held>>

Take(c, h) ==
    /\ stage[c] \in {"waiting", "leaving", "gone"} /\ held[c] = {}
    /\ Load(h) + Need[c] <= Room[h]
    /\ held' = [held EXCEPT ![c] = {h}]
    /\ UNCHANGED <<stage, host>>

Place(c, h) ==
    /\ stage[c] \in {"waiting", "leaving"} /\ held[c] = {h}
    /\ host' = [host EXCEPT ![c] = h]
    /\ stage[c] = "waiting" => Become(c, "placed")
    /\ stage[c] = "leaving" => UNCHANGED stage
    /\ UNCHANGED held

\* A failure may take the host away, never the resources.
Fail(c) ==
    /\ stage[c] \in {"waiting", "placed", "leaving"}
    /\ host' \in {host, [host EXCEPT ![c] = NoHost]}
    /\ IF stage[c] # "leaving" /\ host'[c] = NoHost
       THEN Become(c, "failed") ELSE UNCHANGED stage
    /\ UNCHANGED held

Give(c) ==
    /\ stage[c] \in {"failed", "placed", "leaving", "gone"} /\ held[c] # {}
    /\ held' = [held EXCEPT ![c] = {}]
    /\ UNCHANGED <<stage, host>>

AskToLeave(c) ==
    /\ stage[c] \in {"waiting", "failed"} /\ Become(c, "leaving")
    /\ UNCHANGED <<host, held>>

Leave(c) ==
    /\ \/ stage[c] \in {"new", "waiting", "leaving"}
       \/ stage[c] \in {"placed", "failed"} /\ held[c] = {}
    /\ Become(c, "gone")
    /\ host' = [host EXCEPT ![c] = NoHost]
    /\ UNCHANGED held

Next ==
    \E c \in Containers :
        \/ Admit(c) \/ Fail(c) \/ Give(c) \/ AskToLeave(c) \/ Leave(c)
        \/ \E h \in Hosts : Take(c, h) \/ Place(c, h)

vars == <<stage, host, held>>

Spec == Init /\ [][Next]_vars
=============================================================================
