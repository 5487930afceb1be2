----------------------------- MODULE MCConsole ------------------------------
(***************************************************************************)
(* The mixes of requests that meet in one container.                       *)
(***************************************************************************)
EXTENDS Console

Mix(f, bytes) ==
    [ops |-> [op \in AllOps |-> IF op \in DOMAIN f THEN f[op] ELSE 0],
     bytes |-> bytes,
     auto_remove |-> IF "logs" \in DOMAIN f THEN BOOLEAN ELSE {FALSE}]

\* One attached session that carries bytes, while the container stops.
StreamMix == Mix([attach |-> 1, stop |-> 1], TRUE)

\* Two attaches, or an attach and a command, a rebuild, and a delete.
TokenMix == Mix([attach |-> 2, rebuild |-> 1, delete |-> 1], FALSE)

ReachMix == Mix([attach |-> 1, exec |-> 1, rebuild |-> 1], FALSE)

\* Commands, their terminals, and a container that goes.
ExecMix == Mix([exec |-> 2, run |-> 1, delete |-> 1], FALSE)

\* Queries of a container that is stopped, started, rebuilt or lost.
LogsMix == Mix([logs |-> 1, top |-> 1, stop |-> 1, rebuild |-> 1], FALSE)

StatsMix == Mix([stats |-> 1, resize |-> 1, stop |-> 1, start |-> 1], FALSE)

TtyMix == Mix([run |-> 1, exec_resize |-> 1, stop |-> 1], FALSE)

\* Files, with clients of both kinds.
FileMix == Mix([put24 |-> 1, put25 |-> 1, get24 |-> 1, get25 |-> 1], FALSE)

MCMixes == {StreamMix, TokenMix, ReachMix, ExecMix, LogsMix, StatsMix,
            TtyMix, FileMix}
=============================================================================
