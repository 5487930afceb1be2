------------------------------ MODULE MCImages ------------------------------
(***************************************************************************)
(* Two references of a registry, a container that is committed, and the    *)
(* mixes of requests that meet in the same images, or the same container.  *)
(***************************************************************************)
EXTENDS Images

CONSTANTS r1, r2, a, b

Mix(f, wishes, n) ==
    [ops |-> [op \in AllOps |-> IF op \in DOMAIN f THEN f[op] ELSE 0],
     wishes |-> wishes, events |-> n]

\* Rows of one image, and a container that pulls it again.
RowsMix ==
    Mix([pull |-> 2, unpull |-> 1, create |-> 1], {<<r1, "always", FALSE>>}, 1)

\* A snapshot that is pulled, removed, and asked for again.
SnapshotMix ==
    Mix([commit |-> 1, pull |-> 1, unpull |-> 1, create |-> 1],
        {<<1, "ifnotpresent", FALSE>>}, 1)

\* Two snapshots under one name.
NameMix ==
    Mix([commit |-> 2, create |-> 1],
        {<<1, "always", FALSE>>, <<1, "ifnotpresent", FALSE>>,
         <<Snap, "never", FALSE>>}, 1)

\* Two containers from one snapshot.
LoadMix ==
    Mix([commit |-> 1, create |-> 2],
        {<<1, "always", FALSE>>, <<1, "ifnotpresent", FALSE>>}, 2)

\* One container.
BoxMix == Mix([commit |-> 1, pause |-> 1, unpause |-> 1, remove |-> 2], {}, 1)

\* A private registry, and what is there already.
LoginMix ==
    Mix([create |-> 2, login |-> 2],
        {<<r1, "always", TRUE>>, <<r1, "ifnotpresent", FALSE>>,
         <<r2, "never", FALSE>>}, 1)

MCMixes == {RowsMix, SnapshotMix, NameMix, LoadMix, BoxMix, LoginMix}
=============================================================================
