----------------------------- MODULE MCNetworks -----------------------------
(***************************************************************************)
(* Two containers of different projects and the networks they share.       *)
(***************************************************************************)
EXTENDS Networks, TLC

CONSTANTS c1, c2, n1, n2, u

MCNetOf == [p \in UserPorts |-> n1]

MCProjectOf == (c1 :> "p1") @@ (c2 :> "p2") @@ (Admin :> "admin")

MCMaxRequests == (c1 :> 4) @@ (c2 :> 2) @@ (Admin :> 1)

MCWishes == (c1 :> {n1, n2}) @@ (c2 :> {n1})

MCMaxNets == (c1 :> 2) @@ (c2 :> 1)
=============================================================================
