-------------------------- MODULE MCResourceTracker --------------------------
(* Instances of ResourceTracker for TLC.                                    *)
EXTENDS ResourceTracker

CONSTANTS small, large, other

\* Two containers of which the limit of 3 admits one, beside one that asks for
\* nothing.
ContendingDemand == [c \in Containers |-> IF c = small THEN 0 ELSE 2]

=============================================================================
