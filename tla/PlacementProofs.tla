-------------------------- MODULE PlacementProofs ---------------------------
(***************************************************************************)
(* Proofs about Placement, for any providers, traits, faults and bounds:   *)
(* the report of a node keeps the traits that were set externally.         *)
(***************************************************************************)
EXTENDS Placement, TLAPS

-----------------------------------------------------------------------------
(* The inductive invariant                                                  *)

\* What is known of the node's traits is true, or the next write of them is
\* refused: a write names the generation of the cache.
Match(ts) ==
    rp[Root] # None =>
        /\ cache[Root].gen <= rp[Root].gen
        /\ cache[Root].gen = rp[Root].gen => rp[Root].traits \cap Custom = ts \cap Custom

\* Nobody but the report creates nested providers or gives them anything.
Nested ==
    \A k \in Kids :
        /\ rp[k] # None => rp[Root] # None /\ rp[k].aggs = {} /\ rp[k].traits = {}
        /\ cache[k] # None => cache[k].aggs = {} /\ cache[k].traits = {}

\* Whoever knows the node knows what is nested below it, so that it is not
\* read again between the driver's copy and the writes.
KidsKnown == cache[Root] # None => \A k \in Kids : rp[k] # None => cache[k] # None

\* A node that is not stale is known as it is.
Settled == Root \in fresh => cache[Root] # None /\ Match(cache[Root].traits)

NodeInv == Nested /\ KidsKnown /\ Settled

\* Only the node's own provider is read, or created, before the driver's copy,
\* and only providers that Placement does not have are after it.
Ensuring ==
    /\ th.pc \in {"ensure", "create"} =>
          IF th.back = "driver" THEN th.p = Root ELSE th.p \in Kids /\ rp[th.p] = None
    /\ th.pc = "create" => rp[th.p] = None /\ (th.p = Root => Root \notin fresh)

Refreshing == Reading \cup {"refresh", "sharing", "share"}

\* A refresh reads what the cache has, the node only before the driver's copy
\* and while it is stale, and comes to its end with a node that is not stale.
RefreshInv ==
    /\ th.pc \in Refreshing =>
          /\ th.todo \subseteq Tree \cap Known(cache)
          /\ Root \in th.todo => Root \notin fresh /\ th.back = "driver"
          /\ th.back = "driver" => \/ Root \in fresh \/ Root \in th.todo
                                   \/ th.pc # "refresh" /\ th.at = Root
    /\ th.pc \in Refreshing \ {"refresh"} =>
          /\ th.at \in Tree \ th.todo /\ cache[th.at] # None
          /\ th.at = Root => Root \notin fresh /\ th.back = "driver"
    /\ th.pc \in Reading => cache[th.cur] # None /\ th.cur \in {th.at} \cup Sharers
    /\ th.pc = "sharing" => th.cur = th.at

\* The node's associations are read, those of its sharing providers are not.
NodeRead ==
    /\ th.at = Root
    /\ th.pc \in {"sharing", "share"} \/ (th.pc \in Reading /\ th.cur # Root)

ReadInv == NodeRead => Match(cache[Root].traits)

\* From the driver's copy to the last write: what will be written for the
\* node, who is still to be created or dropped, and that the rest is cached.
Updating ==
    /\ th.pc \in {"idle", "driver"} => th.back = "driver"
    /\ th.pc = "driver" => Root \in fresh
    /\ th.pc \in {"add", "remove", "write"} \cup Writing => th.back = "add"
    /\ th.pc \in {"remove", "write"} \cup Writing =>
          th.add = {} /\ th.todo \subseteq Known(th.new)
    /\ th.pc \in Writing => th.p \in Known(th.new)

CopyInv ==
    th.back = "add" =>
        /\ cache[Root] # None /\ th.new[Root] # None /\ Match(th.new[Root].traits)
        /\ \A k \in Kids : th.new[k] # None => th.new[k].aggs = {} /\ th.new[k].traits = {}
        /\ th.add \subseteq Kids \cap Known(th.new) /\ \A k \in th.add : rp[k] = None
        /\ th.del \subseteq Kids \ Known(th.new)
        /\ th.pc \in {"ensure", "create"} => th.p \notin th.add
        /\ \A q \in Known(th.new) \ Known(cache) :
              q \in th.add \/ (th.pc \in {"ensure", "create"} /\ th.p = q)

Inv == NodeInv /\ Ensuring /\ RefreshInv /\ ReadInv /\ Updating /\ CopyInv

IInv == TypeOK /\ Inv

\* What CustomTraitsKept says of one step.
Keeps ==
    \A p \in Tree : rp[p] # None /\ rp'[p] # None =>
          rp[p].traits \cap Custom = rp'[p].traits \cap Custom \/ AdminSetsTraits

-----------------------------------------------------------------------------
(* Providers, and records                                                   *)

LEMMA Names ==
    /\ Root \in Providers /\ Root \in Tree /\ Root \notin Kids /\ Root \notin Sharers
    /\ Tree \subseteq Providers /\ Tree = {Root} \cup Kids
    /\ Kids \subseteq Providers /\ Sharers \subseteq Providers
    /\ Kids \cap Sharers = {} /\ Sharers \cap Tree = {}
    /\ Providers = {Root} \cup Kids \cup Sharers
BY PlacementAssumption DEF Providers, Tree

\* None is no entry of either table.
LEMMA NotNone ==
    /\ \A e \in Entry : e # None
    /\ \A e \in Provider : e # None
BY DEF None, Entry, Provider

LEMMA BareEntry ==
    ASSUME NEW g \in Nat
    PROVE  /\ Bare(g) \in Entry /\ Bare(g).gen = g /\ Bare(g).aggs = {} /\ Bare(g).traits = {}
BY DEF Bare, Entry, Inventories, NoInventory

LEMMA IdleThread ==
    /\ Idle \in Thread /\ Idle.pc = "idle" /\ Idle.back = "driver" /\ Idle.p = Root
    /\ \A n \in 1..MaxTries :
          LET t == [Idle EXCEPT !.pc = "ensure", !.try = n]
          IN t \in Thread /\ t.pc = "ensure" /\ t.back = "driver" /\ t.p = Root
<1>1. 1 \in 1..MaxTries BY PlacementAssumption
<1>2. Idle \in Thread BY <1>1, Names DEF Idle, Thread, Reading, Writing
<1>3. Idle.pc = "idle" /\ Idle.back = "driver" /\ Idle.p = Root BY DEF Idle
<1>4. ASSUME NEW n \in 1..MaxTries
      PROVE  LET t == [Idle EXCEPT !.pc = "ensure", !.try = n]
             IN t \in Thread /\ t.pc = "ensure" /\ t.back = "driver" /\ t.p = Root
  <2>1. [Idle EXCEPT !.pc = "ensure", !.try = n] \in Thread BY <1>2 DEF Thread
  <2> QED BY <2>1, <1>2, <1>3 DEF Thread
<1> QED BY <1>2, <1>3, <1>4

-----------------------------------------------------------------------------
(* The end of a report                                                      *)

\* A thread that is idle or starts again needs only what holds of the node.
LEMMA Rests ==
    ASSUME th'.pc \in {"idle", "ensure"}, th'.back = "driver", th'.p = Root, NodeInv'
    PROVE  Inv'
BY Names DEF Inv, Ensuring, RefreshInv, ReadInv, NodeRead, Updating, CopyInv, Refreshing, Reading,
             Writing

LEMMA EscapeRests ==
    ASSUME TypeOK, th' = Idle, NodeInv'
    PROVE  th' \in Thread /\ Inv'
BY IdleThread, Rests

LEMMA RedriveRests ==
    ASSUME TypeOK, Redrive, NodeInv'
    PROVE  th' \in Thread /\ Inv'
<1>1. th.try \in 1..MaxTries BY DEF TypeOK, Thread
<1>2. CASE th.try < MaxTries
  <2>1. th.try + 1 \in 1..MaxTries BY <1>1, <1>2, PlacementAssumption
  <2>2. th' = [Idle EXCEPT !.pc = "ensure", !.try = th.try + 1] BY <1>2 DEF Redrive
  <2> QED BY <2>1, <2>2, IdleThread, Rests
<1>3. CASE ~(th.try < MaxTries) BY <1>3, IdleThread, Rests DEF Redrive
<1> QED BY <1>2, <1>3

\* A cache that is cleared knows less of the node, or nothing.
LEMMA Clears ==
    ASSUME IInv, NEW p \in Providers, Clear(p), UNCHANGED rp
    PROVE  /\ cache' \in [Providers -> {None} \cup Entry] /\ fresh' \subseteq Tree
           /\ NodeInv'
<1>1. CASE cache[p] = None
  <2>1. cache' = cache /\ fresh' = fresh BY <1>1 DEF Clear
  <2> QED BY <2>1 DEF IInv, TypeOK, Inv, NodeInv, Nested, KidsKnown, Settled, Match
<1>2. CASE cache[p] # None /\ p \in Tree
  <2>1. cache' = [q \in Providers |-> IF q \in Tree THEN None ELSE cache[q]]
        /\ fresh' = fresh \ Tree
    BY <1>2 DEF Clear, Remove, TreeOf
  <2> QED BY <2>1, Names DEF IInv, TypeOK, Inv, NodeInv, Nested, KidsKnown, Settled, Match
<1>3. CASE cache[p] # None /\ p \notin Tree
  <2>1. cache' = [q \in Providers |-> IF q \in {p} THEN None ELSE cache[q]]
        /\ fresh' = fresh \ {p}
    BY <1>3 DEF Clear, Remove, TreeOf
  <2>2. \A q \in Tree : cache'[q] = cache[q] BY <2>1, <1>3, Names
  <2>3. cache' \in [Providers -> {None} \cup Entry] /\ fresh' \subseteq Tree
    BY <2>1 DEF IInv, TypeOK
  <2> QED BY <2>1, <2>2, <2>3, Names DEF IInv, Inv, NodeInv, Nested, KidsKnown, Settled, Match
<1> QED BY <1>1, <1>2, <1>3

LEMMA SyncFailedRests ==
    ASSUME IInv, NEW p \in Providers, SyncFailed(p), UNCHANGED rp
    PROVE  /\ cache' \in [Providers -> {None} \cup Entry] /\ fresh' \subseteq Tree
           /\ th' \in Thread /\ Inv'
BY Clears, EscapeRests DEF SyncFailed, IInv

LEMMA ConflictRests ==
    ASSUME IInv, NEW p \in Providers, Conflict(p), UNCHANGED rp
    PROVE  /\ cache' \in [Providers -> {None} \cup Entry] /\ fresh' \subseteq Tree
           /\ th' \in Thread /\ Inv'
BY Clears, RedriveRests DEF Conflict, IInv

LEMMA EscapesRest ==
    ASSUME IInv, Escape, UNCHANGED rp
    PROVE  /\ cache' \in [Providers -> {None} \cup Entry] /\ fresh' \subseteq Tree
           /\ th' \in Thread /\ Inv'
<1>1. cache' = cache /\ fresh' = fresh /\ th' = Idle /\ rp' = rp BY DEF Escape
<1>2. NodeInv' BY <1>1 DEF IInv, Inv, NodeInv, Nested, KidsKnown, Settled, Match
<1> QED BY <1>1, <1>2, EscapeRests DEF IInv, TypeOK

LEMMA UnreadRests ==
    ASSUME IInv, Unread, UNCHANGED rp
    PROVE  /\ cache' \in [Providers -> {None} \cup Entry] /\ fresh' \subseteq Tree
           /\ th' \in Thread /\ Inv'
<1>1. th.p \in Providers BY DEF IInv, TypeOK, Thread
<1> QED BY <1>1, EscapesRest, SyncFailedRests DEF Unread

\* Faults and writes are counted.
LEMMA Counted ==
    ASSUME TypeOK
    PROVE  /\ Writes => used' \in [writes : Nat, faults : Nat]
           /\ \A kind : Fails(kind) => used' \in [writes : Nat, faults : Nat]
BY DEF TypeOK, Writes, Fails

\* A step that writes nothing to Placement keeps all traits.
LEMMA Unwritten == ASSUME UNCHANGED rp PROVE Keeps
BY DEF Keeps

-----------------------------------------------------------------------------
(* The other writers                                                        *)

\* Whoever increments the generation makes what is cached unusable.
LEMMA Overtakes ==
    ASSUME IInv, UNCHANGED <<cache, fresh, th>>,
           rp' \in [Providers -> {None} \cup Provider],
           \A q \in Kids : rp'[q] # None =>
               /\ rp[q] # None /\ rp'[q].aggs = rp[q].aggs /\ rp'[q].traits = rp[q].traits,
           rp'[Root] # None =>
               rp[Root] # None /\ (rp'[Root] = rp[Root] \/ rp'[Root].gen = rp[Root].gen + 1),
           rp'[Root] = None => \A q \in Kids : rp'[q] = None
    PROVE  Inv'
<1> USE Names
<1>1. rp[Root] # None => rp[Root].gen \in Nat BY DEF IInv, TypeOK, Provider
<1>2. cache[Root] # None => cache[Root].gen \in Nat BY DEF IInv, TypeOK, Entry
<1>3. ASSUME NEW ts, Match(ts), cache[Root] # None PROVE Match(ts)'
  BY <1>1, <1>2, <1>3 DEF Match
<1>4. NodeInv'
  BY <1>3 DEF IInv, Inv, NodeInv, Nested, KidsKnown, Settled
<1>5. Ensuring' /\ RefreshInv' /\ Updating'
  BY DEF IInv, Inv, Ensuring, RefreshInv, Updating, Known, TypeOK
<1>6. ReadInv'
  BY <1>3 DEF IInv, Inv, ReadInv, NodeRead, RefreshInv, Refreshing, Reading
<1>7. CopyInv'
  BY <1>3 DEF IInv, Inv, CopyInv, Known
<1> QED BY <1>4, <1>5, <1>6, <1>7 DEF Inv

\* A record with one field and the generation replaced.
LEMMA ProviderField ==
    ASSUME NEW r \in Provider, NEW g \in Nat, NEW v,
           NEW f \in {"inv", "aggs", "traits", "used"},
           f = "inv" => v \in Inventories, f = "aggs" => v \in SUBSET {Shared},
           f = "traits" => v \in SUBSET Traits, f = "used" => v \in BOOLEAN
    PROVE  LET e == With(r, f, v, g)
           IN /\ e \in Provider /\ e.gen = g
              /\ e.aggs = IF f = "aggs" THEN v ELSE r.aggs
              /\ e.traits = IF f = "traits" THEN v ELSE r.traits
<1>1. r = [gen |-> r.gen, inv |-> r.inv, aggs |-> r.aggs, traits |-> r.traits, used |-> r.used]
      /\ r.inv \in Inventories /\ r.aggs \in SUBSET {Shared} /\ r.traits \in SUBSET Traits
      /\ r.used \in BOOLEAN
  BY DEF Provider
<1>2. CASE f = "inv"
  <2>1. With(r, f, v, g)
          = [gen |-> g, inv |-> v, aggs |-> r.aggs, traits |-> r.traits, used |-> r.used]
    BY <1>1, <1>2 DEF With
  <2> QED BY <1>1, <1>2, <2>1 DEF Provider
<1>3. CASE f = "aggs"
  <2>1. With(r, f, v, g)
          = [gen |-> g, inv |-> r.inv, aggs |-> v, traits |-> r.traits, used |-> r.used]
    BY <1>1, <1>3 DEF With
  <2> QED BY <1>1, <1>3, <2>1 DEF Provider
<1>4. CASE f = "traits"
  <2>1. With(r, f, v, g)
          = [gen |-> g, inv |-> r.inv, aggs |-> r.aggs, traits |-> v, used |-> r.used]
    BY <1>1, <1>4 DEF With
  <2> QED BY <1>1, <1>4, <2>1 DEF Provider
<1>5. CASE f = "used"
  <2>1. With(r, f, v, g)
          = [gen |-> g, inv |-> r.inv, aggs |-> r.aggs, traits |-> r.traits, used |-> v]
    BY <1>1, <1>5 DEF With
  <2> QED BY <1>1, <1>5, <2>1 DEF Provider
<1> QED BY <1>2, <1>3, <1>4, <1>5

LEMMA EntryField ==
    ASSUME NEW r \in Entry, NEW g \in Nat, NEW v, NEW f \in {"inv", "aggs", "traits"},
           f = "inv" => v \in Inventories, f = "aggs" => v \in SUBSET {Shared},
           f = "traits" => v \in SUBSET Traits
    PROVE  LET e == With(r, f, v, g)
           IN /\ e \in Entry /\ e.gen = g
              /\ e.aggs = IF f = "aggs" THEN v ELSE r.aggs
              /\ e.traits = IF f = "traits" THEN v ELSE r.traits
<1>1. r = [gen |-> r.gen, inv |-> r.inv, aggs |-> r.aggs, traits |-> r.traits]
      /\ r.inv \in Inventories /\ r.aggs \in SUBSET {Shared} /\ r.traits \in SUBSET Traits
  BY DEF Entry
<1>2. CASE f = "inv"
  <2>1. With(r, f, v, g)
          = [gen |-> g, inv |-> v, aggs |-> r.aggs, traits |-> r.traits]
    BY <1>1, <1>2 DEF With
  <2> QED BY <1>1, <1>2, <2>1 DEF Entry
<1>3. CASE f = "aggs"
  <2>1. With(r, f, v, g)
          = [gen |-> g, inv |-> r.inv, aggs |-> v, traits |-> r.traits]
    BY <1>1, <1>3 DEF With
  <2> QED BY <1>1, <1>3, <2>1 DEF Entry
<1>4. CASE f = "traits"
  <2>1. With(r, f, v, g)
          = [gen |-> g, inv |-> r.inv, aggs |-> r.aggs, traits |-> v]
    BY <1>1, <1>4 DEF With
  <2> QED BY <1>1, <1>4, <2>1 DEF Entry
<1> QED BY <1>2, <1>3, <1>4

\* One field of one provider is written, its generation goes up.
LEMMA WrittenField ==
    ASSUME TypeOK, NEW p \in Providers, NEW f \in {"inv", "aggs", "traits", "used"}, NEW v,
           rp[p] # None, rp' = Update(rp, p, f, v, rp[p].gen + 1),
           f = "inv" => v \in Inventories, f = "aggs" => v \in SUBSET {Shared},
           f = "traits" => v \in SUBSET Traits, f = "used" => v \in BOOLEAN
    PROVE  /\ rp' \in [Providers -> {None} \cup Provider]
           /\ rp'[p] # None /\ rp'[p].gen = rp[p].gen + 1
           /\ rp'[p].aggs = IF f = "aggs" THEN v ELSE rp[p].aggs
           /\ rp'[p].traits = IF f = "traits" THEN v ELSE rp[p].traits
           /\ \A q \in Providers \ {p} : rp'[q] = rp[q]
<1>1. PICK r \in Provider : r = rp[p] BY DEF TypeOK
<1>2. PICK g \in Nat : g = rp[p].gen + 1 BY <1>1 DEF Provider
<1>3. PICK e : e = With(r, f, v, g) OBVIOUS
<1>4. rp' = [rp EXCEPT ![p] = e] BY <1>1, <1>2, <1>3 DEF Update
<1>5. /\ e \in Provider /\ e.gen = g
      /\ e.aggs = IF f = "aggs" THEN v ELSE r.aggs
      /\ e.traits = IF f = "traits" THEN v ELSE r.traits
  BY <1>3, ProviderField
<1> QED BY <1>1, <1>2, <1>4, <1>5, NotNone DEF TypeOK

LEMMA Written ==
    ASSUME TypeOK, NEW p \in Providers, NEW f \in {"inv", "aggs", "traits", "used"}, NEW v,
           Write(p, f, v),
           f = "inv" => v \in Inventories, f = "aggs" => v \in SUBSET {Shared},
           f = "traits" => v \in SUBSET Traits, f = "used" => v \in BOOLEAN
    PROVE  /\ rp[p] # None /\ rp' \in [Providers -> {None} \cup Provider]
           /\ rp'[p] # None /\ rp'[p].gen = rp[p].gen + 1
           /\ rp'[p].aggs = IF f = "aggs" THEN v ELSE rp[p].aggs
           /\ rp'[p].traits = IF f = "traits" THEN v ELSE rp[p].traits
           /\ \A q \in Providers \ {p} : rp'[q] = rp[q]
BY WrittenField DEF Write

\* A write to the node that leaves its traits alone.
LEMMA NodeWritten ==
    ASSUME IInv, UNCHANGED <<cache, fresh, node, changed, th, agg>>, Writes,
           rp' \in [Providers -> {None} \cup Provider], rp[Root] # None,
           rp'[Root].gen = rp[Root].gen + 1 /\ rp'[Root] # None,
           \A q \in Providers \ {Root} : rp'[q] = rp[q]
    PROVE  IInv' /\ (rp'[Root].traits = rp[Root].traits => Keeps)
<1>1. Inv' BY Overtakes, Names DEF IInv
<1>2. TypeOK' BY Counted DEF IInv, TypeOK
<1>3. rp'[Root].traits = rp[Root].traits => Keeps BY Names DEF Keeps
<1> QED BY <1>1, <1>2, <1>3 DEF IInv

LEMMA AdminSetsRatioKeeps == ASSUME IInv, AdminSetsRatio PROVE IInv' /\ Keeps
<1>1. PICK r \in Ratios : Write(Root, "inv", [rp[Root].inv EXCEPT !.ratio = r])
  BY DEF AdminSetsRatio
<1>2. rp[Root] # None BY DEF AdminSetsRatio
<1>3. rp[Root].inv \in Inventories BY <1>2, Names DEF IInv, TypeOK, Provider
<1>4. [rp[Root].inv EXCEPT !.ratio = r] \in Inventories BY <1>3 DEF Inventories
<1>5. /\ rp' \in [Providers -> {None} \cup Provider]
      /\ rp'[Root] # None /\ rp'[Root].gen = rp[Root].gen + 1 /\ rp'[Root].traits = rp[Root].traits
      /\ \A q \in Providers \ {Root} : rp'[q] = rp[q]
  BY <1>1, <1>4, Written, Names DEF IInv
<1> QED BY <1>2, <1>5, NodeWritten DEF AdminSetsRatio

LEMMA AdminSetsTraitsKeeps == ASSUME IInv, AdminSetsTraits PROVE IInv' /\ Keeps
<1>1. PICK ts \in SUBSET Traits : Write(Root, "traits", ts)
  <2>1. rp[Root].traits \in SUBSET Traits BY Names DEF AdminSetsTraits, IInv, TypeOK, Provider
  <2>2. PICK t \in Custom \cup {"disabled"} :
          \/ Write(Root, "traits", rp[Root].traits \cup {t})
          \/ Write(Root, "traits", rp[Root].traits \ {t})
    BY DEF AdminSetsTraits
  <2>3. PICK ts \in SUBSET Traits : ts = rp[Root].traits \cup {t} BY <2>1 DEF Traits
  <2>4. PICK us \in SUBSET Traits : us = rp[Root].traits \ {t} BY <2>1
  <2> QED BY <2>2, <2>3, <2>4
<1>2. rp[Root] # None BY DEF AdminSetsTraits
<1>5. /\ rp' \in [Providers -> {None} \cup Provider]
      /\ rp'[Root] # None /\ rp'[Root].gen = rp[Root].gen + 1
      /\ \A q \in Providers \ {Root} : rp'[q] = rp[q]
  BY <1>1, Written, Names DEF IInv
<1>6. IInv' BY <1>2, <1>5, NodeWritten DEF AdminSetsTraits
<1> QED BY <1>6 DEF Keeps

LEMMA AllocateKeeps == ASSUME IInv, Allocate PROVE IInv' /\ Keeps
<1>1. PICK p \in Tree, b \in BOOLEAN : Write(p, "used", b) BY DEF Allocate
<1>2. /\ rp[p] # None /\ rp' \in [Providers -> {None} \cup Provider]
      /\ rp'[p] # None /\ rp'[p].gen = rp[p].gen + 1
      /\ rp'[p].aggs = rp[p].aggs /\ rp'[p].traits = rp[p].traits
      /\ \A q \in Providers \ {p} : rp'[q] = rp[q]
  BY <1>1, Written, Names DEF IInv
<1>3. Keeps BY <1>2, Names DEF Keeps
<1>4. CASE p = Root BY <1>2, <1>3, <1>4, NodeWritten DEF Allocate
<1>5. CASE p \in Kids
  <2>1. rp[Root] # None BY <1>2, <1>5 DEF IInv, Inv, NodeInv, Nested
  <2>2. rp'[Root] = rp[Root] BY <1>2, <1>5, Names
  <2>3. \A q \in Kids : rp'[q] # None =>
          rp[q] # None /\ rp'[q].aggs = rp[q].aggs /\ rp'[q].traits = rp[q].traits
    BY <1>2, <1>5, Names
  <2>4. cache' = cache /\ fresh' = fresh /\ th' = th /\ UNCHANGED <<cache, fresh, th>>
    BY DEF Allocate
  <2>5. Inv' BY <1>2, <2>1, <2>2, <2>3, <2>4, Overtakes
  <2>6. TypeOK' BY <1>2, Counted DEF Allocate, IInv, TypeOK
  <2> QED BY <2>5, <2>6, <1>3 DEF IInv
<1> QED BY <1>4, <1>5, <1>1, Names

LEMMA DeleteResourceProviderKeeps == ASSUME IInv, DeleteResourceProvider PROVE IInv' /\ Keeps
<1>1. \A k \in Kids : rp[k] = None BY Names DEF DeleteResourceProvider, Known
<1>2. rp' = [q \in Providers |-> IF q \in {Root} THEN None ELSE rp[q]]
  BY DEF DeleteResourceProvider, Remove
<1>3. rp' \in [Providers -> {None} \cup Provider] BY <1>2 DEF IInv, TypeOK
<1>4. rp'[Root] = None /\ \A q \in Providers \ {Root} : rp'[q] = rp[q] BY <1>2, Names
<1>5. UNCHANGED <<cache, fresh, th>> BY DEF DeleteResourceProvider
<1>6. \A k \in Kids : rp'[k] = None BY <1>1, <1>4, Names
<1>7. Inv' BY <1>3, <1>4, <1>5, <1>6, Overtakes
<1>8. TypeOK' BY <1>3, Counted DEF DeleteResourceProvider, IInv, TypeOK
<1>9. Keeps BY <1>4, <1>6, Names DEF Keeps
<1> QED BY <1>7, <1>8, <1>9 DEF IInv

\* Steps that change neither Placement nor the cache nor the thread.
LEMMA Aside ==
    ASSUME IInv, UNCHANGED <<rp, cache, fresh, th>>
    PROVE  Inv' /\ Keeps
<1>1. Inv' BY DEF IInv, Inv, NodeInv, Nested, KidsKnown, Settled, Match, Ensuring, RefreshInv,
         ReadInv, NodeRead, Updating, CopyInv, Known
<1> QED BY <1>1, Unwritten

LEMMA AggregateHostKeeps == ASSUME IInv, AggregateHost PROVE IInv' /\ Keeps
<1>1. PICK b \in BOOLEAN : agg' = [agg EXCEPT !.pc = "read", !.add = b, !.try = 1]
  BY DEF AggregateHost
<1>2. 1 \in 1..MaxTries BY PlacementAssumption
<1>3. agg' \in Caller BY <1>1, <1>2 DEF IInv, TypeOK, Caller
<1>4. TypeOK' BY <1>3, Counted DEF AggregateHost, IInv, TypeOK
<1> QED BY <1>4, Aside DEF AggregateHost, IInv

LEMMA AggregateReadKeeps == ASSUME IInv, AggregateRead PROVE IInv' /\ Keeps
<1>1. agg' \in Caller
  <2>1. CASE rp[Root] = None BY <2>1 DEF AggregateRead, IInv, TypeOK, Caller
  <2>2. CASE rp[Root] # None
    <3>1. rp[Root].aggs \in SUBSET {Shared} /\ rp[Root].gen \in Nat
      BY <2>2, Names DEF IInv, TypeOK, Provider
    <3> QED BY <3>1 DEF AggregateRead, IInv, TypeOK, Caller
  <2> QED BY <2>1, <2>2
<1>2. TypeOK' BY <1>1 DEF AggregateRead, IInv, TypeOK
<1> QED BY <1>2, Aside DEF AggregateRead, IInv

LEMMA AggregateWriteKeeps == ASSUME IInv, AggregateWrite PROVE IInv' /\ Keeps
<1>1. agg' \in Caller
  <2>1. agg \in Caller BY DEF IInv, TypeOK
  <2>2. agg' = [agg EXCEPT !.pc = "idle"]
        \/ (agg.try < MaxTries /\ agg' = [agg EXCEPT !.pc = "read", !.try = agg.try + 1])
    BY DEF AggregateWrite
  <2>3. agg.try < MaxTries => agg.try + 1 \in 1..MaxTries BY <2>1, PlacementAssumption DEF Caller
  <2> QED BY <2>1, <2>2, <2>3 DEF Caller
<1>2. CASE UNCHANGED rp
  <2>1. TypeOK' BY <1>1, <1>2 DEF AggregateWrite, IInv, TypeOK
  <2> QED BY <2>1, <1>2, Aside DEF AggregateWrite, IInv
<1>3. CASE rp' # rp
  <2>1. PICK new : new = IF agg.add THEN agg.aggs \cup {Shared} ELSE agg.aggs \ {Shared} OBVIOUS
  <2>2. Write(Root, "aggs", new) BY <1>3, <2>1 DEF AggregateWrite
  <2>3. new \in SUBSET {Shared} BY <2>1 DEF IInv, TypeOK, Caller
  <2>4. /\ rp[Root] # None /\ rp' \in [Providers -> {None} \cup Provider]
        /\ rp'[Root] # None /\ rp'[Root].gen = rp[Root].gen + 1
        /\ rp'[Root].traits = rp[Root].traits
        /\ \A q \in Providers \ {Root} : rp'[q] = rp[q]
    BY <2>2, <2>3, Written, Names DEF IInv
  <2>5. Inv' BY <2>4, Overtakes, Names DEF AggregateWrite, IInv
  <2>6. TypeOK' BY <1>1, <2>4 DEF AggregateWrite, IInv, TypeOK
  <2>7. Keeps BY <2>4, Names DEF Keeps
  <2> QED BY <2>5, <2>6, <2>7 DEF IInv
<1> QED BY <1>2, <1>3

LEMMA HostChangeKeeps == ASSUME IInv, HostChange PROVE IInv' /\ Keeps
<1>1. node' \in [total : Totals, disabled : BOOLEAN, kids : SUBSET Kids]
  BY DEF HostChange, IInv, TypeOK
<1>2. TypeOK' BY <1>1, Counted DEF HostChange, IInv, TypeOK
<1> QED BY <1>2, Aside DEF HostChange, IInv

LEMMA NodeChangeKeeps == ASSUME IInv, NodeChange PROVE IInv' /\ Keeps
<1>1. TypeOK' BY DEF NodeChange, IInv, TypeOK
<1> QED BY <1>1, Aside DEF NodeChange, IInv

LEMMA ServiceChangeKeeps == ASSUME IInv, ServiceChange PROVE IInv' /\ Keeps
<1>1. node' \in [total : Totals, disabled : BOOLEAN, kids : SUBSET Kids]
  BY DEF ServiceChange, IInv, TypeOK
<1>2. TypeOK' BY <1>1, Counted DEF ServiceChange, IInv, TypeOK
<1> QED BY <1>2, Aside DEF ServiceChange, IInv

LEMMA ExpireKeeps == ASSUME IInv, NEW p \in Tree, Expire(p) PROVE IInv' /\ Keeps
<1>1. /\ fresh' = fresh \ {p} /\ th.pc \in {"idle", "ensure"}
      /\ rp' = rp /\ cache' = cache /\ th' = th /\ UNCHANGED <<node, changed, agg, used>>
  BY DEF Expire
<1>2. TypeOK' BY <1>1 DEF IInv, TypeOK
<1>3. NodeInv' BY <1>1 DEF IInv, Inv, NodeInv, Nested, KidsKnown, Settled, Match
<1>4. Ensuring' /\ RefreshInv' /\ ReadInv' /\ Updating'
  BY <1>1 DEF IInv, Inv, Ensuring, RefreshInv, ReadInv, NodeRead, Updating, Known,
       Refreshing, Reading, Writing
<1>5. CopyInv' BY <1>1 DEF IInv, Inv, CopyInv, Match, Known
<1> QED BY <1>1, <1>2, <1>3, <1>4, <1>5, Unwritten DEF IInv, Inv

LEMMA RestartKeeps == ASSUME IInv, Restart PROVE IInv' /\ Keeps
<1>1. /\ cache' = [p \in Providers |-> None] /\ fresh' = {} /\ th' = Idle /\ rp' = rp
      /\ changed' = TRUE /\ UNCHANGED <<node, agg>>
  BY DEF Restart
<1>2. NodeInv' BY <1>1, Names DEF IInv, Inv, NodeInv, Nested, KidsKnown, Settled
<1>3. th' \in Thread /\ Inv' BY <1>1, <1>2, EscapeRests DEF IInv
<1>4. TypeOK' BY <1>1, <1>3, Counted DEF Restart, IInv, TypeOK
<1> QED BY <1>1, <1>3, <1>4, Unwritten DEF IInv

-----------------------------------------------------------------------------
(* The report: reading                                                      *)

LEMMA NodeKept ==
    ASSUME IInv, UNCHANGED <<rp, cache, fresh>>
    PROVE  NodeInv' /\ \A ts : Match(ts) => Match(ts)'
BY DEF IInv, Inv, NodeInv, Nested, KidsKnown, Settled, Match

LEMMA AuditKeeps == ASSUME IInv, Audit PROVE IInv' /\ Keeps
<1>1. /\ th' = [Idle EXCEPT !.pc = "ensure"] /\ changed' = FALSE
      /\ UNCHANGED <<rp, cache, fresh>> /\ UNCHANGED <<node, agg, used>>
  BY DEF Audit
<1>2. th' \in Thread /\ th'.pc = "ensure" /\ th'.back = "driver" /\ th'.p = Root
  BY <1>1, IdleThread DEF Thread
<1>3. Inv' BY <1>1, <1>2, NodeKept, Rests
<1>4. TypeOK' BY <1>1, <1>2 DEF IInv, TypeOK
<1> QED BY <1>1, <1>3, <1>4, Unwritten DEF IInv

LEMMA EnsureCachedKeeps == ASSUME IInv, EnsureCached PROVE IInv' /\ Keeps
<1> DEFINE todo == {q \in Known(cache) \cap Below(th.p) : Stale(q)}
<1>1. /\ th' = [th EXCEPT !.todo = todo, !.pc = "refresh"]
      /\ th.pc = "ensure" /\ cache[th.p] # None /\ th.p \in fresh
      /\ UNCHANGED <<rp, cache, fresh>> /\ UNCHANGED <<node, changed, agg, used>>
  BY DEF EnsureCached, Stale
<1>2. todo \subseteq Providers /\ todo \subseteq Known(cache) /\ \A q \in todo : q \notin fresh
  BY DEF Known, Stale
<1>3. th.p \in Tree /\ (th.back = "driver" => th.p = Root) /\ (th.back # "driver" => th.p \in Kids)
  BY <1>1, Names DEF IInv, Inv, Ensuring
<1>4. todo \subseteq Tree /\ (th.p # Root => todo \subseteq {th.p}) BY <1>3, Names DEF Below
<1> HIDE DEF todo
<1>5. th' \in Thread BY <1>1, <1>2 DEF IInv, TypeOK, Thread
<1>6. /\ th'.pc = "refresh" /\ th'.todo = todo
      /\ th'.back = th.back /\ th'.p = th.p /\ th'.new = th.new /\ th'.add = th.add
      /\ th'.del = th.del /\ th'.at = th.at /\ th'.cur = th.cur
  BY <1>1 DEF IInv, TypeOK, Thread
<1>7. NodeInv' /\ \A ts : Match(ts) => Match(ts)' BY <1>1, NodeKept
<1>8. Ensuring' /\ ReadInv' /\ Updating'
  BY <1>6 DEF Ensuring, ReadInv, NodeRead, Updating, Reading, Writing
<1>9. RefreshInv'
  <2>1. Known(cache)' = Known(cache) BY <1>1 DEF Known
  <2> QED BY <1>1, <1>2, <1>3, <1>4, <1>6, <2>1, Names DEF RefreshInv, Refreshing, Reading
<1>10. CopyInv'
  <2>1. ASSUME th.back = "add" PROVE th.p \notin Known(th.new) \ Known(cache)
    BY <1>1 DEF Known
  <2> QED BY <1>1, <1>6, <1>7, <2>1 DEF CopyInv, IInv, Inv, Known
<1>11. TypeOK' BY <1>1, <1>5 DEF IInv, TypeOK
<1> QED BY <1>1, <1>7, <1>8, <1>9, <1>10, <1>11, Unwritten DEF IInv, Inv

LEMMA EnsureReadKeeps == ASSUME IInv, EnsureRead PROVE IInv' /\ Keeps
<1>0. /\ th.pc = "ensure" /\ (cache[th.p] = None \/ th.p \notin fresh)
      /\ rp' = rp /\ UNCHANGED rp /\ UNCHANGED <<node, changed, agg>>
  BY DEF EnsureRead, Stale
<1>1. th.p \in Tree /\ (th.back = "driver" => th.p = Root)
      /\ (th.back # "driver" => th.p \in Kids /\ rp[th.p] = None)
  BY <1>0, Names DEF IInv, Inv, Ensuring, EnsureRead
<1>2. Root \in fresh => th.p # Root
  BY <1>0 DEF IInv, Inv, NodeInv, Settled
<1>3. CASE /\ rp[th.p] # None
           /\ LET found == Known(rp) \cap TreeOf(th.p)
              IN /\ cache' = Populate(cache, found)
                 /\ th' = [th EXCEPT !.todo = found, !.pc = "refresh"]
           /\ UNCHANGED <<fresh, used>>
  <2> DEFINE found == Known(rp) \cap Tree
  <2>1. th.p = Root /\ th.back = "driver" /\ rp[Root] # None /\ Root \notin fresh
    BY <1>1, <1>2, <1>3 DEF IInv, TypeOK, Thread
  <2>2. cache' = Populate(cache, found) /\ th' = [th EXCEPT !.todo = found, !.pc = "refresh"]
        /\ fresh' = fresh /\ used' = used
    BY <1>3, <2>1, Names DEF TreeOf
  <2>3. /\ found \subseteq Tree /\ found \subseteq Providers /\ Root \in found
        /\ \A q \in found : rp[q] # None
        /\ \A q \in Tree \ found : rp[q] = None
    BY <2>1, Names DEF Known
  <2>4. \A q \in found : rp[q] \in Provider /\ rp[q].gen \in Nat
    BY <2>3 DEF IInv, TypeOK, Provider
  <2> HIDE DEF found
  <2>5. cache' = [p \in Providers |->
           IF p \in found THEN Bare(rp[p].gen)
           ELSE IF \E q \in found : p \in Below(q) THEN None ELSE cache[p]]
    BY <2>2 DEF Populate
  <2>6. /\ \A q \in found : cache'[q] = Bare(rp[q].gen)
        /\ \A q \in Tree \ found : cache'[q] = None
    <3>1. \A q \in Tree : q \in Below(Root) BY DEF Below
    <3> QED BY <2>3, <2>5, <3>1, Names
  <2>7. \A q \in found : cache'[q] \in Entry /\ cache'[q] # None /\ cache'[q].aggs = {}
                         /\ cache'[q].traits = {}
    BY <2>4, <2>6, BareEntry, NotNone
  <2>8. cache' \in [Providers -> {None} \cup Entry]
    BY <2>4, <2>5, BareEntry DEF IInv, TypeOK
  <2>9. th' \in Thread BY <2>2, <2>3 DEF IInv, TypeOK, Thread
  <2>10. th'.pc = "refresh" /\ th'.todo = found /\ th'.back = "driver"
    BY <2>1, <2>2 DEF IInv, TypeOK, Thread
  <2>11. NodeInv'
    <3>1. Nested' BY <2>3, <2>6, <2>7, <1>0, Names DEF IInv, Inv, NodeInv, Nested
    <3>2. KidsKnown' BY <2>3, <2>7, <1>0, Names DEF KidsKnown
    <3>3. Settled' BY <2>1, <2>2 DEF Settled
    <3> QED BY <3>1, <3>2, <3>3 DEF NodeInv
  <2>12. Ensuring' /\ ReadInv' /\ Updating' /\ CopyInv'
    BY <2>10 DEF Ensuring, ReadInv, NodeRead, Updating, CopyInv, Reading, Writing
  <2>13. RefreshInv'
    <3>1. found \subseteq Known(cache)' BY <2>3, <2>7 DEF Known
    <3> QED BY <2>1, <2>2, <2>3, <2>10, <3>1 DEF RefreshInv, Refreshing, Reading
  <2>14. TypeOK' BY <1>0, <2>2, <2>8, <2>9 DEF IInv, TypeOK
  <2> QED BY <2>11, <2>12, <2>13, <2>14, <1>0, Unwritten DEF IInv, Inv
<1>4. CASE /\ rp[th.p] = None
           /\ th' = [th EXCEPT !.pc = "create"]
           /\ UNCHANGED <<cache, fresh, used>>
  <2>1. th' \in Thread BY <1>4 DEF IInv, TypeOK, Thread
  <2>2. /\ th'.pc = "create" /\ th'.todo = th.todo
        /\ th'.back = th.back /\ th'.p = th.p /\ th'.new = th.new /\ th'.add = th.add
        /\ th'.del = th.del
    BY <1>4 DEF IInv, TypeOK, Thread
  <2>3. NodeInv' /\ \A ts : Match(ts) => Match(ts)' BY <1>0, <1>4, NodeKept
  <2>4. Ensuring' BY <1>0, <1>1, <1>2, <1>4, <2>2 DEF Ensuring
  <2>5. RefreshInv' /\ ReadInv' /\ Updating'
    BY <2>2 DEF RefreshInv, ReadInv, NodeRead, Updating, Refreshing, Reading, Writing
  <2>6. CopyInv' BY <1>0, <1>4, <2>2, <2>3 DEF CopyInv, IInv, Inv, Known
  <2>7. TypeOK' BY <1>0, <1>4, <2>1 DEF IInv, TypeOK
  <2> QED BY <2>3, <2>4, <2>5, <2>6, <2>7, <1>0, Unwritten DEF IInv, Inv
<1>5. CASE Fails("get") /\ Unread
  <2>1. TypeOK' BY <1>0, <1>5, UnreadRests, Counted DEF IInv, TypeOK
  <2> QED BY <2>1, <1>0, <1>5, UnreadRests, Unwritten DEF IInv
<1> QED BY <1>3, <1>4, <1>5 DEF EnsureRead

LEMMA CreateResourceProviderKeeps == ASSUME IInv, CreateResourceProvider PROVE IInv' /\ Keeps
<1> DEFINE blank == [gen |-> 0, inv |-> NoInventory, aggs |-> {}, traits |-> {}, used |-> FALSE]
           created == [rp EXCEPT ![th.p] = blank]
<1>0. th.pc = "create" /\ UNCHANGED <<node, changed, agg>> BY DEF CreateResourceProvider
<1>1. th.p \in Tree /\ th.p \in Providers /\ rp[th.p] = None
      /\ (th.back = "driver" => th.p = Root /\ Root \notin fresh)
      /\ (th.back # "driver" => th.p \in Kids)
  BY <1>0, Names DEF IInv, Inv, Ensuring
<1>2. blank \in Provider /\ blank # None /\ blank.gen = 0 /\ blank.aggs = {} /\ blank.traits = {}
  BY DEF Provider, Inventories, NoInventory, None
<1> HIDE DEF blank
<1>3. /\ created \in [Providers -> {None} \cup Provider] /\ created[th.p] = blank
      /\ \A q \in Providers \ {th.p} : created[q] = rp[q]
  BY <1>1, <1>2 DEF IInv, TypeOK
<1>4. rp' = created => Keeps BY <1>1, <1>3, Names DEF Keeps
<1> HIDE DEF created
<1>5. CASE /\ th.p \notin Kids \/ rp[Root] # None
           /\ rp' = created
           /\ fresh' = fresh \cup {th.p}
           /\ cache' = [q \in Providers |->
                            CASE q = th.p -> Bare(0)
                              [] q # th.p /\ q \in Below(th.p) -> None
                              [] OTHER -> cache[q]]
           /\ th' = [th EXCEPT !.todo = {}, !.pc = "refresh"]
           /\ UNCHANGED used
  <2>1. cache' = [q \in Providers |->
                    IF q = th.p THEN Bare(0) ELSE IF q \in Below(th.p) THEN None ELSE cache[q]]
    BY <1>5
  <2>2. cache' \in [Providers -> {None} \cup Entry] BY <2>1, BareEntry DEF IInv, TypeOK
  <2>3. /\ cache'[th.p] # None /\ cache'[th.p].gen = 0 /\ cache'[th.p].aggs = {}
        /\ cache'[th.p].traits = {}
    BY <2>1, <1>1, BareEntry, NotNone
  <2>4. th' \in Thread BY <1>5 DEF IInv, TypeOK, Thread
  <2>5. /\ th'.pc = "refresh" /\ th'.todo = {} /\ th'.back = th.back /\ th'.p = th.p
        /\ th'.new = th.new /\ th'.add = th.add /\ th'.del = th.del
    BY <1>5 DEF IInv, TypeOK, Thread
  <2>6. Ensuring' /\ ReadInv' /\ Updating'
    BY <2>5 DEF Ensuring, ReadInv, NodeRead, Updating, Reading, Writing
  <2>7. TypeOK' BY <1>0, <1>1, <1>3, <1>5, <2>2, <2>4 DEF IInv, TypeOK
  <2>8. CASE th.back = "driver"
    <3>1. th.p = Root /\ rp[Root] = None BY <1>1, <2>8
    <3>2. \A k \in Kids : rp'[k] = None /\ cache'[k] = None
      <4>1. \A k \in Kids : k \in Below(Root) /\ k # Root BY Names DEF Below
      <4>2. \A k \in Kids : rp[k] = None BY <3>1 DEF IInv, Inv, NodeInv, Nested
      <4> QED BY <1>3, <1>5, <2>1, <3>1, <4>1, <4>2, Names
    <3>3. rp'[Root] = blank /\ Root \in fresh' BY <1>3, <1>5, <3>1
    <3>4. NodeInv'
      BY <1>2, <2>3, <3>1, <3>2, <3>3 DEF NodeInv, Nested, KidsKnown, Settled, Match
    <3>5. RefreshInv' /\ CopyInv'
      BY <2>5, <2>8, <3>3 DEF RefreshInv, CopyInv, Refreshing, Reading
    <3> QED BY <2>6, <2>7, <3>4, <3>5, <1>4, <1>5 DEF IInv, Inv
  <2>9. CASE th.back = "add"
    <3>1. th.p \in Kids /\ rp[Root] # None BY <1>1, <1>5, <2>9
    <3>2. rp'[Root] = rp[Root] /\ cache'[Root] = cache[Root] /\ (Root \in fresh' <=> Root \in fresh)
          /\ \A q \in Providers \ {th.p} : rp'[q] = rp[q] /\ cache'[q] = cache[q]
      BY <1>3, <1>5, <2>1, <3>1, Names DEF Below
    <3>3. rp'[th.p] = blank BY <1>3, <1>5
    <3>4. NodeInv'
      <4>1. Nested' BY <1>2, <2>3, <3>1, <3>2, <3>3, Names DEF IInv, Inv, NodeInv, Nested
      <4>2. KidsKnown' BY <2>3, <3>1, <3>2, Names DEF IInv, Inv, NodeInv, KidsKnown
      <4>3. Settled' BY <3>2 DEF IInv, Inv, NodeInv, Settled, Match
      <4> QED BY <4>1, <4>2, <4>3 DEF NodeInv
    <3>5. RefreshInv'
      BY <2>5, <2>9 DEF RefreshInv, Refreshing, Reading
    <3>6. CopyInv'
      <4>1. th.p \notin th.add BY <1>0, <2>9 DEF IInv, Inv, CopyInv
      <4>2. Match(th.new[Root].traits)' BY <2>5, <2>9, <3>2 DEF IInv, Inv, CopyInv, Match
      <4>3. \A k \in th.add : rp'[k] = None
        BY <2>9, <3>2, <4>1, Names DEF IInv, Inv, CopyInv
      <4>4. \A q \in Known(th.new) \ Known(cache)' : q \in th.add
        BY <1>0, <2>9, <2>3, <3>2 DEF IInv, Inv, CopyInv, Known
      <4> QED BY <2>5, <2>9, <3>2, <4>2, <4>3, <4>4 DEF IInv, Inv, CopyInv, Known
    <3> QED BY <2>6, <2>7, <3>4, <3>5, <3>6, <1>4, <1>5 DEF IInv, Inv
  <2> QED BY <2>8, <2>9 DEF IInv, TypeOK, Thread
<1>6. CASE Escape /\ UNCHANGED <<rp, used>>
  <2>1. TypeOK' BY <1>0, <1>6, EscapesRest DEF IInv, TypeOK
  <2> QED BY <2>1, <1>6, EscapesRest, Unwritten DEF IInv
<1>7. CASE Fails("put") /\ Escape /\ UNCHANGED rp
  <2>1. TypeOK' BY <1>0, <1>7, EscapesRest, Counted DEF IInv, TypeOK
  <2> QED BY <2>1, <1>7, EscapesRest, Unwritten DEF IInv
<1>8. CASE th.p = Root /\ Fails("lost") /\ Escape /\ rp' = created
  <2>1. cache' = cache /\ fresh' = fresh /\ th' = Idle BY <1>8 DEF Escape
  <2>2. Root \notin fresh /\ rp[Root] = None
    BY <1>0, <1>8 DEF IInv, Inv, Ensuring
  <2>3. \A k \in Kids : rp'[k] = None
    BY <1>3, <1>8, <2>2, Names DEF IInv, Inv, NodeInv, Nested
  <2>4. NodeInv'
    BY <2>1, <2>2, <2>3 DEF IInv, Inv, NodeInv, Nested, KidsKnown, Settled
  <2>5. th' \in Thread /\ Inv' BY <2>1, <2>4, EscapeRests DEF IInv
  <2>6. TypeOK' BY <1>0, <1>3, <1>8, <2>1, <2>5, Counted DEF IInv, TypeOK
  <2> QED BY <2>5, <2>6, <1>4, <1>8 DEF IInv
<1> QED BY <1>5, <1>6, <1>7, <1>8 DEF CreateResourceProvider, created, blank

LEMMA RefreshNextKeeps == ASSUME IInv, RefreshNext PROVE IInv' /\ Keeps
<1>0. th.pc = "refresh" /\ UNCHANGED <<rp, cache, fresh>> /\ UNCHANGED <<node, changed, agg, used>>
  BY DEF RefreshNext
<1>1. NodeInv' /\ (\A ts : Match(ts) => Match(ts)') /\ Known(cache)' = Known(cache)
  BY <1>0, NodeKept DEF Known
<1>2. ASSUME NEW p \in th.todo,
             th' = [th EXCEPT !.todo = @ \ {p}, !.at = p, !.cur = p, !.pc = "inventories"]
      PROVE  IInv'
  <2>1. p \in Tree /\ cache[p] # None /\ p \in Providers
        /\ (p = Root => Root \notin fresh /\ th.back = "driver")
    BY <1>0, Names DEF IInv, Inv, RefreshInv, Refreshing, Known
  <2>2. th' \in Thread BY <1>2, <2>1 DEF IInv, TypeOK, Thread, Reading
  <2>3. /\ th'.pc = "inventories" /\ th'.todo = th.todo \ {p} /\ th'.at = p /\ th'.cur = p
        /\ th'.back = th.back /\ th'.p = th.p /\ th'.new = th.new /\ th'.add = th.add
        /\ th'.del = th.del
    BY <1>2 DEF IInv, TypeOK, Thread
  <2>4. Ensuring' /\ ReadInv' /\ Updating'
    BY <2>3 DEF Ensuring, ReadInv, NodeRead, Updating, Reading, Writing
  <2>5. RefreshInv'
    BY <1>0, <1>1, <2>1, <2>3 DEF IInv, Inv, RefreshInv, Refreshing, Reading
  <2>6. CopyInv' BY <1>0, <1>1, <2>3 DEF IInv, Inv, CopyInv, Known
  <2>7. TypeOK' BY <1>0, <2>2 DEF IInv, TypeOK
  <2> QED BY <1>1, <2>4, <2>5, <2>6, <2>7 DEF IInv, Inv
<1>3. CASE th.todo = {} /\ th' = [th EXCEPT !.pc = th.back]
  <2>1. th.back \in {"driver", "add"} BY DEF IInv, TypeOK, Thread
  <2>2. th' \in Thread BY <1>3, <2>1 DEF IInv, TypeOK, Thread
  <2>3. /\ th'.pc = th.back /\ th'.todo = {}
        /\ th'.back = th.back /\ th'.p = th.p /\ th'.new = th.new /\ th'.add = th.add
        /\ th'.del = th.del
    BY <1>3 DEF IInv, TypeOK, Thread
  <2>4. th.back = "driver" => Root \in fresh
    BY <1>0, <1>3 DEF IInv, Inv, RefreshInv, Refreshing
  <2>5. Ensuring' /\ ReadInv' /\ Updating' /\ RefreshInv'
    BY <1>0, <2>1, <2>3, <2>4
    DEF Ensuring, ReadInv, NodeRead, Updating, RefreshInv, Refreshing, Reading, Writing
  <2>6. CopyInv' BY <1>0, <1>1, <2>3 DEF IInv, Inv, CopyInv, Known
  <2>7. TypeOK' BY <1>0, <2>2 DEF IInv, TypeOK
  <2> QED BY <1>0, <1>1, <2>5, <2>6, <2>7, Unwritten DEF IInv, Inv
<1> QED BY <1>0, <1>2, <1>3, Unwritten DEF RefreshNext

\* An answer is taken over for the provider that is read: nobody relies on
\* what is known of it yet.
LEMMA Reads ==
    ASSUME IInv, th.pc \in Reading, rp[th.cur] # None,
           NEW f \in {"inv", "aggs", "traits"}, NEW v,
           f = "inv" => v = rp[th.cur].inv, f = "aggs" => v = rp[th.cur].aggs,
           f = "traits" => v = rp[th.cur].traits,
           cache' = Update(cache, th.cur, f, v, rp[th.cur].gen),
           rp' = rp, fresh' = fresh
    PROVE  /\ cache' \in [Providers -> {None} \cup Entry]
           /\ cache'[th.cur] # None /\ cache'[th.cur].gen = rp[th.cur].gen
           /\ f = "traits" => cache'[th.cur].traits = rp[th.cur].traits
           /\ \A q \in Providers \ {th.cur} : cache'[q] = cache[q]
           /\ Known(cache)' = Known(cache)
           /\ NodeInv'
           /\ th.back = "add" => th.cur # Root
           /\ \A ts : th.cur # Root /\ Match(ts) => Match(ts)'
<1>1. th.cur \in Providers /\ cache[th.cur] # None /\ (th.cur = Root => Root \notin fresh)
      /\ (th.cur = Root => th.back = "driver") /\ th.at \in Tree
      /\ (th.cur \in Kids => rp[th.cur].aggs = {} /\ rp[th.cur].traits = {})
  <2>1. th.cur \in {th.at} \cup Sharers /\ cache[th.cur] # None /\ th.at \in Tree
        /\ (th.at = Root => Root \notin fresh /\ th.back = "driver")
    BY DEF IInv, Inv, RefreshInv, Refreshing, Reading
  <2> QED BY <2>1, Names DEF IInv, Inv, NodeInv, Nested
<1>2. PICK r \in Entry : r = cache[th.cur] BY <1>1 DEF IInv, TypeOK
<1>3. PICK g \in Nat : g = rp[th.cur].gen BY <1>1 DEF IInv, TypeOK, Provider
<1>4. rp[th.cur] \in Provider BY <1>1 DEF IInv, TypeOK
<1>5. /\ f = "inv" => v \in Inventories
      /\ f = "aggs" => v \in SUBSET {Shared}
      /\ f = "traits" => v \in SUBSET Traits
  BY <1>4 DEF Provider
<1>6. PICK e \in Entry : /\ e = With(r, f, v, g) /\ e.gen = g
                         /\ e.aggs = IF f = "aggs" THEN v ELSE r.aggs
                         /\ e.traits = IF f = "traits" THEN v ELSE r.traits
  BY <1>5, EntryField
<1>7. cache' = [cache EXCEPT ![th.cur] = e] BY <1>2, <1>3, <1>6 DEF Update
<1>8. cache' \in [Providers -> {None} \cup Entry] /\ cache'[th.cur] = e /\ e # None
      /\ \A q \in Providers \ {th.cur} : cache'[q] = cache[q]
  BY <1>1, <1>7, NotNone DEF IInv, TypeOK
<1>9. \A q \in Providers : cache'[q] # None <=> cache[q] # None BY <1>1, <1>8
<1>10. Known(cache)' = Known(cache) BY <1>9 DEF Known
<1>11. ASSUME NEW k \in Kids, cache'[k] # None
       PROVE  cache'[k].aggs = {} /\ cache'[k].traits = {}
  <2>1. CASE k = th.cur
    <3>1. r.aggs = {} /\ r.traits = {} BY <1>2, <1>1, <2>1 DEF IInv, Inv, NodeInv, Nested
    <3>2. v = {} \/ f = "inv" BY <1>1, <2>1
    <3> QED BY <1>6, <1>8, <2>1, <3>1, <3>2
  <2>2. CASE k # th.cur
    BY <1>8, <1>11, <2>2, Names DEF IInv, Inv, NodeInv, Nested
  <2> QED BY <2>1, <2>2
<1>12. NodeInv'
  <2>1. Nested' BY <1>11 DEF IInv, Inv, NodeInv, Nested
  <2>2. KidsKnown' BY <1>9, Names DEF IInv, Inv, NodeInv, KidsKnown
  <2>3. Settled' BY <1>1, <1>8, Names DEF IInv, Inv, NodeInv, Settled, Match
  <2> QED BY <2>1, <2>2, <2>3 DEF NodeInv
<1>13. \A ts : th.cur # Root /\ Match(ts) => Match(ts)' BY <1>8, Names DEF Match
<1> QED BY <1>1, <1>3, <1>6, <1>8, <1>10, <1>12, <1>13

\* The thread goes on within a refresh.
LEMMA ReadsOn ==
    ASSUME IInv, th.pc \in Refreshing \ {"refresh"}, rp' = rp,
           th'.pc \in Refreshing \ {"refresh"}, th'.at = th.at, th'.todo = th.todo,
           th'.back = th.back, th'.p = th.p, th'.new = th.new, th'.add = th.add,
           th'.del = th.del, th'.cur \in {th.at} \cup Sharers,
           fresh' = fresh, Known(cache) \subseteq Known(cache)', cache'[th'.cur] # None,
           th'.pc = "sharing" => th'.cur = th.at,
           NodeInv', ReadInv',
           th.back = "add" => Match(th.new[Root].traits)'
    PROVE  Inv'
<1>1. th.at \in Tree \ th.todo /\ cache[th.at] # None BY DEF IInv, Inv, RefreshInv
<1>2. th.at \in Known(cache) BY <1>1, Names DEF Known
<1>3. \A q \in Providers : q \in Known(cache)' <=> cache'[q] # None BY DEF Known
<1>4. cache'[th.at] # None BY <1>1, <1>2, <1>3, Names
<1>5. Ensuring' /\ Updating'
  BY DEF Ensuring, Updating, Refreshing, Reading, Writing
<1>6. RefreshInv'
  BY <1>1, <1>4 DEF IInv, Inv, RefreshInv, Refreshing, Reading
<1>7. CopyInv'
  <2>1. Root \in Known(cache) => cache'[Root] # None BY <1>3, Names
  <2>2. cache[Root] # None => Root \in Known(cache) BY Names DEF Known
  <2>3. Known(th.new)' = Known(th.new) BY DEF Known
  <2>4. SUFFICES ASSUME th.back = "add" PROVE CopyInv' BY DEF CopyInv
  <2>5. \A q \in Known(th.new) \ Known(cache)' : q \in th.add
    BY <2>4 DEF IInv, Inv, CopyInv, Refreshing, Reading
  <2> QED BY <2>1, <2>2, <2>3, <2>4, <2>5 DEF IInv, Inv, CopyInv, Refreshing, Reading
<1> QED BY <1>5, <1>6, <1>7 DEF Inv

LEMMA GetInventoryKeeps == ASSUME IInv, GetInventory PROVE IInv' /\ Keeps
<1>0. /\ th.pc = "inventories" /\ th' = [th EXCEPT !.pc = "aggregates"]
      /\ rp' = rp /\ fresh' = fresh
      /\ UNCHANGED rp /\ UNCHANGED <<node, changed, agg>>
  BY DEF GetInventory
<1>1. th' \in Thread BY <1>0 DEF IInv, TypeOK, Thread, Reading
<1>2. /\ th'.pc = "aggregates" /\ th'.at = th.at /\ th'.cur = th.cur /\ th'.todo = th.todo
      /\ th'.back = th.back /\ th'.p = th.p /\ th'.new = th.new /\ th'.add = th.add
      /\ th'.del = th.del
  BY <1>0 DEF IInv, TypeOK, Thread
<1>3. th.cur \in {th.at} \cup Sharers /\ cache[th.cur] # None /\ th.pc \in Reading
      /\ th.pc \in Refreshing \ {"refresh"} /\ th'.pc \in Refreshing \ {"refresh"}
  BY <1>0, <1>2 DEF IInv, Inv, RefreshInv, Refreshing, Reading
<1>4. CASE /\ rp[th.cur] # None
           /\ cache' = Update(cache, th.cur, "inv", rp[th.cur].inv, rp[th.cur].gen)
           /\ UNCHANGED used
  <2>1. PICK v : v = rp[th.cur].inv OBVIOUS
  <2>2. /\ cache' \in [Providers -> {None} \cup Entry] /\ cache'[th.cur] # None
        /\ \A q \in Providers \ {th.cur} : cache'[q] = cache[q]
        /\ Known(cache)' = Known(cache) /\ NodeInv'
        /\ th.back = "add" => th.cur # Root
        /\ \A ts : th.cur # Root /\ Match(ts) => Match(ts)'
    BY <1>0, <1>3, <1>4, <2>1, Reads
  <2>3. ReadInv'
    BY <1>0, <1>2, <2>2, Names DEF IInv, Inv, ReadInv, NodeRead, Reading
  <2>4. th.back = "add" => Match(th.new[Root].traits)'
    BY <1>2, <2>2 DEF IInv, Inv, CopyInv
  <2>5. Inv' BY <1>0, <1>2, <1>3, <2>2, <2>3, <2>4, ReadsOn
  <2>6. TypeOK' BY <1>0, <1>1, <1>4, <2>2 DEF IInv, TypeOK
  <2> QED BY <1>0, <2>5, <2>6, Unwritten DEF IInv
<1>5. CASE UNCHANGED cache /\ used' \in [writes : Nat, faults : Nat]
  <2>1. NodeInv' /\ (\A ts : Match(ts) => Match(ts)') BY <1>0, <1>5, NodeKept
  <2>2. Known(cache)' = Known(cache) /\ cache' = cache BY <1>5 DEF Known
  <2>3. ReadInv' BY <1>0, <1>2, <2>1, <2>2 DEF IInv, Inv, ReadInv, NodeRead, Reading
  <2>4. th.back = "add" => Match(th.new[Root].traits)'
    BY <1>2, <2>1 DEF IInv, Inv, CopyInv
  <2>5. Inv' BY <1>0, <1>2, <1>3, <2>1, <2>2, <2>3, <2>4, ReadsOn
  <2>6. TypeOK' BY <1>0, <1>1, <1>5 DEF IInv, TypeOK
  <2> QED BY <1>0, <2>5, <2>6, Unwritten DEF IInv
<1>6. (rp[th.cur] = None /\ UNCHANGED <<cache, used>>) \/ (Fails("get") /\ UNCHANGED cache)
        => UNCHANGED cache /\ used' \in [writes : Nat, faults : Nat]
  BY Counted DEF IInv, TypeOK
<1> QED BY <1>4, <1>5, <1>6 DEF GetInventory

LEMMA GetProviderAggregatesKeeps == ASSUME IInv, GetProviderAggregates PROVE IInv' /\ Keeps
<1>0. th.pc = "aggregates" /\ rp' = rp /\ UNCHANGED rp /\ UNCHANGED <<node, changed, agg>>
  BY DEF GetProviderAggregates
<1>1. CASE /\ rp[th.cur] # None
           /\ cache' = Update(cache, th.cur, "aggs", rp[th.cur].aggs, rp[th.cur].gen)
           /\ th' = [th EXCEPT !.pc = "traits"]
           /\ UNCHANGED <<fresh, used>>
  <2>1. th' \in Thread BY <1>1 DEF IInv, TypeOK, Thread, Reading
  <2>2. /\ th'.pc = "traits" /\ th'.at = th.at /\ th'.cur = th.cur /\ th'.todo = th.todo
        /\ th'.back = th.back /\ th'.p = th.p /\ th'.new = th.new /\ th'.add = th.add
        /\ th'.del = th.del
    BY <1>1 DEF IInv, TypeOK, Thread
  <2>3. th.cur \in {th.at} \cup Sharers /\ cache[th.cur] # None /\ th.pc \in Reading
        /\ th.pc \in Refreshing \ {"refresh"} /\ th'.pc \in Refreshing \ {"refresh"}
    BY <1>0, <2>2 DEF IInv, Inv, RefreshInv, Refreshing, Reading
  <2>4. PICK v : v = rp[th.cur].aggs OBVIOUS
  <2>5. /\ cache' \in [Providers -> {None} \cup Entry] /\ cache'[th.cur] # None
        /\ \A q \in Providers \ {th.cur} : cache'[q] = cache[q]
        /\ Known(cache)' = Known(cache) /\ NodeInv'
        /\ th.back = "add" => th.cur # Root
        /\ \A ts : th.cur # Root /\ Match(ts) => Match(ts)'
    BY <1>0, <1>1, <2>3, <2>4, Reads
  <2>6. ReadInv'
    BY <1>0, <2>2, <2>5, Names DEF IInv, Inv, ReadInv, NodeRead, Reading
  <2>7. th.back = "add" => Match(th.new[Root].traits)'
    BY <2>2, <2>5 DEF IInv, Inv, CopyInv
  <2>8. Inv' BY <1>0, <1>1, <2>2, <2>3, <2>5, <2>6, <2>7, ReadsOn
  <2>9. TypeOK' BY <1>0, <1>1, <2>1, <2>5 DEF IInv, TypeOK
  <2> QED BY <1>0, <2>8, <2>9, Unwritten DEF IInv
<1>2. CASE Unread /\ used' \in [writes : Nat, faults : Nat]
  <2>1. TypeOK' BY <1>0, <1>2, UnreadRests DEF IInv, TypeOK
  <2> QED BY <2>1, <1>0, <1>2, UnreadRests, Unwritten DEF IInv
<1>3. (rp[th.cur] = None /\ Unread /\ UNCHANGED used) \/ (Fails("get") /\ Unread)
        => Unread /\ used' \in [writes : Nat, faults : Nat]
  BY Counted DEF IInv, TypeOK
<1> QED BY <1>1, <1>2, <1>3 DEF GetProviderAggregates

LEMMA GetProviderTraitsKeeps == ASSUME IInv, GetProviderTraits PROVE IInv' /\ Keeps
<1>0. th.pc = "traits" /\ rp' = rp /\ UNCHANGED rp /\ UNCHANGED <<node, changed, agg>>
  BY DEF GetProviderTraits
<1>1. CASE /\ rp[th.cur] # None
           /\ cache' = Update(cache, th.cur, "traits", rp[th.cur].traits, rp[th.cur].gen)
           /\ th' = [th EXCEPT !.pc = IF th.cur = th.at THEN "sharing" ELSE "share"]
           /\ UNCHANGED <<fresh, used>>
  <2>0. PICK pc \in {"sharing", "share"} : pc = IF th.cur = th.at THEN "sharing" ELSE "share"
    OBVIOUS
  <2>1. th' \in Thread BY <1>1, <2>0 DEF IInv, TypeOK, Thread, Reading
  <2>2. /\ th'.pc = pc /\ th'.at = th.at /\ th'.cur = th.cur /\ th'.todo = th.todo
        /\ th'.back = th.back /\ th'.p = th.p /\ th'.new = th.new /\ th'.add = th.add
        /\ th'.del = th.del
    BY <1>1, <2>0 DEF IInv, TypeOK, Thread
  <2>3. th.cur \in {th.at} \cup Sharers /\ cache[th.cur] # None /\ th.pc \in Reading
        /\ th.pc \in Refreshing \ {"refresh"} /\ th'.pc \in Refreshing \ {"refresh"}
    BY <1>0, <2>0, <2>2 DEF IInv, Inv, RefreshInv, Refreshing, Reading
  <2>4. PICK v : v = rp[th.cur].traits OBVIOUS
  <2>5. /\ cache' \in [Providers -> {None} \cup Entry] /\ cache'[th.cur] # None
        /\ cache'[th.cur].gen = rp[th.cur].gen /\ cache'[th.cur].traits = rp[th.cur].traits
        /\ \A q \in Providers \ {th.cur} : cache'[q] = cache[q]
        /\ Known(cache)' = Known(cache) /\ NodeInv'
        /\ th.back = "add" => th.cur # Root
        /\ \A ts : th.cur # Root /\ Match(ts) => Match(ts)'
    BY <1>0, <1>1, <2>3, <2>4, Reads
  <2>6. ReadInv'
    <3>1. CASE th.cur = Root
      <4>1. rp[Root].gen \in Nat BY <1>1, <3>1, Names DEF IInv, TypeOK, Provider
      <4> QED BY <1>0, <2>5, <3>1, <4>1 DEF ReadInv, Match
    <3>2. CASE th.cur # Root
      <4>1. th'.at = Root => NodeRead BY <1>0, <2>2, <3>2 DEF NodeRead, Reading
      <4>2. cache'[Root] = cache[Root] BY <2>5, <3>2, Names
      <4> QED BY <2>5, <3>2, <4>1, <4>2 DEF IInv, Inv, ReadInv, NodeRead
    <3> QED BY <3>1, <3>2
  <2>7. th.back = "add" => Match(th.new[Root].traits)'
    BY <2>2, <2>5 DEF IInv, Inv, CopyInv
  <2>8. Inv' BY <1>0, <1>1, <2>0, <2>2, <2>3, <2>5, <2>6, <2>7, ReadsOn
  <2>9. TypeOK' BY <1>0, <1>1, <2>1, <2>5 DEF IInv, TypeOK
  <2> QED BY <1>0, <2>8, <2>9, Unwritten DEF IInv
<1>2. CASE Unread /\ used' \in [writes : Nat, faults : Nat]
  <2>1. TypeOK' BY <1>0, <1>2, UnreadRests DEF IInv, TypeOK
  <2> QED BY <2>1, <1>0, <1>2, UnreadRests, Unwritten DEF IInv
<1>3. (rp[th.cur] = None /\ Unread /\ UNCHANGED used) \/ (Fails("get") /\ Unread)
        => Unread /\ used' \in [writes : Nat, faults : Nat]
  BY Counted DEF IInv, TypeOK
<1> QED BY <1>1, <1>2, <1>3 DEF GetProviderTraits

LEMMA GetSharingProvidersKeeps == ASSUME IInv, GetSharingProviders PROVE IInv' /\ Keeps
<1>0. th.pc = "sharing" /\ rp' = rp /\ UNCHANGED rp /\ UNCHANGED <<node, changed, agg>>
  BY DEF GetSharingProviders
<1> DEFINE share == {<<s, rp[s].gen>> : s \in {s \in Sharers \cap Known(rp) :
                                        rp[s].aggs \cap cache[th.at].aggs # {}}}
<1>1. CASE th' = [th EXCEPT !.pc = "share", !.share = share] /\ UNCHANGED <<cache, fresh, used>>
  <2>1. share \subseteq Sharers \X Nat BY Names DEF IInv, TypeOK, Known, Provider
  <2> HIDE DEF share
  <2>2. th' \in Thread BY <1>1, <2>1 DEF IInv, TypeOK, Thread
  <2>3. /\ th'.pc = "share" /\ th'.at = th.at /\ th'.cur = th.cur /\ th'.todo = th.todo
        /\ th'.back = th.back /\ th'.p = th.p /\ th'.new = th.new /\ th'.add = th.add
        /\ th'.del = th.del
    BY <1>1 DEF IInv, TypeOK, Thread
  <2>4. th.cur = th.at /\ cache[th.at] # None
        /\ th.pc \in Refreshing \ {"refresh"} /\ th'.pc \in Refreshing \ {"refresh"}
    BY <1>0, <2>3 DEF IInv, Inv, RefreshInv, Refreshing, Reading
  <2>5. NodeInv' /\ (\A ts : Match(ts) => Match(ts)') /\ Known(cache)' = Known(cache)
        /\ cache' = cache /\ fresh' = fresh
    BY <1>0, <1>1, NodeKept DEF Known
  <2>6. ReadInv' BY <1>0, <2>3, <2>5 DEF IInv, Inv, ReadInv, NodeRead, Reading
  <2>7. th.back = "add" => Match(th.new[Root].traits)' BY <2>3, <2>5 DEF IInv, Inv, CopyInv
  <2>8. Inv' BY <1>0, <2>3, <2>4, <2>5, <2>6, <2>7, ReadsOn
  <2>9. TypeOK' BY <1>0, <1>1, <2>2 DEF IInv, TypeOK
  <2> QED BY <1>0, <2>8, <2>9, Unwritten DEF IInv
<1>2. CASE Fails("get") /\ Unread
  <2>1. TypeOK' BY <1>0, <1>2, UnreadRests, Counted DEF IInv, TypeOK
  <2> QED BY <2>1, <1>0, <1>2, UnreadRests, Unwritten DEF IInv
<1> QED BY <1>1, <1>2 DEF GetSharingProviders

LEMMA RefreshSharingKeeps == ASSUME IInv, RefreshSharing PROVE IInv' /\ Keeps
<1>0. th.pc = "share" /\ rp' = rp /\ UNCHANGED rp /\ UNCHANGED <<node, changed, agg, used>>
  BY DEF RefreshSharing
<1>1. ASSUME NEW s \in th.share,
             cache' = IF cache[s[1]] = None THEN [cache EXCEPT ![s[1]] = Bare(s[2])] ELSE cache,
             th' = [th EXCEPT !.share = @ \ {s}, !.cur = s[1], !.pc = "inventories"],
             fresh' = fresh
      PROVE  IInv'
  <2>1. s[1] \in Sharers /\ s[2] \in Nat BY DEF IInv, TypeOK, Thread
  <2>2. s[1] \in Providers /\ s[1] # Root /\ s[1] \notin Kids BY <2>1, Names
  <2>3. Bare(s[2]) \in Entry /\ Bare(s[2]) # None BY <2>1, BareEntry, NotNone
  <2>4. /\ cache' \in [Providers -> {None} \cup Entry] /\ cache'[s[1]] # None
        /\ \A q \in Providers \ {s[1]} : cache'[q] = cache[q]
    BY <1>1, <2>2, <2>3 DEF IInv, TypeOK
  <2>5. cache'[Root] = cache[Root] /\ \A k \in Kids : cache'[k] = cache[k] BY <2>2, <2>4, Names
  <2>6. th' \in Thread
    BY <1>1, <2>2 DEF IInv, TypeOK, Thread, Reading
  <2>7. /\ th'.pc = "inventories" /\ th'.at = th.at /\ th'.cur = s[1] /\ th'.todo = th.todo
        /\ th'.back = th.back /\ th'.p = th.p /\ th'.new = th.new /\ th'.add = th.add
        /\ th'.del = th.del
    BY <1>1 DEF IInv, TypeOK, Thread
  <2>8. Known(cache) \subseteq Known(cache)' BY <2>4 DEF Known
  <2>9. NodeInv' /\ (\A ts : Match(ts) => Match(ts)')
    BY <1>0, <1>1, <2>5 DEF IInv, Inv, NodeInv, Nested, KidsKnown, Settled, Match
  <2>10. th.pc \in Refreshing \ {"refresh"} /\ th'.pc \in Refreshing \ {"refresh"}
    BY <1>0, <2>7 DEF Refreshing, Reading
  <2>11. ReadInv' BY <1>0, <2>5, <2>7, <2>9 DEF IInv, Inv, ReadInv, NodeRead
  <2>12. th.back = "add" => Match(th.new[Root].traits)' BY <2>7, <2>9 DEF IInv, Inv, CopyInv
  <2>13. Inv' BY <1>0, <1>1, <2>1, <2>4, <2>7, <2>8, <2>9, <2>10, <2>11, <2>12, ReadsOn
  <2>14. TypeOK' BY <1>0, <1>1, <2>4, <2>6 DEF IInv, TypeOK
  <2> QED BY <2>13, <2>14 DEF IInv
<1>2. ASSUME th.share = {}, fresh' = fresh \cup {th.at}, th' = [th EXCEPT !.pc = "refresh"],
             UNCHANGED cache
      PROVE  IInv'
  <2>1. th.at \in Tree \ th.todo /\ cache[th.at] # None
        /\ (th.at = Root => Match(cache[Root].traits))
    BY <1>0 DEF IInv, Inv, RefreshInv, ReadInv, NodeRead, Refreshing
  <2>2. th' \in Thread BY <1>2 DEF IInv, TypeOK, Thread
  <2>3. /\ th'.pc = "refresh" /\ th'.at = th.at /\ th'.todo = th.todo
        /\ th'.back = th.back /\ th'.p = th.p /\ th'.new = th.new /\ th'.add = th.add
        /\ th'.del = th.del
    BY <1>2 DEF IInv, TypeOK, Thread
  <2>4. \A ts : Match(ts) => Match(ts)' BY <1>0, <1>2 DEF Match
  <2>5. NodeInv'
    BY <1>0, <1>2, <2>1, <2>4 DEF IInv, Inv, NodeInv, Nested, KidsKnown, Settled
  <2>6. Ensuring' /\ ReadInv' /\ Updating'
    BY <2>3 DEF Ensuring, ReadInv, NodeRead, Updating, Reading, Writing
  <2>7. RefreshInv'
    BY <1>0, <1>2, <2>1, <2>3 DEF IInv, Inv, RefreshInv, Refreshing, Reading, Known
  <2>8. CopyInv' BY <1>0, <1>2, <2>3, <2>4 DEF IInv, Inv, CopyInv, Known
  <2>9. TypeOK' BY <1>0, <1>2, <2>1, <2>2 DEF IInv, TypeOK
  <2> QED BY <2>5, <2>6, <2>7, <2>8, <2>9 DEF IInv, Inv
<1> QED BY <1>0, <1>1, <1>2, Unwritten DEF RefreshSharing

-----------------------------------------------------------------------------
(* The report: the driver's copy and the writes                             *)

\* The driver changes the inventories and the trait of a disabled service.
LEMMA DriverCopy ==
    ASSUME IInv, cache[Root] # None
    PROVE  LET new == [DriverTree(cache) EXCEPT ![Root].traits = GetTraits(@)]
           IN /\ new \in [Providers -> {None} \cup Entry]
              /\ new[Root] # None /\ new[Root].traits \cap Custom = cache[Root].traits \cap Custom
              /\ \A k \in Kids : new[k] # None => new[k].aggs = {} /\ new[k].traits = {}
              /\ \A s \in Sharers : new[s] = cache[s]
<1> DEFINE copy == DriverTree(cache)
           ts == GetTraits(copy[Root].traits)
<1>1. PICK r \in Entry : r = cache[Root] BY Names DEF IInv, TypeOK
<1>2. node.total \in Totals /\ node.kids \subseteq Kids BY DEF IInv, TypeOK
<1>3. PICK ir : ir = AllocationRatio(r.inv) OBVIOUS
<1>4. [total |-> node.total, ratio |-> ir] \in Inventories
  <2>1. r.inv.ratio \in {0, InitialRatio, ConfRatio} \cup Ratios BY DEF Entry, Inventories
  <2>2. ir \in {0, InitialRatio, ConfRatio} \cup Ratios BY <1>3, <2>1 DEF AllocationRatio
  <2> QED BY <1>2, <2>2 DEF Inventories
<1>5. [total |-> node.total, ratio |-> InitialRatio] \in Inventories BY <1>2 DEF Inventories
<1>6. PICK m \in Entry : m = [r EXCEPT !.inv = [total |-> node.total, ratio |-> ir]]
                         /\ m.traits = r.traits
  <2>1. PICK iv \in Inventories : iv = [total |-> node.total, ratio |-> ir] BY <1>4
  <2>2. [r EXCEPT !.inv = iv] \in Entry /\ [r EXCEPT !.inv = iv].traits = r.traits BY DEF Entry
  <2> QED BY <2>1, <2>2
<1>7. copy[Root] = m
  <2>1. Root \notin node.kids /\ Root \notin Kids \ node.kids BY <1>2, Names
  <2> QED BY <1>1, <1>3, <1>6, <2>1, Names DEF DriverTree
<1>8. \A k \in Kids : k # Root /\ k \in Providers BY Names
<1>9. ASSUME NEW k \in Kids
      PROVE  copy[k] \in {None} \cup Entry
             /\ (copy[k] # None => copy[k].aggs = {} /\ copy[k].traits = {})
  <2>1. CASE k \in node.kids
    <3>1. PICK b : b = IF cache[k] = None THEN Bare(0) ELSE cache[k] OBVIOUS
    <3>2. b \in Entry /\ b.aggs = {} /\ b.traits = {}
      BY <1>8, <3>1, BareEntry DEF IInv, TypeOK, Inv, NodeInv, Nested
    <3>3. copy[k] = [b EXCEPT !.inv = [total |-> node.total, ratio |-> InitialRatio]]
      BY <1>8, <2>1, <3>1 DEF DriverTree
    <3> QED BY <3>2, <3>3, <1>5 DEF Entry
  <2>2. CASE k \notin node.kids
    BY <1>8, <2>2 DEF DriverTree
  <2> QED BY <2>1, <2>2
<1>10. \A s \in Sharers : copy[s] = cache[s]
  <2>1. \A s \in Sharers : s \in Providers /\ s # Root /\ s \notin Kids BY Names
  <2> QED BY <1>2, <2>1 DEF DriverTree
<1>11. copy = [p \in Providers |-> copy[p]] BY DEF DriverTree
<1> HIDE DEF copy
<1>12. ts \in SUBSET Traits /\ ts \cap Custom = r.traits \cap Custom
  <2>1. ts = (IF node.disabled THEN r.traits \cup {"disabled"} ELSE r.traits \ {"disabled"})
    BY <1>6, <1>7 DEF GetTraits
  <2>2. r.traits \subseteq Traits /\ "disabled" \notin Custom BY PlacementAssumption DEF Entry
  <2> QED BY <2>1, <2>2 DEF Traits
<1> HIDE DEF ts
<1>13. PICK n \in Entry : n = [m EXCEPT !.traits = ts] /\ n.traits = ts
  <2>1. PICK us \in SUBSET Traits : us = ts BY <1>12
  <2>2. [m EXCEPT !.traits = us] \in Entry /\ [m EXCEPT !.traits = us].traits = us BY DEF Entry
  <2> QED BY <2>1, <2>2
<1>14. [copy EXCEPT ![Root].traits = GetTraits(@)] = [copy EXCEPT ![Root] = n]
  BY <1>7, <1>13 DEF ts
<1>15. PICK new : new = [copy EXCEPT ![Root] = n] OBVIOUS
<1>16. new[Root] = n /\ \A q \in Providers \ {Root} : new[q] = copy[q] BY <1>11, <1>15, Names
<1>17. \A q \in Providers : new[q] \in {None} \cup Entry
  BY <1>9, <1>10, <1>16, Names DEF IInv, TypeOK
<1>18. new \in [Providers -> {None} \cup Entry] BY <1>11, <1>15, <1>17
<1>19. new[Root] # None /\ new[Root].traits \cap Custom = cache[Root].traits \cap Custom
  BY <1>1, <1>12, <1>13, <1>16, NotNone
<1>20. \A k \in Kids : new[k] # None => new[k].aggs = {} /\ new[k].traits = {}
  BY <1>8, <1>9, <1>16
<1>21. \A s \in Sharers : new[s] = cache[s] BY <1>10, <1>16, Names
<1> QED BY <1>14, <1>15, <1>18, <1>19, <1>20, <1>21 DEF copy

LEMMA DriverUpdateKeeps == ASSUME IInv, DriverUpdate PROVE IInv' /\ Keeps
<1>0. th.pc = "driver" /\ rp' = rp /\ cache' = cache /\ fresh' = fresh
      /\ UNCHANGED <<rp, cache, fresh>> /\ UNCHANGED <<node, changed, agg, used>>
  BY DEF DriverUpdate
<1>1. Root \in fresh /\ cache[Root] # None /\ Match(cache[Root].traits)
  BY <1>0 DEF IInv, Inv, Updating, NodeInv, Settled
<1>2. PICK new : new = [DriverTree(cache) EXCEPT ![Root].traits = GetTraits(@)] OBVIOUS
<1>3. /\ new \in [Providers -> {None} \cup Entry]
      /\ new[Root] # None /\ new[Root].traits \cap Custom = cache[Root].traits \cap Custom
      /\ \A k \in Kids : new[k] # None => new[k].aggs = {} /\ new[k].traits = {}
      /\ \A s \in Sharers : new[s] = cache[s]
  BY <1>1, <1>2, DriverCopy
<1>4. th' = [th EXCEPT !.new = new, !.pc = "add", !.back = "add",
                       !.add = Known(new) \ Known(cache), !.del = Known(cache) \ Known(new)]
  BY <1>2 DEF DriverUpdate
<1>5. Known(new) \subseteq Providers /\ Known(cache) \subseteq Providers BY DEF Known
<1>6. th' \in Thread BY <1>3, <1>4, <1>5 DEF IInv, TypeOK, Thread
<1>7. /\ th'.pc = "add" /\ th'.back = "add" /\ th'.new = new
      /\ th'.add = Known(new) \ Known(cache) /\ th'.del = Known(cache) \ Known(new)
  BY <1>4 DEF IInv, TypeOK, Thread
<1>8. NodeInv' BY <1>0, NodeKept
<1>9. Ensuring' /\ RefreshInv' /\ ReadInv' /\ Updating'
  BY <1>7 DEF Ensuring, RefreshInv, ReadInv, NodeRead, Updating, Refreshing, Reading, Writing
<1>10. CopyInv'
  <2>1. Match(th.new[Root].traits)' BY <1>0, <1>1, <1>3, <1>7 DEF Match
  <2>2. \A q \in Known(new) \ Known(cache) : q \in Kids
    BY <1>1, <1>3, Names DEF Known
  <2>3. \A q \in Known(cache) \ Known(new) : q \in Kids
    BY <1>1, <1>3, Names DEF Known
  <2>4. \A q \in Known(new) \ Known(cache) : rp[q] = None
    BY <1>1, <1>5, <2>2 DEF IInv, Inv, NodeInv, KidsKnown, Known
  <2>5. Known(th.new)' = Known(new) /\ Known(cache)' = Known(cache) BY <1>0, <1>7 DEF Known
  <2> QED BY <1>0, <1>1, <1>3, <1>7, <2>1, <2>2, <2>3, <2>4, <2>5 DEF CopyInv
<1>11. TypeOK' BY <1>0, <1>6 DEF IInv, TypeOK
<1> QED BY <1>0, <1>8, <1>9, <1>10, <1>11, Unwritten DEF IInv, Inv

LEMMA AddProvidersKeeps == ASSUME IInv, AddProviders PROVE IInv' /\ Keeps
<1>0. th.pc = "add" /\ rp' = rp /\ cache' = cache /\ fresh' = fresh
      /\ UNCHANGED <<rp, cache, fresh>> /\ UNCHANGED <<node, changed, agg, used>>
  BY DEF AddProviders
<1>1. NodeInv' /\ (\A ts : Match(ts) => Match(ts)') /\ Known(cache)' = Known(cache)
  BY <1>0, NodeKept DEF Known
<1>2. th.back = "add" BY <1>0 DEF IInv, Inv, Updating
<1>3. ASSUME NEW p \in th.add, th' = [th EXCEPT !.add = @ \ {p}, !.p = p, !.pc = "ensure"]
      PROVE  IInv'
  <2>1. p \in Kids /\ p \in Providers /\ rp[p] = None BY <1>2, Names DEF IInv, Inv, CopyInv
  <2>2. th' \in Thread BY <1>3, <2>1 DEF IInv, TypeOK, Thread
  <2>3. /\ th'.pc = "ensure" /\ th'.p = p /\ th'.add = th.add \ {p}
        /\ th'.back = th.back /\ th'.new = th.new /\ th'.del = th.del
    BY <1>3 DEF IInv, TypeOK, Thread
  <2>4. Ensuring' /\ RefreshInv' /\ ReadInv' /\ Updating'
    BY <1>0, <1>2, <2>1, <2>3
    DEF Ensuring, RefreshInv, ReadInv, NodeRead, Updating, Refreshing, Reading, Writing
  <2>5. CopyInv' BY <1>0, <1>1, <1>2, <2>3 DEF IInv, Inv, CopyInv, Known
  <2>6. TypeOK' BY <1>0, <2>2 DEF IInv, TypeOK
  <2> QED BY <1>1, <2>4, <2>5, <2>6 DEF IInv, Inv
<1>4. ASSUME th.add = {}, th' = [th EXCEPT !.pc = "remove", !.todo = Known(th.new)]
      PROVE  IInv'
  <2>1. Known(th.new) \subseteq Providers BY DEF Known
  <2>2. th' \in Thread BY <1>4, <2>1 DEF IInv, TypeOK, Thread
  <2>3. /\ th'.pc = "remove" /\ th'.todo = Known(th.new) /\ th'.add = {}
        /\ th'.back = th.back /\ th'.new = th.new /\ th'.del = th.del
    BY <1>4 DEF IInv, TypeOK, Thread
  <2>4. Known(th.new)' = Known(th.new) BY <2>3 DEF Known
  <2>5. Ensuring' /\ RefreshInv' /\ ReadInv' /\ Updating'
    BY <1>2, <2>3, <2>4
    DEF Ensuring, RefreshInv, ReadInv, NodeRead, Updating, Refreshing, Reading, Writing
  <2>6. CopyInv' BY <1>0, <1>1, <1>2, <1>4, <2>3 DEF IInv, Inv, CopyInv, Known
  <2>7. TypeOK' BY <1>0, <2>2 DEF IInv, TypeOK
  <2> QED BY <1>1, <2>5, <2>6, <2>7 DEF IInv, Inv
<1> QED BY <1>0, <1>3, <1>4, Unwritten DEF AddProviders

\* The writes go on: nothing of the thread but its place changes.
LEMMA WritesOn ==
    ASSUME IInv, th.pc \in {"remove", "write"} \cup Writing,
           th'.pc \in {"remove", "write"} \cup Writing,
           th'.back = th.back, th'.new = th.new, th'.add = th.add,
           th'.del \subseteq th.del, th'.todo \subseteq th.todo,
           th'.pc \in Writing => th'.p \in Known(th.new),
           NodeInv', cache'[Root] # None, Match(th.new[Root].traits)',
           Known(th.new) \subseteq Known(cache)'
    PROVE  Inv'
<1>1. th.back = "add" /\ th.add = {} /\ th.todo \subseteq Known(th.new) BY DEF IInv, Inv, Updating
<1>2. Known(th.new)' = Known(th.new) BY DEF Known
<1>3. Ensuring' /\ RefreshInv' /\ ReadInv'
  BY DEF Ensuring, RefreshInv, ReadInv, NodeRead, Refreshing, Reading, Writing
<1>4. Updating' BY <1>1, <1>2 DEF Updating, Writing
<1>5. CopyInv' BY <1>1, <1>2 DEF IInv, Inv, CopyInv, Writing
<1> QED BY <1>3, <1>4, <1>5 DEF Inv

\* Before the writes everything that is to be written is in the cache.
LEMMA WritesKnown ==
    ASSUME IInv, th.pc \in {"remove", "write"} \cup Writing
    PROVE  /\ th.back = "add" /\ Known(th.new) \subseteq Known(cache)
           /\ cache[Root] # None /\ Match(th.new[Root].traits)
           /\ th.del \subseteq Kids \ Known(th.new)
           /\ th.todo \subseteq Known(th.new)
BY DEF IInv, Inv, Updating, CopyInv, Writing

LEMMA DeleteProviderKeeps == ASSUME IInv, DeleteProvider PROVE IInv' /\ Keeps
<1>0. th.pc = "remove" /\ UNCHANGED <<node, changed, agg>> BY DEF DeleteProvider
<1>1. /\ th.back = "add" /\ Known(th.new) \subseteq Known(cache)
      /\ cache[Root] # None /\ Match(th.new[Root].traits)
      /\ th.del \subseteq Kids \ Known(th.new)
  BY <1>0, WritesKnown
<1>2. CASE th.del = {} /\ th' = [th EXCEPT !.pc = "write"] /\ UNCHANGED <<rp, cache, fresh, used>>
  <2>1. th' \in Thread BY <1>2 DEF IInv, TypeOK, Thread
  <2>2. /\ th'.pc = "write" /\ th'.todo = th.todo /\ th'.p = th.p
        /\ th'.back = th.back /\ th'.new = th.new /\ th'.add = th.add /\ th'.del = th.del
    BY <1>2 DEF IInv, TypeOK, Thread
  <2>3. /\ NodeInv' /\ (\A ts : Match(ts) => Match(ts)')
        /\ cache' = cache /\ Known(cache)' = Known(cache)
    BY <1>2, NodeKept DEF Known
  <2>4. Match(th.new[Root].traits)' BY <1>1, <2>2, <2>3
  <2>5. Inv' BY <1>0, <1>1, <2>2, <2>3, <2>4, WritesOn DEF Writing
  <2>6. TypeOK' BY <1>0, <1>2, <2>1 DEF IInv, TypeOK
  <2> QED BY <1>2, <2>5, <2>6, Unwritten DEF IInv
<1>3. ASSUME NEW p \in th.del,
             rp' = Remove(rp, {p}), cache' = Remove(cache, Below(p)), fresh' = fresh \ {p},
             th' = [th EXCEPT !.del = @ \ {p}], UNCHANGED used
      PROVE  IInv' /\ Keeps
  <2>1. p \in Kids /\ p \in Providers /\ p # Root /\ p \notin Known(th.new) /\ Below(p) = {p}
    BY <1>1, Names DEF Below
  <2>2. rp' = [q \in Providers |-> IF q \in {p} THEN None ELSE rp[q]]
        /\ cache' = [q \in Providers |-> IF q \in {p} THEN None ELSE cache[q]]
    BY <1>3, <2>1 DEF Remove
  <2>3. rp'[p] = None /\ cache'[p] = None
        /\ \A q \in Providers \ {p} : rp'[q] = rp[q] /\ cache'[q] = cache[q]
    BY <2>1, <2>2
  <2>4. rp'[Root] = rp[Root] /\ cache'[Root] = cache[Root] /\ (Root \in fresh' <=> Root \in fresh)
    BY <1>3, <2>1, <2>3, Names
  <2>5. \A k \in Kids : k = p \/ (rp'[k] = rp[k] /\ cache'[k] = cache[k]) BY <2>3, Names
  <2>6. NodeInv'
    BY <2>3, <2>4, <2>5 DEF IInv, Inv, NodeInv, Nested, KidsKnown, Settled, Match
  <2>7. th' \in Thread BY <1>3 DEF IInv, TypeOK, Thread
  <2>8. /\ th'.pc = th.pc /\ th'.todo = th.todo /\ th'.p = th.p
        /\ th'.back = th.back /\ th'.new = th.new /\ th'.add = th.add /\ th'.del = th.del \ {p}
    BY <1>3 DEF IInv, TypeOK, Thread
  <2>9. Known(th.new) \subseteq Known(cache)' BY <1>1, <2>1, <2>3 DEF Known
  <2>10. Match(th.new[Root].traits)' BY <1>1, <2>4, <2>8 DEF Match
  <2>11. Inv' BY <1>0, <1>1, <2>4, <2>6, <2>8, <2>9, <2>10, WritesOn DEF Writing
  <2>12. TypeOK' BY <1>0, <1>3, <2>2, <2>7 DEF IInv, TypeOK
  <2>13. Keeps BY <2>3, Names DEF Keeps
  <2> QED BY <2>11, <2>12, <2>13 DEF IInv
<1>4. ASSUME NEW p \in th.del, SyncFailed(p), UNCHANGED rp, used' \in [writes : Nat, faults : Nat]
      PROVE  IInv' /\ Keeps
  <2>1. p \in Providers BY <1>1, Names
  <2>2. TypeOK' BY <1>0, <1>4, <2>1, SyncFailedRests DEF IInv, TypeOK
  <2> QED BY <2>1, <2>2, <1>4, SyncFailedRests, Unwritten DEF IInv
<1>5. used \in [writes : Nat, faults : Nat] BY DEF IInv, TypeOK
<1>6. Fails("put") => used' \in [writes : Nat, faults : Nat] BY Counted DEF IInv
<1>7. ASSUME NEW p \in th.del,
             \/ /\ rp[p] = None \/ ~rp[p].used
                /\ rp' = Remove(rp, {p})
                /\ cache' = Remove(cache, Below(p)) /\ fresh' = fresh \ {p}
                /\ th' = [th EXCEPT !.del = @ \ {p}]
                /\ UNCHANGED used
             \/ rp[p] # None /\ rp[p].used /\ SyncFailed(p) /\ UNCHANGED <<rp, used>>
             \/ PutFails(p)
      PROVE  IInv' /\ Keeps
  BY <1>3, <1>4, <1>5, <1>6, <1>7 DEF PutFails
<1> QED BY <1>2, <1>7 DEF DeleteProvider

LEMMA WriteNextKeeps == ASSUME IInv, WriteNext PROVE IInv' /\ Keeps
<1>0. th.pc = "write" /\ rp' = rp /\ cache' = cache /\ fresh' = fresh
      /\ UNCHANGED <<rp, cache, fresh>> /\ UNCHANGED <<node, changed, agg, used>>
  BY DEF WriteNext
<1>1. NodeInv' /\ (\A ts : Match(ts) => Match(ts)') /\ Known(cache)' = Known(cache)
  BY <1>0, NodeKept DEF Known
<1>2. /\ th.back = "add" /\ Known(th.new) \subseteq Known(cache)
      /\ cache[Root] # None /\ Match(th.new[Root].traits) /\ th.todo \subseteq Known(th.new)
  BY <1>0, WritesKnown
<1>3. ASSUME NEW p \in th.todo, th' = [th EXCEPT !.todo = @ \ {p}, !.p = p, !.pc = "set_inventory"]
      PROVE  IInv'
  <2>1. p \in Providers BY DEF IInv, TypeOK, Thread
  <2>2. th' \in Thread BY <1>3, <2>1 DEF IInv, TypeOK, Thread, Writing
  <2>3. /\ th'.pc = "set_inventory" /\ th'.p = p /\ th'.todo = th.todo \ {p}
        /\ th'.back = th.back /\ th'.new = th.new /\ th'.add = th.add /\ th'.del = th.del
    BY <1>3 DEF IInv, TypeOK, Thread
  <2>4. Match(th.new[Root].traits)' BY <1>1, <1>2, <2>3
  <2>5. Inv' BY <1>0, <1>1, <1>2, <2>3, <2>4, WritesOn DEF Writing
  <2>6. TypeOK' BY <1>0, <2>2 DEF IInv, TypeOK
  <2> QED BY <2>5, <2>6 DEF IInv
<1>4. ASSUME th' = Idle PROVE IInv'
  <2>1. th' \in Thread /\ Inv' BY <1>1, <1>4, EscapeRests DEF IInv
  <2> QED BY <1>0, <2>1 DEF IInv, TypeOK
<1> QED BY <1>0, <1>3, <1>4, Unwritten DEF WriteNext

\* A PUT that Placement accepts, with its answer or without: the generation
\* says that what was known is true, and the traits written have what was
\* set externally.
LEMMA Puts ==
    ASSUME IInv, th.pc \in Writing, NEW f \in {"inv", "aggs", "traits"}, NEW v,
           f = "inv" => v \in Inventories, f = "aggs" => v \in SUBSET {Shared},
           f = "traits" => v \in SUBSET Traits,
           th.p \in Kids => f = "inv",
           th.p = Root /\ f = "traits" => v = th.new[Root].traits,
           rp[th.p] # None, rp[th.p].gen = cache[th.p].gen,
           rp' = Update(rp, th.p, f, v, rp[th.p].gen + 1), fresh' = fresh,
           \/ cache' = cache
           \/ cache' = Update(cache, th.p, f, v, cache[th.p].gen + 1)
    PROVE  /\ rp' \in [Providers -> {None} \cup Provider]
           /\ cache' \in [Providers -> {None} \cup Entry]
           /\ Known(cache)' = Known(cache) /\ cache'[Root] # None
           /\ NodeInv' /\ Keeps
           /\ th'.new = th.new => Match(th.new[Root].traits)'
<1>1. /\ th.back = "add" /\ Known(th.new) \subseteq Known(cache)
      /\ cache[Root] # None /\ Match(th.new[Root].traits)
  BY WritesKnown
<1>2. th.p \in Providers /\ cache[th.p] # None
  BY <1>1 DEF IInv, Inv, Updating, Known
<1>3. PICK p \in Providers : p = th.p BY <1>2
<1>4. /\ rp' \in [Providers -> {None} \cup Provider]
      /\ rp'[p] # None /\ rp'[p].gen = rp[p].gen + 1
      /\ rp'[p].aggs = IF f = "aggs" THEN v ELSE rp[p].aggs
      /\ rp'[p].traits = IF f = "traits" THEN v ELSE rp[p].traits
      /\ \A q \in Providers \ {p} : rp'[q] = rp[q]
  <2>1. PICK r \in Provider : r = rp[p] BY <1>3 DEF IInv, TypeOK
  <2>2. r.gen \in Nat BY <2>1 DEF Provider
  <2>3. PICK g \in Nat : g = rp[p].gen + 1 BY <2>1, <2>2
  <2>4. PICK e \in Provider : /\ e = With(r, f, v, g) /\ e.gen = g
                              /\ e.aggs = IF f = "aggs" THEN v ELSE r.aggs
                              /\ e.traits = IF f = "traits" THEN v ELSE r.traits
    BY ProviderField
  <2>5. rp' = [rp EXCEPT ![p] = e] BY <1>3, <2>1, <2>3, <2>4 DEF Update
  <2>6. rp'[p] = e /\ e # None BY <2>5, NotNone DEF IInv, TypeOK
  <2>7. rp' \in [Providers -> {None} \cup Provider] BY <2>5 DEF IInv, TypeOK
  <2> QED BY <2>1, <2>3, <2>4, <2>5, <2>6, <2>7 DEF IInv, TypeOK
<1>5. rp[p].gen \in Nat /\ cache[p].gen = rp[p].gen /\ rp[p] # None
  BY <1>2, <1>3 DEF IInv, TypeOK, Provider
<1>6. /\ cache' \in [Providers -> {None} \cup Entry] /\ cache'[p] # None
      /\ \A q \in Providers \ {p} : cache'[q] = cache[q]
      /\ \/ cache' = cache
         \/ /\ cache'[p].gen = rp[p].gen + 1
            /\ cache'[p].aggs = IF f = "aggs" THEN v ELSE cache[p].aggs
            /\ cache'[p].traits = IF f = "traits" THEN v ELSE cache[p].traits
  <2>1. CASE cache' = cache BY <2>1, <1>2, <1>3 DEF IInv, TypeOK
  <2>2. CASE cache' = Update(cache, th.p, f, v, cache[th.p].gen + 1)
    <3>1. PICK r \in Entry : r = cache[p] BY <1>2, <1>3 DEF IInv, TypeOK
    <3>2. PICK g \in Nat : g = cache[p].gen + 1 BY <1>5
    <3>3. PICK e \in Entry : /\ e = With(r, f, v, g) /\ e.gen = g
                             /\ e.aggs = IF f = "aggs" THEN v ELSE r.aggs
                             /\ e.traits = IF f = "traits" THEN v ELSE r.traits
      BY EntryField
    <3>4. cache' = [cache EXCEPT ![p] = e] BY <1>3, <2>2, <3>1, <3>2, <3>3 DEF Update
    <3>5. cache'[p] = e /\ e # None BY <3>4, NotNone DEF IInv, TypeOK
    <3>6. cache' \in [Providers -> {None} \cup Entry] BY <3>4 DEF IInv, TypeOK
    <3> QED BY <1>5, <3>1, <3>2, <3>3, <3>4, <3>5, <3>6 DEF IInv, TypeOK
  <2> QED BY <2>1, <2>2
<1>7. \A q \in Providers : cache'[q] # None <=> cache[q] # None BY <1>2, <1>3, <1>6
<1>8. Known(cache)' = Known(cache) /\ cache'[Root] # None BY <1>1, <1>7, Names DEF Known
<1>9. \A q \in Providers : (rp'[q] # None <=> rp[q] # None) BY <1>4, <1>5
<1>10. NodeInv'
  <2>1. Nested'
    <3>1. ASSUME NEW k \in Kids
          PROVE /\ rp'[k] # None => rp'[Root] # None /\ rp'[k].aggs = {} /\ rp'[k].traits = {}
                /\ cache'[k] # None => cache'[k].aggs = {} /\ cache'[k].traits = {}
      <4>1. /\ rp[k] # None => rp[Root] # None /\ rp[k].aggs = {} /\ rp[k].traits = {}
            /\ cache[k] # None => cache[k].aggs = {} /\ cache[k].traits = {}
        BY DEF IInv, Inv, NodeInv, Nested
      <4>2. CASE k = p BY <1>2, <1>3, <1>4, <1>5, <1>6, <1>9, <4>1, <4>2, Names
      <4>3. CASE k # p BY <1>4, <1>6, <1>9, <4>1, <4>3, Names
      <4> QED BY <4>2, <4>3
    <3> QED BY <3>1 DEF Nested
  <2>2. KidsKnown' BY <1>7, <1>9, Names DEF IInv, Inv, NodeInv, KidsKnown
  <2>3. Settled'
    <3>1. SUFFICES ASSUME Root \in fresh PROVE Match(cache[Root].traits)'
      BY <1>8 DEF Settled
    <3>2. Match(cache[Root].traits) BY <3>1 DEF IInv, Inv, NodeInv, Settled
    <3>3. CASE p = Root BY <1>4, <1>5, <1>6, <3>2, <3>3 DEF Match
    <3>4. CASE p # Root BY <1>4, <1>6, <3>2, <3>4, Names DEF Match
    <3> QED BY <3>3, <3>4
  <2> QED BY <2>1, <2>2, <2>3 DEF NodeInv
<1>11. ASSUME th'.new = th.new PROVE Match(th.new[Root].traits)'
  <2>1. CASE p = Root BY <1>1, <1>3, <1>4, <1>5, <1>6, <1>11, <2>1 DEF Match
  <2>2. CASE p # Root BY <1>1, <1>4, <1>6, <1>11, <2>2, Names DEF Match
  <2> QED BY <2>1, <2>2
<1>12. Keeps
  <2>1. ASSUME NEW q \in Tree
        PROVE  rp[q] # None => rp[q].traits \cap Custom = rp'[q].traits \cap Custom
    <3>1. CASE q # p BY <1>4, <3>1, Names
    <3>2. CASE q = p /\ f # "traits" BY <1>4, <3>2
    <3>3. CASE q = p /\ f = "traits"
      <4>1. p = Root BY <1>3, <3>3, Names
      <4> QED BY <1>1, <1>3, <1>4, <1>5, <3>3, <4>1 DEF Match
    <3> QED BY <3>1, <3>2, <3>3
  <2> QED BY <2>1 DEF Keeps
<1> QED BY <1>4, <1>6, <1>8, <1>10, <1>11, <1>12

LEMMA PutKeeps ==
    ASSUME IInv, th.pc \in Writing, NEW f \in {"inv", "aggs", "traits"}, NEW v,
           NEW next \in {"write"} \cup Writing, NEW ACTION Refused,
           f = "inv" => v \in Inventories, f = "aggs" => v \in SUBSET {Shared},
           f = "traits" => v \in SUBSET Traits,
           th.p \in Kids => f = "inv",
           th.p = Root /\ f = "traits" => v = th.new[Root].traits,
           Refused /\ UNCHANGED rp =>
               /\ cache' \in [Providers -> {None} \cup Entry] /\ fresh' \subseteq Tree
               /\ th' \in Thread /\ Inv',
           Put(f, v, Refused, next), UNCHANGED <<node, changed, agg>>
    PROVE  IInv' /\ Keeps
<1>0. th.p \in Providers /\ used \in [writes : Nat, faults : Nat] BY DEF IInv, TypeOK, Thread
<1>1. CASE /\ rp[th.p] # None /\ rp[th.p].gen = cache[th.p].gen
           /\ rp' = Update(rp, th.p, f, v, rp[th.p].gen + 1)
           /\ cache' = Update(cache, th.p, f, v, cache[th.p].gen + 1)
           /\ th' = [th EXCEPT !.pc = next]
           /\ UNCHANGED <<fresh, used>>
  <2>1. th' \in Thread BY <1>1 DEF IInv, TypeOK, Thread
  <2>2. /\ th'.pc = next /\ th'.todo = th.todo /\ th'.p = th.p
        /\ th'.back = th.back /\ th'.new = th.new /\ th'.add = th.add /\ th'.del = th.del
    BY <1>1 DEF IInv, TypeOK, Thread
  <2>3. /\ rp' \in [Providers -> {None} \cup Provider]
        /\ cache' \in [Providers -> {None} \cup Entry]
        /\ Known(cache)' = Known(cache) /\ cache'[Root] # None
        /\ NodeInv' /\ Keeps /\ Match(th.new[Root].traits)'
    BY <1>1, <2>2, Puts
  <2>4. Known(th.new) \subseteq Known(cache) /\ th.p \in Known(th.new)
    BY WritesKnown DEF IInv, Inv, Updating
  <2>5. Inv' BY <2>2, <2>3, <2>4, WritesOn
  <2>6. TypeOK' BY <1>1, <2>1, <2>3 DEF IInv, TypeOK
  <2> QED BY <2>3, <2>5, <2>6 DEF IInv
<1>2. CASE Refused /\ UNCHANGED <<rp, used>>
  <2>1. TypeOK' BY <1>2 DEF IInv, TypeOK
  <2> QED BY <1>2, <2>1, Unwritten DEF IInv
<1>3. CASE SyncFailed(th.p) /\ UNCHANGED rp /\ used' \in [writes : Nat, faults : Nat]
  <2>1. TypeOK' BY <1>0, <1>3, SyncFailedRests DEF IInv, TypeOK
  <2> QED BY <1>0, <1>3, <2>1, SyncFailedRests, Unwritten DEF IInv
<1>4. CASE /\ rp[th.p] # None /\ rp[th.p].gen = cache[th.p].gen
           /\ Fails("lost") /\ Escape
           /\ rp' = Update(rp, th.p, f, v, rp[th.p].gen + 1)
  <2>1. cache' = cache /\ fresh' = fresh /\ th' = Idle BY <1>4 DEF Escape
  <2>2. /\ rp' \in [Providers -> {None} \cup Provider]
        /\ cache' \in [Providers -> {None} \cup Entry] /\ NodeInv' /\ Keeps
    BY <1>4, <2>1, Puts
  <2>3. th' \in Thread /\ Inv' BY <2>1, <2>2, EscapeRests DEF IInv
  <2>4. TypeOK' BY <1>4, <2>1, <2>2, <2>3, Counted DEF IInv, TypeOK
  <2> QED BY <2>2, <2>3, <2>4 DEF IInv
<1>5. PutFails(th.p) => SyncFailed(th.p) /\ UNCHANGED rp /\ used' \in [writes : Nat, faults : Nat]
  BY Counted DEF PutFails, IInv
<1> QED BY <1>0, <1>1, <1>2, <1>3, <1>4, <1>5 DEF Put

LEMMA SkipKeeps ==
    ASSUME IInv, th.pc \in Writing, NEW next \in {"write"} \cup Writing, Skip(next),
           UNCHANGED <<node, changed, agg>>
    PROVE  IInv' /\ Keeps
<1>0. th' = [th EXCEPT !.pc = next] /\ rp' = rp /\ cache' = cache /\ fresh' = fresh /\ used' = used
      /\ UNCHANGED <<rp, cache, fresh>>
  BY DEF Skip
<1>1. NodeInv' /\ (\A ts : Match(ts) => Match(ts)') /\ Known(cache)' = Known(cache)
  BY <1>0, NodeKept DEF Known
<1>2. th' \in Thread BY <1>0 DEF IInv, TypeOK, Thread
<1>3. /\ th'.pc = next /\ th'.todo = th.todo /\ th'.p = th.p
      /\ th'.back = th.back /\ th'.new = th.new /\ th'.add = th.add /\ th'.del = th.del
  BY <1>0 DEF IInv, TypeOK, Thread
<1>4. /\ Known(th.new) \subseteq Known(cache) /\ cache[Root] # None
      /\ Match(th.new[Root].traits) /\ th.p \in Known(th.new)
  BY WritesKnown DEF IInv, Inv, Updating
<1>5. Match(th.new[Root].traits)' BY <1>1, <1>3, <1>4
<1>6. Inv' BY <1>0, <1>1, <1>3, <1>4, <1>5, WritesOn
<1>7. TypeOK' BY <1>0, <1>2 DEF IInv, TypeOK
<1> QED BY <1>0, <1>6, <1>7, Unwritten DEF IInv

\* What is written comes from the driver's copy.
LEMMA Copied ==
    ASSUME IInv, th.pc \in Writing
    PROVE  /\ th.p \in Providers /\ cache[th.p] # None /\ th.new[th.p] \in Entry
           /\ th.p \in Kids => /\ th.new[th.p].aggs = {} /\ cache[th.p].aggs = {}
                               /\ th.new[th.p].traits = {} /\ cache[th.p].traits = {}
<1>1. th.back = "add" /\ th.p \in Known(th.new) /\ th.p \in Known(cache)
  BY WritesKnown DEF IInv, Inv, Updating
<1>2. th.p \in Providers /\ cache[th.p] # None /\ th.new[th.p] # None BY <1>1 DEF Known
<1>3. th.new[th.p] \in Entry BY <1>2 DEF IInv, TypeOK, Thread
<1> QED BY <1>1, <1>2, <1>3 DEF IInv, Inv, CopyInv, NodeInv, Nested

LEMMA SetInventoryKeeps == ASSUME IInv, SetInventoryForProvider PROVE IInv' /\ Keeps
<1>0. th.pc = "set_inventory" /\ th.pc \in Writing /\ "set_aggregates" \in {"write"} \cup Writing
      /\ UNCHANGED <<node, changed, agg>>
  BY DEF SetInventoryForProvider, Writing
<1>1. th.p \in Providers /\ th.new[th.p] \in Entry BY <1>0, Copied
<1>2. PICK v \in Inventories : v = th.new[th.p].inv BY <1>1 DEF Entry
<1>3. CASE Skip("set_aggregates") BY <1>0, <1>3, SkipKeeps
<1>4. CASE Put("inv", v, Conflict(th.p), "set_aggregates")
  <2>1. Conflict(th.p) /\ UNCHANGED rp =>
               /\ cache' \in [Providers -> {None} \cup Entry] /\ fresh' \subseteq Tree
               /\ th' \in Thread /\ Inv'
    BY <1>1, ConflictRests
  <2> QED BY <1>0, <1>2, <1>4, <2>1, PutKeeps
<1> QED BY <1>2, <1>3, <1>4 DEF SetInventoryForProvider

LEMMA SetTraitsKeeps == ASSUME IInv, SetTraitsForProvider PROVE IInv' /\ Keeps
<1>0. th.pc = "set_traits" /\ th.pc \in Writing /\ "write" \in {"write"} \cup Writing
      /\ UNCHANGED <<node, changed, agg>>
  BY DEF SetTraitsForProvider, Writing
<1>1. th.p \in Providers /\ th.new[th.p] \in Entry
      /\ (th.p \in Kids => th.new[th.p].traits = {} /\ cache[th.p].traits = {})
  BY <1>0, Copied
<1>2. PICK v \in SUBSET Traits : v = th.new[th.p].traits BY <1>1 DEF Entry
<1>3. CASE Skip("write") BY <1>0, <1>3, SkipKeeps
<1>4. CASE Put("traits", v, Conflict(th.p), "write") /\ th.p \notin Kids
  <2>1. Conflict(th.p) /\ UNCHANGED rp =>
               /\ cache' \in [Providers -> {None} \cup Entry] /\ fresh' \subseteq Tree
               /\ th' \in Thread /\ Inv'
    BY <1>1, ConflictRests
  <2> QED BY <1>0, <1>2, <1>4, <2>1, PutKeeps
<1>5. th.p \in Kids => ~Changed(th.p, "traits", v) BY <1>1, <1>2 DEF Changed
<1> QED BY <1>2, <1>3, <1>4, <1>5 DEF SetTraitsForProvider

LEMMA SetAggregatesKeeps == ASSUME IInv, SetAggregatesForProvider PROVE IInv' /\ Keeps
<1> DEFINE Refused == /\ cache' = Remove(cache, Below(th.p)) /\ fresh' = fresh \ {th.p}
                      /\ Redrive
<1>0. th.pc = "set_aggregates" /\ th.pc \in Writing /\ "set_traits" \in {"write"} \cup Writing
      /\ UNCHANGED <<node, changed, agg>>
  BY DEF SetAggregatesForProvider, Writing
<1>1. th.p \in Providers /\ th.new[th.p] \in Entry
      /\ (th.p \in Kids => th.new[th.p].aggs = {} /\ cache[th.p].aggs = {})
  BY <1>0, Copied
<1>2. PICK v \in SUBSET {Shared} : v = th.new[th.p].aggs BY <1>1 DEF Entry
<1>3. CASE Skip("set_traits") BY <1>0, <1>3, SkipKeeps
<1>4. CASE Put("aggs", v, Refused, "set_traits") /\ th.p \notin Kids
  <2>1. ASSUME Refused, UNCHANGED rp
        PROVE /\ cache' \in [Providers -> {None} \cup Entry] /\ fresh' \subseteq Tree
              /\ th' \in Thread /\ Inv'
    <3>1. cache' = [q \in Providers |-> IF q \in Below(th.p) THEN None ELSE cache[q]]
      BY <2>1 DEF Remove
    <3>2. cache' \in [Providers -> {None} \cup Entry] /\ fresh' \subseteq Tree
      BY <2>1, <3>1 DEF IInv, TypeOK
    <3>3. NodeInv'
      <4>1. CASE th.p = Root
        <5>1. Root \notin fresh' /\ cache'[Root] = None /\ \A k \in Kids : cache'[k] = None
          BY <2>1, <3>1, <4>1, Names DEF Below
        <5> QED BY <2>1, <5>1 DEF IInv, Inv, NodeInv, Nested, KidsKnown, Settled
      <4>2. CASE th.p \in Sharers
        <5>1. /\ cache'[Root] = cache[Root] /\ \A k \in Kids : cache'[k] = cache[k]
              /\ Root \in fresh' <=> Root \in fresh
          BY <2>1, <3>1, <4>2, Names DEF Below
        <5> QED BY <2>1, <5>1 DEF IInv, Inv, NodeInv, Nested, KidsKnown, Settled, Match
      <4> QED BY <1>1, <1>4, <4>1, <4>2, Names
    <3> QED BY <2>1, <3>2, <3>3, RedriveRests DEF IInv
  <2> HIDE DEF Refused
  <2> QED BY <1>0, <1>2, <1>4, <2>1, PutKeeps
<1>5. th.p \in Kids => ~Changed(th.p, "aggs", v) BY <1>1, <1>2 DEF Changed
<1> QED BY <1>2, <1>3, <1>4, <1>5 DEF SetAggregatesForProvider

-----------------------------------------------------------------------------
(* The theorems                                                             *)

LEMMA StepKeeps == ASSUME IInv, [Next]_vars PROVE IInv' /\ (Keeps \/ UNCHANGED vars)
<1>1. CASE Report
  BY <1>1, AuditKeeps, EnsureCachedKeeps, EnsureReadKeeps, CreateResourceProviderKeeps,
     RefreshNextKeeps, GetInventoryKeeps, GetProviderAggregatesKeeps, GetProviderTraitsKeeps,
     GetSharingProvidersKeeps, RefreshSharingKeeps, DriverUpdateKeeps, AddProvidersKeeps,
     DeleteProviderKeeps, WriteNextKeeps, SetInventoryKeeps, SetAggregatesKeeps, SetTraitsKeeps
  DEF Report
<1>2. CASE Others
  BY <1>2, AdminSetsRatioKeeps, AdminSetsTraitsKeeps, AllocateKeeps, DeleteResourceProviderKeeps,
     AggregateHostKeeps, AggregateReadKeeps, AggregateWriteKeeps, HostChangeKeeps,
     NodeChangeKeeps, ServiceChangeKeeps, RestartKeeps, ExpireKeeps
  DEF Others
<1>3. CASE UNCHANGED vars
  <2>1. UNCHANGED <<rp, cache, fresh, th>> BY <1>3 DEF vars
  <2>2. TypeOK' BY <1>3 DEF vars, IInv, TypeOK
  <2> QED BY <1>3, <2>1, <2>2, Aside DEF IInv
<1> QED BY <1>1, <1>2, <1>3 DEF Next

LEMMA InitInv == Init => IInv
<1> SUFFICES ASSUME Init PROVE IInv OBVIOUS
<1>1. /\ cache = [p \in Providers |-> None] /\ fresh = {} /\ th = Idle
      /\ agg = [pc |-> "idle", add |-> TRUE, aggs |-> {}, gen |-> 0, try |-> 1]
      /\ used = [writes |-> 0, faults |-> 0]
  BY DEF Init
<1>2. PICK e : e = [gen |-> 0, inv |-> NoInventory, aggs |-> {Shared}, traits |-> {"sharing"},
                    used |-> FALSE]
  OBVIOUS
<1>3. e \in Provider BY <1>2 DEF Provider, Inventories, NoInventory, Traits
<1>4. rp = [p \in Providers |-> IF p \in Sharers THEN e ELSE None] BY <1>2 DEF Init
<1>5. (CHOOSE t \in Totals : TRUE) \in Totals BY PlacementAssumption
<1>6. node \in [total : Totals, disabled : BOOLEAN, kids : SUBSET Kids] BY <1>5 DEF Init
<1>7. agg \in Caller BY <1>1, PlacementAssumption DEF Caller
<1>8. TypeOK
  <2>1. rp \in [Providers -> {None} \cup Provider] BY <1>3, <1>4
  <2>2. cache \in [Providers -> {None} \cup Entry] BY <1>1
  <2>3. fresh \subseteq Tree /\ changed \in BOOLEAN BY <1>1 DEF Init
  <2>4. th \in Thread BY <1>1, IdleThread
  <2>5. used \in [writes : Nat, faults : Nat] BY <1>1
  <2> QED BY <1>6, <1>7, <2>1, <2>2, <2>3, <2>4, <2>5 DEF TypeOK
<1>9. NodeInv BY <1>1, <1>4, Names DEF NodeInv, Nested, KidsKnown, Settled
<1>10. Ensuring /\ RefreshInv /\ ReadInv /\ Updating /\ CopyInv
  BY <1>1, IdleThread
  DEF Ensuring, RefreshInv, ReadInv, NodeRead, Updating, CopyInv, Refreshing, Reading, Writing
<1> QED BY <1>8, <1>9, <1>10 DEF IInv, Inv

\* The types of everything the report and its rivals write, and what the
\* thread knows at each place of the report: that a node that is not stale is
\* cached as it is, or its generation has moved on (_associations_stale and the
\* generations of SchedulerReportClient).
THEOREM PlacementTyped == Spec => [](TypeOK /\ Inv)
<1>1. IInv /\ [Next]_vars => IInv' BY StepKeeps
<1> QED BY InitInv, <1>1, PTL DEF Spec, IInv

\* No report adds or removes a trait that was set externally on the node or
\* below it, whoever writes the provider between the reads of
\* _refresh_associations, the driver's copy and the PUT of
\* set_traits_for_provider, and whatever fails or is lost.
THEOREM ExternalTraitsKept == Spec => CustomTraitsKept
<1>1. IInv /\ [Next]_vars =>
        [\A p \in Tree : rp[p] # None /\ rp'[p] # None =>
          rp[p].traits \cap Custom = rp'[p].traits \cap Custom \/ AdminSetsTraits]_vars
  BY StepKeeps DEF Keeps
<1>2. IInv /\ [Next]_vars => IInv' BY StepKeeps
<1> QED BY InitInv, <1>1, <1>2, PTL DEF Spec, CustomTraitsKept

=============================================================================
