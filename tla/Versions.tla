------------------------------ MODULE Versions ------------------------------
(***************************************************************************)
(* Microversions of the API.  The methods of a controller are registered   *)
(* when its class is loaded, each for an interval of versions; a request   *)
(* names a version in a header and gets the method whose interval holds    *)
(* it.                                                                     *)
(***************************************************************************)
EXTENDS Integers, Sequences, SequencesExt

CONSTANT MaxMinor   \* the minor number of CURRENT_MAX_VER

ASSUME MaxMinorAssumption == MaxMinor \in Nat \ {0}

VARIABLES methods,  \* func_list of one function: intervals, in the order tried
          loaded    \* the class is loaded: FALSE once a registration raised

versionVars == <<methods, loaded>>

BaseVer == <<1, 1>>
MaxVer == <<1, MaxMinor>>

\* The supported versions, and others a client may name.
Supported == {<<1, n>> : n \in 1..MaxMinor}
Named == Supported \cup {<<1, 0>>, <<1, MaxMinor + 1>>, <<2, 0>>}

Before(v, w) == v[1] < w[1] \/ (v[1] = w[1] /\ v[2] < w[2])

AtMost(v, w) == Before(v, w) \/ v = w

matches(v, m) == AtMost(m.start, v) /\ AtMost(v, m.end)

Interval == [start : Supported, end : Supported]

(***************************************************************************)
(* Registration.                                                           *)
(***************************************************************************)
EndsFirst(p, q) ==
    \/ Before(p.at, q.at)
    \/ p.at = q.at /\ p.delta < q.delta

StartsFirst(p, q) ==
    \/ Before(p.at, q.at)
    \/ p.at = q.at /\ p.delta > q.delta

\* The ends of the intervals in order, and whether two are ever open at once.
check_for_versions_intersection(list) ==
    LET pairs == SortSeq(FlattenSeq(
                     [i \in DOMAIN list |-> <<[at |-> list[i].start, delta |-> 1],
                                              [at |-> list[i].end, delta |-> -1]>>]),
                         StartsFirst)
        counter(k) == FoldLeft(LAMBDA n, p : n + p.delta, 0, SubSeq(pairs, 1, k))
    IN  \E k \in DOMAIN pairs : counter(k) > 1

LatestFirst(m, n) == Before(n.start, m.start)

\* The decorator api_version.  No max_ver is CURRENT_MAX_VER; the class is not
\* loaded, and zun-api does not start, when the new interval meets another.
api_version(m) ==
    /\ loaded
    /\ AtMost(m.start, m.end)
    /\ LET list == Append(methods, m)
       IN  IF check_for_versions_intersection(list)
           THEN methods' = list /\ loaded' = FALSE
           ELSE methods' = SortSeq(list, LatestFirst) /\ loaded' = TRUE

\* The method of the list that answers version v: one at most.
version_select(v, list) ==
    LET hits == {i \in DOMAIN list : matches(v, list[i])}
    IN  IF hits = {} THEN {} ELSE {list[CHOOSE i \in hits : \A j \in hits : i <= j]}

\* A header: absent, not of two words, or a service and a version.  "latest" is
\* taken before the service is looked at.
Headers ==
    [form : {"absent", "malformed"}] \cup
    [form : {"latest"}, service : {"container", "other"}, v : {BaseVer}] \cup
    [form : {"number"}, service : {"container", "other"}, v : Named]

\* The version a header asks for; none is the answer 406.
parse_headers(h) ==
    CASE h.form = "absent" -> {BaseVer}
      [] h.form = "latest" -> {MaxVer}
      [] h.form = "number" /\ h.service = "container" -> {h.v}
      [] OTHER -> {}

_check_version(v) == v[1] = 1 /\ AtMost(BaseVer, v) /\ AtMost(v, MaxVer)

\* The method that serves a request with the header h.
_route(h, list) ==
    UNION {version_select(v, list) : v \in {w \in parse_headers(h) : _check_version(w)}}

(***************************************************************************)
(* Properties.                                                             *)
(***************************************************************************)
Meet(m, n) == \E v \in Supported : matches(v, m) /\ matches(v, n)

\* The counting of interval ends (check_for_versions_intersection) refuses a
\* class exactly when two of its methods could answer the same version.
OverlapRefused ==
    loaded <=> \A i, j \in DOMAIN methods : i /= j => ~Meet(methods[i], methods[j])

\* Whatever the order of registration, a request is answered by the one method
\* whose interval holds the version its header asks for, and a header that asks
\* for no supported version by none (_route, version_select).
OneMethodServes ==
    loaded =>
        \A h \in Headers :
            LET wanted == parse_headers(h) \cap Supported
            IN  _route(h, methods) =
                    {m \in Range(methods) : \E v \in wanted : matches(v, m)}

\* A version is answered by one method, or the class is refused when it is made.
VersionsServe == OverlapRefused /\ OneMethodServes

=============================================================================
