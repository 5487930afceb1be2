----------------------------- MODULE MCCatalog ------------------------------
(***************************************************************************)
(* What meets in the catalog: writers of names, clients who look up and    *)
(* clients who walk through the pages.                                     *)
(***************************************************************************)
EXTENDS Catalog

P == [project |-> "p", admin |-> FALSE]
Q == [project |-> "q", admin |-> FALSE]
Boss == [project |-> "p", admin |-> TRUE]

Row(kind, project, name) ==
    [NoRow EXCEPT !.state = "live", !.kind = kind, !.project = project, !.name = name]

Table(s) == [i \in Ids |-> IF i \in DOMAIN s THEN s[i] ELSE NoRow]

Create(ctxs, kinds, names) ==
    {[NoReq EXCEPT !.op = "create", !.ctx = c, !.kind = k, !.val = n] :
        c \in ctxs, k \in kinds, n \in names}

OnRow(op, ctxs, kind, ids, vals) ==
    {[NoReq EXCEPT !.op = op, !.ctx = c, !.kind = kind, !.id = i, !.val = v] :
        c \in ctxs, i \in ids, v \in vals}

ByName(op, ctxs, kinds, names) ==
    {[NoReq EXCEPT !.op = op, !.ctx = c, !.kind = k, !.name = n, !.val = 3] :
        c \in ctxs, k \in kinds, n \in names}

WithHeader(set, h) == {[r EXCEPT !.header = h] : r \in set}

Old == [form |-> "number", service |-> "container", v |-> <<1, 1>>]
Latest == [form |-> "latest", service |-> "other", v |-> <<1, 1>>]

Lists(ctxs, kinds, alls, filters, limits, keys, dirs) ==
    {[NoReq EXCEPT !.op = "list", !.ctx = c, !.kind = k, !.all = a, !.filter = f,
                   !.limit = l, !.key = s, !.dir = d] :
        c \in ctxs, k \in kinds, a \in alls, f \in filters, l \in limits,
        s \in keys, d \in dirs}

Renames == <<[start |-> BaseVer, end |-> <<1, RenameMinor>>]>>

\* Two or three writes of names, and someone who asks for a name.
NamesProgramme ==
    [rows |-> {Table(<<Row("container", "q", 1), Row("container", "q", 3)>>)},
     scopes |-> {"", "project", "global"},
     methods |-> Renames,
     asks |-> <<Create({P, Q}, {"container", "capsule"}, {1, 2}),
                Create({Q}, {"container"}, {1}) \cup
                    OnRow("patch", {P, Q, Boss}, "container", {1, 2}, {1, 2}) \cup
                    OnRow("delete", {Q}, "container", {1}, {0}),
                WithHeader(OnRow("rename", {P, Boss, Q}, "container", {2}, {1, 3}), Old) \cup
                    WithHeader(OnRow("rename", {Q}, "container", {2}, {1}), Latest) \cup
                    ByName("show", {P, Q, Boss}, {"container"}, {1, 2}) \cup
                    WithHeader(ByName("rename", {Q}, {"container"}, {1}), Old) \cup
                    ByName("delete", {Q}, {"container"}, {1})>>]

\* Other kinds, and the flags of a listing.
KindsProgramme ==
    [rows |-> {Table(<<Row("registry", "p", 1), Row("registry", "q", 1),
                       Row("capsule", "q", 1), Row("image", "p", 1)>>)},
     scopes |-> {"global"},
     methods |-> Renames,
     asks |-> <<Lists({P, Q, Boss}, {"registry", "capsule", "image"}, BOOLEAN,
                      {NoFilter}, {0, 1, 3}, {"id"}, {"asc"}),
                Create({P, Boss}, {"capsule", "registry", "image"}, {1}) \cup
                    OnRow("patch", {P, Boss}, "registry", {1, 2}, {3}),
                OnRow("delete", {P, Boss}, "registry", {1}, {0}) \cup
                    OnRow("delete", {P, Boss}, "image", {4}, {0}) \cup
                    OnRow("delete", {P, Boss}, "capsule", {3}, {0}) \cup
                    OnRow("show", {P, Boss}, "image", {4}, {0}) \cup
                    ByName("show", {P, Boss}, {"registry", "capsule"}, {1})>>]

\* A walk, while rows are created, renamed and deleted.
WalkProgramme ==
    [rows |-> {Table(<<Row("container", "p", a), Row("container", "q", 1),
                       Row("container", "p", b), Row("container", "p", 3)>>) :
                  a \in {1, 3}, b \in {1, 2}},
     scopes |-> {""},
     methods |-> Renames,
     asks |-> <<Lists({P}, {"container"}, {FALSE},
                      {NoFilter, [key |-> "name", val |-> 1]}, {1, 2}, {"id", "name"},
                      {"asc", "desc"}) \cup
                    Lists({P, Boss}, {"container"}, {TRUE},
                          {NoFilter, [key |-> "host", val |-> NoName]},
                          {2}, {"id"}, {"asc"}) \cup
                    Lists({P}, {"container"}, {FALSE}, {[key |-> "host", val |-> NoName]},
                          {2}, {"id"}, {"asc"}),
                Create({P}, {"container"}, {1, 3}) \cup
                    OnRow("patch", {P}, "container", {1, 3, 4}, {1, 2, 3}),
                OnRow("delete", {P}, "container", {1, 3, 4}, {0})>>]

\* The class that is loaded, with any intervals.
LoadProgramme ==
    [rows |-> {Table(<<>>)}, scopes |-> {""}, methods |-> <<>>, asks |-> <<>>]

MCProgrammes == {NamesProgramme, KindsProgramme, WalkProgramme, LoadProgramme}
=============================================================================
