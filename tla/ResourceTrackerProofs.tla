------------------------ MODULE ResourceTrackerProofs ------------------------
(***************************************************************************)
(* No claim is lost while its container is being created, for every set of *)
(* containers, every demand and every limit.                               *)
(***************************************************************************)
EXTENDS ResourceTracker, Sums

-----------------------------------------------------------------------------
(* The inductive invariant                                                  *)

\* The part of the type invariant the argument needs: nothing about amounts of
\* usage, which no claim of this module depends on once it was granted.
ShapeOK ==
    /\ rows \in [Containers -> Rows]
    /\ tracked \subseteq Containers
    /\ th \in [Containers -> Threads]
    /\ \A o \in ops : o.c \in Containers /\ o.new \in Nat

\* A thread that holds the tracker's lock tests a claim that asks for something,
\* and has saved the host of its row.
TestedInv ==
    \A c \in Containers :
        th[c] = "use" /\ rows[c].exists => rows[c].host

\* A delete that removes usage holds the lock of a container whose creation is
\* over.
DeleteInv ==
    \A o \in ops : o.phase \in {"run", "destroy"} => th[o.c] = "done"

HeldInv == ShapeOK /\ TestedInv /\ DeleteInv /\ ClaimHeld

\* What a step may do to the row of a container another thread works on: it
\* destroys it, or it leaves the host alone.
RowKept(c) == rows'[c].exists => rows[c].exists /\ rows'[c].host = rows[c].host

-----------------------------------------------------------------------------
(* Lemmas about the operators                                               *)

\* save() changes host and status of a row that exists, and no other row.
LEMMA SaveRowFact ==
    ASSUME ShapeOK, NEW c \in Containers, NEW h \in BOOLEAN,
           NEW s \in {"creating", "created", "deleting", "error"},
           SaveRow(c, h, s)
    PROVE  /\ rows' \in [Containers -> Rows]
           /\ \A d \in Containers \ {c} : rows'[d] = rows[d]
           /\ rows'[c].exists = rows[c].exists
           /\ rows'[c].exists => rows'[c].host = h
<1>1. CASE rows[c].exists
  BY <1>1 DEF SaveRow, ShapeOK, Rows
<1>2. CASE ~rows[c].exists
  BY <1>2 DEF SaveRow, ShapeOK, Rows
<1>3. QED
  BY <1>1, <1>2

\* Destroying a row touches no other row.
LEMMA DestroyFact ==
    ASSUME ShapeOK, NEW c \in Containers,
           rows' = [rows EXCEPT ![c].exists = FALSE]
    PROVE  /\ rows' \in [Containers -> Rows]
           /\ \A d \in Containers : RowKept(d)
<1>1. [rows[c] EXCEPT !.exists = FALSE] \in Rows
  BY DEF ShapeOK, Rows
<1>2. rows' \in [Containers -> Rows]
  BY <1>1 DEF ShapeOK
<1>3. \A d \in Containers \ {c} : rows'[d] = rows[d]
  BY DEF ShapeOK
<1>4. ~rows'[c].exists
  BY DEF ShapeOK, Rows
<1>5. \A d \in Containers : RowKept(d)
  BY <1>3, <1>4 DEF RowKept
<1>6. QED
  BY <1>2, <1>5

\* Moving one thread leaves the others where they are.
LEMMA GotoFact ==
    ASSUME ShapeOK, NEW c \in Containers, NEW pc \in Threads, Goto(c, pc)
    PROVE  /\ th' \in [Containers -> Threads]
           /\ th'[c] = pc
           /\ \A d \in Containers \ {c} : th'[d] = th[d]
BY DEF ShapeOK, Goto

\* What Drop leaves, and what Advance puts in the place of an operation.
LEMMA DropFact ==
    ASSUME ShapeOK, DeleteInv, NEW o \in ops, Drop(o)
    PROVE  /\ \A p \in ops' : p.c \in Containers /\ p.new \in Nat
           /\ \A p \in ops' : p.phase \in {"run", "destroy"} => th[p.c] = "done"
BY DEF ShapeOK, DeleteInv, Drop

\* An operation that goes on stays with its container.
LEMMA AdvanceFact ==
    ASSUME ShapeOK, DeleteInv, NEW o \in ops,
           NEW phase \in {"api", "cast", "run", "destroy", "apply", "abort"},
           Advance(o, phase),
           phase \in {"run", "destroy"} => th[o.c] = "done"
    PROVE  /\ \A p \in ops' : p.c \in Containers /\ p.new \in Nat
           /\ \A p \in ops' : p.phase \in {"run", "destroy"} => th[p.c] = "done"
<1> DEFINE q == [o EXCEPT !.phase = phase]
<1>1. ops' = (ops \ {o}) \cup {q}
  BY DEF Advance
<1>2. q.c = o.c /\ q.new = o.new
  OBVIOUS
<1>3. q.phase \in {"run", "destroy"} => phase \in {"run", "destroy"} \/ q = o
  OBVIOUS
<1>4. QED
  BY <1>1, <1>2, <1>3 DEF ShapeOK, DeleteInv

-----------------------------------------------------------------------------
(* What a step has to leave alone                                           *)

\* A step of the thread of c keeps the invariant for c and touches no other
\* container.
LEMMA ThreadFrame ==
    ASSUME HeldInv, NEW c \in Containers, ops' = ops, th[c] # "done",
           rows' \in [Containers -> Rows], tracked' \subseteq Containers,
           th' \in [Containers -> Threads],
           \A d \in Containers \ {c} :
               /\ rows'[d] = rows[d] /\ th'[d] = th[d]
               /\ d \in tracked => d \in tracked',
           th'[c] = "use" /\ rows'[c].exists => rows'[c].host,
           th'[c] = "body" /\ Demand[c] # 0 /\ rows'[c].exists
               => c \in tracked' /\ rows'[c].host
    PROVE  HeldInv'
<1>1. ShapeOK'
  BY DEF HeldInv, ShapeOK
<1>2. TestedInv'
  BY DEF HeldInv, TestedInv
<1>3. DeleteInv'
  BY DEF HeldInv, DeleteInv, ShapeOK
<1>4. ClaimHeld'
  BY DEF HeldInv, ClaimHeld
<1>5. QED
  BY <1>1, <1>2, <1>3, <1>4 DEF HeldInv

\* A step of anyone else keeps the rows and the tracking of containers whose
\* threads are at work.
LEMMA OtherFrame ==
    ASSUME HeldInv, th' = th,
           rows' \in [Containers -> Rows], tracked' \subseteq Containers,
           \A o \in ops' : o.c \in Containers /\ o.new \in Nat,
           \A o \in ops' : o.phase \in {"run", "destroy"} => th[o.c] = "done",
           \A d \in Containers :
               th[d] # "done" =>
                   /\ RowKept(d)
                   /\ th[d] = "body" /\ Demand[d] # 0 /\ rows'[d].exists
                        => (d \in tracked => d \in tracked')
    PROVE  HeldInv'
<1>1. ShapeOK'
  BY DEF HeldInv, ShapeOK
<1>2. TestedInv'
  BY DEF HeldInv, TestedInv, RowKept
<1>3. DeleteInv'
  BY DEF HeldInv, DeleteInv
<1>4. ClaimHeld'
  BY DEF HeldInv, ClaimHeld, RowKept
<1>5. QED
  BY <1>1, <1>2, <1>3, <1>4 DEF HeldInv

-----------------------------------------------------------------------------
(* Threads of container_create                                              *)

\* Whatever the step of a create thread, the claims of the host are held.
LEMMA ThreadStepHeld ==
    ASSUME HeldInv, NEW c \in Containers, ThreadStep(c)
    PROVE  HeldInv'
<1> USE DEF Threads
<1>1. ShapeOK /\ Demand[c] \in Nat
  BY DemandAssumption DEF HeldInv
<1>2. rows[c].exists \in BOOLEAN /\ rows[c].host \in BOOLEAN
        /\ rows[c].status \in {"creating", "created", "deleting", "error"}
  BY <1>1 DEF ShapeOK, Rows
<1>3. CASE NopClaim(c)
  <2>1. Goto(c, "body") /\ rows' = rows /\ tracked' = tracked /\ ops' = ops
          /\ th[c] = "claim" /\ Demand[c] = 0
    BY <1>3 DEF NopClaim
  <2>2. QED
    BY <2>1, <1>1, GotoFact, ThreadFrame DEF ShapeOK
<1>4. CASE ClaimRefused(c)
  <2>1. SaveRow(c, FALSE, "error") /\ Goto(c, "done") /\ tracked' = tracked
          /\ ops' = ops /\ th[c] = "claim"
    BY <1>4 DEF ClaimRefused
  <2>2. QED
    BY <2>1, <1>1, GotoFact, SaveRowFact, ThreadFrame DEF ShapeOK
<1>5. CASE ClaimDedicated(c)
  <2>1. Goto(c, "done") /\ rows' = rows /\ tracked' = tracked /\ ops' = ops
          /\ th[c] = "claim"
    BY <1>5 DEF ClaimDedicated
  <2>2. QED
    BY <2>1, <1>1, GotoFact, ThreadFrame DEF ShapeOK
<1>6. CASE ClaimTest(c)
  <2>1. SaveRow(c, TRUE, rows[c].status) /\ tracked' = tracked /\ ops' = ops
          /\ th[c] = "claim"
          /\ Goto(c, IF rows[c].exists THEN "use" ELSE "done")
    BY <1>6 DEF ClaimTest
  <2>2. /\ rows' \in [Containers -> Rows]
        /\ \A d \in Containers \ {c} : rows'[d] = rows[d]
        /\ rows'[c].exists => rows'[c].host
    BY <2>1, <1>1, <1>2, SaveRowFact
  <2>3. /\ th' \in [Containers -> Threads]
        /\ th'[c] \in {"use", "done"}
        /\ \A d \in Containers \ {c} : th'[d] = th[d]
    BY <2>1, <1>1, GotoFact
  <2>4. QED
    BY <2>1, <2>2, <2>3, <1>1, ThreadFrame DEF ShapeOK
<1>7. CASE ClaimUse(c)
  <2>1. tracked' = tracked \cup {c} /\ rows' = rows /\ ops' = ops
          /\ th[c] = "use"
    BY <1>7 DEF ClaimUse
  <2>2. Goto(c, "body") \/ Goto(c, "done")
    BY <1>7 DEF ClaimUse
  <2>3. /\ th' \in [Containers -> Threads]
        /\ th'[c] \in {"body", "done"}
        /\ \A d \in Containers \ {c} : th'[d] = th[d]
    BY <2>2, <1>1, GotoFact
  <2>4. rows[c].exists => rows[c].host
    BY <2>1 DEF HeldInv, TestedInv
  <2>5. QED
    BY <2>1, <2>3, <2>4, <1>1, ThreadFrame DEF ShapeOK
<1>8. CASE Body(c)
  <2>1. SaveRow(c, rows[c].host, "created") /\ tracked' = tracked /\ ops' = ops
          /\ th[c] = "body"
          /\ Goto(c, IF rows[c].exists THEN "done" ELSE AfterBody(c))
    BY <1>8 DEF Body
  <2>2. /\ rows' \in [Containers -> Rows]
        /\ \A d \in Containers \ {c} : rows'[d] = rows[d]
    BY <2>1, <1>1, <1>2, SaveRowFact
  <2>3. /\ th' \in [Containers -> Threads]
        /\ th'[c] \in {"abort", "done"}
        /\ \A d \in Containers \ {c} : th'[d] = th[d]
    BY <2>1, <1>1, GotoFact DEF AfterBody
  <2>4. QED
    BY <2>1, <2>2, <2>3, <1>1, ThreadFrame DEF ShapeOK
<1>9. CASE AbortClaim(c)
  <2>1. Goto(c, "done") /\ rows' = rows /\ ops' = ops /\ th[c] = "abort"
    BY <1>9 DEF AbortClaim
  <2>2. tracked' = IF c \in tracked THEN tracked \ {c} ELSE tracked \cup {c}
    BY <1>9 DEF AbortClaim, RemoveUsage
  <2>3. QED
    BY <2>1, <2>2, <1>1, GotoFact, ThreadFrame DEF ShapeOK
<1>10. ASSUME NEW fault \in {"pull", "create"}, BodyFails(c, fault)
       PROVE  HeldInv'
  <2>1. SaveRow(c, rows[c].host /\ fault = "pull", "error")
          /\ tracked' = tracked /\ ops' = ops /\ th[c] = "body"
          /\ Goto(c, AfterBody(c))
    BY <1>10 DEF BodyFails
  <2>2. (rows[c].host /\ fault = "pull") \in BOOLEAN
    OBVIOUS
  <2>3. /\ rows' \in [Containers -> Rows]
        /\ \A d \in Containers \ {c} : rows'[d] = rows[d]
    BY <2>1, <2>2, <1>1, SaveRowFact
  <2>4. /\ th' \in [Containers -> Threads]
        /\ th'[c] \in {"abort", "done"}
        /\ \A d \in Containers \ {c} : th'[d] = th[d]
    BY <2>1, <1>1, GotoFact DEF AfterBody
  <2>5. QED
    BY <2>1, <2>3, <2>4, <1>1, ThreadFrame DEF ShapeOK
<1>11. QED
  BY <1>3, <1>4, <1>5, <1>6, <1>7, <1>8, <1>9, <1>10 DEF ThreadStep

-----------------------------------------------------------------------------
(* Deletes and updates                                                      *)

\* A request adds an operation that has yet to take the container's lock.
LEMMA RequestHeld ==
    ASSUME HeldInv, NEW c \in Containers, ApiRequest(c)
    PROVE  HeldInv'
<1>1. rows' = rows /\ tracked' = tracked /\ th' = th
  BY DEF ApiRequest
<1>2. \E o : /\ ops' = ops \cup {o}
             /\ o.c = c /\ o.new \in Nat /\ o.phase \in {"api", "cast"}
  <2>1. CASE ops' = ops \cup {Request(c, "delete", 0)}
    <3> DEFINE r == Request(c, "delete", 0)
    <3>1. r.c = c /\ r.new = 0 /\ r.phase \in {"api", "cast"}
      BY DEF Request
    <3>2. ops' = ops \cup {r}
      BY <2>1
    <3> HIDE DEF r
    <3>3. QED
      BY <3>1, <3>2
  <2>2. CASE \E new \in Sizes : ops' = ops \cup {Request(c, "update", new)}
    <3>1. PICK new \in Sizes : ops' = ops \cup {Request(c, "update", new)}
      BY <2>2
    <3>2. new \in Nat
      BY DemandAssumption
    <3> DEFINE r == Request(c, "update", new)
    <3>3. r.c = c /\ r.new = new /\ r.phase \in {"api", "cast"}
      BY DEF Request
    <3>4. ops' = ops \cup {r}
      BY <3>1
    <3> HIDE DEF r
    <3>5. QED
      BY <3>2, <3>3, <3>4
  <2>3. QED
    BY <2>1, <2>2 DEF ApiRequest
<1>3. PICK o : /\ ops' = ops \cup {o}
               /\ o.c = c /\ o.new \in Nat /\ o.phase \in {"api", "cast"}
  BY <1>2
<1>4. /\ \A p \in ops' : p.c \in Containers /\ p.new \in Nat
      /\ \A p \in ops' : p.phase \in {"run", "destroy"} => th[p.c] = "done"
  BY <1>3 DEF HeldInv, ShapeOK, DeleteInv
<1>5. QED
  BY <1>1, <1>4, OtherFrame DEF HeldInv, ShapeOK, RowKept

\* Whatever the step of a delete or an update, the claims of the host are held.
LEMMA OpStepHeld ==
    ASSUME HeldInv, NEW o \in ops, OpStep(o)
    PROVE  HeldInv'
<1> DEFINE OpsKept ==
        /\ \A p \in ops' : p.c \in Containers /\ p.new \in Nat
        /\ \A p \in ops' : p.phase \in {"run", "destroy"} => th[p.c] = "done"
<1>1. ShapeOK /\ DeleteInv /\ o.c \in Containers /\ o.new \in Nat
  BY DEF HeldInv, ShapeOK
<1>2. rows[o.c].exists \in BOOLEAN /\ rows[o.c].host \in BOOLEAN
  BY <1>1 DEF ShapeOK, Rows
<1>3. CASE ApiDelete(o)
  <2>1. tracked' = tracked /\ th' = th
    BY <1>3 DEF ApiDelete
  <2>2. OpsKept
    BY <1>3, <1>1, DropFact, AdvanceFact DEF ApiDelete
  <2>3. rows' = rows \/ rows' = [rows EXCEPT ![o.c].exists = FALSE]
    BY <1>3 DEF ApiDelete
  <2>4. rows' \in [Containers -> Rows] /\ \A d \in Containers : RowKept(d)
    BY <2>3, <1>1, DestroyFact DEF ShapeOK, RowKept
  <2>5. QED
    BY <2>1, <2>2, <2>4, <1>1, OtherFrame DEF ShapeOK
<1>4. CASE DeleteBegin(o)
  <2>1. tracked' = tracked /\ th' = th /\ th[o.c] = "done"
          /\ SaveRow(o.c, rows[o.c].host, "deleting")
    BY <1>4 DEF DeleteBegin
  <2>2. OpsKept
    BY <1>4, <2>1, <1>1, DropFact, AdvanceFact DEF DeleteBegin
  <2>3. rows' \in [Containers -> Rows] /\ \A d \in Containers : RowKept(d)
    BY <2>1, <1>1, <1>2, SaveRowFact DEF RowKept
  <2>4. QED
    BY <2>1, <2>2, <2>3, <1>1, OtherFrame DEF ShapeOK
<1>5. CASE DeleteUsage(o)
  <2>1. rows' = rows /\ th' = th /\ o.phase = "run"
    BY <1>5 DEF DeleteUsage
  <2>2. th[o.c] = "done"
    BY <2>1, <1>1 DEF DeleteInv
  <2>3. tracked' = IF o.c \in tracked THEN tracked \ {o.c} ELSE tracked \cup {o.c}
    BY <1>5 DEF DeleteUsage, RemoveUsage
  <2>4. Advance(o, "destroy") \/ Drop(o)
    BY <1>5 DEF DeleteUsage
  <2>5. OpsKept
    BY <2>2, <2>4, <1>1, DropFact, AdvanceFact
  <2>6. QED
    BY <2>1, <2>2, <2>3, <2>5, <1>1, OtherFrame DEF ShapeOK, RowKept
<1>6. CASE DeleteRow(o)
  <2>1. tracked' = tracked /\ th' = th /\ Drop(o)
    BY <1>6 DEF DeleteRow
  <2>2. rows' = rows \/ rows' = [rows EXCEPT ![o.c].exists = FALSE]
    BY <1>6 DEF DeleteRow
  <2>3. rows' \in [Containers -> Rows] /\ \A d \in Containers : RowKept(d)
    BY <2>2, <1>1, DestroyFact DEF ShapeOK, RowKept
  <2>4. OpsKept
    BY <2>1, <1>1, DropFact
  <2>5. QED
    BY <2>1, <2>3, <2>4, <1>1, OtherFrame DEF ShapeOK
<1>7. CASE DeleteFails(o)
  <2>1. tracked' = tracked /\ th' = th /\ Drop(o)
          /\ SaveRow(o.c, rows[o.c].host, "error")
    BY <1>7 DEF DeleteFails
  <2>2. rows' \in [Containers -> Rows] /\ \A d \in Containers : RowKept(d)
    BY <2>1, <1>1, <1>2, SaveRowFact DEF RowKept
  <2>3. OpsKept
    BY <2>1, <1>1, DropFact
  <2>4. QED
    BY <2>1, <2>2, <2>3, <1>1, OtherFrame DEF ShapeOK
<1>8. CASE UpdateClaim(o)
  <2>1. rows' = rows /\ th' = th
    BY <1>8 DEF UpdateClaim
  <2>2. tracked' = tracked \/ tracked' = tracked \cup {o.c}
    BY <1>8 DEF UpdateClaim
  <2>3. Advance(o, "apply") \/ Drop(o)
    BY <1>8 DEF UpdateClaim
  <2>4. OpsKept
    BY <2>3, <1>1, DropFact, AdvanceFact
  <2>5. QED
    BY <2>1, <2>2, <2>4, <1>1, OtherFrame DEF ShapeOK, RowKept
<1>9. CASE UpdateApply(o)
  <2>1. tracked' = tracked /\ th' = th
    BY <1>9 DEF UpdateApply
  <2>2. rows' = rows \/ rows' = [rows EXCEPT ![o.c].cpu = o.new]
    BY <1>9 DEF UpdateApply
  <2>3. rows' \in [Containers -> Rows] /\ \A d \in Containers : RowKept(d)
    BY <2>2, <1>1 DEF ShapeOK, Rows, RowKept
  <2>4. Advance(o, "abort") \/ Drop(o)
    BY <1>9 DEF UpdateApply
  <2>5. OpsKept
    BY <2>4, <1>1, DropFact, AdvanceFact
  <2>6. QED
    BY <2>1, <2>3, <2>5, <1>1, OtherFrame DEF ShapeOK
<1>10. CASE UpdateAbort(o)
  <2>1. rows' = rows /\ th' = th /\ tracked' = tracked \cup {o.c} /\ Drop(o)
    BY <1>10 DEF UpdateAbort
  <2>2. OpsKept
    BY <2>1, <1>1, DropFact
  <2>3. QED
    BY <2>1, <2>2, <1>1, OtherFrame DEF ShapeOK, RowKept
<1>11. QED
  BY <1>3, <1>4, <1>5, <1>6, <1>7, <1>8, <1>9, <1>10 DEF OpStep

-----------------------------------------------------------------------------
(* The audit and the loss of zun-compute                                    *)

\* The audit forgets what it tracked and finds every held claim again by the
\* host of its row: the lock keeps it from a claim half way.
LEMMA AuditHeld ==
    ASSUME HeldInv, AuditStep
    PROVE  HeldInv'
<1>1. rows' = rows /\ th' = th /\ ops' = ops
  BY DEF AuditStep, AuditRead, AuditSwap, AuditRun
<1>2. tracked' = tracked \/ tracked' = Listed
  BY DEF AuditStep, AuditRead, AuditSwap, AuditRun
<1>3. \A d \in Containers :
        th[d] = "body" /\ Demand[d] # 0 /\ rows[d].exists => d \in Listed
  BY DEF HeldInv, ClaimHeld, Listed
<1>4. tracked' \subseteq Containers
  BY <1>2 DEF HeldInv, ShapeOK, Listed
<1>5. /\ \A p \in ops' : p.c \in Containers /\ p.new \in Nat
      /\ \A p \in ops' : p.phase \in {"run", "destroy"} => th[p.c] = "done"
  BY <1>1 DEF HeldInv, ShapeOK, DeleteInv
<1>6. QED
  BY <1>1, <1>2, <1>3, <1>4, <1>5, OtherFrame DEF HeldInv, ShapeOK, RowKept

\* After a loss of zun-compute no thread holds a claim.
LEMMA CrashHeld ==
    ASSUME HeldInv, Crash
    PROVE  HeldInv'
<1>1. tracked' = {}
  BY DEF Crash
<1>2. rows' \in [Containers -> Rows]
  <2>1. \A c \in Containers :
          (IF rows[c].host /\ rows[c].status = "creating"
           THEN [rows[c] EXCEPT !.status = "error"] ELSE rows[c]) \in Rows
    BY DEF HeldInv, ShapeOK, Rows
  <2>2. QED
    BY <2>1 DEF Crash
<1>3. th' \in [Containers -> {"claim", "done"}]
  BY DEF Crash
<1>4. \A q \in ops : q.phase \in {"run", "destroy"} => th'[q.c] = "done"
  BY DEF Crash, HeldInv, ShapeOK, DeleteInv
<1>5. \A p \in ops' : \E q \in ops :
        /\ p.c = q.c /\ p.new = q.new
        /\ p.phase \in {"api", "cast"} \/ q.phase \in {"run", "destroy"}
  <2>1. PICK lost \in SUBSET {o \in ops : o.phase = "cast"} :
          ops' = {o \in ops \ lost : o.phase \in {"api", "cast"}}
                   \cup {[o EXCEPT !.phase = "cast", !.old = rows[o.c].cpu] :
                           o \in {p \in ops : p.phase \in {"run", "destroy"}}}
    BY DEF Crash
  <2>2. \A q \in ops :
          LET p == [q EXCEPT !.phase = "cast", !.old = rows[q.c].cpu]
          IN p.c = q.c /\ p.new = q.new
    OBVIOUS
  <2>3. QED
    BY <2>1, <2>2
<1>6. ShapeOK'
  BY <1>1, <1>2, <1>3, <1>5 DEF ShapeOK, Threads, HeldInv
<1>7. TestedInv' /\ ClaimHeld'
  BY <1>3 DEF TestedInv, ClaimHeld
<1>8. DeleteInv'
  BY <1>4, <1>5 DEF DeleteInv
<1>9. QED
  BY <1>6, <1>7, <1>8 DEF HeldInv
-----------------------------------------------------------------------------

\* Init satisfies the invariant, and no step breaks it.
LEMMA HeldInit == Init => HeldInv
<1> SUFFICES ASSUME Init PROVE HeldInv
  OBVIOUS
<1>1. rows \in [Containers -> Rows]
  BY DemandAssumption DEF Init, Rows
<1>2. QED
  BY <1>1 DEF Init, HeldInv, ShapeOK, TestedInv, DeleteInv, ClaimHeld, Threads

\* No step disturbs the claims that are held.
LEMMA HeldStep == HeldInv /\ [Next]_vars => HeldInv'
<1> SUFFICES ASSUME HeldInv, [Next]_vars PROVE HeldInv'
  OBVIOUS
<1>1. CASE \E c \in Containers : ThreadStep(c) \/ ApiRequest(c)
  BY <1>1, ThreadStepHeld, RequestHeld
<1>2. CASE \E o \in ops : OpStep(o)
  BY <1>2, OpStepHeld
<1>3. CASE AuditStep
  BY <1>3, AuditHeld
<1>4. CASE Crash
  BY <1>4, CrashHeld
<1>5. CASE UNCHANGED vars
  BY <1>5 DEF vars, HeldInv, ShapeOK, TestedInv, DeleteInv, ClaimHeld
<1>6. QED
  BY <1>1, <1>2, <1>3, <1>4, <1>5 DEF Next

\* No claim is lost while its container is being created: the tracker has it,
\* and its row has the host by which container_claim, _set_container_host and
\* the audit find it, whatever audits, deletes, updates and losses of
\* zun-compute come in between.
THEOREM ClaimsAreHeld == Spec => []ClaimHeld
<1>1. HeldInv => ClaimHeld
  BY DEF HeldInv
<1>2. QED
  BY <1>1, HeldInit, HeldStep, PTL DEF Spec

-----------------------------------------------------------------------------
(* Types, with the amounts                                                  *)

\* What Usage adds up, of any rows.
UsageOf(r, S) == MapThenSumSet(LAMBDA c : r[c].cpu, S)

\* What the containers of a list use is the sum of their rows' sizes.
LEMMA UsageIs ==
    ASSUME NEW r, NEW S, IsFiniteSet(S), NEW F,
           \A c \in S : F[c] \in Nat /\ r[c].cpu = F[c]
    PROVE  UsageOf(r, S) = Total(F, S)
<1> DEFINE Rec(h) ==
             h = [s \in SUBSET S |->
                    IF s = {} THEN 0
                    ELSE LET x == CHOOSE x \in s : TRUE IN r[x].cpu + h[s \ {x}]]
<1>1. UsageOf(r, S) = (CHOOSE h : Rec(h))[S]
  BY DEF UsageOf, MapThenSumSet, MapThenFoldSet
<1>2. \A x \in S : F[x] \in Nat OBVIOUS
<1>3. PICK g : Adds(g, F, SUBSET S) BY <1>2, SumExists
<1>4. ASSUME NEW s \in SUBSET S, s # {} PROVE r[First(s)].cpu = F[First(s)]
  BY <1>4, FirstIn
<1>5. Rec(g)
  <2>1. ASSUME NEW s \in SUBSET S
        PROVE  g[s] = IF s = {} THEN 0 ELSE r[First(s)].cpu + g[s \ {First(s)}]
    BY <1>3, <1>4 DEF Adds, Solves
  <2> QED BY <1>3, <2>1 DEF First, Adds
<1>6. PICK i : i = CHOOSE h : Rec(h) OBVIOUS
<1>7. Rec(i)
  <2> HIDE DEF Rec
  <2> QED BY <1>5, <1>6
<1>8. \A s \in SUBSET S : i[s] = IF s = {} THEN 0 ELSE r[First(s)].cpu + i[s \ {First(s)}]
  BY <1>7 DEF First
<1> HIDE DEF Rec
<1>9. Solves(i, F, SUBSET S) BY <1>4, <1>8 DEF Solves
<1>10. \A s \in SUBSET S : i[s] = g[s] BY <1>3, <1>9, SumUnique
<1>11. Total(F, S) = g[S] BY <1>2, <1>3, TotalIs
<1> QED BY <1>1, <1>6, <1>10, <1>11

\* That usage is a natural number.
LEMMA UsageNat ==
    ASSUME TypeOK, NEW S \in SUBSET Containers
    PROVE  Usage(S) \in Nat
<1>1. IsFiniteSet(S) BY DemandAssumption, FS_Subset
<1>2. PICK F : F = [c \in Containers |-> rows[c].cpu] OBVIOUS
<1>3. \A c \in S : F[c] \in Nat /\ rows[c].cpu = F[c] BY <1>2 DEF TypeOK, Rows
<1>4. UsageOf(rows, S) = Total(F, S) BY <1>1, <1>3, UsageIs
<1>5. Total(F, S) \in Nat BY <1>1, <1>3, TotalNat
<1> QED BY <1>4, <1>5 DEF Usage, UsageOf

\* _update_usage adds to the node and leaves it to be saved.
LEMMA UpdateUsageFact ==
    ASSUME NEW n \in Nodes, NEW d \in Int
    PROVE  /\ UpdateUsage(n, d) \in Nodes
           /\ UpdateUsage(n, d).used = n.used + d /\ UpdateUsage(n, d).dirty
<1>1. PICK k \in Int : k = n.used + d BY DEF Nodes
<1>2. UpdateUsage(n, d) = [n EXCEPT !.used = k, !.dirty = TRUE] BY <1>1 DEF UpdateUsage
<1> QED BY <1>1, <1>2 DEF Nodes

\* What _update writes; what it skips the node's row has already.
LEMMA UpdateFact ==
    ASSUME TypeOK, NEW n \in Nodes, NEW moved \in BOOLEAN, Update(n, moved)
    PROVE  /\ node' \in Nodes /\ sent' \in Nodes /\ db' \in Int
           /\ (sent.known => sent.used = db) /\ (n.dirty \/ n.used = db)
                => /\ db' = n.used /\ node'.used = n.used
                   /\ sent'.known => sent'.used = db'
<1> DEFINE clean == [n EXCEPT !.dirty = FALSE]
<1>1. clean \in Nodes /\ clean.used = n.used /\ clean.known = n.known BY DEF Nodes
<1>2. n.used \in Int /\ sent \in Nodes /\ db \in Int BY DEF Nodes, TypeOK
<1> HIDE DEF clean
<1>3. CASE moved \/ ~sent.known \/ sent.used # n.used
  <2>1. sent' = clean /\ node' = clean /\ db' = IF n.dirty THEN n.used ELSE db
    BY <1>3 DEF Update, clean
  <2> QED BY <1>1, <1>2, <2>1
<1>4. CASE ~(moved \/ ~sent.known \/ sent.used # n.used)
  <2>1. node' = n /\ sent' = sent /\ db' = db BY <1>4 DEF Update
  <2> QED BY <1>2, <1>4, <2>1
<1> QED BY <1>3, <1>4

\* A saved row keeps its type.
LEMMA SavedRow ==
    ASSUME TypeOK, NEW c \in Containers, NEW h \in BOOLEAN,
           NEW s \in {"creating", "created", "deleting", "error"}, SaveRow(c, h, s)
    PROVE  /\ rows' \in [Containers -> Rows]
           /\ \A d \in Containers \ {c} : rows'[d] = rows[d]
           /\ rows'[c].exists = rows[c].exists /\ rows'[c].cpu = rows[c].cpu
           /\ rows[c].exists => rows'[c].host = h /\ rows'[c].status = s
           /\ ~rows[c].exists => rows'[c] = rows[c]
<1>1. CASE rows[c].exists
  <2>1. rows' = [rows EXCEPT ![c] = [rows[c] EXCEPT !.host = h, !.status = s]]
    BY <1>1 DEF SaveRow, TypeOK, Rows
  <2>2. PICK e : e = [rows[c] EXCEPT !.host = h, !.status = s] OBVIOUS
  <2>3. e \in Rows /\ e.exists = rows[c].exists /\ e.cpu = rows[c].cpu
        /\ e.host = h /\ e.status = s
    BY <2>2 DEF TypeOK, Rows
  <2> QED BY <1>1, <2>1, <2>2, <2>3 DEF TypeOK
<1>2. CASE ~rows[c].exists BY <1>2 DEF SaveRow, TypeOK
<1> QED BY <1>1, <1>2

\* A destroyed row keeps its type.
LEMMA DestroyedRow ==
    ASSUME TypeOK, NEW c \in Containers, rows' = [rows EXCEPT ![c].exists = FALSE]
    PROVE  /\ rows' \in [Containers -> Rows]
           /\ \A d \in Containers \ {c} : rows'[d] = rows[d]
           /\ ~rows'[c].exists /\ rows'[c].cpu = rows[c].cpu
           /\ rows'[c].host = rows[c].host /\ rows'[c].status = rows[c].status
<1>1. PICK e : e = [rows[c] EXCEPT !.exists = FALSE] OBVIOUS
<1>2. e \in Rows /\ ~e.exists /\ e.cpu = rows[c].cpu /\ e.host = rows[c].host
      /\ e.status = rows[c].status
  BY <1>1 DEF TypeOK, Rows
<1>3. rows' = [rows EXCEPT ![c] = e] BY <1>1 DEF TypeOK
<1> QED BY <1>2, <1>3 DEF TypeOK

\* A thread that goes on keeps the types.
LEMMA GoneTo ==
    ASSUME TypeOK, NEW c \in Containers, NEW pc \in Threads, Goto(c, pc)
    PROVE  /\ th' \in [Containers -> Threads] /\ th'[c] = pc
           /\ \A d \in Containers \ {c} : th'[d] = th[d]
BY DEF TypeOK, Goto

\* An operation that goes on keeps the types.
LEMMA Advanced ==
    ASSUME TypeOK, NEW o \in ops,
           NEW phase \in {"api", "cast", "run", "destroy", "apply", "abort"},
           Advance(o, phase)
    PROVE  /\ ops' \subseteq Ops
           /\ \E q \in ops' : /\ ops' = (ops \ {o}) \cup {q} /\ q.op = o.op /\ q.c = o.c
                              /\ q.phase = phase /\ q.old = o.old /\ q.new = o.new
<1>1. PICK q : q = [o EXCEPT !.phase = phase] OBVIOUS
<1>2. o \in Ops BY DEF TypeOK
<1>3. q \in Ops /\ q.op = o.op /\ q.c = o.c /\ q.phase = phase /\ q.old = o.old /\ q.new = o.new
  BY <1>1, <1>2 DEF Ops
<1>4. ops' = (ops \ {o}) \cup {q} BY <1>1 DEF Advance
<1> QED BY <1>3, <1>4 DEF TypeOK

\* An operation that ends keeps the types.
LEMMA Dropped == ASSUME TypeOK, NEW o \in ops, Drop(o) PROVE ops' \subseteq Ops
BY DEF TypeOK, Drop

\* The node read from the database has what its row says.
LEMMA FreshType == ASSUME TypeOK PROVE Fresh \in Nodes /\ Fresh.used = db
BY DEF TypeOK, Fresh, Nodes

\* What is left of the usage is of its type.
LEMMA RemoveUsageType ==
    ASSUME TypeOK, NEW n \in Nodes, NEW c \in Containers, NEW cpu \in Nat, RemoveUsage(n, c, cpu)
    PROVE  /\ tracked' \subseteq Containers
           /\ node' \in Nodes /\ sent' \in Nodes /\ db' \in Int
<1>1. PICK d \in Int : d = IF c \in tracked THEN -cpu ELSE cpu OBVIOUS
<1>2. PICK moved \in BOOLEAN : Update(UpdateUsage(n, d), moved) BY <1>1 DEF RemoveUsage
<1>3. UpdateUsage(n, d) \in Nodes BY UpdateUsageFact
<1>4. node' \in Nodes /\ sent' \in Nodes /\ db' \in Int BY <1>2, <1>3, UpdateFact
<1> QED BY <1>4 DEF RemoveUsage, TypeOK

\* The steps of a creation keep the types.
LEMMA ThreadTypes ==
    ASSUME TypeOK, NEW c \in Containers, ThreadStep(c)
    PROVE  TypeOK'
<1> USE DEF Threads
<1>1. Demand[c] \in Nat /\ rows[c].host \in BOOLEAN /\ rows[c].exists \in BOOLEAN
      /\ rows[c].status \in {"creating", "created", "deleting", "error"}
  BY DemandAssumption DEF TypeOK, Rows
<1>2. CASE NopClaim(c)
  <2>1. th' \in [Containers -> Threads] BY <1>2, GoneTo DEF NopClaim
  <2> QED BY <1>2, <2>1 DEF NopClaim, TypeOK
<1>3. CASE ClaimRefused(c)
  <2>1. th' \in [Containers -> Threads] BY <1>3, GoneTo DEF ClaimRefused
  <2>2. rows' \in [Containers -> Rows] BY <1>3, SavedRow DEF ClaimRefused
  <2> QED BY <1>3, <2>1, <2>2, FreshType DEF ClaimRefused, TypeOK
<1>4. CASE ClaimDedicated(c)
  <2>1. th' \in [Containers -> Threads] BY <1>4, GoneTo DEF ClaimDedicated
  <2> QED BY <1>4, <2>1, FreshType DEF ClaimDedicated, TypeOK
<1>5. CASE ClaimTest(c)
  <2>1. th' \in [Containers -> Threads] BY <1>5, GoneTo DEF ClaimTest
  <2>2. rows' \in [Containers -> Rows] BY <1>1, <1>5, SavedRow DEF ClaimTest
  <2> QED BY <1>5, <2>1, <2>2, FreshType DEF ClaimTest, TypeOK
<1>6. CASE ClaimUse(c)
  <2>1. th' \in [Containers -> Threads] BY <1>6, GoneTo DEF ClaimUse
  <2>2. PICK n : n = IF c \in tracked THEN node ELSE UpdateUsage(node, Demand[c]) OBVIOUS
  <2>3. n \in Nodes
    <3>1. node \in Nodes /\ Demand[c] \in Int BY <1>1 DEF TypeOK
    <3> QED BY <2>2, <3>1, UpdateUsageFact
  <2>4. PICK moved \in BOOLEAN : Update(n, moved) BY <1>6, <2>2 DEF ClaimUse
  <2>5. node' \in Nodes /\ sent' \in Nodes /\ db' \in Int BY <2>3, <2>4, UpdateFact
  <2> QED BY <1>6, <2>1, <2>5 DEF ClaimUse, TypeOK
<1>7. CASE Body(c)
  <2>1. th' \in [Containers -> Threads] BY <1>7, GoneTo DEF Body, AfterBody
  <2>2. rows' \in [Containers -> Rows] BY <1>1, <1>7, SavedRow DEF Body
  <2> QED BY <1>7, <2>1, <2>2 DEF Body, TypeOK
<1>8. CASE AbortClaim(c)
  <2>1. th' \in [Containers -> Threads] BY <1>8, GoneTo DEF AbortClaim
  <2>2. RemoveUsage(node, c, Demand[c]) /\ node \in Nodes BY <1>8 DEF AbortClaim, TypeOK
  <2>3. tracked' \subseteq Containers /\ node' \in Nodes /\ sent' \in Nodes /\ db' \in Int
    BY <1>1, <2>2, RemoveUsageType
  <2> QED BY <1>8, <2>1, <2>3 DEF AbortClaim, TypeOK
<1>9. ASSUME NEW fault \in {"pull", "create"}, BodyFails(c, fault) PROVE TypeOK'
  <2>1. th' \in [Containers -> Threads] BY <1>9, GoneTo DEF BodyFails, AfterBody
  <2>2. (rows[c].host /\ fault = "pull") \in BOOLEAN OBVIOUS
  <2>3. rows' \in [Containers -> Rows] BY <1>9, <2>2, SavedRow DEF BodyFails
  <2> QED BY <1>9, <2>1, <2>3 DEF BodyFails, TypeOK
<1> QED BY <1>2, <1>3, <1>4, <1>5, <1>6, <1>7, <1>8, <1>9 DEF ThreadStep

Counts == [ops : 0..MaxEvents, crashes : 0..MaxEvents, resized : BOOLEAN, swapped : BOOLEAN]

\* What a request adds, and that an update is noted.
LEMMA Requested ==
    ASSUME TypeOK, NEW c \in Containers, ApiRequest(c)
    PROVE  /\ ops' \subseteq Ops /\ count' \in Counts
           /\ count'.swapped = count.swapped
           /\ \E r \in Ops : /\ ops' = ops \cup {r} /\ r.c = c /\ r.old = rows[c].cpu
                             /\ \/ r.op = "delete" /\ r.phase = "api"
                                       /\ count'.resized = count.resized
                                \/ count'.resized
<1>1. count \in Counts /\ count.ops + count.crashes < MaxEvents /\ MaxEvents \in Nat
  BY BoundsAssumption DEF ApiRequest, TypeOK, Counts
<1>2. PICK k \in 1..MaxEvents : k = count.ops + 1 BY <1>1 DEF Counts
<1>3. rows[c].host \in BOOLEAN /\ rows[c].cpu \in Nat BY DEF TypeOK, Rows
<1>4. CASE ops' = ops \cup {Request(c, "delete", 0)} /\ count' = [count EXCEPT !.ops = @ + 1]
  <2>1. count' = [count EXCEPT !.ops = k] BY <1>1, <1>2, <1>4 DEF Counts
  <2>2. count' \in Counts /\ count'.swapped = count.swapped /\ count'.resized = count.resized
    BY <1>1, <2>1 DEF Counts
  <2>3. PICK r : r = Request(c, "delete", 0) OBVIOUS
  <2>4. r \in Ops /\ r.c = c /\ r.old = rows[c].cpu /\ r.op = "delete" /\ r.phase = "api"
    BY <1>2, <1>3, <2>3 DEF Request, Ops
  <2> QED BY <1>4, <2>2, <2>3, <2>4 DEF TypeOK
<1>5. ASSUME NEW new \in Sizes, ops' = ops \cup {Request(c, "update", new)},
             count' = [count EXCEPT !.ops = @ + 1, !.resized = TRUE]
      PROVE  /\ ops' \subseteq Ops /\ count' \in Counts
             /\ count'.swapped = count.swapped /\ count'.resized
             /\ \E r \in Ops : ops' = ops \cup {r} /\ r.c = c /\ r.old = rows[c].cpu
  <2>1. count' = [count EXCEPT !.ops = k, !.resized = TRUE] BY <1>1, <1>2, <1>5 DEF Counts
  <2>2. count' \in Counts /\ count'.swapped = count.swapped /\ count'.resized
    <3>1. PICK mid : mid = [count EXCEPT !.ops = k] OBVIOUS
    <3>2. mid \in Counts /\ mid.swapped = count.swapped BY <1>1, <3>1 DEF Counts
    <3>3. count' = [mid EXCEPT !.resized = TRUE] BY <2>1, <3>1
    <3> QED BY <3>2, <3>3 DEF Counts
  <2>3. PICK r : r = Request(c, "update", new) OBVIOUS
  <2>4. new \in Nat BY DemandAssumption
  <2>5. r \in Ops /\ r.c = c /\ r.old = rows[c].cpu BY <1>2, <1>3, <2>3, <2>4 DEF Request, Ops
  <2> QED BY <1>5, <2>2, <2>3, <2>5 DEF TypeOK
<1> QED BY <1>4, <1>5 DEF ApiRequest

\* The requests keep the types.
LEMMA RequestTypes ==
    ASSUME TypeOK, NEW c \in Containers, ApiRequest(c)
    PROVE  TypeOK'
<1>1. ops' \subseteq Ops /\ count' \in Counts BY Requested
<1> QED BY <1>1 DEF ApiRequest, TypeOK, Counts

\* The steps of deletes and updates keep the types.
LEMMA OpTypes ==
    ASSUME TypeOK, NEW o \in ops, OpStep(o)
    PROVE  TypeOK'
<1>1. o \in Ops BY DEF TypeOK
<1>2. o.c \in Containers /\ o.old \in Nat /\ o.new \in Nat BY <1>1 DEF Ops
<1>3. rows[o.c].host \in BOOLEAN BY <1>2 DEF TypeOK, Rows
<1>4. CASE ApiDelete(o)
  <2>1. ops' \subseteq Ops BY <1>4, Advanced, Dropped DEF ApiDelete
  <2>2. rows' \in [Containers -> Rows] BY <1>2, <1>4, DestroyedRow DEF ApiDelete, TypeOK
  <2> QED BY <1>4, <2>1, <2>2 DEF ApiDelete, TypeOK
<1>5. CASE DeleteBegin(o)
  <2>1. ops' \subseteq Ops BY <1>5, Advanced, Dropped DEF DeleteBegin
  <2>2. rows' \in [Containers -> Rows] BY <1>2, <1>3, <1>5, SavedRow DEF DeleteBegin
  <2> QED BY <1>5, <2>1, <2>2 DEF DeleteBegin, TypeOK
<1>6. CASE DeleteUsage(o)
  <2>1. ops' \subseteq Ops BY <1>6, Advanced, Dropped DEF DeleteUsage
  <2>2. tracked' \subseteq Containers /\ node' \in Nodes /\ sent' \in Nodes /\ db' \in Int
    BY <1>2, <1>6, FreshType, RemoveUsageType DEF DeleteUsage
  <2> QED BY <1>6, <2>1, <2>2 DEF DeleteUsage, TypeOK
<1>7. CASE DeleteRow(o)
  <2>1. ops' \subseteq Ops BY <1>7, Dropped DEF DeleteRow
  <2>2. rows' \in [Containers -> Rows] BY <1>2, <1>7, DestroyedRow DEF DeleteRow, TypeOK
  <2> QED BY <1>7, <2>1, <2>2 DEF DeleteRow, TypeOK
<1>8. CASE DeleteFails(o)
  <2>1. ops' \subseteq Ops BY <1>8, Dropped DEF DeleteFails
  <2>2. rows' \in [Containers -> Rows] BY <1>2, <1>3, <1>8, SavedRow DEF DeleteFails
  <2> QED BY <1>8, <2>1, <2>2 DEF DeleteFails, TypeOK
<1>9. CASE UpdateClaim(o)
  <2>1. ops' \subseteq Ops BY <1>9, Advanced, Dropped DEF UpdateClaim
  <2>2. PICK d \in Int : d = o.new - o.old BY <1>2
  <2>3. UpdateUsage(Fresh, d) \in Nodes BY UpdateUsageFact, FreshType
  <2>4. tracked' \subseteq Containers BY <1>2, <1>9 DEF UpdateClaim, TypeOK
  <2>5. \/ UNCHANGED <<db, node, sent>>
        \/ node' = Fresh /\ UNCHANGED <<db, sent>>
        \/ \E moved \in BOOLEAN : Update(UpdateUsage(Fresh, d), moved)
    BY <1>9, <2>2 DEF UpdateClaim
  <2>6. node' \in Nodes /\ sent' \in Nodes /\ db' \in Int
    BY <2>3, <2>5, FreshType, UpdateFact DEF TypeOK
  <2> QED BY <1>9, <2>1, <2>4, <2>6 DEF UpdateClaim, TypeOK
<1>10. CASE UpdateApply(o)
  <2>1. ops' \subseteq Ops BY <1>10, Advanced, Dropped DEF UpdateApply
  <2>2. [rows[o.c] EXCEPT !.cpu = o.new] \in Rows BY <1>2 DEF TypeOK, Rows
  <2>3. rows' \in [Containers -> Rows] BY <1>2, <1>10, <2>2 DEF UpdateApply, TypeOK
  <2> QED BY <1>10, <2>1, <2>3 DEF UpdateApply, TypeOK
<1>11. CASE UpdateAbort(o)
  <2>1. ops' \subseteq Ops BY <1>11, Dropped DEF UpdateAbort
  <2>2. PICK d \in Int : d = o.old - o.new BY <1>2
  <2>3. UpdateUsage(node, d) \in Nodes BY UpdateUsageFact DEF TypeOK
  <2> QED BY <1>2, <1>11, <2>1, <2>2, <2>3 DEF UpdateAbort, TypeOK
<1> QED BY <1>4, <1>5, <1>6, <1>7, <1>8, <1>9, <1>10, <1>11 DEF OpStep

\* The steps of an audit keep the types.
LEMMA AuditTypes ==
    ASSUME TypeOK, AuditStep
    PROVE  TypeOK'
<1>0. NoNode \in Nodes BY DEF NoNode, Nodes
<1>1. CASE AuditRead
  <2>1. PICK d \in Int : d = -db BY DEF TypeOK
  <2>2. UpdateUsage(Fresh, d) \in Nodes BY UpdateUsageFact, FreshType
  <2> QED BY <1>1, <2>1, <2>2 DEF AuditRead, TypeOK
<1>2. CASE AuditSwap
  <2>1. PICK b \in BOOLEAN : b = (count.swapped \/ \E c \in Containers : th[c] \in {"use", "body", "abort"})
    BY DEF TypeOK
  <2>2. count' = [count EXCEPT !.swapped = b] BY <1>2, <2>1 DEF AuditSwap
  <2>3. count' \in Counts BY <2>2 DEF TypeOK, Counts
  <2> QED BY <1>2, <2>3 DEF AuditSwap, TypeOK, Counts
<1>3. ASSUME NEW moved \in BOOLEAN, AuditRun(moved) PROVE TypeOK'
  <2>1. Usage(Listed) \in Nat BY UsageNat DEF Listed
  <2>2. PICK d \in Int : d = -node.used BY DEF TypeOK, Nodes
  <2>3. UpdateUsage(node, d) \in Nodes BY UpdateUsageFact DEF TypeOK
  <2>4. PICK n \in Nodes : n = UpdateUsage(UpdateUsage(node, d), Usage(Listed))
    BY <2>1, <2>3, UpdateUsageFact
  <2>5. Update(n, moved) BY <1>3, <2>2, <2>4 DEF AuditRun
  <2>6. node' \in Nodes /\ sent' \in Nodes /\ db' \in Int BY <2>5, UpdateFact
  <2> QED BY <1>0, <1>3, <2>6 DEF AuditRun, TypeOK, Listed
<1> QED BY <1>1, <1>2, <1>3 DEF AuditStep

\* A loss of zun-compute keeps the types.
LEMMA CrashTypes ==
    ASSUME TypeOK, Crash
    PROVE  TypeOK'
<1>0. NoNode \in Nodes BY DEF NoNode, Nodes
<1>1. rows' \in [Containers -> Rows]
  <2>1. \A c \in Containers :
          (IF rows[c].host /\ rows[c].status = "creating"
           THEN [rows[c] EXCEPT !.status = "error"] ELSE rows[c]) \in Rows
    BY DEF TypeOK, Rows
  <2> QED BY <2>1 DEF Crash
<1>2. th' \in [Containers -> Threads] BY DEF Crash, Threads
<1>3. count' \in Counts
  <2>1. count \in Counts /\ count.ops + count.crashes < MaxEvents /\ MaxEvents \in Nat
    BY BoundsAssumption DEF Crash, TypeOK, Counts
  <2>2. PICK k \in 0..MaxEvents : k = count.crashes + 1 BY <2>1 DEF Counts
  <2>3. count' = [count EXCEPT !.crashes = k] BY <2>1, <2>2 DEF Crash, Counts
  <2> QED BY <2>1, <2>3 DEF Counts
<1>4. ops' \subseteq Ops
  <2>1. PICK lost \in SUBSET {o \in ops : o.phase = "cast"} :
          ops' = {o \in ops \ lost : o.phase \in {"api", "cast"}}
                   \cup {[o EXCEPT !.phase = "cast", !.old = rows[o.c].cpu] :
                           o \in {p \in ops : p.phase \in {"run", "destroy"}}}
    BY DEF Crash
  <2>2. ASSUME NEW o \in ops PROVE [o EXCEPT !.phase = "cast", !.old = rows[o.c].cpu] \in Ops
    <3>1. o \in Ops BY DEF TypeOK
    <3>2. rows[o.c].cpu \in Nat BY <3>1 DEF TypeOK, Ops, Rows
    <3> QED BY <3>1, <3>2 DEF Ops
  <2> QED BY <2>1, <2>2, ZenonT(30) DEF TypeOK
<1> QED BY <1>0, <1>1, <1>2, <1>3, <1>4 DEF Crash, TypeOK, Counts

\* The types hold at the start.
LEMMA InitTypes == Init => TypeOK
<1> SUFFICES ASSUME Init PROVE TypeOK OBVIOUS
<1>1. rows \in [Containers -> Rows] BY DemandAssumption DEF Init, Rows
<1>2. db = 0 /\ node = Fresh /\ sent = Fresh BY DEF Init
<1>3. node \in Nodes /\ sent \in Nodes /\ NoNode \in Nodes BY <1>2 DEF Fresh, NoNode, Nodes
<1>4. count \in Counts BY BoundsAssumption DEF Init, Counts
<1> QED BY <1>1, <1>2, <1>3, <1>4 DEF Init, TypeOK, Threads, Counts

\* The types are inductive.
LEMMA StepTypes == TypeOK /\ [Next]_vars => TypeOK'
<1> SUFFICES ASSUME TypeOK, [Next]_vars PROVE TypeOK' OBVIOUS
<1>1. CASE UNCHANGED vars BY <1>1 DEF vars, TypeOK
<1> QED BY <1>1, ThreadTypes, RequestTypes, OpTypes, AuditTypes, CrashTypes DEF Next

\* Whatever the claims, the aborts, the audits and the losses of zun-compute,
\* the tracker's objects, rows and amounts are of their types.
THEOREM TrackerTyped == Spec => []TypeOK
BY InitTypes, StepTypes, PTL DEF Spec


-----------------------------------------------------------------------------
(* The limit                                                                *)

\* Neither was the node exchanged under a claim, nor did a size change.
Calm == ~count.swapped /\ ~count.resized

\* A creation that is not over finds its row as the API made it, with the host
\* of a claim that was granted and no other; who gives a claim back has failed.
CreatingAt(c) ==
    /\ rows[c].cpu = Demand[c]
    /\ th[c] \in {"claim", "use", "body"} /\ rows[c].exists => rows[c].status = "creating"
    /\ th[c] = "claim" \/ Demand[c] = 0 => ~rows[c].host
    /\ th[c] \in {"claim", "use"} => c \notin tracked
    /\ th[c] = "use" => Demand[c] # 0
    /\ th[c] = "abort" => Demand[c] # 0 /\ c \notin Holders

Creating == \A c \in Containers : CreatingAt(c)

\* There are only deletes, of containers as large as they were, and one that
\* runs has marked its row.
Delete(o) ==
    /\ o.op = "delete" /\ o.old = Demand[o.c]
    /\ o.phase \in {"api", "cast", "run", "destroy"}
    /\ o.phase = "run" => o.c \notin Holders

Deletes == \A o \in ops : Delete(o)

\* What was sent is in the node's row, and so is what the node's object says
\* while a claim is held.
Saved ==
    /\ sent.known => sent.used = db
    /\ \A c \in Containers :
          th[c] \in {"use", "body", "abort"} /\ Demand[c] # 0 => node.used = db

\* The containers whose usage the node's row has, at least: those that are
\* tracked, and the holders of claims that a loss of zun-compute made it forget.
Counted == tracked \cup {c \in Holders : th[c] # "use"}

Covered == Total(Demand, Counted) <= db

Fitting == Total(Demand, Holders) <= Limit

Fits == Creating /\ Deletes /\ Saved /\ Covered /\ Fitting

FitInv == Calm => Fits

\* What containers ask for adds up.
LEMMA DemandSum ==
    ASSUME NEW S \in SUBSET Containers
    PROVE  /\ IsFiniteSet(S) /\ \A c \in S : Demand[c] \in Nat
           /\ Total(Demand, S) \in Nat
<1>1. IsFiniteSet(S) /\ \A c \in S : Demand[c] \in Nat BY DemandAssumption, FS_Subset
<1> QED BY <1>1, TotalNat

\* Fewer containers ask for no more.
LEMMA FewerAsk ==
    ASSUME NEW S \in SUBSET Containers, NEW T \in SUBSET S
    PROVE  Total(Demand, T) <= Total(Demand, S)
BY DemandSum, TotalLess

\* One more container adds what it asks for.
LEMMA OneMoreAsks ==
    ASSUME NEW S \in SUBSET Containers, NEW c \in Containers
    PROVE  Total(Demand, S \cup {c}) <= Total(Demand, S) + Demand[c]
<1>1. Demand[c] \in Nat /\ Total(Demand, S) \in Nat BY DemandAssumption, DemandSum
<1>2. CASE c \in S
  <2>1. PICK U : U = S \cup {c} OBVIOUS
  <2>2. U = S BY <1>2, <2>1
  <2>3. Total(Demand, U) <= Total(Demand, S) + Demand[c] BY <1>1, <2>2
  <2> QED BY <2>1, <2>3
<1>3. CASE c \notin S
  <2>1. Total(Demand, S \cup {c}) = Demand[c] + Total(Demand, S)
    BY <1>1, <1>3, DemandSum, TotalPuts
  <2> QED BY <1>1, <2>1
<1> QED BY <1>2, <1>3

\* One less takes what it asked for.
LEMMA OneLessAsks ==
    ASSUME NEW S \in SUBSET Containers, NEW c \in S
    PROVE  Total(Demand, S \ {c}) = Total(Demand, S) - Demand[c]
<1>1. Total(Demand, S) = Demand[c] + Total(Demand, S \ {c}) BY DemandSum, TotalTakes
<1>2. Demand[c] \in Nat /\ Total(Demand, S \ {c}) \in Nat BY DemandAssumption, DemandSum
<1> QED BY <1>1, <1>2

\* Who is counted and who holds a claim are containers.
LEMMA SetTypes ==
    ASSUME TypeOK
    PROVE  Holders \in SUBSET Containers /\ Counted \in SUBSET Containers
BY DEF TypeOK, Holders, Counted

\* The sets of containers stay sets of containers.
LEMMA SetTypesNext ==
    ASSUME TypeOK'
    PROVE  Holders' \in SUBSET Containers /\ Counted' \in SUBSET Containers
BY DEF TypeOK, Holders, Counted

\* The limit stays kept when no one new holds a claim.
LEMMA FewerHold ==
    ASSUME TypeOK, TypeOK', Fits, Holders' \subseteq Holders
    PROVE  Fitting'
<1>1. PICK H, G : H = Holders /\ G = Holders' OBVIOUS
<1>2. H \in SUBSET Containers /\ G \in SUBSET H BY <1>1, SetTypes
<1>3. Total(Demand, G) <= Total(Demand, H) BY <1>2, FewerAsk
<1>4. Total(Demand, G) \in Nat /\ Total(Demand, H) \in Nat /\ Limit \in Nat
  BY <1>2, DemandSum, DemandAssumption
<1>5. Total(Demand, H) <= Limit BY <1>1 DEF Fits, Fitting
<1>6. Total(Demand, G) <= Limit BY <1>3, <1>4, <1>5
<1> QED BY <1>1, <1>6 DEF Fitting

\* The node's row covers what is counted while nothing new is.
LEMMA FewerCount ==
    ASSUME TypeOK, TypeOK', Fits, db' = db, Counted' \subseteq Counted
    PROVE  Covered'
<1>1. PICK H, G : H = Counted /\ G = Counted' OBVIOUS
<1>2. H \in SUBSET Containers /\ G \in SUBSET H BY <1>1, SetTypes
<1>3. Total(Demand, G) <= Total(Demand, H) BY <1>2, FewerAsk
<1>4. Total(Demand, G) \in Nat /\ Total(Demand, H) \in Nat /\ db \in Int
  BY <1>2, DemandSum DEF TypeOK
<1>5. Total(Demand, H) <= db BY <1>1 DEF Fits, Covered
<1>6. Total(Demand, G) <= db' BY <1>3, <1>4, <1>5
<1> QED BY <1>1, <1>6 DEF Covered

\* The usage of c is added to the node's row, or given back.
LEMMA OneMoreCounts ==
    ASSUME TypeOK, TypeOK', Fits, NEW c \in Containers, db' = db + Demand[c],
           Counted' \subseteq Counted \cup {c}
    PROVE  Covered'
<1>1. PICK H, G : H = Counted /\ G = Counted' OBVIOUS
<1>2. H \in SUBSET Containers /\ H \cup {c} \in SUBSET Containers /\ G \in SUBSET (H \cup {c})
  BY <1>1, SetTypes
<1>3. Total(Demand, G) <= Total(Demand, H \cup {c}) BY <1>2, FewerAsk
<1>4. Total(Demand, H \cup {c}) <= Total(Demand, H) + Demand[c] BY <1>2, OneMoreAsks
<1>5. Total(Demand, G) \in Nat /\ Total(Demand, H) \in Nat /\ db \in Int
      /\ Total(Demand, H \cup {c}) \in Nat /\ Demand[c] \in Nat
  BY <1>2, DemandSum, DemandAssumption DEF TypeOK
<1>6. Total(Demand, H) <= db BY <1>1 DEF Fits, Covered
<1>7. Total(Demand, G) <= db' BY <1>3, <1>4, <1>5, <1>6
<1> QED BY <1>1, <1>7 DEF Covered

\* A delete takes off the node's row what it takes from the count.
LEMMA OneLessCounts ==
    ASSUME TypeOK, TypeOK', Fits, NEW c \in Counted, db' = db - Demand[c],
           Counted' \subseteq Counted \ {c}
    PROVE  Covered'
<1>1. PICK H, G : H = Counted /\ G = Counted' OBVIOUS
<1>2. H \in SUBSET Containers /\ H \ {c} \in SUBSET Containers /\ G \in SUBSET (H \ {c}) /\ c \in H
  BY <1>1, SetTypes
<1>3. Total(Demand, G) <= Total(Demand, H \ {c}) BY <1>2, FewerAsk
<1>4. Total(Demand, H \ {c}) = Total(Demand, H) - Demand[c] BY <1>2, OneLessAsks
<1>5. Total(Demand, G) \in Nat /\ Total(Demand, H) \in Nat /\ db \in Int
      /\ Total(Demand, H \ {c}) \in Nat /\ Demand[c] \in Nat
  BY <1>2, DemandSum, DemandAssumption DEF TypeOK
<1>6. Total(Demand, H) <= db BY <1>1 DEF Fits, Covered
<1>7. Total(Demand, G) <= db' BY <1>3, <1>4, <1>5, <1>6
<1> QED BY <1>1, <1>7 DEF Covered

\* _update of a node that says what its row says, changed by an amount.
LEMMA Changed ==
    ASSUME TypeOK, Saved, NEW n \in Nodes, n.used = db, NEW d \in Int,
           NEW moved \in BOOLEAN, Update(UpdateUsage(n, d), moved)
    PROVE  db' = db + d /\ Saved'
<1>1. UpdateUsage(n, d) \in Nodes /\ UpdateUsage(n, d).used = db + d /\ UpdateUsage(n, d).dirty
  BY UpdateUsageFact
<1>2. PICK e : e = UpdateUsage(n, d) OBVIOUS
<1>3. db' = e.used /\ node'.used = e.used /\ (sent'.known => sent'.used = db')
  BY <1>1, <1>2, UpdateFact DEF Saved
<1> QED BY <1>1, <1>2, <1>3 DEF Saved

\* remove_usage of a container that holds no claim.
LEMMA Removed ==
    ASSUME TypeOK, TypeOK', Fits, NEW n \in Nodes, n.used = db, NEW c \in Containers,
           c \notin Holders, RemoveUsage(n, c, Demand[c]), rows' = rows,
           \A d \in Containers : th'[d] # th[d] => d \notin Holders
    PROVE  Saved' /\ Covered' /\ Fitting'
<1>1. Demand[c] \in Nat BY DemandAssumption
<1>2. Holders' = Holders BY DEF Holders
<1>3. Fitting' BY <1>2, FewerHold
<1>4. \A d \in Holders : th'[d] = th[d] BY DEF Holders
<1>5. CASE c \in tracked
  <2>1. PICK d \in Int : d = -Demand[c] BY <1>1
  <2>2. PICK moved \in BOOLEAN : Update(UpdateUsage(n, d), moved)
    BY <1>5, <2>1 DEF RemoveUsage
  <2>3. db' = db + d /\ Saved' BY <2>2, Changed DEF Fits
  <2>4. db' = db - Demand[c] BY <1>1, <2>1, <2>3 DEF TypeOK
  <2>5. tracked' = tracked \ {c} BY <1>5 DEF RemoveUsage
  <2>6. c \in Counted /\ Counted' \subseteq Counted \ {c} BY <1>2, <1>4, <1>5, <2>5 DEF Counted
  <2> QED BY <1>3, <2>3, <2>4, <2>6, OneLessCounts
<1>6. CASE c \notin tracked
  <2>1. PICK d \in Int : d = Demand[c] BY <1>1
  <2>2. PICK moved \in BOOLEAN : Update(UpdateUsage(n, d), moved)
    BY <1>6, <2>1 DEF RemoveUsage
  <2>3. db' = db + d /\ Saved' BY <2>2, Changed DEF Fits
  <2>5. tracked' = tracked \cup {c} BY <1>6 DEF RemoveUsage
  <2>6. Counted' \subseteq Counted \cup {c} BY <1>2, <1>4, <2>5 DEF Counted
  <2> QED BY <1>3, <2>1, <2>3, <2>6, OneMoreCounts
<1> QED BY <1>5, <1>6

\* What a step of the thread of c leaves alone.
Alone(c) ==
    /\ \A d \in Containers \ {c} :
          /\ rows'[d] = rows[d] /\ th'[d] = th[d]
          /\ d \in tracked' <=> d \in tracked
    /\ ops' = ops

\* A step of one creation leaves what is known of the others.
LEMMA OthersFit ==
    ASSUME TypeOK, HeldInv, Fits, NEW c \in Containers, th[c] # "done", Alone(c),
           CreatingAt(c)'
    PROVE  Creating' /\ Deletes'
<1>1. \A d \in Containers \ {c} : d \in Holders' <=> d \in Holders BY DEF Alone, Holders
<1>2. Creating'
  <2>1. ASSUME NEW d \in Containers \ {c} PROVE CreatingAt(d)'
    <3>1. CreatingAt(d) /\ rows'[d] = rows[d] /\ th'[d] = th[d]
          /\ (d \in tracked' <=> d \in tracked) /\ (d \in Holders' <=> d \in Holders)
      BY <1>1, <2>1 DEF Alone, Fits, Creating
    <3> QED BY <3>1 DEF CreatingAt
  <2> QED BY <2>1 DEF Creating
<1>3. Deletes'
  <2>1. ASSUME NEW o \in ops PROVE Delete(o)'
    <3>1. Delete(o) /\ o.c \in Containers BY DEF Fits, Deletes, HeldInv, ShapeOK
    <3>2. o.phase = "run" => o.c # c BY DEF HeldInv, DeleteInv
    <3> QED BY <1>1, <3>1, <3>2 DEF Delete
  <2> QED BY <2>1 DEF Deletes, Alone
<1> QED BY <1>2, <1>3

\* The steps of a creation keep the claims within the limit.
LEMMA ThreadFits ==
    ASSUME TypeOK, TypeOK', HeldInv, Fits, NEW c \in Containers, ThreadStep(c)
    PROVE  Fits'
<1> USE DEF Threads
<1>1. Demand[c] \in Nat /\ rows[c].host \in BOOLEAN /\ rows[c].exists \in BOOLEAN
      /\ rows[c].status \in {"creating", "created", "deleting", "error"} /\ db \in Int
      /\ Limit \in Nat /\ node \in Nodes
  BY DemandAssumption DEF TypeOK, Rows
<1>2. CreatingAt(c) BY DEF Fits, Creating
<1>3. CASE NopClaim(c)
  <2>1. th'[c] = "body" /\ \A d \in Containers \ {c} : th'[d] = th[d]
    BY <1>3, GoneTo DEF NopClaim
  <2>2. rows' = rows /\ tracked' = tracked /\ db' = db /\ node' = node /\ sent' = sent
        /\ ops' = ops /\ th[c] = "claim" /\ Demand[c] = 0
    BY <1>3 DEF NopClaim
  <2>3. Alone(c) BY <2>1, <2>2 DEF Alone
  <2>4. Holders' = Holders /\ c \notin Holders BY <1>2, <2>2 DEF Holders, CreatingAt
  <2>5. CreatingAt(c)' BY <1>2, <2>1, <2>2, <2>4 DEF CreatingAt
  <2>6. Creating' /\ Deletes' BY <2>2, <2>3, <2>5, OthersFit
  <2>7. Counted' \subseteq Counted BY <2>1, <2>2, <2>4 DEF Counted, Holders
  <2>8. Covered' /\ Fitting' BY <2>2, <2>4, <2>7, FewerCount, FewerHold
  <2>9. Saved' BY <2>1, <2>2 DEF Fits, Saved
  <2> QED BY <2>6, <2>8, <2>9 DEF Fits
<1>4. CASE ClaimRefused(c)
  <2>1. th'[c] = "done" /\ \A d \in Containers \ {c} : th'[d] = th[d]
    BY <1>4, GoneTo DEF ClaimRefused
  <2>2. /\ \A d \in Containers \ {c} : rows'[d] = rows[d]
        /\ rows'[c].exists = rows[c].exists /\ rows'[c].cpu = rows[c].cpu
        /\ rows[c].exists => ~rows'[c].host
        /\ ~rows[c].exists => rows'[c] = rows[c]
    BY <1>4, SavedRow DEF ClaimRefused
  <2>3. tracked' = tracked /\ db' = db /\ node' = Fresh /\ sent' = sent /\ ops' = ops
        /\ th[c] = "claim"
    BY <1>4 DEF ClaimRefused
  <2>4. Alone(c) BY <2>1, <2>2, <2>3 DEF Alone
  <2>5. CreatingAt(c)' BY <1>2, <2>1, <2>2 DEF CreatingAt
  <2>6. Creating' /\ Deletes' BY <2>3, <2>4, <2>5, OthersFit
  <2>7. Holders' \subseteq Holders /\ c \notin Holders' BY <2>2 DEF Holders
  <2>8. Counted' \subseteq Counted BY <2>1, <2>3, <2>7 DEF Counted, Holders
  <2>9. Saved' BY <2>3, FreshType DEF Fits, Saved
  <2> QED BY <2>3, <2>6, <2>7, <2>8, <2>9, FewerCount, FewerHold DEF Fits
<1>5. CASE ClaimDedicated(c)
  <2>1. th'[c] = "done" /\ \A d \in Containers \ {c} : th'[d] = th[d]
    BY <1>5, GoneTo DEF ClaimDedicated
  <2>2. rows' = rows /\ tracked' = tracked /\ db' = db /\ node' = Fresh /\ sent' = sent
        /\ ops' = ops /\ th[c] = "claim"
    BY <1>5 DEF ClaimDedicated
  <2>3. Alone(c) BY <2>1, <2>2 DEF Alone
  <2>4. Holders' = Holders /\ c \notin Holders BY <1>2, <2>2 DEF Holders, CreatingAt
  <2>5. CreatingAt(c)' BY <1>2, <2>1, <2>2 DEF CreatingAt
  <2>6. Creating' /\ Deletes' BY <2>2, <2>3, <2>5, OthersFit
  <2>7. Counted' \subseteq Counted BY <2>1, <2>2, <2>4 DEF Counted, Holders
  <2>8. Saved' BY <2>2, FreshType DEF Fits, Saved
  <2> QED BY <2>2, <2>4, <2>6, <2>7, <2>8, FewerCount, FewerHold DEF Fits
<1>6. CASE ClaimTest(c)
  <2>1. th'[c] = (IF rows[c].exists THEN "use" ELSE "done")
        /\ \A d \in Containers \ {c} : th'[d] = th[d]
    BY <1>6, GoneTo DEF ClaimTest
  <2>2. /\ \A d \in Containers \ {c} : rows'[d] = rows[d]
        /\ rows'[c].exists = rows[c].exists /\ rows'[c].cpu = rows[c].cpu
        /\ rows[c].exists => rows'[c].status = rows[c].status
        /\ ~rows[c].exists => rows'[c] = rows[c]
    BY <1>1, <1>6, SavedRow DEF ClaimTest
  <2>3. tracked' = tracked /\ db' = db /\ node' = Fresh /\ sent' = sent /\ ops' = ops
        /\ th[c] = "claim" /\ Demand[c] # 0 /\ Demand[c] <= Limit - db /\ LockFree
    BY <1>6 DEF ClaimTest
  <2>4. Alone(c) BY <2>1, <2>2, <2>3 DEF Alone
  <2>5. CreatingAt(c)' BY <1>2, <2>1, <2>2, <2>3 DEF CreatingAt
  <2>6. Creating' /\ Deletes' BY <2>3, <2>4, <2>5, OthersFit
  <2>7. Holders' \subseteq Holders \cup {c} /\ (~rows[c].exists => c \notin Holders')
    BY <2>2 DEF Holders
  <2>8. Counted' \subseteq Counted BY <2>1, <2>3, <2>7 DEF Counted, Holders
  <2>9. Saved' BY <2>3, FreshType DEF Fits, Saved
  <2>10. Fitting'
    <3>1. PICK H, G, K : H = Holders /\ G = Holders' /\ K = Counted OBVIOUS
    <3>2. H \subseteq K BY <2>3, <3>1 DEF Counted, Holders, LockFree
    <3>3. K \in SUBSET Containers /\ K \cup {c} \in SUBSET Containers /\ G \in SUBSET (K \cup {c})
      BY <2>7, <3>1, <3>2, SetTypes
    <3>4. Total(Demand, G) <= Total(Demand, K \cup {c}) BY <3>3, FewerAsk
    <3>5. Total(Demand, K \cup {c}) <= Total(Demand, K) + Demand[c] BY <3>3, OneMoreAsks
    <3>6. Total(Demand, K) <= db BY <3>1 DEF Fits, Covered
    <3>7. Total(Demand, G) \in Nat /\ Total(Demand, K) \in Nat /\ Total(Demand, K \cup {c}) \in Nat
      BY <3>3, DemandSum
    <3>8. Total(Demand, G) <= Limit BY <1>1, <2>3, <3>4, <3>5, <3>6, <3>7
    <3> QED BY <3>1, <3>8 DEF Fitting
  <2> QED BY <2>3, <2>6, <2>8, <2>9, <2>10, FewerCount DEF Fits
<1>7. CASE ClaimUse(c)
  <2>1. th'[c] \in {"body", "done"} /\ \A d \in Containers \ {c} : th'[d] = th[d]
    BY <1>7, GoneTo DEF ClaimUse
  <2>2. rows' = rows /\ tracked' = tracked \cup {c} /\ ops' = ops /\ th[c] = "use"
    BY <1>7 DEF ClaimUse
  <2>3. c \notin tracked /\ node.used = db BY <1>2, <2>2 DEF CreatingAt, Fits, Saved
  <2>4. PICK moved \in BOOLEAN : Update(UpdateUsage(node, Demand[c]), moved)
    BY <1>7, <2>3 DEF ClaimUse
  <2>5. db' = db + Demand[c] /\ Saved' BY <1>1, <2>3, <2>4, Changed DEF Fits
  <2>6. Alone(c) BY <2>1, <2>2 DEF Alone
  <2>7. CreatingAt(c)' BY <1>2, <2>1, <2>2 DEF CreatingAt
  <2>8. Creating' /\ Deletes' BY <2>2, <2>6, <2>7, OthersFit
  <2>9. Holders' = Holders BY <2>2 DEF Holders
  <2>10. Counted' \subseteq Counted \cup {c} BY <2>1, <2>2, <2>9 DEF Counted, Holders
  <2> QED BY <2>5, <2>8, <2>9, <2>10, OneMoreCounts, FewerHold DEF Fits
<1>8. CASE Body(c)
  <2>1. th'[c] = (IF rows[c].exists THEN "done" ELSE AfterBody(c))
        /\ \A d \in Containers \ {c} : th'[d] = th[d]
    BY <1>8, GoneTo DEF Body, AfterBody
  <2>2. /\ \A d \in Containers \ {c} : rows'[d] = rows[d]
        /\ rows'[c].exists = rows[c].exists /\ rows'[c].cpu = rows[c].cpu
        /\ rows[c].exists => rows'[c].host = rows[c].host
        /\ ~rows[c].exists => rows'[c] = rows[c]
    BY <1>1, <1>8, SavedRow DEF Body
  <2>3. tracked' = tracked /\ db' = db /\ node' = node /\ sent' = sent /\ ops' = ops
        /\ th[c] = "body"
    BY <1>8 DEF Body
  <2>4. Alone(c) BY <2>1, <2>2, <2>3 DEF Alone
  <2>5. CreatingAt(c)' BY <1>2, <2>1, <2>2, <2>3 DEF CreatingAt, AfterBody, Holders
  <2>6. Creating' /\ Deletes' BY <2>3, <2>4, <2>5, OthersFit
  <2>7. Holders' \subseteq Holders BY <1>2, <2>2, <2>3 DEF Holders, CreatingAt
  <2>8. Counted' \subseteq Counted BY <2>1, <2>3, <2>7 DEF Counted, Holders
  <2>9. Saved' BY <2>1, <2>3 DEF Fits, Saved, AfterBody
  <2> QED BY <2>3, <2>6, <2>7, <2>8, <2>9, FewerCount, FewerHold DEF Fits
<1>9. CASE AbortClaim(c)
  <2>1. th'[c] = "done" /\ \A d \in Containers \ {c} : th'[d] = th[d]
    BY <1>9, GoneTo DEF AbortClaim
  <2>2. rows' = rows /\ ops' = ops /\ th[c] = "abort" /\ RemoveUsage(node, c, Demand[c])
    BY <1>9 DEF AbortClaim
  <2>3. c \notin Holders /\ node.used = db BY <1>2, <2>2 DEF CreatingAt, Fits, Saved
  <2>4. Saved' /\ Covered' /\ Fitting' BY <1>1, <2>1, <2>2, <2>3, Removed
  <2>5. Alone(c) BY <2>1, <2>2 DEF Alone, RemoveUsage
  <2>6. CreatingAt(c)' BY <1>2, <2>1, <2>2 DEF CreatingAt
  <2> QED BY <2>2, <2>4, <2>5, <2>6, OthersFit DEF Fits
<1>10. ASSUME NEW fault \in {"pull", "create"}, BodyFails(c, fault) PROVE Fits'
  <2>1. th'[c] = AfterBody(c) /\ \A d \in Containers \ {c} : th'[d] = th[d]
    BY <1>10, GoneTo DEF BodyFails, AfterBody
  <2>2. PICK h \in BOOLEAN : h = (rows[c].host /\ fault = "pull") OBVIOUS
  <2>3. /\ \A d \in Containers \ {c} : rows'[d] = rows[d]
        /\ rows'[c].exists = rows[c].exists /\ rows'[c].cpu = rows[c].cpu
        /\ rows[c].exists => rows'[c].host = h /\ rows'[c].status = "error"
        /\ ~rows[c].exists => rows'[c] = rows[c]
    BY <1>10, <2>2, SavedRow DEF BodyFails
  <2>4. tracked' = tracked /\ db' = db /\ node' = node /\ sent' = sent /\ ops' = ops
        /\ th[c] = "body"
    BY <1>10 DEF BodyFails
  <2>5. Alone(c) BY <2>1, <2>3, <2>4 DEF Alone
  <2>6. c \notin Holders' /\ Holders' \subseteq Holders BY <2>3 DEF Holders
  <2>7. CreatingAt(c)' BY <1>2, <2>1, <2>2, <2>3, <2>4, <2>6 DEF CreatingAt, AfterBody
  <2>8. Creating' /\ Deletes' BY <2>4, <2>5, <2>7, OthersFit
  <2>9. Counted' \subseteq Counted BY <2>1, <2>4, <2>6 DEF Counted, Holders
  <2>10. Saved' BY <2>1, <2>4 DEF Fits, Saved, AfterBody
  <2> QED BY <2>4, <2>6, <2>8, <2>9, <2>10, FewerCount, FewerHold DEF Fits
<1> QED BY <1>3, <1>4, <1>5, <1>6, <1>7, <1>8, <1>9, <1>10 DEF ThreadStep

\* The requests keep them.
LEMMA RequestFits ==
    ASSUME TypeOK, TypeOK', FitInv, NEW c \in Containers, ApiRequest(c)
    PROVE  FitInv'
<1> SUFFICES ASSUME Calm' PROVE Fits' BY DEF FitInv
<1>1. PICK r \in Ops : /\ ops' = ops \cup {r} /\ r.c = c /\ r.old = rows[c].cpu
                       /\ \/ r.op = "delete" /\ r.phase = "api"
                                 /\ count'.resized = count.resized
                          \/ count'.resized
  BY Requested
<1>2. count'.swapped = count.swapped BY Requested
<1>3. Fits /\ r.op = "delete" /\ r.phase = "api" BY <1>1, <1>2 DEF Calm, FitInv
<1>4. rows' = rows /\ db' = db /\ node' = node /\ sent' = sent /\ tracked' = tracked /\ th' = th
  BY DEF ApiRequest
<1>5. Holders' = Holders /\ Counted' = Counted BY <1>4 DEF Holders, Counted
<1>6. Delete(r)'
  <2>1. r.old = Demand[r.c] BY <1>1, <1>3 DEF Fits, Creating, CreatingAt
  <2> QED BY <1>3, <2>1 DEF Delete
<1>7. Deletes'
  <2>1. ASSUME NEW o \in ops PROVE Delete(o)' BY <1>3, <1>5 DEF Fits, Deletes, Delete
  <2> QED BY <1>1, <1>6, <2>1 DEF Deletes
<1>8. Creating' BY <1>3, <1>4, <1>5 DEF Fits, Creating, CreatingAt
<1>9. Saved' BY <1>3, <1>4 DEF Fits, Saved
<1> QED BY <1>3, <1>4, <1>5, <1>7, <1>8, <1>9, FewerCount, FewerHold DEF Fits

\* A step of a delete changes the row of its container, which then holds no
\* more than before, and comes to its end or goes on.
LEMMA DeleteFits ==
    ASSUME TypeOK, TypeOK', HeldInv, Fits, NEW o \in ops,
           th' = th, db' = db, node' = node, sent' = sent, tracked' = tracked,
           \A d \in Containers \ {o.c} : rows'[d] = rows[d],
           o.c \in Containers => /\ rows'[o.c].cpu = rows[o.c].cpu
                                 /\ ~rows[o.c].host => ~rows'[o.c].host
                                 /\ rows'[o.c].exists /\ th[o.c] # "done"
                                       => rows'[o.c] = rows[o.c],
           Holders' \subseteq Holders,
           NEW phase \in {"cast", "run", "destroy"},
           phase = "run" => o.c \notin Holders',
           Drop(o) \/ Advance(o, phase)
    PROVE  Fits'
<1>1. o \in Ops BY DEF TypeOK
<1>2. o.c \in Containers BY <1>1 DEF Ops
<1>3. Creating'
  <2>1. ASSUME NEW d \in Containers PROVE CreatingAt(d)'
    <3>1. CreatingAt(d) /\ (d \in Holders' => d \in Holders) BY DEF Fits, Creating
    <3>2. CASE d # o.c BY <3>1, <3>2 DEF CreatingAt
    <3>3. CASE d = o.c
      <4>1. th[d] \in {"claim", "use", "body"} => th[d] # "done" OBVIOUS
      <4> QED BY <1>2, <3>1, <3>3, <4>1 DEF CreatingAt
    <3> QED BY <3>2, <3>3
  <2> QED BY <2>1 DEF Creating
<1>4. Deletes'
  <2>1. ASSUME NEW p \in ops PROVE Delete(p)' BY DEF Fits, Deletes, Delete
  <2>2. CASE Drop(o) BY <2>1, <2>2 DEF Drop, Deletes
  <2>3. CASE Advance(o, phase)
    <3>1. PICK q \in ops' : /\ ops' = (ops \ {o}) \cup {q} /\ q.op = o.op /\ q.c = o.c
                            /\ q.phase = phase /\ q.old = o.old
      BY <2>3, Advanced
    <3>2. Delete(q)' BY <2>1, <3>1 DEF Delete
    <3> QED BY <2>1, <3>1, <3>2 DEF Deletes
  <2> QED BY <2>2, <2>3
<1>5. Saved' BY DEF Fits, Saved
<1>6. Counted' \subseteq Counted BY DEF Counted, Holders
<1> QED BY <1>3, <1>4, <1>5, <1>6, FewerCount, FewerHold DEF Fits

\* The steps of deletes keep them.
LEMMA OpFits ==
    ASSUME TypeOK, TypeOK', HeldInv, Fits, NEW o \in ops, OpStep(o)
    PROVE  Fits'
<1>1. o \in Ops /\ Delete(o) BY DEF TypeOK, Fits, Deletes
<1>2. PICK c \in Containers : c = o.c BY <1>1 DEF Ops
<1>3. rows[c].host \in BOOLEAN /\ rows[c].exists \in BOOLEAN BY DEF TypeOK, Rows
<1>4. o.op = "delete" /\ o.old = Demand[c] /\ o.phase \notin {"apply", "abort"} BY <1>1, <1>2 DEF Delete
<1>5. CASE ApiDelete(o)
  <2>1. th' = th /\ db' = db /\ node' = node /\ sent' = sent /\ tracked' = tracked
    BY <1>5 DEF ApiDelete
  <2>2. CASE o.host
    <3>1. Advance(o, "cast") /\ rows' = rows BY <1>5, <2>2 DEF ApiDelete
    <3>2. Holders' = Holders BY <3>1 DEF Holders
    <3> QED BY <2>1, <3>1, <3>2, DeleteFits
  <2>3. CASE ~o.host
    <3>1. Drop(o) /\ rows' = [rows EXCEPT ![c].exists = FALSE] BY <1>2, <1>5, <2>3 DEF ApiDelete
    <3>2. /\ \A d \in Containers \ {c} : rows'[d] = rows[d]
          /\ ~rows'[c].exists /\ rows'[c].cpu = rows[c].cpu
          /\ rows'[c].host = rows[c].host
      BY <3>1, DestroyedRow
    <3>3. Holders' \subseteq Holders BY <3>2 DEF Holders
    <3> QED BY <1>2, <2>1, <3>1, <3>2, <3>3, DeleteFits
  <2> QED BY <2>2, <2>3
<1>6. CASE DeleteBegin(o)
  <2>1. th' = th /\ db' = db /\ node' = node /\ sent' = sent /\ tracked' = tracked
        /\ th[c] = "done" /\ (Drop(o) \/ Advance(o, "run"))
    BY <1>2, <1>6 DEF DeleteBegin
  <2>2. /\ \A d \in Containers \ {c} : rows'[d] = rows[d]
        /\ rows'[c].exists = rows[c].exists /\ rows'[c].cpu = rows[c].cpu
        /\ rows[c].exists => rows'[c].host = rows[c].host /\ rows'[c].status = "deleting"
        /\ ~rows[c].exists => rows'[c] = rows[c]
    BY <1>2, <1>3, <1>6, SavedRow DEF DeleteBegin
  <2>3. Holders' \subseteq Holders /\ c \notin Holders' BY <2>2 DEF Holders
  <2> QED BY <1>2, <2>1, <2>2, <2>3, DeleteFits
<1>7. CASE DeleteUsage(o)
  <2>1. th' = th /\ rows' = rows /\ o.phase = "run" /\ RemoveUsage(Fresh, c, Demand[c])
    BY <1>2, <1>4, <1>7 DEF DeleteUsage
  <2>2. c \notin Holders /\ th[c] = "done" BY <1>1, <1>2, <2>1 DEF Delete, HeldInv, DeleteInv
  <2>3. Saved' /\ Covered' /\ Fitting' BY <2>1, <2>2, FreshType, Removed
  <2>4. Holders' = Holders BY <2>1 DEF Holders
  <2>5. Creating'
    <3>1. \A d \in Containers \ {c} : d \in tracked' <=> d \in tracked BY <2>1 DEF RemoveUsage
    <3>2. ASSUME NEW d \in Containers PROVE CreatingAt(d)'
      <4>1. CreatingAt(d) BY DEF Fits, Creating
      <4>2. CASE d # c BY <2>1, <2>4, <3>1, <4>1, <4>2 DEF CreatingAt
      <4>3. CASE d = c BY <2>1, <2>2, <2>4, <4>1, <4>3 DEF CreatingAt
      <4> QED BY <4>2, <4>3
    <3> QED BY <3>2 DEF Creating
  <2>6. Deletes'
    <3>1. ASSUME NEW p \in ops PROVE Delete(p)' BY <2>4 DEF Fits, Deletes, Delete
    <3>2. CASE Drop(o) BY <3>1, <3>2 DEF Drop, Deletes
    <3>3. CASE Advance(o, "destroy")
      <4>1. PICK q \in ops' : /\ ops' = (ops \ {o}) \cup {q} /\ q.op = o.op /\ q.c = o.c
                              /\ q.phase = "destroy" /\ q.old = o.old
        BY <3>3, Advanced
      <4>2. Delete(q)' BY <3>1, <4>1 DEF Delete
      <4> QED BY <3>1, <4>1, <4>2 DEF Deletes
    <3> QED BY <1>7, <3>2, <3>3 DEF DeleteUsage
  <2> QED BY <2>3, <2>5, <2>6 DEF Fits
<1>8. CASE DeleteRow(o)
  <2>1. th' = th /\ db' = db /\ node' = node /\ sent' = sent /\ tracked' = tracked /\ Drop(o)
    BY <1>8 DEF DeleteRow
  <2>2. CASE rows' = rows
    <3>1. Holders' = Holders BY <2>2 DEF Holders
    <3> QED BY <2>1, <2>2, <3>1, DeleteFits
  <2>3. CASE rows' = [rows EXCEPT ![c].exists = FALSE]
    <3>1. /\ \A d \in Containers \ {c} : rows'[d] = rows[d]
          /\ ~rows'[c].exists /\ rows'[c].cpu = rows[c].cpu
          /\ rows'[c].host = rows[c].host
      BY <2>3, DestroyedRow
    <3>2. Holders' \subseteq Holders BY <3>1 DEF Holders
    <3> QED BY <1>2, <2>1, <3>1, <3>2, DeleteFits
  <2> QED BY <1>2, <1>8, <2>2, <2>3 DEF DeleteRow
<1>9. CASE DeleteFails(o)
  <2>1. th' = th /\ db' = db /\ node' = node /\ sent' = sent /\ tracked' = tracked /\ Drop(o)
        /\ o.phase = "run"
    BY <1>9 DEF DeleteFails
  <2>2. th[c] = "done" BY <1>2, <2>1 DEF HeldInv, DeleteInv
  <2>3. /\ \A d \in Containers \ {c} : rows'[d] = rows[d]
        /\ rows'[c].exists = rows[c].exists /\ rows'[c].cpu = rows[c].cpu
        /\ rows[c].exists => rows'[c].host = rows[c].host /\ rows'[c].status = "error"
        /\ ~rows[c].exists => rows'[c] = rows[c]
    BY <1>2, <1>3, <1>9, SavedRow DEF DeleteFails
  <2>4. Holders' \subseteq Holders BY <2>3 DEF Holders
  <2> QED BY <1>2, <2>1, <2>2, <2>3, <2>4, DeleteFits
<1> QED BY <1>4, <1>5, <1>6, <1>7, <1>8, <1>9 DEF OpStep, UpdateClaim, UpdateApply, UpdateAbort

\* The steps of an audit keep them.
LEMMA AuditFits ==
    ASSUME TypeOK, TypeOK', HeldInv, FitInv, AuditStep
    PROVE  FitInv'
<1> SUFFICES ASSUME Calm' PROVE Fits' BY DEF FitInv
<1>1. rows' = rows /\ th' = th /\ ops' = ops BY DEF AuditStep, AuditRead, AuditSwap, AuditRun
<1>2. Holders' = Holders BY <1>1 DEF Holders
<1>3. CASE AuditRead
  <2>1. count' = count /\ db' = db /\ node' = node /\ sent' = sent /\ tracked' = tracked
    BY <1>3 DEF AuditRead
  <2>2. Fits BY <2>1 DEF Calm, FitInv
  <2>3. Counted' = Counted BY <1>1, <1>2, <2>1 DEF Counted
  <2>4. Creating' BY <1>1, <1>2, <2>1, <2>2 DEF Fits, Creating, CreatingAt
  <2>5. Deletes' BY <1>1, <1>2, <2>2 DEF Fits, Deletes, Delete
  <2>6. Saved' BY <1>1, <2>1, <2>2 DEF Fits, Saved
  <2> QED BY <1>2, <2>1, <2>2, <2>3, <2>4, <2>5, <2>6, FewerCount, FewerHold DEF Fits
<1>4. CASE AuditSwap
  <2>1. db' = db /\ sent' = sent /\ tracked' = tracked BY <1>4 DEF AuditSwap
  <2>2. PICK b \in BOOLEAN :
           b = (count.swapped \/ \E c \in Containers : th[c] \in {"use", "body", "abort"})
    BY DEF TypeOK
  <2>3. count' = [count EXCEPT !.swapped = b] BY <1>4, <2>2 DEF AuditSwap
  <2>4. count'.swapped = b /\ count'.resized = count.resized BY <2>3 DEF TypeOK
  <2>5. Calm /\ \A c \in Containers : th[c] \notin {"use", "body", "abort"}
    BY <2>2, <2>4 DEF Calm, TypeOK
  <2>6. Fits BY <2>5 DEF FitInv
  <2>7. Counted' = Counted BY <1>1, <1>2, <2>1 DEF Counted
  <2>8. Creating' BY <1>1, <1>2, <2>1, <2>6 DEF Fits, Creating, CreatingAt
  <2>9. Deletes' BY <1>1, <1>2, <2>6 DEF Fits, Deletes, Delete
  <2>10. Saved' BY <1>1, <2>1, <2>5, <2>6 DEF Fits, Saved
  <2> QED BY <1>2, <2>1, <2>6, <2>7, <2>8, <2>9, <2>10, FewerCount, FewerHold DEF Fits
<1>5. ASSUME NEW moved \in BOOLEAN, AuditRun(moved) PROVE Fits'
  <2>1. count' = count /\ tracked' = Listed /\ LockFree BY <1>5 DEF AuditRun
  <2>2. Fits BY <2>1 DEF Calm, FitInv
  <2>3. PICK L \in SUBSET Containers : L = Listed BY DEF Listed
  <2>4. Usage(L) = Total(Demand, L)
    <3>1. \A c \in L : Demand[c] \in Nat /\ rows[c].cpu = Demand[c]
      BY <2>2, DemandAssumption DEF Fits, Creating, CreatingAt
    <3>2. UsageOf(rows, L) = Total(Demand, L) BY <3>1, DemandSum, UsageIs
    <3> QED BY <3>2 DEF Usage, UsageOf
  <2>5. PICK t \in Nat : t = Total(Demand, L) BY DemandSum
  <2>6. PICK d \in Int : d = -node.used BY DEF TypeOK, Nodes
  <2>7. PICK z \in Nodes : z = UpdateUsage(node, d) /\ z.used = 0
    <3>1. node \in Nodes BY DEF TypeOK
    <3>2. PICK u \in Int : u = node.used BY <3>1 DEF Nodes
    <3>3. u + d = 0 BY <2>6, <3>2
    <3>4. node.used + d = 0 BY <3>2, <3>3
    <3>5. /\ UpdateUsage(node, d) \in Nodes
          /\ UpdateUsage(node, d).used = node.used + d
      BY <2>6, <3>1, UpdateUsageFact
    <3> QED BY <3>4, <3>5
  <2>8. PICK n \in Nodes : n = UpdateUsage(z, t) /\ n.used = t /\ n.dirty
    <3>1. 0 + t = t /\ t \in Int OBVIOUS
    <3> QED BY <2>7, <3>1, UpdateUsageFact
  <2>9. Update(n, moved) BY <1>5, <2>3, <2>4, <2>5, <2>6, <2>7, <2>8 DEF AuditRun
  <2>10. db' = t /\ node'.used = t /\ (sent'.known => sent'.used = db')
    BY <2>2, <2>8, <2>9, UpdateFact DEF Fits, Saved
  <2>11. Saved' BY <2>10 DEF Saved
  <2>12. Covered'
    <3>1. PICK K : K = Counted' OBVIOUS
    <3>2. K \in SUBSET L BY <1>2, <2>1, <2>3, <3>1 DEF Counted, Holders, Listed
    <3>3. Total(Demand, K) <= Total(Demand, L) BY <3>2, FewerAsk
    <3> QED BY <2>5, <2>10, <3>1, <3>3 DEF Covered
  <2>13. Creating'
    <3>1. ASSUME NEW c \in Containers PROVE CreatingAt(c)'
      <4>1. CreatingAt(c) /\ th[c] # "use" BY <2>1, <2>2 DEF Fits, Creating, LockFree
      <4>2. th[c] = "claim" => c \notin Listed BY <4>1 DEF CreatingAt, Listed
      <4> QED BY <1>1, <1>2, <2>1, <4>1, <4>2 DEF CreatingAt
    <3> QED BY <3>1 DEF Creating
  <2>14. Deletes' BY <1>1, <1>2, <2>2 DEF Fits, Deletes, Delete
  <2> QED BY <1>2, <2>2, <2>11, <2>12, <2>13, <2>14, FewerHold DEF Fits
<1> QED BY <1>3, <1>4, <1>5 DEF AuditStep

\* A loss of zun-compute keeps them.
LEMMA CrashFits ==
    ASSUME TypeOK, TypeOK', HeldInv, FitInv, Crash
    PROVE  FitInv'
<1> SUFFICES ASSUME Calm' PROVE Fits' BY DEF FitInv
<1>1. count'.swapped = count.swapped /\ count'.resized = count.resized
  BY DEF Crash, TypeOK
<1>2. Fits BY <1>1 DEF Calm, FitInv
<1>3. db' = db /\ node' = NoNode /\ sent' = NoNode /\ tracked' = {} BY DEF Crash
<1>4. \A c \in Containers : th'[c] \in {"claim", "done"} /\ (th'[c] = "claim" => th[c] = "claim")
  BY DEF Crash
<1>5. ASSUME NEW c \in Containers
      PROVE  /\ rows'[c].exists = rows[c].exists /\ rows'[c].host = rows[c].host
             /\ rows'[c].cpu = rows[c].cpu
             /\ rows'[c].status = IF rows[c].host /\ rows[c].status = "creating"
                                  THEN "error" ELSE rows[c].status
  <2>1. rows[c] \in Rows BY DEF TypeOK
  <2>2. PICK e : e = [rows[c] EXCEPT !.status = "error"] OBVIOUS
  <2>3. e.exists = rows[c].exists /\ e.host = rows[c].host /\ e.cpu = rows[c].cpu
        /\ e.status = "error"
    BY <2>1, <2>2 DEF Rows
  <2>4. rows'[c] = IF rows[c].host /\ rows[c].status = "creating" THEN e ELSE rows[c]
    BY <2>2 DEF Crash
  <2> QED BY <2>3, <2>4
<1>6. Holders' \subseteq Holders /\ \A c \in Holders' : rows[c].status # "creating"
  BY <1>5 DEF Holders
<1>7. Counted' \subseteq Counted
  <2>1. \A c \in Holders' : th[c] # "use"
    <3>1. ASSUME NEW c \in Holders', th[c] = "use" PROVE FALSE
      <4>1. c \in Containers /\ rows[c].exists BY <1>5 DEF Holders
      <4>2. rows[c].status = "creating" BY <1>2, <3>1, <4>1 DEF Fits, Creating, CreatingAt
      <4> QED BY <1>6, <4>2
    <3> QED BY <3>1
  <2> QED BY <1>3, <1>6, <2>1 DEF Counted
<1>8. Creating'
  <2>1. ASSUME NEW c \in Containers PROVE CreatingAt(c)'
    <3>1. CreatingAt(c) BY <1>2 DEF Fits, Creating
    <3> QED BY <1>3, <1>4, <1>5, <3>1 DEF CreatingAt
  <2> QED BY <2>1 DEF Creating
<1>9. Deletes'
  <2>1. PICK lost \in SUBSET {o \in ops : o.phase = "cast"} :
          ops' = {o \in ops \ lost : o.phase \in {"api", "cast"}}
                   \cup {[o EXCEPT !.phase = "cast", !.old = rows[o.c].cpu] :
                           o \in {p \in ops : p.phase \in {"run", "destroy"}}}
    BY DEF Crash
  <2>2. ASSUME NEW q \in ops' PROVE Delete(q)'
    <3>1. CASE q \in ops /\ q.phase \in {"api", "cast"}
      BY <1>2, <3>1 DEF Fits, Deletes, Delete
    <3>2. CASE \E o \in ops : q = [o EXCEPT !.phase = "cast", !.old = rows[o.c].cpu]
      <4>1. PICK o \in ops : q = [o EXCEPT !.phase = "cast", !.old = rows[o.c].cpu] BY <3>2
      <4>2. o \in Ops /\ o.c \in Containers BY DEF TypeOK, Ops
      <4>3. rows[o.c].cpu = Demand[o.c] BY <1>2, <4>2 DEF Fits, Creating, CreatingAt
      <4>4. q.c = o.c /\ q.op = o.op /\ q.phase = "cast" /\ q.old = rows[o.c].cpu
        BY <4>1, <4>2 DEF Ops
      <4>5. o.op = "delete" BY <1>2 DEF Fits, Deletes, Delete
      <4> QED BY <4>3, <4>4, <4>5 DEF Delete
    <3> QED BY <2>1, <3>1, <3>2
  <2> QED BY <2>2 DEF Deletes
<1>10. Saved' BY <1>3, <1>4 DEF Saved, NoNode
<1> QED BY <1>2, <1>3, <1>6, <1>7, <1>8, <1>9, <1>10, FewerCount, FewerHold DEF Fits

\* No claim is held at the start.
LEMMA InitFits == Init => FitInv
<1> SUFFICES ASSUME Init PROVE Fits BY DEF FitInv
<1>1. Holders = {} /\ Counted = {} BY DEF Init, Holders, Counted
<1>2. Total(Demand, {}) = 0 BY TotalEmpty
<1>3. Covered /\ Fitting BY <1>1, <1>2, DemandAssumption DEF Init, Covered, Fitting
<1>4. db = 0 /\ sent = Fresh /\ \A c \in Containers : th[c] = "claim" BY DEF Init
<1>5. Saved BY <1>4 DEF Saved, Fresh
<1>6. Creating BY <1>1 DEF Init, Creating, CreatingAt
<1>7. Deletes BY DEF Init, Deletes
<1> QED BY <1>3, <1>5, <1>6, <1>7 DEF Fits

\* The accounting of the claims is inductive.
LEMMA StepFits == TypeOK /\ HeldInv /\ FitInv /\ [Next]_vars => FitInv'
<1> SUFFICES ASSUME TypeOK, HeldInv, FitInv, [Next]_vars PROVE FitInv' OBVIOUS
<1>1. TypeOK' BY StepTypes
<1>2. CASE UNCHANGED vars
  BY <1>2 DEF vars, FitInv, Calm, Fits, Creating, CreatingAt, Deletes, Delete, Saved, Covered,
              Fitting, Counted, Holders
<1>3. ASSUME NEW c \in Containers, ThreadStep(c) PROVE FitInv'
  <2>1. count' = count
    BY <1>3 DEF ThreadStep, NopClaim, ClaimRefused, ClaimDedicated, ClaimTest, ClaimUse, Body,
                AbortClaim, BodyFails
  <2> QED BY <1>1, <1>3, <2>1, ThreadFits DEF FitInv, Calm
<1>4. ASSUME NEW o \in ops, OpStep(o) PROVE FitInv'
  <2>1. count' = count
    BY <1>4 DEF OpStep, ApiDelete, DeleteBegin, DeleteUsage, DeleteRow, DeleteFails, UpdateClaim,
                UpdateApply, UpdateAbort
  <2> QED BY <1>1, <1>4, <2>1, OpFits DEF FitInv, Calm
<1> QED BY <1>1, <1>2, <1>3, <1>4, RequestFits, AuditFits, CrashFits DEF Next

\* Whatever requests, failures, aborts and losses of zun-compute are interleaved
\* with the claims (container_claim, abort_container_claim, remove_usage,
\* _update), what containers hold stays within the limit they were tested
\* against, until an audit replaces the node under a claim or a size changes.
THEOREM ClaimsStayInLimit == Spec => []ClaimsFit
<1>1. TypeOK /\ FitInv => ClaimsFit
  <2> SUFFICES ASSUME TypeOK, Fits PROVE Usage(Holders) <= Limit BY DEF FitInv, Calm, ClaimsFit
  <2>1. PICK H \in SUBSET Containers : H = Holders BY SetTypes
  <2>2. \A c \in H : Demand[c] \in Nat /\ rows[c].cpu = Demand[c]
    BY DemandAssumption DEF Fits, Creating, CreatingAt
  <2>3. UsageOf(rows, H) = Total(Demand, H) BY <2>2, DemandSum, UsageIs
  <2>4. Usage(H) = Total(Demand, H) BY <2>3 DEF Usage, UsageOf
  <2> QED BY <2>1, <2>4 DEF Fits, Fitting
<1> QED BY <1>1, InitTypes, StepTypes, HeldInit, HeldStep, InitFits, StepFits, PTL DEF Spec

=============================================================================
