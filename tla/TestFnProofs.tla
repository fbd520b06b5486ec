---------------------------- MODULE TestFnProofs ----------------------------
(***************************************************************************)
(* The safety properties of TestFn for every number of invocations, every  *)
(* catalogue of functions and cases, every set of command lines and any    *)
(* number of outside changes.                                              *)
(*                                                                         *)
(* VerifiedIsBacked is not inductive: that a stamp is backed at the moment *)
(* of Promote rests on how the tallies of an invocation relate to its plan *)
(* (Tallied) and to the rows of test_runs (Logged), and that it stays      *)
(* backed on no two invocations sharing a ran_at (Clocked).                *)
(***************************************************************************)
EXTENDS TestFn, TLAPS

\* An invocation in one of these phases no longer changes what it planned.
Late == {"promote", "done", "aborted"}

\* Which locals are meaningful in which phase.
Phased(l) ==
    /\ l.pc # "idle" => l.req \in Request
    /\ l.pc \in {"loop", "promote"} => l.ranAt # 0
    /\ l.pc \in {"idle", "cached", "bridge", "provider", "cases", "stamp"}
          => l.ranAt = 0
    /\ l.pc = "cases" => l.req.cmd = "run"
    /\ l.pc = "stamp" => l.req.cmd = "batch"
    /\ l.pc \notin {"idle", "cached"} /\ l.req.cmd = "run"
          => /\ \A f \in l.req.fns : l.row[f] # None
             /\ \A c \in l.plan : FnOf[c] \in l.req.fns
    /\ l.pc = "idle" => l.plan = {}
    /\ l.pc # "idle" /\ l.req.cmd = "batch" => l.plan \ l.bad \subseteq l.suite

\* How the tallies of an invocation split its plan.
Tallied(l) ==
    /\ l.ranAt = 0 => l.pass = {} /\ l.fail = {} /\ l.skipped = {}
    /\ l.pass \cup l.fail \cup l.skipped \cup l.todo \subseteq l.plan
    /\ l.pc # "idle" /\ l.req.print => l.pass = {} /\ l.fail = {}
    /\ l.pc # "idle" /\ l.req.cmd = "batch"
          => l.skipped \subseteq l.bad /\ (l.pass \cup l.fail) \cap l.bad = {}
    /\ l.pc # "idle" /\ l.req.cmd = "run"
          => /\ l.skipped = {}
             /\ l.pc \in {"loop", "promote"} /\ ~l.req.print
                   => l.plan = l.todo \cup l.pass \cup l.fail
             /\ l.pc = "promote" => l.todo = {}
    /\ l.pc = "promote" => l.fns \subseteq {FnOf[c] : c \in l.plan}

\* Timestamps: taken from the clock, never by two invocations.
Clocked ==
    /\ \A p \in Invocation : inv[p].ranAt <= clock
    /\ \A r \in runs : r.ranAt # 0 /\ r.ranAt <= clock
    /\ \A p, q \in Invocation :
          p # q /\ inv[p].ranAt # 0 => inv[p].ranAt # inv[q].ranAt

RowsBy(p, verdict) ==
    {r \in runs : r.ranAt = inv[p].ranAt /\ r.status = verdict}

\* The tallies are what the invocation has written to test_runs.
Logged ==
    \A p \in Invocation :
        /\ inv[p].pass = {r.case : r \in RowsBy(p, "pass")}
        /\ inv[p].fail = {r.case : r \in RowsBy(p, "fail")}

Stamped ==
    \A f \in Function : scalars[f].status = "implemented_verified" =>
        \E p \in Invocation : Backs(p, f) /\ inv[p].pc \in Late

IInv ==
    /\ TypeOK
    /\ \A p \in Invocation : Phased(inv[p]) /\ Tallied(inv[p])
    /\ Clocked
    /\ Logged
    /\ Stamped

-----------------------------------------------------------------------------
LEMMA BecomesLocals ==
    ASSUME inv \in [Invocation -> Locals],
           NEW p \in Invocation, NEW n \in Locals, Becomes(p, n)
    PROVE  /\ inv' \in [Invocation -> Locals]
           /\ inv'[p] = n
           /\ \A q \in Invocation : q # p => inv'[q] = inv[q]
BY DEF Becomes

LEMMA InitInv == Init => IInv
<1> SUFFICES ASSUME Init PROVE IInv
  OBVIOUS
<1>1. TypeOK
  BY CatalogueAssumption, RequestAssumption
     DEF Init, TypeOK, Idle, Locals, Phase, CaseTable, Artifact
<1>2. \A p \in Invocation : Phased(inv[p]) /\ Tallied(inv[p])
  BY DEF Init, Idle, Phased, Tallied
<1>3. Clocked /\ Logged
  BY DEF Init, Idle, Clocked, Logged, RowsBy
<1>4. Stamped
  BY RequestAssumption DEF Init, Stamped
<1>5. QED
  BY <1>1, <1>2, <1>3, <1>4 DEF IInv

\* A stamp stays backed while the invocation behind it, its rows and the
\* stamp itself stay as they are.
LEMMA BacksStable ==
    ASSUME NEW p, NEW f,
           Backs(p, f),
           inv'[p].req = inv[p].req, inv'[p].row = inv[p].row,
           inv'[p].plan = inv[p].plan, inv'[p].bad = inv[p].bad,
           inv'[p].ranAt = inv[p].ranAt,
           RowsOf(p, f)' = RowsOf(p, f),
           scalars'[f].lvAt = scalars[f].lvAt,
           scalars'[f].lvSig = scalars[f].lvSig,
           scalars'[f].lvImpl = scalars[f].lvImpl
    PROVE  Backs(p, f)'
BY DEF Backs, Complete, AllPassed, Owed

\* A step of p that writes no row and no stamp and takes no timestamp.
LEMMA QuietStep ==
    ASSUME IInv,
           NEW p \in Invocation, NEW n \in Locals, Becomes(p, n),
           Phased(n), Tallied(n),
           n.ranAt = inv[p].ranAt, n.pass = inv[p].pass, n.fail = inv[p].fail,
           inv[p].pc \in Late => /\ n.pc \in Late /\ n.req = inv[p].req
                                 /\ n.row = inv[p].row /\ n.plan = inv[p].plan
                                 /\ n.bad = inv[p].bad,
           UNCHANGED <<scalars, cases, runs, disk, clock, env>>,
           manifest' \subseteq Manifest
    PROVE  IInv'
<1>1. /\ inv' \in [Invocation -> Locals]
      /\ inv'[p] = n
      /\ \A q \in Invocation : q # p => inv'[q] = inv[q]
  BY BecomesLocals DEF IInv, TypeOK
<1>2. TypeOK'
  BY <1>1 DEF IInv, TypeOK
<1>3. \A q \in Invocation : Phased(inv'[q]) /\ Tallied(inv'[q])
  BY <1>1 DEF IInv
<1>4. \A q \in Invocation : /\ inv'[q].ranAt = inv[q].ranAt
                            /\ inv'[q].pass = inv[q].pass
                            /\ inv'[q].fail = inv[q].fail
  BY <1>1
<1>5. Clocked'
  BY <1>4 DEF IInv, Clocked
<1>6. Logged'
  <2>1. \A q \in Invocation, v \in {"pass", "fail"} : RowsBy(q, v)' = RowsBy(q, v)
    BY <1>4 DEF RowsBy
  <2>2. QED
    BY <2>1, <1>4 DEF IInv, Logged
<1>7. Stamped'
  <2> SUFFICES ASSUME NEW f \in Function,
                      scalars'[f].status = "implemented_verified"
               PROVE  \E q \in Invocation : Backs(q, f)' /\ inv'[q].pc \in Late
    BY DEF Stamped
  <2>1. PICK q \in Invocation : Backs(q, f) /\ inv[q].pc \in Late
    BY DEF IInv, Stamped
  <2>2. /\ inv'[q].req = inv[q].req /\ inv'[q].row = inv[q].row
        /\ inv'[q].plan = inv[q].plan /\ inv'[q].bad = inv[q].bad
        /\ inv'[q].pc \in Late
    BY <1>1, <2>1
  <2>3. RowsOf(q, f)' = RowsOf(q, f)
    BY <1>4 DEF RowsOf
  <2>4. Backs(q, f)'
    BY <1>4, <2>1, <2>2, <2>3, BacksStable
  <2>5. QED
    BY <2>2, <2>4
<1>8. QED
  BY <1>2, <1>3, <1>5, <1>6, <1>7 DEF IInv
LEMMA InvType ==
    ASSUME IInv, NEW p \in Invocation
    PROVE  /\ inv \in [Invocation -> Locals] /\ inv[p] \in Locals
           /\ Phased(inv[p]) /\ Tallied(inv[p])
           /\ manifest \subseteq Manifest
           /\ \A a \in Artifact : disk[a] \in Nat
           /\ \A f \in Function : scalars[f] \in ScalarRow
           /\ clock \in Nat
BY DEF IInv, TypeOK

LEMMA RequestType ==
    ASSUME NEW r \in Request
    PROVE  /\ r.cmd \in {"run", "batch"} /\ r.provider \in Artifact
           /\ r.fns \subseteq Function
           /\ r.cmd = "run" => \A f, h \in r.fns : f = h
           /\ r.cmd = "batch" => r.only = None
           /\ r # None
<1>1. r \in CommandLine /\ None \notin Request
  BY RequestAssumption
<1>2. IF r.cmd = "run" THEN \E f \in Function : r.fns = {f} ELSE r.only = None
  BY RequestAssumption
<1>3. QED
  BY <1>1, <1>2 DEF CommandLine

LEMMA PlanType ==
    ASSUME NEW r
    PROVE  /\ BatchPlan(r) \subseteq Case
           /\ RunPlan(r) \subseteq Case
           /\ \A c \in RunPlan(r) : FnOf[c] \in r.fns
           /\ \A plan \in SUBSET Case : FixtureBad(plan) \subseteq plan
           /\ \A fns : Runnable(cases, fns) \subseteq Case
BY DEF BatchPlan, RunPlan, LoadCasesEx, LoadCasesByLeaf, FixtureBad, Runnable

\* What a batch selects and does not skip is in the suite.
LEMMA BatchPlanInSuite ==
    ASSUME NEW r
    PROVE  BatchPlan(r) \ FixtureBad(BatchPlan(r))
             \subseteq Runnable(cases, {FnOf[c] : c \in BatchPlan(r)})
<1> SUFFICES ASSUME NEW c \in BatchPlan(r), c \notin FixtureBad(BatchPlan(r))
             PROVE  c \in Runnable(cases, {FnOf[d] : d \in BatchPlan(r)})
  OBVIOUS
<1>1. /\ c \in Case /\ cases[c] # None
      /\ ~HasTag(cases, c, "pg_only")
      /\ ~HasTag(cases, c, "fixture_bad")
  BY DEF BatchPlan, LoadCasesEx, LoadCasesByLeaf, HasTag, FixtureBad
<1>2. QED
  BY <1>1 DEF Runnable, LoadCasesEx

-----------------------------------------------------------------------------
(* The steps that only move an invocation along.                           *)

LEMMA RunCachedInv ==
    ASSUME IInv, NEW p \in Invocation, RunCached(p) PROVE IInv'
<1>1. PICK r \in Request :
        Becomes(p, [inv[p] EXCEPT !.pc = "cached", !.req = r])
  BY DEF RunCached
<1> DEFINE n == [inv[p] EXCEPT !.pc = "cached", !.req = r]
<1>. inv[p] \in Locals /\ Phased(inv[p]) /\ Tallied(inv[p])
  BY InvType
<1>2. inv[p].pc = "idle" /\ n \in Locals
  BY DEF RunCached, MayStart, Locals, Phase
<1>3. /\ n.pc = "cached" /\ n.req = r
      /\ n.ranAt = 0 /\ n.plan = {} /\ n.todo = inv[p].todo
      /\ n.pass = {} /\ n.fail = {} /\ n.skipped = {}
      /\ n.ranAt = inv[p].ranAt /\ n.pass = inv[p].pass /\ n.fail = inv[p].fail
  BY <1>2 DEF Locals, Phased, Tallied
<1>4. inv[p].todo = {}
  BY <1>2 DEF Phased, Tallied
<1> HIDE DEF n
<1>5. Phased(n) /\ Tallied(n)
  BY <1>3, <1>4 DEF Phased, Tallied
<1>6. QED
  BY <1>1, <1>2, <1>3, <1>5, QuietStep, InvType DEF RunCached, n, Late

LEMMA RunLoadInv ==
    ASSUME IInv, NEW p \in Invocation, RunLoad(p) PROVE IInv'
<1>1. PICK r \in Request : \E f \in r.fns :
        /\ r.cmd = "run"
        /\ Becomes(p, [inv[p] EXCEPT !.pc = "bridge", !.req = r,
                                     !.row[f] = scalars[f]])
  BY DEF RunLoad
<1>2. PICK f \in r.fns :
        Becomes(p, [inv[p] EXCEPT !.pc = "bridge", !.req = r,
                                  !.row[f] = scalars[f]])
  BY <1>1
<1> DEFINE n == [inv[p] EXCEPT !.pc = "bridge", !.req = r, !.row[f] = scalars[f]]
<1>3. f \in Function /\ \A h \in r.fns : h = f
  BY <1>1, RequestType
<1>. inv[p] \in Locals /\ Phased(inv[p]) /\ Tallied(inv[p])
  BY InvType
<1>4. inv[p].row \in [Function -> ScalarRow \cup {None}]
      /\ scalars[f] \in ScalarRow
  BY <1>3, InvType DEF Locals
<1>5. inv[p].pc = "idle" /\ n \in Locals
  BY <1>3, <1>4 DEF RunLoad, MayStart, Locals, Phase
<1>6. /\ n.pc = "bridge" /\ n.req = r /\ n.row[f] = scalars[f]
      /\ n.ranAt = 0 /\ n.plan = {} /\ n.todo = inv[p].todo
      /\ n.pass = {} /\ n.fail = {} /\ n.skipped = {}
      /\ n.ranAt = inv[p].ranAt /\ n.pass = inv[p].pass /\ n.fail = inv[p].fail
  BY <1>3, <1>4, <1>5 DEF Locals, Phased, Tallied
<1>7. inv[p].todo = {}
  BY <1>5 DEF Phased, Tallied
<1>8. scalars[f] # None
  BY <1>4, NoRowAssumption
<1> HIDE DEF n
<1>9. Phased(n) /\ Tallied(n)
  BY <1>1, <1>3, <1>6, <1>7, <1>8 DEF Phased, Tallied
<1>10. QED
  BY <1>2, <1>5, <1>6, <1>9, QuietStep, InvType DEF RunLoad, n, Late
LEMMA BatchSelectInv ==
    ASSUME IInv, NEW p \in Invocation, BatchSelect(p) PROVE IInv'
<1> DEFINE plan(r) == BatchPlan(r)
           n(r) == [inv[p] EXCEPT
                     !.pc = IF plan(r) = {} THEN "done" ELSE "bridge",
                     !.req = r, !.plan = plan(r), !.todo = plan(r),
                     !.bad = FixtureBad(plan(r)),
                     !.suite = Runnable(cases, {FnOf[c] : c \in plan(r)})]
<1>1. PICK r \in Request : r.cmd = "batch" /\ Becomes(p, n(r))
  BY DEF BatchSelect
<1>. inv[p] \in Locals /\ Phased(inv[p]) /\ Tallied(inv[p])
  BY InvType
<1>2. /\ plan(r) \subseteq Case /\ FixtureBad(plan(r)) \subseteq Case
      /\ Runnable(cases, {FnOf[c] : c \in plan(r)}) \subseteq Case
  BY PlanType
<1>0. plan(r) \ FixtureBad(plan(r))
        \subseteq Runnable(cases, {FnOf[c] : c \in plan(r)})
  BY BatchPlanInSuite
<1> HIDE DEF plan
<1>3. inv[p].pc = "idle" /\ n(r) \in Locals
  BY <1>2 DEF BatchSelect, MayStart, Locals, Phase
<1>4. /\ n(r).pc \in {"done", "bridge"} /\ n(r).req = r
      /\ n(r).plan = plan(r) /\ n(r).todo = plan(r)
      /\ n(r).bad = FixtureBad(plan(r))
      /\ n(r).suite = Runnable(cases, {FnOf[c] : c \in plan(r)})
      /\ n(r).ranAt = 0 /\ n(r).pass = {} /\ n(r).fail = {}
      /\ n(r).skipped = {}
      /\ n(r).ranAt = inv[p].ranAt /\ n(r).pass = inv[p].pass
      /\ n(r).fail = inv[p].fail
  BY <1>2, <1>3 DEF Locals, Phased, Tallied
<1> HIDE DEF n
<1>5. Phased(n(r)) /\ Tallied(n(r))
  BY <1>0, <1>1, <1>4 DEF Phased, Tallied
<1>6. QED
  BY <1>1, <1>3, <1>4, <1>5, QuietStep, InvType DEF BatchSelect, Late

LEMMA HashBridgeInv ==
    ASSUME IInv, NEW p \in Invocation, HashBridge(p) PROVE IInv'
<1> DEFINE n == [inv[p] EXCEPT !.pc = "provider", !.bridge = disk["bridge"]]
<1>. inv[p] \in Locals /\ Phased(inv[p]) /\ Tallied(inv[p])
  BY InvType
<1>1. disk["bridge"] \in Nat
  BY InvType DEF Artifact
<1>2. inv[p].pc = "bridge" /\ n \in Locals
  BY <1>1 DEF HashBridge, Locals, Phase
<1>3. /\ n.pc = "provider" /\ n.req = inv[p].req /\ n.row = inv[p].row
      /\ n.plan = inv[p].plan /\ n.todo = inv[p].todo
      /\ n.pass = inv[p].pass /\ n.fail = inv[p].fail
      /\ n.skipped = inv[p].skipped /\ n.ranAt = inv[p].ranAt
      /\ n.bad = inv[p].bad /\ n.suite = inv[p].suite
  BY <1>2 DEF Locals
<1> HIDE DEF n
<1>4. Phased(n) /\ Tallied(n)
  BY <1>2, <1>3 DEF Phased, Tallied
<1>5. QED
  BY <1>2, <1>3, <1>4, QuietStep, InvType DEF HashBridge, n, Late

LEMMA BatchHashProviderInv ==
    ASSUME IInv, NEW p \in Invocation, BatchHashProvider(p) PROVE IInv'
<1> DEFINE n == [inv[p] EXCEPT !.pc = "stamp",
                               !.provider = disk[inv[p].req.provider]]
<1>. inv[p] \in Locals /\ Phased(inv[p]) /\ Tallied(inv[p])
  BY InvType
<1>1. disk[inv[p].req.provider] \in Nat
  BY InvType, RequestType DEF BatchHashProvider, Phased
<1>2. inv[p].pc = "provider" /\ inv[p].req.cmd = "batch" /\ n \in Locals
  BY <1>1 DEF BatchHashProvider, Locals, Phase
<1>3. /\ n.pc = "stamp" /\ n.req = inv[p].req /\ n.row = inv[p].row
      /\ n.plan = inv[p].plan /\ n.todo = inv[p].todo
      /\ n.pass = inv[p].pass /\ n.fail = inv[p].fail
      /\ n.skipped = inv[p].skipped /\ n.ranAt = inv[p].ranAt
      /\ n.bad = inv[p].bad /\ n.suite = inv[p].suite
  BY <1>2 DEF Locals
<1> HIDE DEF n
<1>4. Phased(n) /\ Tallied(n)
  BY <1>2, <1>3 DEF Phased, Tallied
<1>5. QED
  BY <1>2, <1>3, <1>4, QuietStep, InvType DEF BatchHashProvider, n, Late

LEMMA EnsureInv ==
    ASSUME IInv, NEW p \in Invocation, Ensure(p) PROVE IInv'
<1> DEFINE found == disk[inv[p].req.provider]
           n == [inv[p] EXCEPT !.pc = "cases", !.provider = found]
<1>. inv[p] \in Locals /\ Phased(inv[p]) /\ Tallied(inv[p])
  BY InvType
<1>1. found \in Nat /\ inv[p].req \in Request /\ inv[p].req.fns \subseteq Function
  BY InvType, RequestType DEF Ensure, Phased
<1>2. inv[p].pc = "provider" /\ inv[p].req.cmd = "run" /\ n \in Locals
  BY <1>1 DEF Ensure, Locals, Phase
<1>3. /\ n.pc = "cases" /\ n.req = inv[p].req /\ n.row = inv[p].row
      /\ n.plan = inv[p].plan /\ n.todo = inv[p].todo
      /\ n.pass = inv[p].pass /\ n.fail = inv[p].fail
      /\ n.skipped = inv[p].skipped /\ n.ranAt = inv[p].ranAt
      /\ n.bad = inv[p].bad /\ n.suite = inv[p].suite
  BY <1>2 DEF Locals
<1>4. manifest' \subseteq Manifest
  <2>1. PICK f \in inv[p].req.fns :
          manifest' \subseteq manifest \cup
            {[fn |-> f, sig |-> inv[p].row[f].sig, impl |-> inv[p].row[f].impl,
              bridge |-> inv[p].bridge, provider |-> found]}
    BY DEF Ensure
  <2>2. inv[p].row[f] \in ScalarRow
    BY <1>1, <1>2 DEF Locals, Phased
  <2>3. QED
    BY <1>1, <2>1, <2>2, InvType DEF Manifest, Locals, ScalarRow
<1>5. Becomes(p, n)
  BY DEF Ensure
<1> HIDE DEF n, found
<1>6. Phased(n) /\ Tallied(n)
  BY <1>2, <1>3 DEF Phased, Tallied
<1>7. QED
  BY <1>2, <1>3, <1>4, <1>5, <1>6, QuietStep DEF Ensure, Late

LEMMA SkipCaseInv ==
    ASSUME IInv, NEW p \in Invocation, SkipCase(p) PROVE IInv'
<1> DEFINE n(c) == [inv[p] EXCEPT !.todo = @ \ {c}, !.skipped = @ \cup {c}]
<1>. inv[p] \in Locals /\ Phased(inv[p]) /\ Tallied(inv[p])
  BY InvType
<1>1. PICK c \in inv[p].todo : Skips(p, c) /\ Becomes(p, n(c))
  BY DEF SkipCase
<1>2. inv[p].pc = "loop" /\ n(c) \in Locals
  BY <1>1 DEF SkipCase, Locals, Phase
<1>3. /\ n(c).pc = "loop" /\ n(c).req = inv[p].req /\ n(c).row = inv[p].row
      /\ n(c).plan = inv[p].plan /\ n(c).todo = inv[p].todo \ {c}
      /\ n(c).pass = inv[p].pass /\ n(c).fail = inv[p].fail
      /\ n(c).skipped = inv[p].skipped \cup {c} /\ n(c).ranAt = inv[p].ranAt
      /\ n(c).bad = inv[p].bad /\ n(c).suite = inv[p].suite
  BY <1>2 DEF Locals
<1> HIDE DEF n
<1>4. Phased(n(c))
  BY <1>2, <1>3 DEF Phased
<1>5. Tallied(n(c))
  BY <1>1, <1>2, <1>3 DEF Tallied, Skips, Phased
<1>6. QED
  BY <1>1, <1>2, <1>3, <1>4, <1>5, QuietStep, InvType DEF SkipCase, Late

LEMMA PrintCaseInv ==
    ASSUME IInv, NEW p \in Invocation, PrintCase(p) PROVE IInv'
<1> DEFINE n(c) == [inv[p] EXCEPT !.todo = @ \ {c}, !.ran = @ \cup {c}]
<1>. inv[p] \in Locals /\ Phased(inv[p]) /\ Tallied(inv[p])
  BY InvType
<1>1. PICK c \in inv[p].todo : Becomes(p, n(c))
  BY DEF PrintCase
<1>2. inv[p].pc = "loop" /\ inv[p].req.print /\ n(c) \in Locals
  BY <1>1 DEF PrintCase, Locals, Phase
<1>3. /\ n(c).pc = "loop" /\ n(c).req = inv[p].req /\ n(c).row = inv[p].row
      /\ n(c).plan = inv[p].plan /\ n(c).todo = inv[p].todo \ {c}
      /\ n(c).pass = inv[p].pass /\ n(c).fail = inv[p].fail
      /\ n(c).skipped = inv[p].skipped /\ n(c).ranAt = inv[p].ranAt
      /\ n(c).bad = inv[p].bad /\ n(c).suite = inv[p].suite
  BY <1>2 DEF Locals
<1> HIDE DEF n
<1>4. Phased(n(c)) /\ Tallied(n(c))
  BY <1>2, <1>3 DEF Phased, Tallied
<1>5. QED
  BY <1>1, <1>2, <1>3, <1>4, QuietStep, InvType DEF PrintCase, Late

LEMMA EndLoopInv ==
    ASSUME IInv, NEW p \in Invocation, EndLoop(p) PROVE IInv'
<1> DEFINE n == [inv[p] EXCEPT !.pc = "promote",
                               !.fns = {FnOf[c] : c \in inv[p].plan}]
<1>. inv[p] \in Locals /\ Phased(inv[p]) /\ Tallied(inv[p])
  BY InvType
<1>1. {FnOf[c] : c \in inv[p].plan} \subseteq Function
  BY CatalogueAssumption DEF Locals
<1>2. inv[p].pc = "loop" /\ n \in Locals
  BY <1>1 DEF EndLoop, Locals, Phase
<1>3. /\ n.pc = "promote" /\ n.req = inv[p].req /\ n.row = inv[p].row
      /\ n.plan = inv[p].plan /\ n.todo = inv[p].todo
      /\ n.pass = inv[p].pass /\ n.fail = inv[p].fail
      /\ n.skipped = inv[p].skipped /\ n.ranAt = inv[p].ranAt
      /\ n.bad = inv[p].bad /\ n.suite = inv[p].suite
      /\ n.fns = {FnOf[c] : c \in inv[p].plan}
  BY <1>2 DEF Locals
<1>4. inv[p].req.cmd = "run" => inv[p].todo = {}
  BY DEF EndLoop, Capped, CapReached
<1>5. Becomes(p, n)
  BY DEF EndLoop
<1> HIDE DEF n
<1>6. Phased(n) /\ Tallied(n)
  BY <1>2, <1>3, <1>4 DEF Phased, Tallied
<1>7. QED
  BY <1>2, <1>3, <1>5, <1>6, QuietStep, InvType DEF EndLoop, Late

LEMMA FinishOrAbortInv ==
    ASSUME IInv, NEW p \in Invocation, Finish(p) \/ Abort(p) PROVE IInv'
<1>1. PICK pc \in {"done", "aborted"} : Becomes(p, [inv[p] EXCEPT !.pc = pc])
  BY DEF Finish, Abort
<1> DEFINE n == [inv[p] EXCEPT !.pc = pc]
<1>. inv[p] \in Locals /\ Phased(inv[p]) /\ Tallied(inv[p])
  BY InvType
<1>2. inv[p].pc \notin {"idle", "cached"} /\ n \in Locals
  BY DEF Finish, Abort, Ended, Locals, Phase
<1>3. /\ n.pc = pc /\ n.req = inv[p].req /\ n.row = inv[p].row
      /\ n.plan = inv[p].plan /\ n.todo = inv[p].todo
      /\ n.pass = inv[p].pass /\ n.fail = inv[p].fail
      /\ n.skipped = inv[p].skipped /\ n.ranAt = inv[p].ranAt
      /\ n.bad = inv[p].bad /\ n.suite = inv[p].suite
  BY <1>2 DEF Locals
<1>4. Becomes(p, n)
  BY <1>1
<1> HIDE DEF n
<1>5. Phased(n) /\ Tallied(n)
  BY <1>2, <1>3 DEF Phased, Tallied
<1>6. QED
  BY <1>2, <1>3, <1>4, <1>5, QuietStep, InvType DEF Finish, Abort, Late
-----------------------------------------------------------------------------
(* The steps that take a timestamp.                                        *)

LEMMA StampStep ==
    ASSUME IInv,
           NEW p \in Invocation, NEW n \in Locals, Becomes(p, n),
           Phased(n), Tallied(n),
           inv[p].ranAt = 0, inv[p].pc \notin Late,
           n.ranAt = clock + 1, n.pass = {}, n.fail = {},
           clock' = clock + 1,
           UNCHANGED <<scalars, cases, runs, manifest, disk, env>>
    PROVE  IInv'
<1>1. /\ inv' \in [Invocation -> Locals]
      /\ inv'[p] = n
      /\ \A q \in Invocation : q # p => inv'[q] = inv[q]
  BY BecomesLocals DEF IInv, TypeOK
<1>2. TypeOK'
  BY <1>1 DEF IInv, TypeOK
<1>3. \A q \in Invocation : Phased(inv'[q]) /\ Tallied(inv'[q])
  BY <1>1 DEF IInv
<1>4. /\ clock \in Nat /\ runs \subseteq Run
      /\ \A q \in Invocation : inv[q].ranAt \in Nat
  BY DEF IInv, TypeOK, Locals
<1>5. \A r \in runs : r.ranAt \in Nat /\ r.ranAt # n.ranAt
  BY <1>4 DEF IInv, Clocked, Run
<1>6. Clocked'
  <2>1. \A q \in Invocation : inv'[q].ranAt <= clock'
    BY <1>1, <1>4 DEF IInv, Clocked
  <2>2. \A r \in runs' : r.ranAt # 0 /\ r.ranAt <= clock'
    BY <1>4, <1>5 DEF IInv, Clocked
  <2>3. \A q \in Invocation : q # p => inv[q].ranAt # n.ranAt
    BY <1>4 DEF IInv, Clocked
  <2>4. \A q1, q2 \in Invocation :
          q1 # q2 /\ inv'[q1].ranAt # 0 => inv'[q1].ranAt # inv'[q2].ranAt
    BY <1>1, <2>3 DEF IInv, Clocked
  <2>5. QED
    BY <2>1, <2>2, <2>4 DEF Clocked
<1>7. Logged'
  <2>1. \A v \in {"pass", "fail"} : RowsBy(p, v)' = {}
    BY <1>1, <1>5 DEF RowsBy
  <2>2. \A q \in Invocation, v \in {"pass", "fail"} :
          q # p => RowsBy(q, v)' = RowsBy(q, v)
    BY <1>1 DEF RowsBy
  <2>3. QED
    BY <1>1, <2>1, <2>2 DEF IInv, Logged
<1>8. Stamped'
  <2> SUFFICES ASSUME NEW f \in Function,
                      scalars'[f].status = "implemented_verified"
               PROVE  \E q \in Invocation : Backs(q, f)' /\ inv'[q].pc \in Late
    BY DEF Stamped
  <2>1. PICK q \in Invocation : Backs(q, f) /\ inv[q].pc \in Late
    BY DEF IInv, Stamped
  <2>2. inv'[q] = inv[q]
    BY <1>1, <2>1
  <2>3. RowsOf(q, f)' = RowsOf(q, f)
    BY <2>2 DEF RowsOf
  <2>4. Backs(q, f)'
    BY <2>1, <2>2, <2>3, BacksStable
  <2>5. QED
    BY <2>1, <2>2, <2>4
<1>9. QED
  BY <1>2, <1>3, <1>6, <1>7, <1>8 DEF IInv

LEMMA RunLoadCasesInv ==
    ASSUME IInv, NEW p \in Invocation, RunLoadCases(p) PROVE IInv'
<1> DEFINE r == inv[p].req
           plan == RunPlan(r)
           n == [inv[p] EXCEPT
                  !.pc = IF plan = {} THEN "done" ELSE "loop",
                  !.plan = plan, !.todo = plan,
                  !.bad = FixtureBad(plan),
                  !.suite = Runnable(cases, r.fns),
                  !.ranAt = IF plan = {} THEN 0 ELSE clock + 1]
<1>. inv[p] \in Locals /\ Phased(inv[p]) /\ Tallied(inv[p]) /\ clock \in Nat
  BY InvType
<1>1. /\ plan \subseteq Case /\ FixtureBad(plan) \subseteq Case
      /\ Runnable(cases, r.fns) \subseteq Case
      /\ \A c \in plan : FnOf[c] \in r.fns
  BY PlanType
<1>2. Becomes(p, n) /\ clock' = IF plan = {} THEN clock ELSE clock + 1
  BY DEF RunLoadCases
<1> HIDE DEF plan
<1>3. /\ inv[p].pc = "cases" /\ r.cmd = "run" /\ n \in Locals
  <2>1. inv[p].pc = "cases" /\ r.cmd = "run"
    BY DEF RunLoadCases, Phased
  <2>2. (IF plan = {} THEN 0 ELSE clock + 1) \in Nat
    OBVIOUS
  <2>3. n \in Locals
    BY <1>1, <2>2 DEF Locals, Phase
  <2>4. QED
    BY <2>1, <2>3
<1>4. /\ n.pc = IF plan = {} THEN "done" ELSE "loop"
      /\ n.req = r /\ n.row = inv[p].row
      /\ n.plan = plan /\ n.todo = plan
      /\ n.pass = {} /\ n.fail = {} /\ n.skipped = {}
      /\ n.ranAt = IF plan = {} THEN 0 ELSE clock + 1
  BY <1>3 DEF Locals, Phased, Tallied
<1>5. inv[p].ranAt = 0 /\ inv[p].pass = {} /\ inv[p].fail = {}
  BY <1>3 DEF Phased, Tallied
<1> HIDE DEF n
<1>6. Phased(n) /\ Tallied(n)
  BY <1>1, <1>3, <1>4 DEF Phased, Tallied
<1>7. CASE plan = {}
  BY <1>2, <1>3, <1>4, <1>5, <1>6, <1>7, QuietStep, InvType
     DEF RunLoadCases, Late
<1>8. CASE plan # {}
  BY <1>2, <1>3, <1>4, <1>5, <1>6, <1>8, StampStep DEF RunLoadCases, Late
<1>9. QED
  BY <1>7, <1>8

LEMMA BatchStampInv ==
    ASSUME IInv, NEW p \in Invocation, BatchStamp(p) PROVE IInv'
<1> DEFINE row(found) == [f \in Function |->
                            IF f \in found THEN scalars[f] ELSE None]
           n(found) == [inv[p] EXCEPT !.pc = "loop", !.ranAt = clock + 1,
                                      !.row = row(found)]
<1>. inv[p] \in Locals /\ Phased(inv[p]) /\ Tallied(inv[p]) /\ clock \in Nat
  BY InvType
<1>1. PICK found : Becomes(p, n(found))
  BY DEF BatchStamp
<1>2. row(found) \in [Function -> ScalarRow \cup {None}]
  BY InvType
<1> HIDE DEF row
<1>3. inv[p].pc = "stamp" /\ n(found) \in Locals
  <2>1. clock + 1 \in Nat
    OBVIOUS
  <2>2. n(found) \in Locals
    BY <1>2, <2>1 DEF Locals, Phase
  <2>3. QED
    BY <2>2 DEF BatchStamp
<1>4. /\ n(found).pc = "loop" /\ n(found).req = inv[p].req
      /\ n(found).plan = inv[p].plan /\ n(found).todo = inv[p].todo
      /\ n(found).pass = inv[p].pass /\ n(found).fail = inv[p].fail
      /\ n(found).skipped = inv[p].skipped /\ n(found).bad = inv[p].bad
      /\ n(found).suite = inv[p].suite
      /\ n(found).ranAt = clock + 1
  BY <1>3 DEF Locals
<1>5. /\ inv[p].ranAt = 0 /\ inv[p].req.cmd = "batch"
      /\ inv[p].pass = {} /\ inv[p].fail = {} /\ inv[p].skipped = {}
  BY <1>3 DEF Phased, Tallied
<1>6. inv[p].req \in Request /\ "batch" # "run"
  BY <1>3 DEF Phased
<1> HIDE DEF n
<1>7. Phased(n(found)) /\ Tallied(n(found))
  BY <1>4, <1>5, <1>6 DEF Phased, Tallied
<1>8. QED
  BY <1>1, <1>3, <1>4, <1>5, <1>7, StampStep DEF BatchStamp, Late
-----------------------------------------------------------------------------
(* Executing a case.                                                       *)

LEMMA ProbeCaseInv ==
    ASSUME IInv, NEW p \in Invocation, ProbeCase(p) PROVE IInv'
<1> DEFINE x(c, v) ==
             [case |-> c, status |-> v, ranAt |-> inv[p].ranAt,
              bridge |-> inv[p].bridge, provider |-> inv[p].provider]
           n(c, v) ==
             [inv[p] EXCEPT
                !.todo = @ \ {c}, !.ran = @ \cup {c},
                !.pass = IF v = "pass" THEN @ \cup {c} ELSE @,
                !.fail = IF v = "fail" THEN @ \cup {c} ELSE @]
<1>. inv[p] \in Locals /\ Phased(inv[p]) /\ Tallied(inv[p])
  BY InvType
<1>1. PICK c \in inv[p].todo, v \in {"pass", "fail"} :
        /\ ~Skips(p, c)
        /\ runs' = runs \cup {x(c, v)}
        /\ Becomes(p, n(c, v))
  BY DEF ProbeCase
<1>2. /\ inv[p].pc = "loop" /\ ~inv[p].req.print /\ inv[p].ranAt # 0
      /\ inv[p].req \in Request /\ c \in Case
  BY DEF ProbeCase, Phased, Locals
<1>3. n(c, v) \in Locals
  BY <1>2 DEF Locals
<1>4. x(c, v) \in Run
  <2>1. [bridge |-> disk["bridge"], provider |-> disk[inv[p].req.provider]]
          \in [Artifact -> Nat]
    BY <1>2, InvType, RequestType DEF Artifact
  <2>2. /\ inv[p].ranAt \in Nat /\ inv[p].bridge \in Nat
        /\ inv[p].provider \in Nat
    BY DEF Locals
  <2>3. QED
    BY <1>2, <2>1, <2>2 DEF Run
<1>5. /\ n(c, v).pc = "loop" /\ n(c, v).req = inv[p].req
      /\ n(c, v).row = inv[p].row /\ n(c, v).plan = inv[p].plan
      /\ n(c, v).todo = inv[p].todo \ {c}
      /\ n(c, v).pass = inv[p].pass \cup (IF v = "pass" THEN {c} ELSE {})
      /\ n(c, v).fail = inv[p].fail \cup (IF v = "fail" THEN {c} ELSE {})
      /\ n(c, v).skipped = inv[p].skipped /\ n(c, v).ranAt = inv[p].ranAt
      /\ n(c, v).bad = inv[p].bad /\ n(c, v).suite = inv[p].suite
  BY <1>2 DEF Locals
<1>6. x(c, v).case = c /\ x(c, v).status = v /\ x(c, v).ranAt = inv[p].ranAt
  OBVIOUS
<1> HIDE DEF n, x
<1>7. /\ inv' \in [Invocation -> Locals]
      /\ inv'[p] = n(c, v)
      /\ \A q \in Invocation : q # p => inv'[q] = inv[q]
  BY <1>1, <1>3, BecomesLocals DEF IInv, TypeOK
<1>8. TypeOK'
  BY <1>1, <1>4, <1>7 DEF IInv, TypeOK, ProbeCase
<1>9. Phased(n(c, v))
  BY <1>2, <1>5 DEF Phased
<1>10. Tallied(n(c, v))
  BY <1>1, <1>2, <1>5 DEF Tallied, Skips
<1>11. \A q \in Invocation : Phased(inv'[q]) /\ Tallied(inv'[q])
  BY <1>7, <1>9, <1>10 DEF IInv
<1>12. \A q \in Invocation : inv'[q].ranAt = inv[q].ranAt
  BY <1>5, <1>7
<1>13. Clocked'
  BY <1>1, <1>2, <1>6, <1>12 DEF IInv, Clocked, ProbeCase
<1>14. \A q \in Invocation : q # p => inv[q].ranAt # x(c, v).ranAt
  BY <1>2, <1>6 DEF IInv, Clocked
<1>15. Logged'
  <2>1. \A q \in Invocation, w \in {"pass", "fail"} :
          q # p => RowsBy(q, w)' = RowsBy(q, w)
    BY <1>1, <1>12, <1>14 DEF RowsBy
  <2>2. \A w \in {"pass", "fail"} :
          RowsBy(p, w)' = RowsBy(p, w) \cup (IF w = v THEN {x(c, v)} ELSE {})
    BY <1>1, <1>6, <1>12 DEF RowsBy
  <2>3. \A q \in Invocation :
          q # p => /\ inv'[q].pass = {r.case : r \in RowsBy(q, "pass")'}
                   /\ inv'[q].fail = {r.case : r \in RowsBy(q, "fail")'}
    BY <1>7, <2>1 DEF IInv, Logged
  <2>4. /\ inv'[p].pass = {r.case : r \in RowsBy(p, "pass")'}
        /\ inv'[p].fail = {r.case : r \in RowsBy(p, "fail")'}
    BY <1>5, <1>6, <1>7, <2>2 DEF IInv, Logged
  <2>5. QED
    BY <2>3, <2>4 DEF Logged
<1>16. Stamped'
  <2> SUFFICES ASSUME NEW f \in Function,
                      scalars'[f].status = "implemented_verified"
               PROVE  \E q \in Invocation : Backs(q, f)' /\ inv'[q].pc \in Late
    BY DEF Stamped
  <2>1. scalars' = scalars
    BY DEF ProbeCase
  <2>2. PICK q \in Invocation : Backs(q, f) /\ inv[q].pc \in Late
    BY <2>1 DEF IInv, Stamped
  <2>3. q # p /\ inv'[q] = inv[q]
    BY <1>2, <1>7, <2>2 DEF Late
  <2>4. RowsOf(q, f)' = RowsOf(q, f)
    BY <1>1, <1>14, <2>3 DEF RowsOf
  <2>5. Backs(q, f)'
    BY <2>1, <2>2, <2>3, <2>4, BacksStable
  <2>6. QED
    BY <2>2, <2>3, <2>5
<1>17. QED
  BY <1>8, <1>11, <1>13, <1>15, <1>16 DEF IInv
-----------------------------------------------------------------------------
(* Promotion.                                                              *)

\* A function an invocation judges on some tally has been executed in full,
\* and its rows agree with the tally.
LEMMA JudgedIsComplete ==
    ASSUME IInv, NEW p \in Invocation, inv[p].pc = "promote",
           NEW f \in inv[p].fns, Judges(p, f),
           OfFn(inv[p].pass \cup inv[p].fail, f) # {}
    PROVE  /\ Complete(p, f)
           /\ AllPassed(p, f) <=> OfFn(inv[p].fail, f) = {}
<1>. inv[p] \in Locals /\ Phased(inv[p]) /\ Tallied(inv[p])
  BY InvType
<1>1. inv[p].req \in Request /\ inv[p].req # None /\ inv[p].req.only = None
  BY RequestType DEF Phased, Judges
<1>2. ~inv[p].req.print
  BY DEF Tallied, OfFn
<1>3. \A r \in runs : r.status \in {"pass", "fail"}
  BY DEF IInv, TypeOK, Run
<1>4. {r.case : r \in RowsOf(p, f)} = OfFn(inv[p].pass \cup inv[p].fail, f)
  BY <1>3 DEF IInv, Logged, RowsOf, RowsBy, OfFn
<1>5. inv[p].row[f] # None
  <2>1. CASE inv[p].req.cmd = "run"
    BY <2>1 DEF Phased, Tallied
  <2>2. CASE inv[p].req.cmd = "batch"
    BY <2>2 DEF Judges
  <2>3. QED
    BY <1>1, <2>1, <2>2, RequestType
<1>6. Owed(p, f) = OfFn(inv[p].pass \cup inv[p].fail, f)
  <2>1. CASE inv[p].req.cmd = "run"
    <3>1. inv[p].plan = inv[p].pass \cup inv[p].fail
      BY <1>2, <2>1 DEF Tallied
    <3>2. QED
      BY <2>1, <3>1 DEF Owed
  <2>2. CASE inv[p].req.cmd = "batch"
    <3>1. /\ inv[p].skipped \subseteq inv[p].bad
          /\ (inv[p].pass \cup inv[p].fail) \cap inv[p].bad = {}
          /\ inv[p].pass \cup inv[p].fail \subseteq inv[p].plan
      BY <2>2 DEF Tallied
    <3>2. OfFn(inv[p].plan \ inv[p].skipped, f)
            \subseteq inv[p].pass \cup inv[p].fail
      BY <2>2 DEF Judges, Denominator
    <3>3. QED
      BY <2>2, <3>1, <3>2 DEF Owed, OfFn
  <2>3. QED
    BY <1>1, <2>1, <2>2, RequestType
<1>7. Complete(p, f)
  BY <1>1, <1>2, <1>4, <1>5, <1>6 DEF Complete
<1>8. AllPassed(p, f) <=> OfFn(inv[p].fail, f) = {}
  <2>1. (\E r \in RowsOf(p, f) : r.status # "pass")
          <=> \E c \in inv[p].fail : FnOf[c] = f
    BY <1>3 DEF IInv, Logged, RowsBy, RowsOf
  <2>2. QED
    BY <2>1 DEF AllPassed, OfFn
<1>9. QED
  BY <1>7, <1>8

LEMMA VerdictIsComplete ==
    ASSUME IInv, NEW p \in Invocation, inv[p].pc = "promote",
           NEW f \in inv[p].fns
    PROVE  /\ Verifies(p, f) => Complete(p, f) /\ AllPassed(p, f)
           /\ Demotes(p, f) => Complete(p, f) /\ ~AllPassed(p, f)
<1>1. Verifies(p, f) \/ Demotes(p, f)
        => Judges(p, f) /\ OfFn(inv[p].pass \cup inv[p].fail, f) # {}
  BY DEF Verifies, Demotes, OfFn
<1>2. QED
  BY <1>1, JudgedIsComplete DEF Verifies, Demotes

LEMMA VerdictRowType ==
    ASSUME NEW row \in ScalarRow, NEW seen \in ScalarRow, NEW t \in Nat
    PROVE  /\ MarkFailed(row) \in ScalarRow
           /\ MarkVerified(row, OrBlank(seen.sig), OrBlank(seen.impl), t)
                 \in ScalarRow
BY DEF ScalarRow, MarkFailed, MarkVerified, Status, OrBlank

\* What a verdict writes.
LEMMA VerdictFields ==
    ASSUME NEW row \in ScalarRow, NEW s, NEW i, NEW t
    PROVE  /\ MarkFailed(row).status = "implemented_unverified"
           /\ MarkVerified(row, s, i, t).status = "implemented_verified"
           /\ MarkVerified(row, s, i, t).lvSig = s
           /\ MarkVerified(row, s, i, t).lvImpl = i
           /\ MarkVerified(row, s, i, t).lvAt = t
BY DEF ScalarRow, MarkFailed, MarkVerified

LEMMA PromoteInv ==
    ASSUME IInv, NEW p \in Invocation, Promote(p) PROVE IInv'
<1> DEFINE n(f) == [inv[p] EXCEPT !.fns = @ \ {f}]
           row(f) == inv[p].row[f]
           stamped(f) == MarkVerified(scalars[f], OrBlank(row(f).sig),
                                      OrBlank(row(f).impl), inv[p].ranAt)
<1>. inv[p] \in Locals /\ Phased(inv[p]) /\ Tallied(inv[p])
  BY InvType
<1>1. PICK f \in inv[p].fns :
        /\ scalars' = [scalars EXCEPT ![f] =
                          IF Verifies(p, f) THEN stamped(f)
                          ELSE IF Demotes(p, f) THEN MarkFailed(@) ELSE @]
        /\ Becomes(p, n(f))
  BY DEF Promote
<1>2. inv[p].pc = "promote" /\ n(f) \in Locals /\ f \in Function
  BY DEF Promote, Locals
<1>3. /\ n(f).pc = "promote" /\ n(f).req = inv[p].req
      /\ n(f).row = inv[p].row /\ n(f).plan = inv[p].plan
      /\ n(f).todo = inv[p].todo
      /\ n(f).pass = inv[p].pass /\ n(f).fail = inv[p].fail
      /\ n(f).skipped = inv[p].skipped /\ n(f).ranAt = inv[p].ranAt
      /\ n(f).bad = inv[p].bad
      /\ n(f).suite = inv[p].suite /\ n(f).fns = inv[p].fns \ {f}
  BY <1>2 DEF Locals
<1> HIDE DEF n
<1>4. /\ inv' \in [Invocation -> Locals]
      /\ inv'[p] = n(f)
      /\ \A q \in Invocation : q # p => inv'[q] = inv[q]
  BY <1>1, <1>2, BecomesLocals DEF IInv, TypeOK
<1>5. scalars[f] \in ScalarRow /\ inv[p].ranAt \in Nat
  BY <1>2, InvType DEF Locals
<1>6. Verifies(p, f) => row(f) \in ScalarRow
  BY <1>2, VerdictIsComplete DEF Complete, Locals
<1>7. /\ scalars'[f] = IF Verifies(p, f) THEN stamped(f)
                       ELSE IF Demotes(p, f) THEN MarkFailed(scalars[f])
                       ELSE scalars[f]
      /\ \A g \in Function : g # f => scalars'[g] = scalars[g]
      /\ scalars' \in [Function -> ScalarRow]
  BY <1>1, <1>2, <1>5, <1>6, VerdictRowType DEF IInv, TypeOK
<1>8. TypeOK'
  BY <1>4, <1>7 DEF IInv, TypeOK, Promote
<1>9. \A q \in Invocation : Phased(inv'[q]) /\ Tallied(inv'[q])
  <2>1. Phased(n(f)) /\ Tallied(n(f))
    BY <1>2, <1>3 DEF Phased, Tallied
  <2>2. QED
    BY <1>4, <2>1 DEF IInv
<1>10. runs' = runs /\ clock' = clock
  BY DEF Promote
<1>11. \A q \in Invocation :
         /\ inv'[q].ranAt = inv[q].ranAt
         /\ inv'[q].pass = inv[q].pass /\ inv'[q].fail = inv[q].fail
         /\ inv'[q].req = inv[q].req /\ inv'[q].row = inv[q].row
         /\ inv'[q].plan = inv[q].plan /\ inv'[q].bad = inv[q].bad
         /\ inv'[q].pc = inv[q].pc
  BY <1>2, <1>3, <1>4
<1>12. Clocked'
  BY <1>10, <1>11 DEF IInv, Clocked
<1>13. Logged'
  <2>1. \A q \in Invocation, v \in {"pass", "fail"} :
          RowsBy(q, v)' = RowsBy(q, v)
    BY <1>10, <1>11 DEF RowsBy
  <2>2. QED
    BY <1>11, <2>1 DEF IInv, Logged
<1>14. \A q \in Invocation, g \in Function : RowsOf(q, g)' = RowsOf(q, g)
  BY <1>10, <1>11 DEF RowsOf
<1>15. ASSUME NEW g \in Function, scalars'[g] = scalars[g],
              scalars[g].status = "implemented_verified"
       PROVE  \E q \in Invocation : Backs(q, g)' /\ inv'[q].pc \in Late
  <2>1. PICK q \in Invocation : Backs(q, g) /\ inv[q].pc \in Late
    BY <1>15 DEF IInv, Stamped
  <2>2. Backs(q, g)'
    BY <1>11, <1>14, <1>15, <2>1, BacksStable
  <2>3. QED
    BY <1>11, <2>1, <2>2
<1>16. Stamped'
  <2> SUFFICES ASSUME NEW g \in Function,
                      scalars'[g].status = "implemented_verified"
               PROVE  \E q \in Invocation : Backs(q, g)' /\ inv'[q].pc \in Late
    BY DEF Stamped
  <2>1. CASE g # f
    BY <1>7, <1>15, <2>1
  <2>2. CASE g = f /\ Verifies(p, f)
    <3>1. scalars'[f] = stamped(f)
      BY <1>7, <2>2
    <3>2. /\ scalars'[f].lvAt = inv[p].ranAt
          /\ scalars'[f].lvSig = OrBlank(row(f).sig)
          /\ scalars'[f].lvImpl = OrBlank(row(f).impl)
      BY <1>5, <3>1, VerdictFields
    <3>3. Complete(p, f) /\ AllPassed(p, f)
      BY <1>2, <2>2, VerdictIsComplete
    <3>4. Complete(p, f)' /\ AllPassed(p, f)'
      BY <1>2, <1>11, <1>14, <3>3 DEF Complete, AllPassed, Owed
    <3>5. Backs(p, f)'
      BY <1>11, <3>2, <3>4 DEF Backs
    <3>6. QED
      BY <1>2, <1>11, <2>2, <3>5 DEF Late
  <2>3. CASE g = f /\ ~Verifies(p, f) /\ Demotes(p, f)
    BY <1>5, <1>7, <2>3, VerdictFields
  <2>4. CASE g = f /\ ~Verifies(p, f) /\ ~Demotes(p, f)
    BY <1>7, <1>15, <2>4
  <2>5. QED
    BY <2>1, <2>2, <2>3, <2>4
<1>17. QED
  BY <1>8, <1>9, <1>12, <1>13, <1>16 DEF IInv

-----------------------------------------------------------------------------
(* Every step preserves the invariant; the theorems.                       *)

\* A change that leaves the invocations, the rows and every verdict alone.
LEMMA OutsideStep ==
    ASSUME IInv, TypeOK', UNCHANGED <<runs, clock, inv>>,
           \A f \in Function :
              /\ scalars'[f].status = scalars[f].status
              /\ scalars'[f].lvAt = scalars[f].lvAt
              /\ scalars'[f].lvSig = scalars[f].lvSig
              /\ scalars'[f].lvImpl = scalars[f].lvImpl
    PROVE  IInv'
<1>1. \A p \in Invocation : Phased(inv'[p]) /\ Tallied(inv'[p])
  BY DEF IInv
<1>2. Clocked'
  BY DEF IInv, Clocked
<1>3. Logged'
  BY DEF IInv, Logged, RowsBy
<1>4. \A p \in Invocation, f \in Function : RowsOf(p, f)' = RowsOf(p, f)
  BY DEF RowsOf
<1>5. ASSUME NEW f \in Function, scalars'[f].status = "implemented_verified"
      PROVE  \E p \in Invocation : Backs(p, f)' /\ inv'[p].pc \in Late
  <2>1. PICK p \in Invocation : Backs(p, f) /\ inv[p].pc \in Late
    BY <1>5 DEF IInv, Stamped
  <2>2. Backs(p, f)'
    BY <1>4, <2>1, BacksStable
  <2>3. QED
    BY <2>1, <2>2
<1>6. QED
  BY <1>1, <1>2, <1>3, <1>5 DEF IInv, Stamped

LEMMA ExtractInv == ASSUME IInv, Extract PROVE IInv'
<1>1. PICK f \in Function, s \in Hash, i \in Hash :
        scalars' = [scalars EXCEPT ![f].sig = s, ![f].impl = i]
  BY DEF Extract
<1>2. \A g \in Function : scalars[g] \in ScalarRow
  BY InvType DEF IInv, TypeOK
<1>3. /\ scalars'[f] = [scalars[f] EXCEPT !.sig = s, !.impl = i]
      /\ \A g \in Function : g # f => scalars'[g] = scalars[g]
      /\ DOMAIN scalars' = Function
      /\ scalars' = [g \in Function |-> scalars'[g]]
  BY <1>1 DEF IInv, TypeOK
<1>4. /\ scalars'[f] \in ScalarRow
      /\ scalars'[f].status = scalars[f].status
      /\ scalars'[f].lvAt = scalars[f].lvAt
      /\ scalars'[f].lvSig = scalars[f].lvSig
      /\ scalars'[f].lvImpl = scalars[f].lvImpl
  BY <1>2, <1>3 DEF ScalarRow
<1>5. scalars' \in [Function -> ScalarRow]
  BY <1>2, <1>3, <1>4
<1>6. env' \in Nat
  BY DEF Extract, Outside, IInv, TypeOK
<1>7. TypeOK'
  BY <1>5, <1>6 DEF Extract, IInv, TypeOK
<1>8. QED
  BY <1>3, <1>4, <1>7, OutsideStep DEF Extract

LEMMA RebuildInv == ASSUME IInv, Rebuild PROVE IInv'
<1>1. disk' \in [Artifact -> Nat] /\ env' \in Nat
  BY DEF Rebuild, Outside, IInv, TypeOK
<1>2. TypeOK'
  BY <1>1 DEF Rebuild, IInv, TypeOK
<1>3. QED
  BY <1>2, OutsideStep DEF Rebuild

LEMMA SeedInv == ASSUME IInv, Seed PROVE IInv'
<1>1. cases' \in CaseTable /\ env' \in Nat
  BY DEF Seed, Outside, IInv, TypeOK, CaseTable
<1>2. TypeOK'
  BY <1>1 DEF Seed, IInv, TypeOK
<1>3. QED
  BY <1>2, OutsideStep DEF Seed

LEMMA NextInv == ASSUME IInv, [Next]_vars PROVE IInv'
<1>1. ASSUME NEW p \in Invocation, Step(p) \/ Abort(p) PROVE IInv'
  <2>1. CASE RunCached(p) \/ RunLoad(p) \/ BatchSelect(p)
    BY <2>1, RunCachedInv, RunLoadInv, BatchSelectInv
  <2>2. CASE HashBridge(p) \/ BatchHashProvider(p) \/ Ensure(p)
    BY <2>2, HashBridgeInv, BatchHashProviderInv, EnsureInv
  <2>3. CASE RunLoadCases(p) \/ BatchStamp(p)
    BY <2>3, RunLoadCasesInv, BatchStampInv
  <2>4. CASE SkipCase(p) \/ PrintCase(p) \/ ProbeCase(p) \/ EndLoop(p)
    BY <2>4, SkipCaseInv, PrintCaseInv, ProbeCaseInv, EndLoopInv
  <2>5. CASE Promote(p)
    BY <2>5, PromoteInv
  <2>6. CASE Finish(p) \/ Abort(p)
    BY <2>6, FinishOrAbortInv
  <2>7. QED
    BY <1>1, <2>1, <2>2, <2>3, <2>4, <2>5, <2>6 DEF Step
<1>2. CASE Extract
  BY <1>2, ExtractInv
<1>3. CASE Rebuild
  BY <1>3, RebuildInv
<1>4. CASE Seed
  BY <1>4, SeedInv
<1>5. CASE UNCHANGED vars
  <2>1. TypeOK'
    BY <1>5 DEF vars, IInv, TypeOK, CaseTable
  <2>2. QED
    BY <1>5, <2>1, OutsideStep DEF vars
<1>6. QED
  BY <1>1, <1>2, <1>3, <1>4, <1>5 DEF Next

LEMMA SpecInv == Spec => []IInv
BY InitInv, NextInv, PTL DEF Spec

\* The rows, the tables and the locals of every invocation keep their types.
THEOREM TypeCorrect == Spec => []TypeOK
<1>1. IInv => TypeOK
  BY DEF IInv
<1>2. QED
  BY <1>1, SpecInv, PTL

\* A verified function is backed by one complete, all-pass invocation
\* (runner.rs:265-281, 629-652).
THEOREM VerdictsAreBacked == Spec => []VerifiedIsBacked
<1>1. IInv => VerifiedIsBacked
  BY DEF IInv, Stamped, VerifiedIsBacked
<1>2. QED
  BY <1>1, SpecInv, PTL

\* Only RunCached brings an invocation to "cached".
LEMMA AnswerIsRunCached ==
    ASSUME IInv, Next, NEW p \in Invocation,
           inv[p].pc # "cached", inv'[p].pc = "cached"
    PROVE  RunCached(p)
<1>. inv \in [Invocation -> Locals]
  BY InvType
<1>1. ~Extract /\ ~Rebuild /\ ~Seed
  BY DEF Extract, Rebuild, Seed
<1>2. PICK q \in Invocation : Step(q) \/ Abort(q)
  BY <1>1 DEF Next
<1>3. q = p
  <2>1. PICK n : Becomes(q, n)
    BY <1>2 DEF Step, Abort, RunCached, RunLoad, BatchSelect, HashBridge,
       BatchHashProvider, Ensure, RunLoadCases, BatchStamp, SkipCase,
       PrintCase, ProbeCase, EndLoop, Promote, Finish
  <2>2. QED
    BY <2>1 DEF Becomes
<1>4. ~Abort(p)
  BY DEF Abort, Becomes, Locals
<1>5. ~RunLoad(p) /\ ~BatchSelect(p)
  <2>1. inv[p] \in Locals
    OBVIOUS
  <2>3. ASSUME RunLoad(p) PROVE FALSE
    <3> DEFINE n(r, f) == [inv[p] EXCEPT !.pc = "bridge", !.req = r,
                                         !.row[f] = scalars[f]]
    <3>1. PICK r \in Request : \E f \in r.fns : Becomes(p, n(r, f))
      BY <2>3 DEF RunLoad
    <3>2. PICK f \in r.fns : Becomes(p, n(r, f))
      BY <3>1
    <3>3. n(r, f).pc = "bridge"
      BY <2>1 DEF Locals
    <3> HIDE DEF n
    <3>4. QED
      BY <3>2, <3>3 DEF Becomes
  <2>4. ASSUME BatchSelect(p) PROVE FALSE
    <3> DEFINE n(r, plan, bad, suite) ==
                 [inv[p] EXCEPT !.pc = IF plan = {} THEN "done" ELSE "bridge",
                                !.req = r, !.plan = plan, !.todo = plan,
                                !.bad = bad, !.suite = suite]
    <3>1. PICK r, plan, bad, suite : Becomes(p, n(r, plan, bad, suite))
      BY <2>4 DEF BatchSelect
    <3>2. n(r, plan, bad, suite).pc \in {"done", "bridge"}
      BY <2>1 DEF Locals
    <3> HIDE DEF n
    <3>3. QED
      BY <3>1, <3>2 DEF Becomes
  <2>5. QED
    BY <2>3, <2>4
<1>6. ~HashBridge(p) /\ ~BatchHashProvider(p) /\ ~Ensure(p)
  BY DEF HashBridge, BatchHashProvider, Ensure, Becomes, Locals
<1>7. ~RunLoadCases(p) /\ ~BatchStamp(p)
  BY DEF RunLoadCases, BatchStamp, Becomes, Locals
<1>8. ~SkipCase(p) /\ ~PrintCase(p) /\ ~ProbeCase(p)
  <2>1. inv[p] \in Locals
    OBVIOUS
  <2>2. ~SkipCase(p)
    BY <2>1 DEF SkipCase, Becomes, Locals
  <2>3. ~PrintCase(p)
    BY <2>1 DEF PrintCase, Becomes, Locals
  <2>4. ASSUME ProbeCase(p) PROVE FALSE
    <3> DEFINE n(c, v) ==
                 [inv[p] EXCEPT
                    !.todo = @ \ {c}, !.ran = @ \cup {c},
                    !.pass = IF v = "pass" THEN @ \cup {c} ELSE @,
                    !.fail = IF v = "fail" THEN @ \cup {c} ELSE @]
    <3>1. PICK c, v : Becomes(p, n(c, v))
      BY <2>4 DEF ProbeCase
    <3>2. n(c, v).pc = inv[p].pc
      BY <2>1 DEF Locals
    <3> HIDE DEF n
    <3>3. QED
      BY <3>1, <3>2 DEF Becomes
  <2>5. QED
    BY <2>2, <2>3, <2>4
<1>9. ~EndLoop(p) /\ ~Promote(p) /\ ~Finish(p)
  <2>1. inv[p] \in Locals
    OBVIOUS
  <2>2. ~EndLoop(p)
    BY <2>1 DEF EndLoop, Becomes, Locals
  <2>3. ~Promote(p)
    BY <2>1 DEF Promote, Becomes, Locals
  <2>4. ~Finish(p)
    BY <2>1 DEF Finish, Becomes, Locals
  <2>5. QED
    BY <2>2, <2>3, <2>4
<1>10. QED
  BY <1>2, <1>3, <1>4, <1>5, <1>6, <1>7, <1>8, <1>9 DEF Step

\* What RunCached leaves in the invocation.
LEMMA CachedLocals ==
    ASSUME IInv, NEW p \in Invocation, RunCached(p)
    PROVE  \E r \in Request : \E f \in r.fns :
              IsCacheHit(scalars[f]) /\ inv'[p].req = r
BY InvType DEF RunCached, Becomes, Locals

\* p gives f a verdict in this step.
VerdictStep(p, f) ==
    /\ inv[p].pc = "promote" /\ f \in inv[p].fns
    /\ Verifies(p, f) \/ Demotes(p, f)
    /\ scalars'[f] = IF Verifies(p, f)
          THEN MarkVerified(scalars[f], OrBlank(inv[p].row[f].sig),
                            OrBlank(inv[p].row[f].impl), inv[p].ranAt)
          ELSE MarkFailed(scalars[f])

\* Only Promote changes a verdict.
LEMMA VerdictIsPromote ==
    ASSUME IInv, Next, NEW f \in Function,
           <<scalars[f].status, scalars[f].lvSig, scalars[f].lvImpl, scalars[f].lvAt>> #
           <<scalars'[f].status, scalars'[f].lvSig, scalars'[f].lvImpl, scalars'[f].lvAt>>
    PROVE  \E p \in Invocation : VerdictStep(p, f)
<1>. scalars \in [Function -> ScalarRow]
  BY DEF IInv, TypeOK
<1>1. scalars' # scalars /\ ~Rebuild /\ ~Seed
  BY DEF Rebuild, Seed
<1>2. ~Extract
  <2> SUFFICES ASSUME Extract PROVE FALSE
    OBVIOUS
  <2>1. PICK g \in Function, s \in Hash, i \in Hash :
          scalars' = [scalars EXCEPT ![g].sig = s, ![g].impl = i]
    BY DEF Extract
  <2>2. scalars[f] \in ScalarRow
    OBVIOUS
  <2>3. scalars'[f] = IF f = g THEN [scalars[f] EXCEPT !.sig = s, !.impl = i]
                               ELSE scalars[f]
    BY <2>1
  <2>4. QED
    BY <2>2, <2>3 DEF ScalarRow
<1>3. PICK p \in Invocation : Step(p) \/ Abort(p)
  BY <1>1, <1>2 DEF Next
<1>4. Promote(p)
  BY <1>1, <1>3 DEF Step, Abort, RunCached, RunLoad, BatchSelect, HashBridge,
     BatchHashProvider, Ensure, RunLoadCases, BatchStamp, SkipCase,
     PrintCase, ProbeCase, EndLoop, Finish
<1>5. PICK g \in inv[p].fns :
        scalars' = [scalars EXCEPT ![g] =
            IF Verifies(p, g)
               THEN MarkVerified(scalars[g], OrBlank(inv[p].row[g].sig),
                                 OrBlank(inv[p].row[g].impl), inv[p].ranAt)
               ELSE IF Demotes(p, g) THEN MarkFailed(@) ELSE @]
  BY <1>4 DEF Promote
<1>6. f = g /\ (Verifies(p, g) \/ Demotes(p, g))
  BY <1>5
<1>7. inv[p].pc = "promote"
  BY <1>4 DEF Promote
<1>8. QED
  BY <1>3, <1>5, <1>6, <1>7 DEF VerdictStep

\* The idempotency guard's answer is sound (runner.rs:105-132, status.rs).
THEOREM CacheIsSound == Spec => CachedAnswerSound
<1> DEFINE Answer ==
      \A p \in Invocation :
         inv[p].pc # "cached" /\ inv'[p].pc = "cached" =>
            \E f \in inv'[p].req.fns, q \in Invocation :
                /\ Backs(q, f)
                /\ inv[q].row[f].sig = scalars[f].sig
                /\ inv[q].row[f].impl = scalars[f].impl
<1>1. IInv /\ [Next]_vars => [Answer]_vars
  <2> SUFFICES ASSUME IInv, Next, NEW p \in Invocation,
                      inv[p].pc # "cached", inv'[p].pc = "cached"
               PROVE  \E f \in inv'[p].req.fns, q \in Invocation :
                         /\ Backs(q, f)
                         /\ inv[q].row[f].sig = scalars[f].sig
                         /\ inv[q].row[f].impl = scalars[f].impl
    OBVIOUS
  <2>1. RunCached(p)
    BY AnswerIsRunCached
  <2>0. PICK r \in Request : \E f \in r.fns :
          IsCacheHit(scalars[f]) /\ inv'[p].req = r
    BY <2>1, CachedLocals
  <2>2. PICK f \in r.fns : IsCacheHit(scalars[f]) /\ inv'[p].req = r
    BY <2>0
  <2>3. f \in Function /\ scalars[f] \in ScalarRow
    BY <2>2, RequestType, InvType
  <2>4. PICK q \in Invocation : Backs(q, f)
    BY <2>2, <2>3 DEF IInv, Stamped, IsCacheHit
  <2>5. /\ scalars[f].sig \in Hash /\ scalars[f].impl \in Hash
        /\ OrBlank(inv[q].row[f].sig) = scalars[f].sig
        /\ OrBlank(inv[q].row[f].impl) = scalars[f].impl
    BY <2>2, <2>3, <2>4 DEF IsCacheHit, ScalarRow, Backs
  <2>6. /\ inv[q].row[f].sig = scalars[f].sig
        /\ inv[q].row[f].impl = scalars[f].impl
    BY <2>5, CatalogueAssumption DEF OrBlank
  <2>7. QED
    BY <2>2, <2>4, <2>6
<1>2. QED
  BY <1>1, SpecInv, PTL DEF Spec, CachedAnswerSound

\* Only an invocation that executed all it owed moves a verdict, and it moves
\* it the way its rows point (runner.rs:265-302, 597-663).
THEOREM VerdictNeedsEvidence == Spec => VerdictNeedsWholePlan
<1> DEFINE Verdict(row) == <<row.status, row.lvSig, row.lvImpl, row.lvAt>>
           Moved ==
      \A f \in Function :
         Verdict(scalars[f]) # Verdict(scalars'[f]) =>
            \E p \in Invocation :
                /\ inv[p].pc = "promote" /\ Complete(p, f)
                /\ AllPassed(p, f) <=>
                     scalars'[f].status = "implemented_verified"
<1>1. IInv /\ [Next]_vars => [Moved]_vars
  <2> SUFFICES ASSUME IInv, Next, NEW f \in Function,
                      Verdict(scalars[f]) # Verdict(scalars'[f])
               PROVE  \E p \in Invocation :
                        /\ inv[p].pc = "promote" /\ Complete(p, f)
                        /\ AllPassed(p, f) <=>
                             scalars'[f].status = "implemented_verified"
    OBVIOUS
  <2>0. PICK p \in Invocation : VerdictStep(p, f)
    BY VerdictIsPromote
  <2>1. /\ inv[p].pc = "promote" /\ f \in inv[p].fns
        /\ Verifies(p, f) \/ Demotes(p, f)
        /\ scalars'[f] = IF Verifies(p, f)
              THEN MarkVerified(scalars[f], OrBlank(inv[p].row[f].sig),
                                OrBlank(inv[p].row[f].impl), inv[p].ranAt)
              ELSE MarkFailed(scalars[f])
    BY <2>0 DEF VerdictStep
  <2>2. scalars[f] \in ScalarRow
    BY InvType
  <2>3. CASE Verifies(p, f)
    BY <2>1, <2>2, <2>3, VerdictIsComplete, VerdictFields
  <2>4. CASE ~Verifies(p, f)
    <3>1. Complete(p, f) /\ ~AllPassed(p, f)
      BY <2>1, <2>4, VerdictIsComplete
    <3>2. scalars'[f].status = "implemented_unverified"
      BY <2>1, <2>2, <2>4, VerdictFields
    <3>3. QED
      BY <2>1, <3>1, <3>2
  <2>5. QED
    BY <2>3, <2>4
<1>2. QED
  BY <1>1, SpecInv, PTL DEF Spec, VerdictNeedsWholePlan

\* A batch records nothing for a case that was tagged when it was selected
\* (runner.rs:485-498).
THEOREM TaggedCasesHaveNoRow == Spec => []BatchSkipsTagged
<1>1. IInv => BatchSkipsTagged
  <2> SUFFICES ASSUME IInv, NEW p \in Invocation, NEW r \in runs,
                      r.ranAt = inv[p].ranAt, inv[p].req.cmd = "batch"
               PROVE  r.case \in inv[p].suite
    BY DEF BatchSkipsTagged
  <2>. inv[p] \in Locals /\ Phased(inv[p]) /\ Tallied(inv[p])
    BY InvType
  <2>1. inv[p].ranAt # 0 /\ inv[p].pc # "idle"
    BY DEF IInv, Clocked, Phased
  <2>2. r.case \in inv[p].pass \cup inv[p].fail
    BY DEF IInv, TypeOK, Run, Logged, RowsBy
  <2>3. r.case \in inv[p].plan \ inv[p].bad
    BY <2>1, <2>2 DEF Tallied
  <2>4. QED
    BY <2>1, <2>3 DEF Phased
<1>2. QED
  BY <1>1, SpecInv, PTL

-----------------------------------------------------------------------------
(***************************************************************************)
(* LatestVerdictStands, for every number of invocations that do not        *)
(* overlap: the verdict of a function is that of the last invocation that  *)
(* executed all it owed.                                                   *)
(*                                                                         *)
(* That an invocation with a row for every case it owes is also one that   *)
(* judges is not plain: a batch judges against the cases it has not        *)
(* skipped, and a cap may leave the loop before a fixture_bad case is      *)
(* reached.  It rests on the order of the cases: the cap is looked at      *)
(* before a case that is to run, and the cases of a function stand         *)
(* together (OrderAssumption), so such a case belongs to a function that   *)
(* is not complete.                                                        *)
(***************************************************************************)

Active(p) == inv[p].pc # "idle" /\ ~Ended(p)

\* Without overlap at most one invocation is under way, ...
Alone ==
    \A p, q \in Invocation : Active(p) /\ Active(q) => p = q

\* ... and its time stamp is the newest.
Newest ==
    \A p, q \in Invocation :
        Active(p) /\ inv[p].ranAt # 0 /\ q # p => inv[q].ranAt < inv[p].ranAt

Tally(l) == l.pass \cup l.fail \cup l.skipped

\* The loop goes through the plan in order, and is left at a case that was
\* to run.
Swept(l) ==
    l.pc \in {"bridge", "provider", "stamp", "loop", "promote"} /\ ~l.req.print =>
        /\ l.plan = l.todo \cup Tally(l)
        /\ \A c \in Tally(l), d \in l.todo : c < d
        /\ l.pc = "promote" /\ l.todo # {} =>
              \E c \in l.todo : c \notin l.bad /\ \A d \in l.todo : c <= d

\* p has given f the verdict it owes it, if any.
SettledBy(p, f) ==
    inv[p].pc = "done" \/ (inv[p].pc = "promote" /\ f \notin inv[p].fns)

\* No invocation after p is complete for f.
LastFor(p, f) ==
    \A q \in Invocation : inv[q].ranAt > inv[p].ranAt => ~Complete(q, f)

Agrees(p, f) ==
    scalars[f].status = "implemented_verified" <=> AllPassed(p, f)

Standing ==
    \A p \in Invocation, f \in Function :
        SettledBy(p, f) /\ Complete(p, f) /\ LastFor(p, f) => Agrees(p, f)

LInv ==
    /\ IInv
    /\ Alone /\ Newest
    /\ \A p \in Invocation : Swept(inv[p])
    /\ Standing

-----------------------------------------------------------------------------
(* Completeness.                                                           *)

\* Completeness and its verdict stay while what they rest on stays.
LEMMA CompleteStable ==
    ASSUME NEW p, NEW f,
           inv'[p].req = inv[p].req, inv'[p].row = inv[p].row,
           inv'[p].plan = inv[p].plan, inv'[p].bad = inv[p].bad,
           RowsOf(p, f)' = RowsOf(p, f)
    PROVE  /\ Complete(p, f)' <=> Complete(p, f)
           /\ AllPassed(p, f)' <=> AllPassed(p, f)
BY DEF Complete, AllPassed, Owed

\* A complete invocation judges: see the head of the module.
LEMMA CompleteIsJudged ==
    ASSUME LInv, NEW p \in Invocation, inv[p].pc = "promote",
           NEW f \in Function, Complete(p, f)
    PROVE  Judges(p, f) /\ OfFn(inv[p].pass \cup inv[p].fail, f) # {}
<1>. IInv /\ Swept(inv[p])
  BY DEF LInv
<1>. inv[p] \in Locals /\ Phased(inv[p]) /\ Tallied(inv[p])
  BY InvType
<1>1. /\ inv[p].req \in Request /\ inv[p].req.only = None
      /\ ~inv[p].req.print /\ inv[p].row[f] # None
  BY DEF Phased, Complete
<1>2. {r.case : r \in RowsOf(p, f)} = OfFn(inv[p].pass \cup inv[p].fail, f)
  <2>1. \A r \in runs : r.status \in {"pass", "fail"}
    BY DEF IInv, TypeOK, Run
  <2>2. QED
    BY <2>1 DEF IInv, Logged, RowsOf, RowsBy, OfFn
<1>3. /\ Owed(p, f) = OfFn(inv[p].pass \cup inv[p].fail, f)
      /\ Owed(p, f) # {}
  BY <1>2 DEF Complete
<1>4. CASE inv[p].req.cmd = "run"
  BY <1>1, <1>3, <1>4 DEF Judges
<1>5. CASE inv[p].req.cmd = "batch"
  <2>1. /\ inv[p].plan = inv[p].todo \cup Tally(inv[p])
        /\ \A c \in Tally(inv[p]), d \in inv[p].todo : c < d
        /\ inv[p].todo # {} =>
              \E c \in inv[p].todo : /\ c \notin inv[p].bad
                                     /\ \A d \in inv[p].todo : c <= d
    BY <1>1 DEF Swept
  <2>2. /\ inv[p].skipped \subseteq inv[p].bad
        /\ (inv[p].pass \cup inv[p].fail) \cap inv[p].bad = {}
    BY <1>5 DEF Tallied
  <2>3. Owed(p, f) = OfFn(inv[p].plan \ inv[p].bad, f)
    BY <1>5 DEF Owed
  <2>4. PICK e \in inv[p].pass \cup inv[p].fail : FnOf[e] = f
    BY <1>3 DEF OfFn
  <2>5. Denominator(p, f) # {}
    BY <2>1, <2>2, <2>4 DEF Denominator, OfFn, Tally
  <2>6. ASSUME NEW d \in Denominator(p, f)
        PROVE  d \in inv[p].pass \cup inv[p].fail
    <3>1. d \in inv[p].plan /\ d \notin inv[p].skipped /\ FnOf[d] = f
      BY <2>6 DEF Denominator, OfFn
    <3>2. CASE d \notin inv[p].bad
      BY <1>3, <2>3, <3>1, <3>2 DEF OfFn
    <3>3. CASE d \in inv[p].todo
      <4>1. PICK c \in inv[p].todo : /\ c \notin inv[p].bad
                                     /\ \A t \in inv[p].todo : c <= t
        BY <2>1, <3>3
      <4>2. c <= d /\ e < c /\ e \in Tally(inv[p]) /\ c \in inv[p].plan
        BY <2>1, <2>4, <3>3, <4>1 DEF Tally
      <4>3. /\ c \in Case /\ d \in Case /\ e \in Case
            /\ c \in Nat /\ e \in Nat
        BY <2>1, <2>4, <3>1, <4>2, CatalogueAssumption DEF Locals, Tally
      <4>4. e <= c
        BY <4>2, <4>3
      <4>5. FnOf[c] = f
        BY <2>4, <3>1, <4>2, <4>3, <4>4, OrderAssumption
      <4>6. c \in Tally(inv[p])
        BY <1>3, <2>3, <4>1, <4>2, <4>5 DEF OfFn, Tally
      <4>7. c < c
        BY <2>1, <4>1, <4>6
      <4>8. QED
        BY <4>3, <4>7
    <3>4. QED
      BY <2>1, <3>1, <3>2, <3>3 DEF Tally
  <2>7. QED
    BY <1>1, <1>3, <1>5, <2>5, <2>6 DEF Judges
<1>6. QED
  BY <1>1, <1>4, <1>5, RequestType

-----------------------------------------------------------------------------
(* Steps that write neither a row nor a verdict.                           *)

LEMMA QuietStanding ==
    ASSUME LInv, IInv',
           NEW p \in Invocation, NEW n \in Locals, Becomes(p, n),
           runs' = runs,
           \A f \in Function : scalars'[f].status = scalars[f].status,
           inv[p].ranAt # 0 => /\ n.ranAt = inv[p].ranAt
                              /\ n.req = inv[p].req /\ n.row = inv[p].row
                              /\ n.plan = inv[p].plan /\ n.bad = inv[p].bad,
           \A f \in Function :
              n.pc = "done" \/ (n.pc = "promote" /\ f \notin n.fns) =>
                 \/ n.ranAt = 0
                 \/ /\ inv[p].ranAt # 0
                    /\ SettledBy(p, f) \/ ~Complete(p, f)
    PROVE  Standing'
<1>1. /\ inv'[p] = n
      /\ \A q \in Invocation : q # p => inv'[q] = inv[q]
  BY BecomesLocals DEF LInv, IInv, TypeOK
<1>2. \A q \in Invocation : inv[q].ranAt \in Nat /\ inv'[q].ranAt \in Nat
  BY DEF LInv, IInv, TypeOK, Locals
<1>3. ASSUME NEW q \in Invocation, NEW f \in Function, inv[q].ranAt # 0
      PROVE  /\ inv'[q].ranAt = inv[q].ranAt
             /\ Complete(q, f)' <=> Complete(q, f)
             /\ AllPassed(q, f)' <=> AllPassed(q, f)
  <2>1. /\ inv'[q].req = inv[q].req /\ inv'[q].row = inv[q].row
        /\ inv'[q].plan = inv[q].plan /\ inv'[q].bad = inv[q].bad
        /\ inv'[q].ranAt = inv[q].ranAt
    BY <1>1, <1>3
  <2>2. RowsOf(q, f)' = RowsOf(q, f)
    BY <2>1 DEF RowsOf
  <2>3. QED
    BY <2>1, <2>2, CompleteStable
<1>4. SUFFICES ASSUME NEW q \in Invocation, NEW f \in Function,
                      SettledBy(q, f)', Complete(q, f)', LastFor(q, f)'
               PROVE  Agrees(q, f)'
  BY DEF Standing
<1>5. inv'[q].ranAt # 0
  <2>1. PICK r \in RowsOf(q, f)' : TRUE
    BY <1>4 DEF Complete
  <2>2. QED
    BY <2>1 DEF RowsOf, IInv, Clocked
<1>6. SettledBy(q, f) /\ inv[q].ranAt # 0
  <2>1. CASE q = p
    BY <1>1, <1>3, <1>4, <1>5, <2>1 DEF SettledBy
  <2>2. CASE q # p
    BY <1>1, <1>4, <1>5, <2>2 DEF SettledBy
  <2>3. QED
    BY <2>1, <2>2
<1>7. Complete(q, f)
  BY <1>3, <1>4, <1>6
<1>8. LastFor(q, f)
  <2> SUFFICES ASSUME NEW s \in Invocation, inv[s].ranAt > inv[q].ranAt
               PROVE  ~Complete(s, f)
    BY DEF LastFor
  <2>1. inv[s].ranAt # 0
    BY <1>2
  <2>2. inv'[s].ranAt > inv'[q].ranAt
    BY <1>3, <1>6, <2>1
  <2>3. ~Complete(s, f)'
    BY <1>4, <2>2 DEF LastFor
  <2>4. QED
    BY <1>3, <2>1, <2>3
<1>9. Agrees(q, f)
  BY <1>6, <1>7, <1>8 DEF LInv, Standing
<1>10. QED
  BY <1>3, <1>6, <1>9 DEF Agrees

LEMMA QuietL ==
    ASSUME LInv, IInv',
           NEW p \in Invocation, NEW n \in Locals, Becomes(p, n),
           UNCHANGED <<scalars, runs>>,
           IF Active(p) THEN n.ranAt = inv[p].ranAt
                               \/ (inv[p].ranAt = 0 /\ n.ranAt = clock + 1)
           ELSE n.ranAt = 0 /\ \A q \in Invocation : ~Active(q),
           inv[p].ranAt # 0 => /\ n.ranAt = inv[p].ranAt
                              /\ n.req = inv[p].req /\ n.row = inv[p].row
                              /\ n.plan = inv[p].plan /\ n.bad = inv[p].bad,
           \A f \in Function :
              n.pc = "done" \/ (n.pc = "promote" /\ f \notin n.fns) =>
                 \/ n.ranAt = 0
                 \/ /\ inv[p].ranAt # 0
                    /\ SettledBy(p, f) \/ ~Complete(p, f),
           Swept(n)
    PROVE  LInv'
<1>1. /\ inv'[p] = n
      /\ \A q \in Invocation : q # p => inv'[q] = inv[q]
  BY BecomesLocals DEF LInv, IInv, TypeOK
<1>2. /\ clock \in Nat
      /\ \A q \in Invocation : inv[q].ranAt \in Nat /\ inv[q].ranAt <= clock
  BY DEF LInv, IInv, TypeOK, Locals, Clocked
<1>3. \A q \in Invocation : q # p => ~Active(q) /\ (Active(q)' <=> Active(q))
  <2>1. \A q \in Invocation : q # p => ~Active(q)
    BY DEF LInv, Alone
  <2>2. QED
    BY <1>1, <2>1 DEF Active, Ended
<1>4. Alone'
  BY <1>3 DEF Alone
<1>5. Newest'
  <2> SUFFICES ASSUME NEW q \in Invocation, NEW s \in Invocation,
                      Active(q)', inv'[q].ranAt # 0, s # q
               PROVE  inv'[s].ranAt < inv'[q].ranAt
    BY DEF Newest
  <2>1. q = p /\ inv'[s] = inv[s] /\ inv'[q].ranAt = n.ranAt
    BY <1>1, <1>3
  <2>2. Active(p)
    BY <2>1
  <2>3. CASE n.ranAt = inv[p].ranAt
    BY <2>1, <2>2, <2>3 DEF LInv, Newest
  <2>4. CASE n.ranAt = clock + 1
    BY <1>2, <2>1, <2>4
  <2>5. QED
    BY <2>2, <2>3, <2>4
<1>6. \A q \in Invocation : Swept(inv'[q])
  BY <1>1 DEF LInv
<1>7. Standing'
  BY QuietStanding
<1>8. QED
  BY <1>4, <1>5, <1>6, <1>7 DEF LInv

-----------------------------------------------------------------------------
(* Selection and preparation.                                              *)

\* Where an invocation may start nobody is under way.
LEMMA StartAlone ==
    ASSUME ~Overlap, IInv, NEW p \in Invocation, MayStart(p)
    PROVE  /\ \A q \in Invocation : ~Active(q)
           /\ inv[p] \in Locals /\ inv[p].pc = "idle" /\ inv[p].ranAt = 0
           /\ inv[p].plan = {} /\ inv[p].todo = {} /\ Tally(inv[p]) = {}
<1>1. inv[p] \in Locals /\ Phased(inv[p]) /\ Tallied(inv[p])
  BY InvType
<1>2. inv[p].pc = "idle" /\ \A q \in Invocation : ~Active(q)
  BY DEF MayStart, Active
<1>3. QED
  BY <1>1, <1>2 DEF Phased, Tallied, Tally

LEMMA RunCachedL ==
    ASSUME ~Overlap, LInv, IInv', NEW p \in Invocation, RunCached(p)
    PROVE  LInv'
<1> DEFINE n(r) == [inv[p] EXCEPT !.pc = "cached", !.req = r]
<1>1. PICK r \in Request : Becomes(p, n(r))
  BY DEF RunCached
<1>2. MayStart(p) /\ UNCHANGED <<scalars, runs>> /\ IInv
  BY DEF RunCached, LInv
<1>3. /\ \A q \in Invocation : ~Active(q)
      /\ inv[p] \in Locals /\ inv[p].ranAt = 0
  BY <1>2, StartAlone
<1>4. n(r) \in Locals /\ n(r).pc = "cached" /\ n(r).ranAt = 0
  BY <1>3 DEF Locals, Phase
<1> HIDE DEF n
<1>5. Swept(n(r))
  BY <1>4 DEF Swept
<1>6. QED
  BY <1>1, <1>2, <1>3, <1>4, <1>5, QuietL

LEMMA RunLoadL ==
    ASSUME ~Overlap, LInv, IInv', NEW p \in Invocation, RunLoad(p)
    PROVE  LInv'
<1> DEFINE n(r, f) == [inv[p] EXCEPT !.pc = "bridge", !.req = r,
                                     !.row[f] = scalars[f]]
<1>1. PICK r \in Request : \E f \in r.fns : Becomes(p, n(r, f))
  BY DEF RunLoad
<1>2. PICK f \in r.fns : Becomes(p, n(r, f))
  BY <1>1
<1>3. MayStart(p) /\ UNCHANGED <<scalars, runs>> /\ IInv
  BY DEF RunLoad, LInv
<1>4. /\ \A q \in Invocation : ~Active(q)
      /\ inv[p] \in Locals /\ inv[p].ranAt = 0
      /\ inv[p].plan = {} /\ inv[p].todo = {} /\ Tally(inv[p]) = {}
  BY <1>3, StartAlone
<1>5. f \in Function /\ scalars[f] \in ScalarRow
  BY <1>3, RequestType, InvType
<1>6. /\ n(r, f) \in Locals /\ n(r, f).pc = "bridge" /\ n(r, f).ranAt = 0
      /\ n(r, f).plan = inv[p].plan /\ n(r, f).todo = inv[p].todo
      /\ n(r, f).pass = inv[p].pass /\ n(r, f).fail = inv[p].fail
      /\ n(r, f).skipped = inv[p].skipped
  BY <1>4, <1>5 DEF Locals, Phase
<1> HIDE DEF n
<1>7. Swept(n(r, f))
  BY <1>4, <1>6 DEF Swept, Tally
<1>8. QED
  BY <1>2, <1>3, <1>4, <1>6, <1>7, QuietL

LEMMA BatchSelectL ==
    ASSUME ~Overlap, LInv, IInv', NEW p \in Invocation, BatchSelect(p)
    PROVE  LInv'
<1> DEFINE plan(r) == BatchPlan(r)
           n(r) == [inv[p] EXCEPT
                     !.pc = IF plan(r) = {} THEN "done" ELSE "bridge",
                     !.req = r, !.plan = plan(r), !.todo = plan(r),
                     !.bad = FixtureBad(plan(r)),
                     !.suite = Runnable(cases, {FnOf[c] : c \in plan(r)})]
<1>1. PICK r \in Request : Becomes(p, n(r))
  BY DEF BatchSelect
<1>2. MayStart(p) /\ UNCHANGED <<scalars, runs>> /\ IInv
  BY DEF BatchSelect, LInv
<1>3. /\ \A q \in Invocation : ~Active(q)
      /\ inv[p] \in Locals /\ inv[p].ranAt = 0 /\ Tally(inv[p]) = {}
  BY <1>2, StartAlone
<1>4. /\ plan(r) \subseteq Case /\ FixtureBad(plan(r)) \subseteq Case
      /\ Runnable(cases, {FnOf[c] : c \in plan(r)}) \subseteq Case
  BY PlanType
<1> HIDE DEF plan
<1>5. /\ n(r) \in Locals /\ n(r).pc \in {"done", "bridge"} /\ n(r).ranAt = 0
      /\ n(r).plan = plan(r) /\ n(r).todo = plan(r)
      /\ n(r).pass = inv[p].pass /\ n(r).fail = inv[p].fail
      /\ n(r).skipped = inv[p].skipped
  BY <1>3, <1>4 DEF Locals, Phase
<1> HIDE DEF n
<1>6. Swept(n(r))
  BY <1>3, <1>5 DEF Swept, Tally
<1>7. QED
  BY <1>1, <1>2, <1>3, <1>5, <1>6, QuietL

\* An invocation that goes from one phase to the next and keeps its plan.
LEMMA PhaseL ==
    ASSUME LInv, IInv', NEW p \in Invocation, NEW n \in Locals, Becomes(p, n),
           Active(p), UNCHANGED <<scalars, runs>>,
           n.ranAt = inv[p].ranAt, n.req = inv[p].req, n.row = inv[p].row,
           n.plan = inv[p].plan, n.bad = inv[p].bad,
           n.pc \in {"provider", "stamp", "cases", "aborted"},
           n.todo = inv[p].todo, n.pass = inv[p].pass, n.fail = inv[p].fail,
           n.skipped = inv[p].skipped,
           n.pc \in {"provider", "stamp"} => inv[p].pc \in {"bridge", "provider"}
    PROVE  LInv'
<1>1. Swept(n)
  <2>1. Swept(inv[p])
    BY DEF LInv
  <2>2. QED
    BY <2>1 DEF Swept, Tally
<1>2. QED
  BY <1>1, QuietL

LEMMA PrepareL ==
    ASSUME LInv, IInv', NEW p \in Invocation,
           HashBridge(p) \/ BatchHashProvider(p) \/ Ensure(p)
    PROVE  LInv'
<1>. inv[p] \in Locals /\ IInv /\ Phased(inv[p])
  BY InvType DEF LInv
<1>1. CASE HashBridge(p)
  <2> DEFINE n == [inv[p] EXCEPT !.pc = "provider", !.bridge = disk["bridge"]]
  <2>1. disk["bridge"] \in Nat
    BY InvType DEF Artifact
  <2>2. /\ n \in Locals /\ Becomes(p, n) /\ inv[p].pc = "bridge"
        /\ UNCHANGED <<scalars, runs>>
    BY <1>1, <2>1 DEF HashBridge, Locals, Phase
  <2>3. /\ n.pc = "provider" /\ n.req = inv[p].req /\ n.row = inv[p].row
        /\ n.plan = inv[p].plan /\ n.todo = inv[p].todo
        /\ n.pass = inv[p].pass /\ n.fail = inv[p].fail
        /\ n.skipped = inv[p].skipped /\ n.ranAt = inv[p].ranAt
        /\ n.bad = inv[p].bad
    BY <2>2 DEF Locals
  <2> HIDE DEF n
  <2>4. QED
    BY <2>2, <2>3, PhaseL DEF Active, Ended
<1>2. CASE BatchHashProvider(p)
  <2> DEFINE n == [inv[p] EXCEPT !.pc = "stamp",
                                 !.provider = disk[inv[p].req.provider]]
  <2>1. disk[inv[p].req.provider] \in Nat
    BY <1>2, InvType, RequestType DEF BatchHashProvider, Phased
  <2>2. /\ n \in Locals /\ Becomes(p, n) /\ inv[p].pc = "provider"
        /\ UNCHANGED <<scalars, runs>>
    BY <1>2, <2>1 DEF BatchHashProvider, Locals, Phase
  <2>3. /\ n.pc = "stamp" /\ n.req = inv[p].req /\ n.row = inv[p].row
        /\ n.plan = inv[p].plan /\ n.todo = inv[p].todo
        /\ n.pass = inv[p].pass /\ n.fail = inv[p].fail
        /\ n.skipped = inv[p].skipped /\ n.ranAt = inv[p].ranAt
        /\ n.bad = inv[p].bad
    BY <2>2 DEF Locals
  <2> HIDE DEF n
  <2>4. QED
    BY <2>2, <2>3, PhaseL DEF Active, Ended
<1>3. CASE Ensure(p)
  <2> DEFINE n == [inv[p] EXCEPT !.pc = "cases",
                                 !.provider = disk[inv[p].req.provider]]
  <2>1. disk[inv[p].req.provider] \in Nat
    BY <1>3, InvType, RequestType DEF Ensure, Phased
  <2>2. /\ n \in Locals /\ Becomes(p, n) /\ inv[p].pc = "provider"
        /\ UNCHANGED <<scalars, runs>>
    BY <1>3, <2>1 DEF Ensure, Locals, Phase
  <2>3. /\ n.pc = "cases" /\ n.req = inv[p].req /\ n.row = inv[p].row
        /\ n.plan = inv[p].plan /\ n.todo = inv[p].todo
        /\ n.pass = inv[p].pass /\ n.fail = inv[p].fail
        /\ n.skipped = inv[p].skipped /\ n.ranAt = inv[p].ranAt
        /\ n.bad = inv[p].bad
    BY <2>2 DEF Locals
  <2> HIDE DEF n
  <2>4. QED
    BY <2>2, <2>3, PhaseL DEF Active, Ended
<1>4. QED
  BY <1>1, <1>2, <1>3

LEMMA RunLoadCasesL ==
    ASSUME LInv, IInv', NEW p \in Invocation, RunLoadCases(p)
    PROVE  LInv'
<1> DEFINE r == inv[p].req
           plan == RunPlan(r)
           n == [inv[p] EXCEPT
                  !.pc = IF plan = {} THEN "done" ELSE "loop",
                  !.plan = plan, !.todo = plan,
                  !.bad = FixtureBad(plan),
                  !.suite = Runnable(cases, r.fns),
                  !.ranAt = IF plan = {} THEN 0 ELSE clock + 1]
<1>. inv[p] \in Locals /\ IInv /\ clock \in Nat
  BY InvType DEF LInv
<1>1. /\ plan \subseteq Case /\ FixtureBad(plan) \subseteq Case
      /\ Runnable(cases, r.fns) \subseteq Case
  BY PlanType
<1>2. Becomes(p, n) /\ inv[p].pc = "cases" /\ UNCHANGED <<scalars, runs>>
  BY DEF RunLoadCases
<1>3. inv[p].ranAt = 0 /\ Tally(inv[p]) = {}
  BY <1>2, InvType DEF Phased, Tallied, Tally
<1> HIDE DEF plan
<1>4. (IF plan = {} THEN 0 ELSE clock + 1) \in Nat
  OBVIOUS
<1>5. n \in Locals
  BY <1>1, <1>4 DEF Locals, Phase
<1>6. /\ n.pc = IF plan = {} THEN "done" ELSE "loop"
      /\ n.plan = plan /\ n.todo = plan
      /\ n.pass = inv[p].pass /\ n.fail = inv[p].fail
      /\ n.skipped = inv[p].skipped
      /\ n.ranAt = IF plan = {} THEN 0 ELSE clock + 1
  BY <1>5 DEF Locals
<1> HIDE DEF n
<1>7. Swept(n)
  BY <1>3, <1>6 DEF Swept, Tally
<1>8. Active(p)
  BY <1>2 DEF Active, Ended
<1>9. QED
  BY <1>2, <1>3, <1>5, <1>6, <1>7, <1>8, QuietL

LEMMA BatchStampL ==
    ASSUME LInv, IInv', NEW p \in Invocation, BatchStamp(p)
    PROVE  LInv'
<1> DEFINE row(found) == [f \in Function |->
                            IF f \in found THEN scalars[f] ELSE None]
           n(found) == [inv[p] EXCEPT !.pc = "loop", !.ranAt = clock + 1,
                                      !.row = row(found)]
<1>. inv[p] \in Locals /\ IInv /\ clock \in Nat /\ Swept(inv[p])
  BY InvType DEF LInv
<1>1. PICK found : Becomes(p, n(found))
  BY DEF BatchStamp
<1>2. row(found) \in [Function -> ScalarRow \cup {None}]
  BY InvType
<1>3. inv[p].pc = "stamp" /\ UNCHANGED <<scalars, runs>>
  BY DEF BatchStamp
<1>4. inv[p].ranAt = 0
  BY <1>3, InvType DEF Phased
<1> HIDE DEF row
<1>5. clock + 1 \in Nat
  OBVIOUS
<1>6. n(found) \in Locals
  BY <1>2, <1>5 DEF Locals, Phase
<1>7. /\ n(found).pc = "loop" /\ n(found).req = inv[p].req
      /\ n(found).plan = inv[p].plan /\ n(found).todo = inv[p].todo
      /\ n(found).pass = inv[p].pass /\ n(found).fail = inv[p].fail
      /\ n(found).skipped = inv[p].skipped
      /\ n(found).ranAt = clock + 1
  BY <1>6 DEF Locals
<1> HIDE DEF n
<1>8. Swept(n(found))
  BY <1>3, <1>7 DEF Swept, Tally
<1>9. Active(p)
  BY <1>3 DEF Active, Ended
<1>10. QED
  BY <1>1, <1>3, <1>4, <1>6, <1>7, <1>8, <1>9, QuietL

-----------------------------------------------------------------------------
(* The loop.                                                               *)

LEMMA UpcomingIsFirst ==
    ASSUME NEW p \in Invocation, inv[p] \in Locals,
           NEW c, Upcoming(p, c)
    PROVE  \A d \in inv[p].todo \ {c} : c < d
<1>1. inv[p].todo \subseteq Nat
  BY CatalogueAssumption DEF Locals
<1>2. \A d \in inv[p].todo : c \in Nat /\ d \in Nat /\ c <= d
  BY <1>1 DEF Upcoming
<1>3. QED
  BY <1>2

LEMMA SkipCaseL ==
    ASSUME LInv, IInv', NEW p \in Invocation, SkipCase(p)
    PROVE  LInv'
<1> DEFINE n(c) == [inv[p] EXCEPT !.todo = @ \ {c}, !.skipped = @ \cup {c}]
<1>. inv[p] \in Locals /\ IInv /\ Swept(inv[p]) /\ Case \subseteq Nat
  BY InvType, CatalogueAssumption DEF LInv
<1>1. PICK c \in inv[p].todo : Upcoming(p, c) /\ Becomes(p, n(c))
  BY DEF SkipCase
<1>2. inv[p].pc = "loop" /\ UNCHANGED <<scalars, runs>> /\ n(c) \in Locals
  BY <1>1 DEF SkipCase, Locals, Phase
<1>3. /\ n(c).pc = "loop" /\ n(c).req = inv[p].req /\ n(c).row = inv[p].row
      /\ n(c).plan = inv[p].plan /\ n(c).todo = inv[p].todo \ {c}
      /\ n(c).pass = inv[p].pass /\ n(c).fail = inv[p].fail
      /\ n(c).skipped = inv[p].skipped \cup {c} /\ n(c).ranAt = inv[p].ranAt
      /\ n(c).bad = inv[p].bad
  BY <1>2 DEF Locals
<1> HIDE DEF n
<1>4. \A d \in n(c).todo : c < d
  BY <1>1, <1>3, UpcomingIsFirst
<1>5. Swept(n(c))
  BY <1>1, <1>2, <1>3, <1>4 DEF Swept, Tally
<1>6. Active(p)
  BY <1>2 DEF Active, Ended
<1>7. QED
  BY <1>1, <1>2, <1>3, <1>5, <1>6, QuietL

LEMMA PrintCaseL ==
    ASSUME LInv, IInv', NEW p \in Invocation, PrintCase(p)
    PROVE  LInv'
<1> DEFINE n(c) == [inv[p] EXCEPT !.todo = @ \ {c}, !.ran = @ \cup {c}]
<1>. inv[p] \in Locals /\ IInv
  BY InvType DEF LInv
<1>1. PICK c \in inv[p].todo : Becomes(p, n(c))
  BY DEF PrintCase
<1>2. /\ inv[p].pc = "loop" /\ inv[p].req.print
      /\ UNCHANGED <<scalars, runs>> /\ n(c) \in Locals
  BY <1>1 DEF PrintCase, Locals, Phase
<1>3. /\ n(c).pc = "loop" /\ n(c).req = inv[p].req /\ n(c).row = inv[p].row
      /\ n(c).plan = inv[p].plan /\ n(c).ranAt = inv[p].ranAt
      /\ n(c).bad = inv[p].bad
  BY <1>2 DEF Locals
<1> HIDE DEF n
<1>4. Swept(n(c)) /\ Active(p)
  BY <1>2, <1>3 DEF Swept, Active, Ended
<1>5. QED
  BY <1>1, <1>2, <1>3, <1>4, QuietL

LEMMA EndLoopL ==
    ASSUME LInv, IInv', NEW p \in Invocation, EndLoop(p)
    PROVE  LInv'
<1> DEFINE n == [inv[p] EXCEPT !.pc = "promote",
                               !.fns = {FnOf[c] : c \in inv[p].plan}]
<1>. inv[p] \in Locals /\ IInv /\ Swept(inv[p])
  BY InvType DEF LInv
<1>1. {FnOf[c] : c \in inv[p].plan} \subseteq Function
  BY CatalogueAssumption DEF Locals
<1>2. /\ inv[p].pc = "loop" /\ Becomes(p, n) /\ UNCHANGED <<scalars, runs>>
      /\ n \in Locals
  BY <1>1 DEF EndLoop, Locals, Phase
<1>3. /\ n.pc = "promote" /\ n.req = inv[p].req /\ n.row = inv[p].row
      /\ n.plan = inv[p].plan /\ n.todo = inv[p].todo
      /\ n.pass = inv[p].pass /\ n.fail = inv[p].fail
      /\ n.skipped = inv[p].skipped /\ n.ranAt = inv[p].ranAt
      /\ n.bad = inv[p].bad /\ n.fns = {FnOf[c] : c \in inv[p].plan}
  BY <1>2 DEF Locals
<1> HIDE DEF n
<1>4. ~inv[p].req.print /\ inv[p].todo # {} =>
        \E c \in inv[p].todo : c \notin inv[p].bad
                                 /\ \A d \in inv[p].todo : c <= d
  BY DEF EndLoop, Capped, CapReached, Skips, Upcoming
<1>5. Swept(n)
  BY <1>2, <1>3, <1>4 DEF Swept, Tally
<1>6. \A f \in Function : f \notin n.fns => ~Complete(p, f)
  BY <1>3 DEF Complete, Owed, OfFn
<1>7. Active(p) /\ inv[p].ranAt # 0
  BY <1>2, InvType DEF Active, Ended, Phased
<1>8. QED
  BY <1>2, <1>3, <1>5, <1>6, <1>7, QuietL

LEMMA EndL ==
    ASSUME LInv, IInv', NEW p \in Invocation, Finish(p) \/ Abort(p)
    PROVE  LInv'
<1>1. PICK pc \in {"done", "aborted"} : /\ Becomes(p, [inv[p] EXCEPT !.pc = pc])
                                        /\ pc = "done" => Finish(p)
  BY DEF Finish, Abort
<1> DEFINE n == [inv[p] EXCEPT !.pc = pc]
<1>. inv[p] \in Locals /\ IInv
  BY InvType DEF LInv
<1>2. Active(p) /\ n \in Locals /\ UNCHANGED <<scalars, runs>>
  BY DEF Finish, Abort, Active, Ended, Locals, Phase
<1>3. /\ n.pc = pc /\ n.req = inv[p].req /\ n.row = inv[p].row
      /\ n.plan = inv[p].plan /\ n.ranAt = inv[p].ranAt
      /\ n.bad = inv[p].bad
  BY <1>2 DEF Locals
<1>4. Becomes(p, n)
  BY <1>1
<1> HIDE DEF n
<1>5. Swept(n)
  BY <1>3 DEF Swept
<1>6. pc = "done" => /\ inv[p].ranAt # 0
                     /\ \A f \in Function : SettledBy(p, f)
  BY <1>1, InvType DEF Finish, SettledBy, Phased
<1>7. QED
  BY <1>2, <1>3, <1>4, <1>5, <1>6, QuietL

-----------------------------------------------------------------------------
(* Executing a case.                                                       *)

LEMMA ProbeCaseL ==
    ASSUME LInv, IInv', NEW p \in Invocation, ProbeCase(p)
    PROVE  LInv'
<1> DEFINE x(c, v) ==
             [case |-> c, status |-> v, ranAt |-> inv[p].ranAt,
              bridge |-> inv[p].bridge, provider |-> inv[p].provider]
           n(c, v) ==
             [inv[p] EXCEPT
                !.todo = @ \ {c}, !.ran = @ \cup {c},
                !.pass = IF v = "pass" THEN @ \cup {c} ELSE @,
                !.fail = IF v = "fail" THEN @ \cup {c} ELSE @]
<1>. /\ inv[p] \in Locals /\ IInv /\ Phased(inv[p]) /\ Tallied(inv[p])
     /\ Swept(inv[p])
  BY InvType DEF LInv
<1>1. PICK c \in inv[p].todo, v \in {"pass", "fail"} :
        /\ Upcoming(p, c) /\ ~Skips(p, c)
        /\ runs' = runs \cup {x(c, v)}
        /\ Becomes(p, n(c, v))
  BY DEF ProbeCase
<1>2. /\ inv[p].pc = "loop" /\ ~inv[p].req.print /\ inv[p].ranAt # 0
      /\ inv[p].req \in Request /\ c \in Case /\ scalars' = scalars
  BY DEF ProbeCase, Phased, Locals
<1>3. n(c, v) \in Locals
  BY <1>2 DEF Locals
<1>4. /\ n(c, v).pc = "loop" /\ n(c, v).req = inv[p].req
      /\ n(c, v).row = inv[p].row /\ n(c, v).plan = inv[p].plan
      /\ n(c, v).todo = inv[p].todo \ {c}
      /\ Tally(n(c, v)) = Tally(inv[p]) \cup {c}
      /\ n(c, v).ranAt = inv[p].ranAt /\ n(c, v).bad = inv[p].bad
  <2>1. /\ n(c, v).pc = inv[p].pc /\ n(c, v).req = inv[p].req
        /\ n(c, v).row = inv[p].row /\ n(c, v).plan = inv[p].plan
        /\ n(c, v).todo = inv[p].todo \ {c}
        /\ n(c, v).pass = inv[p].pass \cup (IF v = "pass" THEN {c} ELSE {})
        /\ n(c, v).fail = inv[p].fail \cup (IF v = "fail" THEN {c} ELSE {})
        /\ n(c, v).skipped = inv[p].skipped
        /\ n(c, v).ranAt = inv[p].ranAt /\ n(c, v).bad = inv[p].bad
    BY <1>2 DEF Locals
  <2> HIDE DEF n
  <2>2. v = "pass" \/ v = "fail"
    OBVIOUS
  <2>3. QED
    BY <1>2, <2>1, <2>2 DEF Tally
<1>5. x(c, v).case = c /\ x(c, v).ranAt = inv[p].ranAt
  OBVIOUS
<1> HIDE DEF n, x
<1>6. /\ inv'[p] = n(c, v)
      /\ \A q \in Invocation : q # p => inv'[q] = inv[q]
  BY <1>1, <1>3, BecomesLocals DEF IInv, TypeOK
<1>7. Swept(n(c, v))
  <2>1. \A d \in n(c, v).todo : c < d
    BY <1>1, <1>4, UpcomingIsFirst
  <2>2. /\ inv[p].plan = inv[p].todo \cup Tally(inv[p])
        /\ \A e \in Tally(inv[p]), d \in inv[p].todo : e < d
    BY <1>2 DEF Swept
  <2>3. n(c, v).pc # "promote"
    BY <1>4
  <2>4. QED
    BY <1>1, <1>4, <2>1, <2>2, <2>3 DEF Swept
<1>8. \A q \in Invocation : Swept(inv'[q])
  BY <1>6, <1>7 DEF LInv
<1>9. \A q \in Invocation : /\ inv'[q].ranAt = inv[q].ranAt
                            /\ inv'[q].pc = inv[q].pc
  BY <1>2, <1>4, <1>6
<1>10. Alone' /\ Newest'
  <2>1. \A q \in Invocation : Active(q)' <=> Active(q)
    BY <1>9 DEF Active, Ended
  <2>2. QED
    BY <1>9, <2>1 DEF LInv, Alone, Newest
\* c is owed, and had no row: p was not complete for its function.
<1>11. ~Complete(p, FnOf[c])
  <2>1. c \in Owed(p, FnOf[c])
    <3>1. c \in inv[p].plan
      BY <1>1, <1>2 DEF Swept
    <3>2. inv[p].req.cmd = "batch" => c \notin inv[p].bad
      BY <1>1 DEF Skips
    <3>3. QED
      BY <3>1, <3>2 DEF Owed, OfFn
  <2>2. c \notin Tally(inv[p])
    <3>1. c \in Nat
      BY <1>2, CatalogueAssumption
    <3>2. c \in Tally(inv[p]) => c < c
      BY <1>1, <1>2 DEF Swept
    <3>3. QED
      BY <3>1, <3>2
  <2>3. \A r \in RowsOf(p, FnOf[c]) : r.case \in Tally(inv[p])
    BY DEF IInv, TypeOK, Run, Logged, RowsBy, RowsOf, Tally
  <2>4. QED
    BY <2>1, <2>2, <2>3 DEF Complete
<1>12. ASSUME NEW q \in Invocation, NEW f \in Function,
              q # p \/ f # FnOf[c]
       PROVE  /\ Complete(q, f)' <=> Complete(q, f)
              /\ AllPassed(q, f)' <=> AllPassed(q, f)
  <2>1. RowsOf(q, f)' = RowsOf(q, f)
    <3>1. CASE q = p
      BY <1>1, <1>5, <1>9, <1>12, <3>1 DEF RowsOf
    <3>2. CASE q # p
      <4>1. inv[q].ranAt # x(c, v).ranAt
        BY <1>2, <1>5, <3>2 DEF IInv, Clocked
      <4>2. QED
        BY <1>1, <1>9, <4>1 DEF RowsOf
    <3>3. QED
      BY <3>1, <3>2
  <2>2. /\ inv'[q].req = inv[q].req /\ inv'[q].row = inv[q].row
        /\ inv'[q].plan = inv[q].plan /\ inv'[q].bad = inv[q].bad
    BY <1>4, <1>6
  <2>3. QED
    BY <2>1, <2>2, CompleteStable
<1>13. Standing'
  <2> SUFFICES ASSUME NEW q \in Invocation, NEW f \in Function,
                      SettledBy(q, f)', Complete(q, f)', LastFor(q, f)'
               PROVE  Agrees(q, f)'
    BY DEF Standing
  <2>1. q # p /\ SettledBy(q, f)
    BY <1>4, <1>6 DEF SettledBy
  <2>2. Complete(q, f) /\ (AllPassed(q, f)' <=> AllPassed(q, f))
    BY <1>12, <2>1
  <2>3. LastFor(q, f)
    <3> SUFFICES ASSUME NEW s \in Invocation, inv[s].ranAt > inv[q].ranAt
                 PROVE  ~Complete(s, f)
      BY DEF LastFor
    <3>1. ~Complete(s, f)'
      BY <1>9 DEF LastFor
    <3>2. CASE s = p /\ f = FnOf[c]
      BY <1>11, <3>2
    <3>3. CASE s # p \/ f # FnOf[c]
      BY <1>12, <3>1, <3>3
    <3>4. QED
      BY <3>2, <3>3
  <2>4. Agrees(q, f)
    BY <2>1, <2>2, <2>3 DEF LInv, Standing
  <2>5. QED
    BY <1>2, <2>2, <2>4 DEF Agrees
<1>14. QED
  BY <1>8, <1>10, <1>13 DEF LInv

-----------------------------------------------------------------------------
(* Promotion.                                                              *)

LEMMA PromoteL ==
    ASSUME LInv, IInv', NEW p \in Invocation, Promote(p)
    PROVE  LInv'
<1> DEFINE n(f) == [inv[p] EXCEPT !.fns = @ \ {f}]
           row(f) == inv[p].row[f]
           stamped(f) == MarkVerified(scalars[f], OrBlank(row(f).sig),
                                      OrBlank(row(f).impl), inv[p].ranAt)
<1>. /\ inv[p] \in Locals /\ IInv /\ Phased(inv[p]) /\ Swept(inv[p])
  BY InvType DEF LInv
<1>1. PICK f \in inv[p].fns :
        /\ scalars' = [scalars EXCEPT ![f] =
                          IF Verifies(p, f) THEN stamped(f)
                          ELSE IF Demotes(p, f) THEN MarkFailed(@) ELSE @]
        /\ Becomes(p, n(f))
  BY DEF Promote
<1>2. inv[p].pc = "promote" /\ n(f) \in Locals /\ f \in Function
  BY DEF Promote, Locals
<1>3. /\ n(f).pc = "promote" /\ n(f).req = inv[p].req
      /\ n(f).row = inv[p].row /\ n(f).plan = inv[p].plan
      /\ n(f).todo = inv[p].todo
      /\ n(f).pass = inv[p].pass /\ n(f).fail = inv[p].fail
      /\ n(f).skipped = inv[p].skipped /\ n(f).ranAt = inv[p].ranAt
      /\ n(f).bad = inv[p].bad /\ n(f).fns = inv[p].fns \ {f}
  BY <1>2 DEF Locals
<1> HIDE DEF n
<1>4. /\ inv'[p] = n(f)
      /\ \A q \in Invocation : q # p => inv'[q] = inv[q]
  BY <1>1, <1>2, BecomesLocals DEF IInv, TypeOK
<1>5. /\ scalars[f] \in ScalarRow
      /\ scalars'[f] = IF Verifies(p, f) THEN stamped(f)
                       ELSE IF Demotes(p, f) THEN MarkFailed(scalars[f])
                       ELSE scalars[f]
      /\ \A g \in Function : g # f => scalars'[g] = scalars[g]
  BY <1>1, <1>2, InvType DEF IInv, TypeOK
<1>6. \A q \in Invocation :
        /\ inv'[q].ranAt = inv[q].ranAt /\ inv'[q].pc = inv[q].pc
        /\ inv'[q].req = inv[q].req /\ inv'[q].row = inv[q].row
        /\ inv'[q].plan = inv[q].plan /\ inv'[q].bad = inv[q].bad
  BY <1>2, <1>3, <1>4
<1>7. Alone' /\ Newest'
  <2>1. \A q \in Invocation : Active(q)' <=> Active(q)
    BY <1>6 DEF Active, Ended
  <2>2. QED
    BY <1>6, <2>1 DEF LInv, Alone, Newest
<1>8. \A q \in Invocation : Swept(inv'[q])
  <2>1. Swept(n(f))
    BY <1>2, <1>3 DEF Swept, Tally
  <2>2. QED
    BY <1>4, <2>1 DEF LInv
<1>9. \A q \in Invocation, g \in Function :
        /\ Complete(q, g)' <=> Complete(q, g)
        /\ AllPassed(q, g)' <=> AllPassed(q, g)
  <2> SUFFICES ASSUME NEW q \in Invocation, NEW g \in Function
               PROVE  /\ Complete(q, g)' <=> Complete(q, g)
                      /\ AllPassed(q, g)' <=> AllPassed(q, g)
    OBVIOUS
  <2>1. RowsOf(q, g)' = RowsOf(q, g)
    BY <1>6 DEF RowsOf, Promote
  <2>2. QED
    BY <1>6, <2>1, CompleteStable
\* The verdict p gives f is the one its rows call for.
<1>10. Complete(p, f) => Agrees(p, f)'
  <2> SUFFICES ASSUME Complete(p, f)
               PROVE  scalars'[f].status = "implemented_verified"
                        <=> AllPassed(p, f)
    BY <1>2, <1>9 DEF Agrees
  <2>1. Judges(p, f) /\ OfFn(inv[p].pass \cup inv[p].fail, f) # {}
    BY <1>2, CompleteIsJudged
  <2>2. CASE Verifies(p, f)
    BY <1>2, <1>5, <2>2, VerdictIsComplete, VerdictFields
  <2>3. CASE ~Verifies(p, f)
    <3>1. Demotes(p, f)
      BY <2>1, <2>3 DEF Verifies, Demotes, OfFn
    <3>2. QED
      BY <1>2, <1>5, <2>3, <3>1, VerdictIsComplete, VerdictFields
  <2>4. QED
    BY <2>2, <2>3
<1>11. ~Complete(p, f) => scalars'[f] = scalars[f]
  BY <1>2, <1>5, VerdictIsComplete
<1>12. Standing'
  <2> SUFFICES ASSUME NEW q \in Invocation, NEW g \in Function,
                      SettledBy(q, g)', Complete(q, g)', LastFor(q, g)'
               PROVE  Agrees(q, g)'
    BY DEF Standing
  <2>1. Complete(q, g) /\ LastFor(q, g)
    BY <1>6, <1>9 DEF LastFor
  <2>2. CASE q = p /\ g = f
    BY <1>10, <2>1, <2>2
  <2>3. CASE ~(q = p /\ g = f)
    <3>1. SettledBy(q, g)
      <4>1. inv'[q].pc = "done" \/ (inv'[q].pc = "promote" /\ g \notin inv'[q].fns)
        BY DEF SettledBy
      <4>2. CASE q # p
        BY <1>4, <4>1, <4>2 DEF SettledBy
      <4>3. CASE q = p
        <5>1. g # f
          BY <2>3, <4>3
        <5>2. g \notin inv[p].fns
          BY <1>3, <1>4, <4>1, <4>3, <5>1
        <5>3. QED
          BY <1>2, <4>3, <5>2 DEF SettledBy
      <4>4. QED
        BY <4>2, <4>3
    <3>2. Agrees(q, g)
      BY <2>1, <3>1 DEF LInv, Standing
    <3>3. scalars'[g] = scalars[g]
      <4>1. CASE g # f
        BY <1>5, <4>1
      <4>2. CASE g = f
        <5>1. q # p /\ inv[q].ranAt < inv[p].ranAt
          BY <1>2, <2>3, <4>2 DEF LInv, Newest, Active, Ended, Phased
        <5>2. inv[p].ranAt \in Nat /\ inv[q].ranAt \in Nat
          BY DEF IInv, TypeOK, Locals
        <5>3. ~Complete(p, f)
          BY <2>1, <4>2, <5>1, <5>2 DEF LastFor
        <5>4. QED
          BY <1>11, <4>2, <5>3
      <4>3. QED
        BY <4>1, <4>2
    <3>4. QED
      BY <1>9, <3>2, <3>3 DEF Agrees
  <2>4. QED
    BY <2>2, <2>3
<1>13. QED
  BY <1>7, <1>8, <1>12 DEF LInv

-----------------------------------------------------------------------------
(* Every step preserves the invariant; the theorem.                        *)

\* A change that leaves the invocations, the rows and every status alone.
LEMMA OutsideL ==
    ASSUME LInv, IInv', UNCHANGED <<runs, inv>>,
           \A f \in Function : scalars'[f].status = scalars[f].status
    PROVE  LInv'
<1>1. \A q \in Invocation, g \in Function :
        /\ Complete(q, g)' <=> Complete(q, g)
        /\ AllPassed(q, g)' <=> AllPassed(q, g)
  <2> SUFFICES ASSUME NEW q \in Invocation, NEW g \in Function
               PROVE  /\ Complete(q, g)' <=> Complete(q, g)
                      /\ AllPassed(q, g)' <=> AllPassed(q, g)
    OBVIOUS
  <2>1. RowsOf(q, g)' = RowsOf(q, g)
    BY DEF RowsOf
  <2>2. QED
    BY <2>1, CompleteStable
<1>2. Alone' /\ Newest' /\ \A q \in Invocation : Swept(inv'[q])
  BY DEF LInv, Alone, Newest, Active, Ended
<1>3. Standing'
  <2> SUFFICES ASSUME NEW q \in Invocation, NEW g \in Function,
                      SettledBy(q, g)', Complete(q, g)', LastFor(q, g)'
               PROVE  Agrees(q, g)'
    BY DEF Standing
  <2>1. SettledBy(q, g) /\ Complete(q, g) /\ LastFor(q, g)
    BY <1>1 DEF SettledBy, LastFor
  <2>2. Agrees(q, g)
    BY <2>1 DEF LInv, Standing
  <2>3. QED
    BY <1>1, <2>2 DEF Agrees
<1>4. QED
  BY <1>2, <1>3 DEF LInv

LEMMA InitL == Init => LInv
<1> SUFFICES ASSUME Init PROVE LInv
  OBVIOUS
<1>1. \A p \in Invocation : inv[p] = Idle
  BY DEF Init
<1>2. Alone /\ Newest /\ \A p \in Invocation : Swept(inv[p])
  BY <1>1 DEF Idle, Alone, Newest, Active, Swept
<1>3. Standing
  BY <1>1 DEF Idle, Standing, SettledBy
<1>4. QED
  BY <1>2, <1>3, InitInv DEF LInv

LEMMA NextL == ASSUME ~Overlap, LInv, [Next]_vars PROVE LInv'
<1>. IInv'
  BY NextInv DEF LInv
<1>1. ASSUME NEW p \in Invocation, Step(p) \/ Abort(p) PROVE LInv'
  <2>1. CASE RunCached(p) \/ RunLoad(p) \/ BatchSelect(p)
    BY <2>1, RunCachedL, RunLoadL, BatchSelectL
  <2>2. CASE HashBridge(p) \/ BatchHashProvider(p) \/ Ensure(p)
    BY <2>2, PrepareL
  <2>3. CASE RunLoadCases(p) \/ BatchStamp(p)
    BY <2>3, RunLoadCasesL, BatchStampL
  <2>4. CASE SkipCase(p) \/ PrintCase(p) \/ ProbeCase(p) \/ EndLoop(p)
    BY <2>4, SkipCaseL, PrintCaseL, ProbeCaseL, EndLoopL
  <2>5. CASE Promote(p)
    BY <2>5, PromoteL
  <2>6. CASE Finish(p) \/ Abort(p)
    BY <2>6, EndL
  <2>7. QED
    BY <1>1, <2>1, <2>2, <2>3, <2>4, <2>5, <2>6 DEF Step
<1>2. CASE Extract
  <2>1. PICK f \in Function, s \in Hash, i \in Hash :
          scalars' = [scalars EXCEPT ![f].sig = s, ![f].impl = i]
    BY <1>2 DEF Extract
  <2>2. \A g \in Function : scalars[g] \in ScalarRow
    BY DEF LInv, IInv, TypeOK
  <2>3. /\ scalars'[f] = [scalars[f] EXCEPT !.sig = s, !.impl = i]
        /\ \A g \in Function : g # f => scalars'[g] = scalars[g]
    BY <2>1 DEF LInv, IInv, TypeOK
  <2>4. scalars'[f].status = scalars[f].status
    BY <2>2, <2>3 DEF ScalarRow
  <2>5. QED
    BY <1>2, <2>3, <2>4, OutsideL DEF Extract
<1>3. CASE Rebuild \/ Seed
  BY <1>3, OutsideL DEF Rebuild, Seed
<1>4. CASE UNCHANGED vars
  BY <1>4, OutsideL DEF vars
<1>5. QED
  BY <1>1, <1>2, <1>3, <1>4 DEF Next

\* Without overlap the verdict of a function is that of the last invocation
\* that executed all it owed and was not killed (runner.rs:587-663).
THEOREM LatestVerdictIsKept ==
    ASSUME ~Overlap PROVE Spec => []LatestVerdictStands
<1>1. LInv /\ [Next]_vars => LInv'
  BY NextL
<1>2. LInv => LatestVerdictStands
  BY DEF LInv, Standing, SettledBy, LastFor, Agrees, LatestVerdictStands
<1>3. QED
  BY <1>1, <1>2, InitL, PTL DEF Spec

=============================================================================
