------------------------------- MODULE TestFn -------------------------------
(***************************************************************************)
(* `test-fn run` and `test-fn batch` (crates/test-fn/src/runner.rs):       *)
(* invocations that share one interface database and one pair of wasm      *)
(* artifacts with each other, with the extractor that records new hashes,  *)
(* with a build that replaces an artifact and with a `seed` that edits     *)
(* cases.  One action is one statement that touches shared state; local    *)
(* code is folded into the action before it.                               *)
(***************************************************************************)
EXTENDS InterfaceDb

CONSTANTS
    Invocation,     \* processes; each runs one command line
    Request,        \* the command lines an invocation may be given
    InitScalars,    \* contents of `scalars` the system may start with
    InitCases,      \* contents of `test_cases` it may start with
    Overlap,        \* whether invocations may overlap in time
    EnvOps,         \* which of "extract", "rebuild", "seed" happen
    MaxEnv          \* bound on their number

Artifact == {"bridge", "provider"}

\* main.rs's flags.  A run names one function; a batch selects by leaf or by
\* a set of functions (--all is the set of all of them).  `provider` is the
\* file that plays the provider: the bridge itself when the flag is absent.
CommandLine ==
    [cmd: {"run", "batch"}, fns: SUBSET Function, leaf: Leaf \cup {None},
     only: Case \cup {None}, limit: Nat \cup {None}, force: BOOLEAN,
     print: BOOLEAN, provider: Artifact]

ASSUME RequestAssumption ==
    /\ Request \subseteq CommandLine
    /\ \A r \in Request :
          IF r.cmd = "run" THEN \E f \in Function : r.fns = {f}
                           ELSE r.only = None
    /\ InitScalars \subseteq [Function -> {row \in ScalarRow :
            row.status # "implemented_verified" /\ row.lvAt = 0}]
    /\ InitCases \subseteq CaseTable
    /\ None \notin Request
    /\ MaxEnv \in Nat

VARIABLES
    scalars,    \* [Function -> ScalarRow]
    cases,      \* CaseTable
    runs,       \* rows of `test_runs`
    manifest,   \* MANIFEST.json files, one per <function, sig, impl>
    disk,       \* [Artifact -> build number] of the files on disk
    clock,      \* the last value Utc::now() returned
    env,        \* how many outside changes have happened
    inv         \* [Invocation -> the locals of run / run_batch]

vars == <<scalars, cases, runs, manifest, disk, clock, env, inv>>

Run == [case: Case, status: {"pass", "fail"}, ranAt: Nat,
        bridge: Nat, provider: Nat]

Manifest == [fn: Function, sig: Hash \cup {None}, impl: Hash \cup {None},
             bridge: Nat, provider: Nat]

Phase == {"idle", "bridge", "provider", "cases", "stamp", "loop", "promote",
          "done", "cached", "aborted"}

Locals ==
    [pc: Phase, req: Request \cup {None},
     row: [Function -> ScalarRow \cup {None}],  \* load_scalar results
     bridge: Nat, provider: Nat,                \* recorded hashes
     plan: SUBSET Case,                         \* cases loaded
     bad: SUBSET Case,                          \* ... tagged fixture_bad
     suite: SUBSET Case,    \* (not in the code) runnable cases at that time
     todo: SUBSET Case, ran: SUBSET Case,
     pass: SUBSET Case, fail: SUBSET Case, skipped: SUBSET Case,
     ranAt: Nat, fns: SUBSET Function]          \* functions to promote

Idle ==
    [pc |-> "idle", req |-> None, row |-> [f \in Function |-> None],
     bridge |-> 0, provider |-> 0, plan |-> {}, bad |-> {}, suite |-> {},
     todo |-> {}, ran |-> {}, pass |-> {}, fail |-> {}, skipped |-> {},
     ranAt |-> 0, fns |-> {}]

TypeOK ==
    /\ scalars \in [Function -> ScalarRow]
    /\ cases \in CaseTable
    /\ runs \subseteq Run
    /\ manifest \subseteq Manifest
    /\ disk \in [Artifact -> Nat]
    /\ clock \in Nat /\ env \in Nat
    /\ inv \in [Invocation -> Locals]

Init ==
    /\ scalars \in InitScalars
    /\ cases \in InitCases
    /\ runs = {} /\ manifest = {}
    /\ disk = [a \in Artifact |-> 1]
    /\ clock = 0 /\ env = 0
    /\ inv = [p \in Invocation |-> Idle]

-----------------------------------------------------------------------------
(* Selection: the statements before the loop.                              *)

Ended(p) == inv[p].pc \in {"done", "cached", "aborted"}

Becomes(p, locals) == inv' = [inv EXCEPT ![p] = locals]

MayStart(p) ==
    /\ inv[p].pc = "idle"
    /\ Overlap \/ \A q \in Invocation : inv[q].pc = "idle" \/ Ended(q)

\* The idempotency guard of `run`: up to date, nothing is executed.
RunCached(p) ==
    /\ MayStart(p)
    /\ \E r \in Request : \E f \in r.fns :
        /\ r.cmd = "run" /\ r.only = None /\ ~r.force
        /\ IsCacheHit(scalars[f])
        /\ Becomes(p, [inv[p] EXCEPT !.pc = "cached", !.req = r])
    /\ UNCHANGED <<scalars, cases, runs, manifest, disk, clock, env>>

RunLoad(p) ==
    /\ MayStart(p)
    /\ \E r \in Request : \E f \in r.fns :
        /\ r.cmd = "run"
        /\ r.only # None \/ r.force \/ ~IsCacheHit(scalars[f])
        /\ Becomes(p, [inv[p] EXCEPT !.pc = "bridge", !.req = r,
                              !.row[f] = scalars[f]])
    /\ UNCHANGED <<scalars, cases, runs, manifest, disk, clock, env>>

BatchPlan(r) ==
    IF r.leaf # None THEN LoadCasesByLeaf(cases, r.leaf)
                     ELSE LoadCasesEx(cases, r.fns, None, FALSE)

RunPlan(r) == LoadCasesEx(cases, r.fns, r.only, TRUE)

FixtureBad(plan) == {c \in plan : HasTag(cases, c, "fixture_bad")}

\* A batch reads its cases first; the SELECTs of one batch are one step.
BatchSelect(p) ==
    /\ MayStart(p)
    /\ \E r \in Request :
        LET plan == BatchPlan(r) IN
        /\ r.cmd = "batch"
        /\ Becomes(p, [inv[p] EXCEPT
                    !.pc = IF plan = {} THEN "done" ELSE "bridge",
                    !.req = r, !.plan = plan, !.todo = plan,
                    !.bad = FixtureBad(plan),
                    !.suite = Runnable(cases, {FnOf[c] : c \in plan})])
    /\ UNCHANGED <<scalars, cases, runs, manifest, disk, clock, env>>

\* Each artifact is hashed once, the bridge before the provider.
HashBridge(p) ==
    /\ inv[p].pc = "bridge"
    /\ Becomes(p, [inv[p] EXCEPT !.pc = "provider", !.bridge = disk["bridge"]])
    /\ UNCHANGED <<scalars, cases, runs, manifest, disk, clock, env>>

BatchHashProvider(p) ==
    /\ inv[p].pc = "provider" /\ inv[p].req.cmd = "batch"
    /\ Becomes(p, [inv[p] EXCEPT !.pc = "stamp",
                          !.provider = disk[inv[p].req.provider]])
    /\ UNCHANGED <<scalars, cases, runs, manifest, disk, clock, env>>

\* bridge_cache::ensure of `run` goes on to write the manifest of the row's
\* hashes (its temp file and rename are ManifestCache's subject).
Ensure(p) ==
    /\ inv[p].pc = "provider" /\ inv[p].req.cmd = "run"
    /\ \E f \in inv[p].req.fns :
        LET row == inv[p].row[f]
            found == disk[inv[p].req.provider]
            new == [fn |-> f, sig |-> row.sig, impl |-> row.impl,
                    bridge |-> inv[p].bridge, provider |-> found]
        IN /\ manifest' = {m \in manifest : <<m.fn, m.sig, m.impl>>
                                        # <<new.fn, new.sig, new.impl>>} \cup {new}
           /\ Becomes(p, [inv[p] EXCEPT !.pc = "cases", !.provider = found])
    /\ UNCHANGED <<scalars, cases, runs, disk, clock, env>>

\* `run` loads its cases and takes ran_at; without cases it stops here.
RunLoadCases(p) ==
    /\ inv[p].pc = "cases"
    /\ LET r == inv[p].req
           plan == RunPlan(r)
       IN /\ Becomes(p, [inv[p] EXCEPT
                        !.pc = IF plan = {} THEN "done" ELSE "loop",
                        !.plan = plan, !.todo = plan,
                        !.bad = FixtureBad(plan),
                        !.suite = Runnable(cases, r.fns),
                        !.ranAt = IF plan = {} THEN 0 ELSE clock + 1])
          /\ clock' = IF plan = {} THEN clock ELSE clock + 1
    /\ UNCHANGED <<scalars, cases, runs, manifest, disk, env>>

\* A batch takes ran_at and then snapshots the scalars row of every function;
\* a row whose SELECT fails is treated as missing.
BatchStamp(p) ==
    /\ inv[p].pc = "stamp"
    /\ \E found \in SUBSET {FnOf[c] : c \in inv[p].plan} :
        Becomes(p, [inv[p] EXCEPT
                    !.pc = "loop", !.ranAt = clock + 1,
                    !.row = [f \in Function |->
                        IF f \in found THEN scalars[f] ELSE None]])
    /\ clock' = clock + 1
    /\ UNCHANGED <<scalars, cases, runs, manifest, disk, env>>

-----------------------------------------------------------------------------
(* The loop over the cases, in ORDER BY order.                             *)

Upcoming(p, c) == c \in inv[p].todo /\ \A d \in inv[p].todo : c <= d

\* Mutant of Skips: the tag is read again at the time of the case.
SkipsByTagNow(p, c) ==
    inv[p].req.cmd = "batch" /\ HasTag(cases, c, "fixture_bad")

\* Only a batch looks at fixture_bad, and does so before the cap.
Skips(p, c) == inv[p].req.cmd = "batch" /\ c \in inv[p].bad

\* `total_ran >= cap`; without --limit the cap is the number of cases loaded.
CapReached(p) ==
    /\ inv[p].req.cmd = "batch"
    /\ inv[p].req.limit # None
    /\ Cardinality(inv[p].ran) >= inv[p].req.limit

\* `break 'outer`: the cap is looked at before a case that is not skipped
\* and, under --print-script, also after every case printed.
Capped(p, c) ==
    /\ CapReached(p)
    /\ Skips(p, c) => inv[p].req.print /\ inv[p].ran # {}

SkipCase(p) ==
    /\ inv[p].pc = "loop"
    /\ \E c \in inv[p].todo :
        /\ Upcoming(p, c) /\ Skips(p, c) /\ ~Capped(p, c)
        /\ Becomes(p, [inv[p] EXCEPT !.todo = @ \ {c}, !.skipped = @ \cup {c}])
    /\ UNCHANGED <<scalars, cases, runs, manifest, disk, clock, env>>

\* --print-script: the invocation is printed, nothing else happens.
PrintCase(p) ==
    /\ inv[p].pc = "loop" /\ inv[p].req.print
    /\ \E c \in inv[p].todo :
        /\ Upcoming(p, c) /\ ~Skips(p, c) /\ ~Capped(p, c)
        /\ Becomes(p, [inv[p] EXCEPT !.todo = @ \ {c}, !.ran = @ \cup {c}])
    /\ UNCHANGED <<scalars, cases, runs, manifest, disk, clock, env>>

\* execute_probe and insert_test_run.  Nobody observes the time between the
\* two: a crash there is a crash before the probe.  The row carries the
\* recorded hashes; ducklink opens the paths again, so after a Rebuild it
\* executes another file than the one the row names.
ProbeCase(p) ==
    /\ inv[p].pc = "loop" /\ ~inv[p].req.print
    /\ \E c \in inv[p].todo, verdict \in {"pass", "fail"} :
        /\ Upcoming(p, c) /\ ~Skips(p, c) /\ ~Capped(p, c)
        /\ runs' = runs \cup
             {[case |-> c, status |-> verdict, ranAt |-> inv[p].ranAt,
               bridge |-> inv[p].bridge, provider |-> inv[p].provider]}
        /\ Becomes(p, [inv[p] EXCEPT
                    !.todo = @ \ {c}, !.ran = @ \cup {c},
                    !.pass = IF verdict = "pass" THEN @ \cup {c} ELSE @,
                    !.fail = IF verdict = "fail" THEN @ \cup {c} ELSE @])
    /\ UNCHANGED <<scalars, cases, manifest, disk, clock, env>>

\* The loop is exhausted, or left at the cap.
EndLoop(p) ==
    /\ inv[p].pc = "loop"
    /\ \/ inv[p].todo = {}
       \/ \E c \in inv[p].todo : Upcoming(p, c) /\ Capped(p, c)
    /\ Becomes(p, [inv[p] EXCEPT !.pc = "promote",
                          !.fns = {FnOf[c] : c \in inv[p].plan}])
    /\ UNCHANGED <<scalars, cases, runs, manifest, disk, clock, env>>

-----------------------------------------------------------------------------
(* Promotion, one function and one UPDATE at a time.                       *)

OfFn(S, f) == {c \in S : FnOf[c] = f}

\* FnStats of f: what a batch counts toward its verdict.
Denominator(p, f) == OfFn(inv[p].plan \ inv[p].skipped, f)

\* Mutant of Judges: a batch judges what it ran, complete or not.
JudgesPartial(p, f) ==
    \/ inv[p].req.cmd = "run" /\ inv[p].req.only = None
    \/ inv[p].req.cmd = "batch" /\ inv[p].row[f] # None

\* Mutant of Judges: `run` judges by the one case --case picked.
JudgesByOneCase(p, f) ==
    \/ inv[p].req.cmd = "run"
    \/ /\ inv[p].req.cmd = "batch"
       /\ Denominator(p, f) # {}
       /\ Denominator(p, f) \subseteq inv[p].pass \cup inv[p].fail
       /\ inv[p].row[f] # None

\* `run` judges unless --case picked one case; a batch judges the functions
\* all of whose unskipped cases ran and whose row it could read.
Judges(p, f) ==
    \/ /\ inv[p].req.cmd = "run"
       /\ inv[p].req.only = None
    \/ /\ inv[p].req.cmd = "batch"
       /\ Denominator(p, f) # {}
       /\ Denominator(p, f) \subseteq inv[p].pass \cup inv[p].fail
       /\ inv[p].row[f] # None

Verifies(p, f) ==
    Judges(p, f) /\ OfFn(inv[p].fail, f) = {} /\ OfFn(inv[p].pass, f) # {}

Demotes(p, f) == Judges(p, f) /\ OfFn(inv[p].fail, f) # {}

Promote(p) ==
    /\ inv[p].pc = "promote"
    /\ \E f \in inv[p].fns :
        LET row == inv[p].row[f] IN
        /\ scalars' = [scalars EXCEPT ![f] =
             IF Verifies(p, f)
             THEN MarkVerified(@, OrBlank(row.sig), OrBlank(row.impl),
                               inv[p].ranAt)
             ELSE IF Demotes(p, f) THEN MarkFailed(@) ELSE @]
        /\ Becomes(p, [inv[p] EXCEPT !.fns = @ \ {f}])
    /\ UNCHANGED <<cases, runs, manifest, disk, clock, env>>

\* Mutant of Finish: `break` instead of `continue` at a row not found.
FinishAtMissingRow(p) ==
    /\ inv[p].pc = "promote"
    /\ inv[p].fns = {} \/ \E f \in inv[p].fns : inv[p].row[f] = None
    /\ Becomes(p, [inv[p] EXCEPT !.pc = "done"])
    /\ UNCHANGED <<scalars, cases, runs, manifest, disk, clock, env>>

Finish(p) ==
    /\ inv[p].pc = "promote" /\ inv[p].fns = {}
    /\ Becomes(p, [inv[p] EXCEPT !.pc = "done"])
    /\ UNCHANGED <<scalars, cases, runs, manifest, disk, clock, env>>

\* Ctrl-C, a kill, or an error passed up by `?`: a statement that failed or,
\* in `run`, a probe that could not be spawned (a batch counts it as failed).
Abort(p) ==
    /\ inv[p].pc # "idle" /\ ~Ended(p)
    /\ Becomes(p, [inv[p] EXCEPT !.pc = "aborted"])
    /\ UNCHANGED <<scalars, cases, runs, manifest, disk, clock, env>>

-----------------------------------------------------------------------------
(* The outside world, at most MaxEnv times.                                *)

Outside(op) == op \in EnvOps /\ env < MaxEnv /\ env' = env + 1

\* The extractor records new hashes for a function.
Extract ==
    /\ Outside("extract")
    /\ \E f \in Function, s, i \in Hash :
        scalars' = [scalars EXCEPT ![f].sig = s, ![f].impl = i]
    /\ UNCHANGED <<cases, runs, manifest, disk, clock, inv>>

Rebuild ==
    /\ Outside("rebuild")
    /\ \E a \in Artifact : disk' = [disk EXCEPT ![a] = @ + 1]
    /\ UNCHANGED <<scalars, cases, runs, manifest, clock, inv>>

\* One upsert of `seed --replace`: UPDATE and INSERT OR IGNORE both leave
\* the tags empty.
Seed ==
    /\ Outside("seed")
    /\ \E c \in Case : cases' = [cases EXCEPT ![c] = {}]
    /\ UNCHANGED <<scalars, runs, manifest, disk, clock, inv>>

Step(p) ==
    \/ RunCached(p) \/ RunLoad(p) \/ BatchSelect(p)
    \/ HashBridge(p) \/ BatchHashProvider(p) \/ Ensure(p)
    \/ RunLoadCases(p) \/ BatchStamp(p)
    \/ SkipCase(p) \/ PrintCase(p) \/ ProbeCase(p) \/ EndLoop(p)
    \/ Promote(p) \/ Finish(p)

Next ==
    \/ \E p \in Invocation : Step(p) \/ Abort(p)
    \/ Extract \/ Rebuild \/ Seed

Spec == Init /\ [][Next]_vars

-----------------------------------------------------------------------------
(* What the rows of `test_runs` say about an invocation.                   *)

RowsOf(p, f) == {r \in runs : r.ranAt = inv[p].ranAt /\ FnOf[r.case] = f}

\* The cases of f an invocation has to execute before it may judge f.
Owed(p, f) ==
    OfFn(IF inv[p].req.cmd = "batch" THEN inv[p].plan \ inv[p].bad
                                     ELSE inv[p].plan, f)

\* p was to judge f and has a row for every case it owes.
Complete(p, f) ==
    /\ inv[p].req # None /\ inv[p].req.only = None /\ ~inv[p].req.print
    /\ inv[p].row[f] # None
    /\ Owed(p, f) # {}
    /\ Owed(p, f) = {r.case : r \in RowsOf(p, f)}

AllPassed(p, f) == \A r \in RowsOf(p, f) : r.status = "pass"

\* The stamp on f is p's, of the hashes p read, after p saw every case pass.
Backs(p, f) ==
    /\ Complete(p, f) /\ AllPassed(p, f)
    /\ scalars[f].lvAt = inv[p].ranAt
    /\ scalars[f].lvSig = OrBlank(inv[p].row[f].sig)
    /\ scalars[f].lvImpl = OrBlank(inv[p].row[f].impl)

(***************************************************************************)
(* A function is `implemented_verified` only on the evidence of one        *)
(* invocation that executed every case it owed and recorded a pass for     *)
(* each, stamped with the hashes that invocation had read at its start:    *)
(* whatever other invocations, the extractor or a crash did meanwhile.     *)
(* (runner.rs:265-281 and 629-652, db.rs:193-222)                          *)
(***************************************************************************)
VerifiedIsBacked ==
    \A f \in Function : scalars[f].status = "implemented_verified" =>
        \E p \in Invocation : Backs(p, f)

(***************************************************************************)
(* `run` answers "up-to-date" without executing anything only when the     *)
(* very hashes now recorded for the function were read, tested and passed  *)
(* by one invocation.  (runner.rs:105-132, status.rs:5-18)                 *)
(***************************************************************************)
CachedAnswerSound ==
    [][\A p \in Invocation :
         inv[p].pc # "cached" /\ inv'[p].pc = "cached" =>
            \E f \in inv'[p].req.fns, q \in Invocation :
                /\ Backs(q, f)
                /\ inv[q].row[f].sig = scalars[f].sig
                /\ inv[q].row[f].impl = scalars[f].impl]_vars

(***************************************************************************)
(* The verdict of a function moves only when an invocation is promoting    *)
(* that has executed all it owed, and moves the way the rows point: a      *)
(* capped, interrupted, single-case, all-fixture_bad or print-only         *)
(* invocation neither promotes nor demotes.  (runner.rs:434-441, 597-611)  *)
(***************************************************************************)
VerdictNeedsWholePlan ==
    [][\A f \in Function :
         LET Verdict(row) == <<row.status, row.lvSig, row.lvImpl, row.lvAt>> IN
         Verdict(scalars[f]) # Verdict(scalars'[f]) =>
            \E p \in Invocation :
                /\ inv[p].pc = "promote" /\ Complete(p, f)
                /\ AllPassed(p, f) <=>
                     scalars'[f].status = "implemented_verified"]_vars

(***************************************************************************)
(* When invocations do not overlap, the verdict a function carries is that *)
(* of the last complete invocation that was not killed: no function of a   *)
(* batch is passed over, no earlier verdict comes back, and an incomplete  *)
(* one in between changes nothing.  (runner.rs:587-663)                    *)
(***************************************************************************)
LatestVerdictStands ==
    \A f \in Function : \A p \in Invocation :
        /\ inv[p].pc = "done" /\ Complete(p, f)
        /\ \A q \in Invocation :
              inv[q].ranAt > inv[p].ranAt => ~Complete(q, f)
        => (scalars[f].status = "implemented_verified") <=> AllPassed(p, f)

(***************************************************************************)
(* A batch writes no row for a case that carried a skip tag when it was    *)
(* selected, even if a later seed takes the tag away.                      *)
(* (runner.rs:485-498, tests/batch_fixture_bad.rs:4-6)                     *)
(***************************************************************************)
BatchSkipsTagged ==
    \A p \in Invocation : \A r \in runs :
        r.ranAt = inv[p].ranAt /\ inv[p].req.cmd = "batch"
            => r.case \in inv[p].suite

-----------------------------------------------------------------------------
(* What the documents say and the code does not do.                        *)

(***************************************************************************)
(* "only touch status when we ran the full suite" (runner.rs:265), and     *)
(* "promotes ... on pass-of-all" (main.rs:8-9): whoever stamps a function  *)
(* has passed every runnable case the function had when it was selected.   *)
(***************************************************************************)
VerifiedOnFullSuite ==
    \A f \in Function, p \in Invocation :
        /\ scalars[f].status = "implemented_verified"
        /\ scalars[f].lvAt = inv[p].ranAt
        => OfFn(inv[p].suite, f) \subseteq inv[p].pass
=============================================================================
