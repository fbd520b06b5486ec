# A TLA+ verification project for shim-bridge-smoke-tests

This directory holds TLA+ models of the test harness in this repository, the
TLC configurations that check them on small instances, and TLAPS proofs of the
central results. Paths below are relative to the repository root; `test-fn`
stands for `crates/test-fn/src`, `scraper` for `crates/regress-scraper/src`.

## 1. The system

The repository tests *shim bridges*: wasm components that bring PostGIS,
MobilityDB and TimescaleDB functions to SQLite and DuckDB. It holds three Rust
programs and a shell runner that share one SQLite *interface database*.

| Component | State it keeps | Operations |
|---|---|---|
| `test-fn run`, `test-fn batch` (`test-fn/runner.rs`, `status.rs`) | locals of the invocation; writes `scalars`, `test_runs` | select cases, hash artifacts, probe each case, record a row, promote or demote the function |
| DAO (`test-fn/db.rs`) | tables `scalars`, `test_cases`, `test_runs` | `load_scalar`, `load_cases_ex`, `load_cases_by_leaf`, `insert_test_run`, `mark_verified`, `mark_failed`, coverage queries |
| manifest cache (`test-fn/bridge_cache.rs`, `hashing.rs`) | `bridges/<ext>/<fn>/<sig8>_<impl8>/MANIFEST.json` | `ensure`: hash, write a temp file, rename |
| probe (`execute_probe` in `runner.rs`) | a ducklink child and three pipes | spawn, write the script, drain, reap, make one `actual` |
| `test-fn seed` (`seed.rs`) | `test_cases` | upsert every case of a TOML file |
| `regress-scraper` (`scraper/*.rs`) | in-memory list of cases, counts per function | parse upstream `.sql`/`.out` files, tag, emit TOML or insert in a transaction |
| `funcs-md-gen` | what its SELECTs have returned; the document it writes | read names, rows, groups and entity tables, truncate and write the tracking document |
| `scripts/run.sh` | counters, verdicts, temporary files, a scratch directory | for every `.sql` of a directory: preprocess, rewrite, run a CLI, normalise, compare; exit status |
| case corpora, `Makefile` | data | |
| outside | hashes in `scalars`, the wasm files, `psql`, the CLIs | the extractor that records hashes, builds that replace artifacts |

### How they interact

The scraper (directly, or through TOML and `seed`) fills `test_cases`; the
extractor fills `scalars`. `run` and `batch` read both, execute each case in a
ducklink child and write a `test_runs` row per case, then set the status of the
function and stamp the hashes they tested. A later `run` answers "up-to-date"
from that stamp without executing anything. `coverage` and `funcs-md-gen` report
on the same tables, the latter with one SELECT after another while the others
write. Nothing but single SQL statements, the transaction of `--insert-into`
and one rename is atomic: there is no lock, no transaction around an
invocation, and every invocation may be killed at any point. `run.sh` uses no
database: it shares the CLIs and the case directories with the rest.

### What is hard

* **Concurrency.** Several invocations, `seed`, the extractor and builds act on
  one database and one set of files. Values are read at the start of an
  invocation and used at its end.
* **Incomplete work.** Caps, skip tags, single-case runs, print mode, kills and
  failed statements all leave a suite partly executed; none may move a verdict.
* **Processes and pipes.** A probe is two processes and three bounded pipes,
  without a timeout.
* **Persistence.** An import may be killed and repeated; the manifest is
  replaced under readers and other writers; the tracking document is truncated
  before its last reads.
* **Text passes with scanners of their own.** Comments are stripped, statements
  split, calls and labels found, casts injected and scripts refolded by
  separate passes that must agree on what a literal is.
* **Exit statuses.** The shell runner tells its verdicts by an exit status
  under `set -e` and `|| true`, and cleans up through traps.

What makes each part correct: a verdict has the evidence of one complete
invocation (`run`/`batch`); a cached answer is for exactly the hashes tested
(DAO, `status.rs`); a manifest is whole (cache); a case passes only on a whole,
error-free output (probe); an import ends with exactly the rows it emitted
(scraper, `seed`); a probe asks for what its case's expected row holds (text
passes); a document leaves out no function and a report counts what a batch
would execute (`funcs-md-gen`, coverage); an exit status of zero means that no
case failed (`run.sh`). `PROJECT.json` lists every hazard at its line with the
property that covers it, or the reason why none does.

## 2. Modules

| Module | Models | Actions and code |
|---|---|---|
| `InterfaceDb` | rows and statements of `test-fn/db.rs`, `status.rs` | operators, one per SQL statement: `LoadCasesEx`, `LoadCasesByLeaf`, `MarkVerified`, `MarkFailed`, `IsCacheHit` |
| `TestFn` | `run`, `run_batch` and their surroundings | `RunCached`, `RunLoad`, `BatchSelect` (selection); `HashBridge`, `BatchHashProvider`, `Ensure`; `RunLoadCases`, `BatchStamp`; `SkipCase`, `PrintCase`, `ProbeCase`, `EndLoop` (loop); `Promote`, `Finish`; `Abort`; `Extract`, `Rebuild`, `Seed` (outside) |
| `TestFnProofs` | theorems about `TestFn` | |
| `ManifestRegister` | what `ensure` promises: an atomic register | `Publish` |
| `ManifestCache` | the write and rename of `ensure`, system call by system call | `Begin`, `OpenTmp`, `WritePart`, `Rename`, `Crash` |
| `ManifestCacheProofs` | the refinement of `ManifestRegister` | |
| `Probe` | `execute_probe` against an arbitrary child | harness: `Spawn`, `WriteScript`, `CloseStdin`, `Drain`, `Return`; child: `ChildRead`, `ChildPrint`, `ChildWrite`, `ChildExit`, `ChildBailOut` |
| `ProbeProofs` | theorems about `Probe` | |
| `CaseImport` | the scraper's statement loop, its two sinks, `seed` | `Start`, `ScrapeStatement`, `EndScrape`, `InsertCase`, `Commit`, `SeedCase`, `EndSeed`, `Crash` |
| `CaseImportProofs` | theorems about `CaseImport` | |
| `Coverage` | the reports of `test-fn coverage --by leaf` and `--by function` | `Import`, `Reseed`, `Record` fill the tables; `ByLeaf`, `ByFunction`, the status histogram are the reports |
| `FuncsMdGen` | `funcs-md-gen` over the tables of `Coverage` | `Start`, `ReadNames`, `WriteLine`, `ReadRows`, `ReadGroups`, `LookUp`, `Create`, `WriteFunctions`, `HeadSection`, `ListSection`, `Finish`, `Die`; in between `WriteCases`, `SetStatus`, `AddEntity` of others |
| `FuncsMdGenProofs` | theorems about `FuncsMdGen` and `Coverage` | |
| `SqlText` | `strip_comments` and `split_statements` (`scraper/parse.rs`) | operators on sequences of bytes |
| `SelectList` | call and label extraction, cast injection (`parse.rs`, `preprocess.rs`) | operators on the tokens of a SELECT list; `Past` is what the scanner of the cast injection learns from one token |
| `EchoIndex` | `build_echo_index` (`scraper/main.rs`) over what `psql` prints | operators on blocks and lines of an `.out` file |
| `SmokeScript` | the `sed`/`awk` rewriting of a preprocessed script in `run.sh` | operators on sequences of characters |
| `SmokeRun` | the case loop of `run.sh` | `NextCase`, `MakeLoader`, `PreprocessFails`, `Preprocess`, `RunCli`, `Compare`, `Report`, `CommandFails` |
| `SmokeRunProofs` | theorems about `SmokeRun`, and about the statements of a script that `SmokeScript` rewrites; extends `TextProofs` | |
| `Selection` | the elements of a sequence at given positions, in order: the filters of the text modules and of `SmokeRun` use it instead of `SelectSeq`, which no prover can expand | |
| `TextProofs` | theorems about the text passes: all of `SqlText`, `SelectList` and `EchoIndex`, and the lines of a script that `SmokeScript` folds | |
| `FoldLemmas` | what the folds of the community modules compute: sums over finite sets, greatest members, left folds over sequences; used by `CaseImportProofs`, `FuncsMdGenProofs`, `SmokeRunProofs` and `TextProofs` | |
| `MCTestFn`, `MCCaseImport`, `MCReports`, `MCTexts`, `MCSmoke` | instances for TLC | `MCTexts` grows the inputs: `GrowRegress`, `GrowList`, `GrowRow`, `GrowOut`, `GrowSmoke` |

`TestFn` extends `InterfaceDb` and contains the whole of `ensure` as one action
and the whole of a probe as one action; `ManifestCache` and `Probe` open those
two steps up. `TestFn!Seed` is one statement of `CaseImport!SeedCase`. `Coverage`
extends `InterfaceDb` too, so that its reports are compared with the very
selection a batch makes (`LoadCasesByLeaf`); a report is a single read-only
statement and therefore an operator on the state, not an action. `FuncsMdGen`
extends `Coverage`, so that document, report and batch are compared over one
database. The text modules are pure: each algorithm of the code stands beside a
reference definition of what it should compute, and `MCTexts` compares the two.
Their results are data for `CaseImport` and `SmokeRun`.

### What the models leave out, and why that is sound

* **Data.** SQL, outputs, notes and versions are not represented; a case is its
  key, a hash a model value, an artifact a build number. A probe's verdict is
  any verdict. `sig8`/`impl8` are taken as the whole hashes, so two hashes that
  agree in eight characters are not modelled.
* **`ran_at` is unique.** Time stamps are nanoseconds of `Utc::now()`; the model
  takes each as the next value of a counter. A clock set back is not modelled.
* **Statements are the grain.** Local computation is folded into the statement
  before it. The SELECTs with which one batch loads its cases are one step, and
  the snapshot of its `scalars` rows is another (a batch reads two tables at
  two times, not at many). `execute_probe` and `insert_test_run` are one step:
  nobody observes the time between them but a kill, and a kill there is the same
  as one before the probe.
* **Flags that cannot be off.** `--keep-going`, `--emit-pg-only` and
  `--skip-binary` are boolean flags with default `true`, so the command line
  cannot clear them; the branches behind them are left out.
* **The leaf of `--leaf` is a LIKE pattern.** `Alike` says which leaf names the
  pattern made of a name matches: itself, and by `_` or by case perhaps others.
* **Text.** Characters are classes: one letter stands for all, a doubled quote
  is two literals that touch, a data line of a `psql` output is a row, and
  what a CLI prints is a list of lines of a few kinds. Regular expressions and
  patterns over names are not modelled. Where the code pushes bytes `as char`,
  a byte above 0x7F becomes another character (`AsChar`), and a character
  outside ASCII two of them (`AsChars`); that `trim` takes two of these for
  blank (0x85, 0xA0) is left out.
* **A document** is the set of entries it has, per section; glyphs, titles and
  table layout are left out.
* **`suite`, `before`, `starts`**, and in `FuncsMdGen` `known`, `covered`,
  `writes`, `quiet`, are history: the code keeps no such thing, the properties
  and bounds need them.

## 3. Runs

`tlc -config <cfg> <module>`; module names as in `PROJECT.json`.

| Run | Question | Result |
|---|---|---|
| `testfn_overlap` | Do verdicts and cached answers stay backed when two invocations, the extractor, builds and kills interleave? | holds (`VerifiedIsBacked`, `CachedAnswerSound`, `VerdictNeedsWholePlan`) |
| `testfn_sequential` | One invocation after another: does the last complete one decide, are tagged cases never executed? | holds (`LatestVerdictStands`, `BatchSkipsTagged`) |
| `testfn_leaf` | Does a promotion mean the full suite passed? | no: `batch --leaf` judges by a slice |
| `manifest_serial` | Is a manifest overwritten atomically, with kills, one invocation at a time? | holds (refines `ManifestRegister`) |
| `manifest_overlap` | And with overlapping invocations? | no: they share the temp file |
| `probe` | When does a case pass, when is there a row, what can hang? | holds (`PassIsEarned`, `NoSilentCase`, `OnlyAWedgeHangs`) |
| `probe_epipe` | Does every child that bails out get a row? | no: not when it leaves before it has read the script |
| `caseimport` | What is in `test_cases` after kills, repeats and upstream changes? | holds (`TableIsImport`, `InsertIsAtomic`, `LimitCutsAtLimit`) |
| `reports` | Do the reports count what a batch executes, keep the backlog whole and agree with each other? Does a document generated between writes lose a function, and does an undisturbed one agree with the reports? | holds (`ReportIsOfTheBatch`, `BacklogRegardless`, `AxesAgree`, `EveryFunctionPlaced`, `QuietReportAddsUp`, `DocumentMatchesCoverage`) |
| `texts` | Do the text passes find the statements, ask for what a case expects, bind a SELECT to its own rows and keep the statements of a rewritten script? | holds (`SplitFindsStatements`, `ProbesFitCases`, `CastingIsIdempotent`, `EchoesBindOwnRows`, `RewriteKeepsStatements`, `FoldedLinesDispatch`) |
| `smoke` | Does the exit status tell the verdicts, does a pass show the expected output, which temporary files are left? | holds (`StatusTellsVerdicts`, `PassShowsExpected`, `HandEditsChangeNothing`, `LeftoversAreOfPreprocessing`) |
| `caseimport_toml` | Does a pg-only case arrive tagged? | no: the TOML has no tags |

The violated properties quote what the code says of itself; `PROJECT.json`
"findings" gives the lines. A passing run of each state machine also checks its
type invariant. The text properties name the conditions under which the code's
pass and the reference agree: a script without a stray `$`, an `.out` file
without a statement that prints nothing, a shell script as the preprocessor
prints one, without a `;` in a literal. Of a statement with a character outside
ASCII `SplitFindsStatements` does not claim the text, of the first one not the
line, and `CastingIsIdempotent` leaves open what a second pass makes of such
characters outside literals. Where the code's comments promise more than these conditions, section 5
says what it does instead.

### Bounds and why they are enough

* `TestFn`: two functions, one with two cases (so that a suite can be half
  executed) and one with one; two invocations; one outside change (`MaxEnv`); two
  hashes. Overlap needs exactly two parties: every hazard listed is between an
  invocation and one other actor. The proofs cover any number. The second
  function starts without hashes, so that the blank stamp occurs. Among the tables
  it starts with is one in which all cases of a function are fixture_bad. Symmetry
  permutes invocations, where two of them overlap.
* `ManifestCache`: a manifest of two writes (`Part`), so that it can be half
  written; two runners; four ensures in sequence (`MaxBuilt`), two overlapping.
* `Probe`: pipes of one unit (`Cap`), scripts and outputs up to three
  (`MaxScript`, `MaxLines`), so that either can outgrow its pipe, and an output
  can hold a row, an error and chatter in any order on two streams.
* `CaseImport`: two functions (one unknown to the catalog), two corpora with
  colliding keys, calls up to three per statement, `--limit` of one or none, four
  program starts (`MaxStart`): an import, a kill of it, its repeat, another one.
* `reports`: three cases of two functions, one of which may have no row in
  `scalars`; two leaves, the name of one matching the other as a LIKE pattern;
  one write of others during a generation (`MaxWrites`), which can fall between
  any two SELECTs; one entity section. All four settings of the two report
  flags are compared in every state. A report only tests counts against zero,
  so a status recorded once stands for any number of rows. The constraint
  `Bounded` generates documents over databases without runs and skip tags and
  prints reports over one catalogue: the generator reads neither runs nor skip
  tags and the reports read no catalogue, so the product of the two would show
  nothing more.
* `texts`: every script of up to six parts (quotes, dollar tags, comment marks,
  semicolons, newlines, a letter, a byte above 0x7F), every SELECT list of up to
  five tokens, every row of up to six tokens with comments and casts, every
  `.out` file of up to four blocks, every shell script of up to seven
  characters. A scanner's state is one of a few modes, and six parts open, close
  and reopen any two of them.
* `smoke`: directories of two cases with and without `.expected` and
  preprocessor, on a native CLI and on ducklink; the outputs of `MCOutputs` are
  one for every branch of the normalisation (blank, prompt before and behind a
  value, chatter, text before a value, value before text). One expectation, and
  one output, has an empty line between two numbers, which only the ducklink
  whitelist tells from none.

Deadlock is checked in no run: every one of the systems may stop (invocations
over, bounds used up, a wedged probe, a script that has left, texts at their
longest).

### Fairness

`Probe!FairSpec`: weak fairness of the harness and of the child's reading, of a
write it has begun and of leaving at the end of its input; none of printing or
bailing out. So the run shows that, with a child that does not hang on its own,
only the two full pipes can.

## 4. Proofs

`tlapm <module>` checks everything below from the assumptions named in the
modules: `CatalogueAssumption`, `OrderAssumption`, `NoRowAssumption`
(`InterfaceDb`), `RequestAssumption` (`TestFn`), `ManifestAssumption`,
`ProbeAssumption`, `ImportAssumption`, `LeafNamesAssumption` (`Coverage`),
`CataloguesAssumption` and `NoFnRowAssumption` (`FuncsMdGen`),
`SmokeAssumption`, `EchoAssumption` (`EchoIndex`), `NoLabelAssumption` and
`BlocksAssumption` (`MCTexts`). Functions, cases, hashes, invocations, command
lines, pipe sizes, corpora, limits, leaves, sections, expectations, outputs and
the number of outside changes are arbitrary. TLC evaluates each assumption on
the instances.

`ImportAssumption` says besides types that `MaxCalls` bounds the calls of a
statement, which it is there for; `SmokeAssumption` that expectations and
outputs are sequences of lines, and lines of pieces; `EchoAssumption` that
having no row is told from every row and every text of a SELECT (it is the
absence of a key in a map); `BlocksAssumption` that the constants of the `.out`
files TLC grows are among those. Four assumptions say something of the data.
`OrderAssumption`: the cases of a function stand together in the order of the
loop, as `ORDER BY function_name, case_name` makes them. `ProbeAssumption`: no
case expects one of the diagnostics the harness puts for an output it does not
have. `RequestAssumption`: the system starts without verified functions, so that
every stamp is one of the model's. `LeafNamesAssumption`: no leaf has the name
of a mark (`pg_only`, `fixture_bad`, `<untagged>`), and leaves and cases are
finitely many.

| Theorem | Module | States |
|---|---|---|
| `TypeCorrect` | `TestFnProofs` | `Spec => []TypeOK` |
| `VerdictsAreBacked` | | `Spec => []VerifiedIsBacked` |
| `CacheIsSound` | | `Spec => CachedAnswerSound` |
| `VerdictNeedsEvidence` | | `Spec => VerdictNeedsWholePlan` |
| `TaggedCasesHaveNoRow` | | `Spec => []BatchSkipsTagged` |
| `LatestVerdictIsKept` | | `~Overlap`: `Spec => []LatestVerdictStands` |
| `ManifestTypes` | `ManifestCacheProofs` | `~Overlap`: `Spec => []TypeOK` (of `ManifestCache`) |
| `SerialEnsureIsAtomic` | | `~Overlap`: `Spec => OverwritesAtomically`, the refinement of `ManifestRegister` |
| `SerialManifestIsWhole` | | `~Overlap`: `Spec => []ManifestIsWhole` |
| `PassesAreEarned` | `ProbeProofs` | `Spec => []PassIsEarned` |
| `NoCaseIsSilent` | | `Spec => []NoSilentCase` |
| `ProbeTypes` | | `Spec => []TypeOK` (of `Probe`) |
| `ImportTypes` | `CaseImportProofs` | `Spec => []TypeOK` (of `CaseImport`) |
| `ImportIsAtomic` | | `Spec => []InsertIsAtomic` |
| `ImportTable` | | `Spec => []TableIsImport` |
| `LimitIsExact` | | `Spec => []LimitCutsAtLimit` |
| `GeneratorTypes` | `FuncsMdGenProofs` | `GenSpec => []GenTypeOK` |
| `ReportedTables` | | `GenSpec => []TypeOK` (of `Coverage`) |
| `DocumentIsComplete` | | `GenSpec => []EveryFunctionPlaced` |
| `QuietDocumentAddsUp` | | `GenSpec => []QuietReportAddsUp` |
| `DocumentIsTheReport` | | `GenSpec => []DocumentMatchesCoverage` |
| `ReportIsTheBatch` | | `GenSpec => []ReportIsOfTheBatch` |
| `BacklogIsRegardless` | | `GenSpec => []BacklogRegardless` |
| `ReportAxesAgree` | | `GenSpec => []AxesAgree` |
| `SmokeTypes` | `SmokeRunProofs` | `SmokeSpec => []SmokeTypeOK` |
| `StatusIsTold` | | `SmokeSpec => []StatusTellsVerdicts` |
| `LeftoversAreKnown` | | `SmokeSpec => []LeftoversAreOfPreprocessing` |
| `PassIsShown` | | `SmokeSpec => []PassShowsExpected` |
| `HandEditsAreSafe` | | `SmokeSpec => []HandEditsChangeNothing` |
| `RewrittenScriptsKeepStatements` | | for every set `A` without the splice and every sequence `t` over it: `StatementsSurvive(t)`; `TextSpec => []RewriteKeepsStatements` |
| `CastingSettles` | `TextProofs` | for every sequence `s`: `CastingAgainIsNoChange(s)`; `TextSpec => []CastingIsIdempotent` |
| `FoldedLinesAreStatements` | | for every sequence `t`: `OneStatementPerLine(t)`; `TextSpec => []FoldedLinesDispatch` |
| `ProbesFitTheirCases` | | for every set `A` such that `NoLabel` is no sequence over `A`, and every sequence `s` over it: `ProbeFitsItsCase(s)`; `TextSpec => []ProbesFitCases` |
| `BoundEchoesAreOwn` | | for every sequence of `Blocks`: `BoundRowsAreOwn(blocks)`; `TextSpec => []EchoesBindOwnRows` |
| `PassesFindStatements` | | for every sequence `t` over any set: `PassesAgree(t)`; `TextSpec => []SplitFindsStatements` |

Each of the invariants below is proved inductive with one lemma or step per
action; the theorems follow from it.

**`TestFn`.** `VerifiedIsBacked` is not inductive: that every row of a backing
invocation passed follows only if the locals of an invocation agree with the
rows it has written. The invariant `IInv` adds

* `Phased`: what each local holds by phase (no time stamp before the loop, a
  row read for every function of a `run`);
* `Tallied`: `pass`, `fail`, `skipped` and `todo` are parts of the plan, and how
  they split it by command;
* `Clocked`: time stamps of different invocations differ and none exceeds the
  clock, so that rows and stamps are never confused;
* `Logged`: the tallies of an invocation are the rows that carry its time stamp;
* `Stamped`: the conjunct for the verified rows themselves.

The action properties follow from `IInv` and one look at the only action that
can do it (`RunCached`, `Promote`).

**`LatestVerdictStands`** holds while invocations do not overlap: of two that
do, the one with the older time stamp may write its verdict last. The invariant
`LInv` joins `IInv` with

* `Alone` and `Newest`: at most one invocation is under way, and its time stamp
  exceeds all others;
* `Swept`: the loop goes through the plan in order and, cut by a cap, is left
  before a case that was to run;
* `Standing`: the property already during the promotion, for the functions that
  have had their turn.

The point of the argument is `CompleteIsJudged`: an invocation with a row for
every case it owes also judges. A batch judges against the cases it has not
*skipped*, owes those it would not skip, and a cap may leave fixture_bad cases
that it never reached. `Swept` says that the loop is left at a case that was to
run, and by `OrderAssumption` that case belongs to another function, or the
invocation would not be complete: so what was not reached belongs to another
function too.

**`ManifestCache`** is proved while ensures do not overlap; run
`manifest_overlap` shows that the assumption is needed, and
`SerialManifestIsWhole` that the overlap is the only cause. `MInv` joins
`TypeOK` with `Alone`; `Writing`: the writer's descriptor is the inode the temp
name points to, and that inode holds exactly the parts written so far, none of
a dead predecessor; `PublishedWhole`: the published inode is not the temp
file's, is whole, and is older than the ensure under way. `PublishedWhole` alone
is not inductive: the rename publishes a whole file only because `Writing` knows
what the temp file holds. `StepPublishes` and the lemmas before it show that a
step leaves the published value alone or replaces it by that of a later ensure,
which is what the register allows.

**`Probe`.** `PInv` adds to the two properties only `Staged`: a row exists only
once the probe has returned, and the harness waits only when nothing is unsent.
The rest is that a verdict is the last step, so that what the child does later
cannot contradict it, and that a diagnostic of the harness is no expected value.
`PTypes` is `TypeOK` with the domains of the two functions that describe the
streams and the line the child is blocked on, which it writes next.

**Folds.** A sum over a set, the greatest member of one and a left fold over a
sequence are recursive functions on the subsets of a finite set, or on an
interval. What they compute is proved in `FoldLemmas` without an induction
scheme: of the subsets (or numbers) at which the claim fails, a smallest one
would exist, and its equation says that it does not fail there. The lemmas that
follow say what the models need: a sum of zeros and ones is a cardinality, a
sum of shares of disjoint sets is the cardinality of their union, a left fold
is reached by any run of single steps.

**`CaseImport`.** `InsertIsAtomic` needs only `SeedIsOfToml`: the seed phase
belongs to the TOML route, so its single statements never touch a table that a
transaction is to protect. `TableIsImport` needs to know what a table holds in
the middle of an import, and what an earlier, killed start has left in it.
`CInv` joins the types with

* `Scraping`: the statements before the current one have been scraped, and
  scraping is a function of corpus and limit, so that a repeated start gets the
  same cases (`SeedList`: the TOML has them in another order);
* `Inserting` and `Seeding`: the transaction, or the table, has what the cases
  before the current one say, key by key, and nothing else changed;
* `PartlySeeded`: whatever `seed` was killed at, the table is one that the
  repeat can reach the same end from. Without `--replace` the first claim of a
  key wins, with it the last, and the rows of a dead predecessor change neither;
* `Finished`: the property itself, in the terms of the others.

`LimitCutsAtLimit` has an invariant of its own, `LInv`: while the scraper runs,
the count of a function is the number of its cases, and that is what the calls
behind it offer, cut at the limit (`Counting`); inside a statement the same
holds call by call.

**`FuncsMdGen`.** `GInv` follows the order of the SELECTs. Rows and cases are
never deleted, so what was there at the start is there at every read
(`StillThere`); a function then known has a row when the rows are read, or a
case by then (`RowsTold`); one with a case is in the groups, read later
(`GroupsTold`); one with a row and no case is in the uncovered list. With the
two reads in the other order a function inserted in between would be in
neither. For a generation nobody disturbs `QInv` adds that what has been read
is what the tables still say: `ReadRight` for the SELECTs before the file is
created, `CountedRight` for the case counts looked up while it is written,
`HeadedRight` for the heading of a section, read before its list.

**`Coverage`.** The three properties of the reports follow from `TypeOK` and
from sums: each column is a count over the cases charged to a line, so a sum
over lines is a cardinality as soon as no case is charged to two of them.
`OneLeaf`, that a case carries at most one leaf tag, is an invariant of its
own, kept by imports and seeds alike.

**`SmokeRun`.** `SInv`: every case before the current one has its verdict
(`Settled`), `fail` is zero only without a failed one (`Counted`), the status is
set when the script leaves and not before (`Exited`), a case has an output only
from its run on (`Shown`), and the temporary files are those of the current
step, those preprocessing has left, and the scratch directory (`Litter`).
`JInv` adds `Judged`: only a case with an expectation is run, and only the
comparison passes one. The rest of `PassShowsExpected` and
`HandEditsChangeNothing` is about the normalisation. Each of its filters is
`Selected`, the lines at the positions it keeps, in order: so what it returns
embeds in what it was given, and a blank added behind a line, or a blank line
at the end, leaves the normalised expectation alone. What such an edit can
change is the whitelist, which tests the file as written. The proof shows how
far that goes: a numeric expectation may lose the whitelist, and a case that
failed then passes only if its expectation has an empty line between its
numbers, which no whitelisted output can have.

**Text passes.** The casted row is the original with a cast behind the closing
quotes of some literals and two tokens for each wide one outside literals.
`Spread` says so position by position: where each token of the original stands
in the result, and that only casts and second bytes stand in between
(`CastsSpread`). What the scanner knows at a token (`StateAt`) is carried along
by `Past`: a cast follows a closing quote and is code without a name, a doubled
token is read where the first one was, so at each token the scanner knows along
the casted row what it knew along the original (`StatesOfSpread`). Then a
literal that the second pass would cast is one that the first pass wanted to
cast, or that had a cast already, and either has a cast behind it now
(`CastsSettle`). Hence the second pass adds no cast; all it still does is to
double wide tokens, of which a row in ASCII outside its literals has none.

That a probe fits its case is the same argument twice. `Embeds` says that one
list stands in another: its tokens keep their order and bareness, whatever the
larger list has besides is no bracket, no function and no stop word outside
literals, and nothing is put behind a name. Then brackets balance at the same
tokens, and the calls are the same in the same order. A list stands so in the
casted one, where only casts and second bytes stand in between, and a list
without its label in the list with it: everything up to the closing quote is
inside the literal, and the comma behind it is the one column that goes. The
proof assumes that having no label is told from every label
(`NoLabelAssumption`, which TLC evaluates); in the code it is `None` of an
`Option`.

For a folded script the proof follows the pipeline. `Sedded`: the lines `sed`
leaves have together the quotes of the script, since it cuts at newlines,
semicolons and blanks only, and a line has a semicolon at its end or not at all.
`Folded`, kept by every record of the `awk` program: `in_str` is the parity of
the quotes read so far, what is held back has that parity and all its semicolons
inside literals, and every line that is out is `Whole`: its quotes are even, and
its one bare semicolon stands at its end. A whole line has no statement behind
its semicolon, so it is read as at most one; and at the end of a script whose
literals are closed nothing is held back.

For the echo index, `Laid` says where what `psql` printed for each block stands
in the file, `BlockAt` which lines those are, and `EchoIs` what the scan makes
of them: an echo that can be read ends inside its own block (one with a comment
behind its semicolon does not, and has no key), and what is bound to it is the
one row of the rowset that is not blank, or nothing (`OnlyRowBound`,
`NothingBound`). So a row bound to a SELECT is from a block of that SELECT.
That it is from the first one needs that the scan gets there: it looks at every
start that no earlier echo runs past (`EchoesSeen`), and an echo runs past its
block only if it is noted or silent. The theorem takes any number of blocks,
texts and rows, with the kinds of block that `Printed` tells apart.

For the two passes over a regress script the proof compares two scans of two
texts. A literal is first characterised without the scanners, by positions:
`Quoted` says where one between quotes ends, `Tagged` where a dollar-quoted one
does. The stretches of a scan then become a grid: `PlacesOf` is the set of
positions where one starts, each position lies in exactly one stretch
(`InOneStretch`), and what `strip_comments` leaves is the selection of the kept
positions (`StripIs`). Going through the places of the first scan in order, the
second scan has a place at each one that is kept (`PlacesMeet`): a literal is
kept whole, so it ends in what is left where it ended in the file; in code no
quote and, by `NoStrayDollar`, no dollar sign starts anything; of a comment only
newlines are left, which the second scan passes one by one. So a kept position
is inside a literal of the one text as it is of the other (`LiteralsKept`), both
cut at the same semicolons, and each statement is the same selection with the
same first character. Newlines are all kept, which carries its line over. That all
this is written byte by byte as characters comes last (`Latin1`): what the passes
look for is in ASCII and stays where it is (`LatinIs`), so the second scan finds
the same places, and a statement is the same stretch, written so (`StmtLatin`).

That a rewritten script has its statements, if no literal holds a semicolon, is
one half of an equivalence (`ScriptSurvives`, of a script as the preprocessor
prints it, with line breaks only in literals: `Reprinted`); the other half, a
lemma and no property of the project, says that nothing but such a literal is in
the way. `StatementsRead` says by positions what the statements of a text are;
the proof first reads them off one character at a time. `Take` is that reader,
with the quotes seen, the complete statements, the text of the one that is not,
the blanks that may belong to it, and the line breaks read inside literals;
`StatementsAreRead` says that what it has at the end is what the positions say.
Then the two stages are followed, not by what they print but by where they leave
the reader. `Follows`: behind each line of the script and behind the lines `sed`
makes of it the reader is in the same state, unless a semicolon in a literal has
been cut behind, and then it has read more line breaks in literals (`SedKept`).
`AwkReads`: what `awk` has printed, and what it holds back, leaves the reader
where the lines do (`AwkReadsOn`); a splice is read as the line break it stands
for. So the rewritten script has the statements of `sed`'s lines. Without a
semicolon in a literal those are the script's own. With one, the line breaks in
the statements tell the difference: every break read in a literal is in a
statement (`Fed`), the script's statements have no others (`FedOnly`), and the
lines have one more at least. The set of characters is arbitrary, but lacks the
splice, which only `awk` writes.

Only model-checked is liveness (`OnlyAWedgeHangs`), which is outside what the
prover handles, and the refutations: a run that expects a violation
shows a trace, not a theorem.

## 5. Plan and limits

Done, the most important behaviour first: `InterfaceDb`, `TestFn` and its
proofs; `ManifestRegister`, `ManifestCache` and the refinement; `Probe`,
`CaseImport`, `Coverage`; `FuncsMdGen`; the text modules; `SmokeRun`; the proofs
of the latter and `LatestVerdictStands`; the proofs of every other safety property
outside the text passes; the proofs of the six properties
of the text passes. Every safety property that a passing run checks is a theorem.

What could follow: the value rewrites of `scraper/normalise.rs` against a
definition of equal values; the label index of the scraper; the character level
of a probe's output.

### Not modelled

* **`scraper/normalise.rs`, `skiplist.rs`, the label index, the name predicates
  and the catalog file**: single-step lookups, tables of patterns and regular
  expressions. Their results are parameters of `CaseImport`: which statement
  mentions which functions, which is tagged, which is too large.
* **File selection**: the walks over directories, sorting of names, and path
  arguments of the programs.
* **`scripts/run.sh` before its loop** (lines 28-276: choice of a CLI, extension
  directory, environment of chained bridges) and the **`Makefile`**: conventions
  about file names, read once and never changed.
* **JSON and table layout** of the reports, percentages, and the version columns.
* **Case corpora, fixtures, documents**: data.
* `load_cases_by_leaf` and `coverage_by_leaf` with `include_pg_only`, which
  nothing calls.

### Known differences no run shows

Met while modelling; each is plain from the lines, or of a kind the model leaves
out.

* `run --print-script` replaces MANIFEST.json before it turns out to be a dry
  run (`test-fn/runner.rs:136` against 206-208).
* The artifacts are hashed once per invocation but opened by every probe, so a
  row may name another build than it ran (`runner.rs:415` against
  `hashing.rs:1-2`).
* `ORDER BY`, `GROUP BY` and `LIMIT` do not end the list in which calls are
  looked for (`parse.rs:303`).
* The label of a SELECT is cut off the probe for every extension but off the
  expected row only by the PostGIS index (`scraper/main.rs:384`); that index
  takes the first row of a result where the runner compares the last.
* An error is found at the start of a line only: a line `D> Catalog Error: ...`
  on stdout is not recognised (`test-fn/runner.rs:951-991`). `Printed("error")` is
  what the code recognises.
* A `SELECT ... INTO` prints no row and takes the row of the next result in the
  echo index.
* Comment stripping and statement splitting push bytes `as char`
  (`parse.rs:59`, 65, 132; `AsChar`), so a literal with an accented letter
  reaches `test_cases` as Latin-1, where `parse.rs:28-33` says that literals are
  preserved, dollar-quoted ones "verbatim". `SplitFindsStatements` claims the
  text of statements in ASCII only.
* The first statement of a script has line 1 wherever its text starts
  (`parse.rs:150` against "1-indexed into the original (pre-strip) file",
  139-140). `SplitFindsStatements` claims the lines of the others only.
* Outside literals cast injection pushes bytes `as char` too
  (`preprocess.rs:180`, 191, 246; `AsChars`), so a character outside ASCII in a
  comment or a quoted identifier is rewritten, and again when a migrated row is
  cast again, where 113-115 says that literals get a cast and nothing else.
  `CastingIsIdempotent` claims no more than that no cast is added then, and that
  a row in ASCII outside its literals is left alone.
* `already_cast` looks past blanks only (`preprocess.rs:310`): a literal whose
  cast stands behind a comment gets another one, against "Preserves literals
  that are already cast" (114-115), in rows "where comments may survive" (177).
* `sed` breaks a line behind every semicolon, those in literals too
  (`run.sh:358`): `'SRID=4326;POINT(1 2)'` gets a line break there, on ducklink
  spliced in as `chr(10)`, against "produces the same string value" (349) and
  "still receives the correct char" (368). `RewriteKeepsStatements` is about the
  scripts without such a literal.
* The coverage line of the tracking document says "{} scalars have at least one
  test case" (`funcs-md-gen/src/main.rs:161`, and over the number of scalars in
  104-111) of the functions in `test_cases`, whether or not they have a row in
  `scalars` (97; `ReadNames`). `QuietReportAddsUp` leaves open whether it counts
  those that have none.
* `batch --leaf` puts the name into a LIKE pattern unescaped (`db.rs:310`): a `_`
  stands for any character and case does not count, so that cases of another
  leaf are executed too, against "Only exact-match tags are checked" (266-268)
  and "only the leaf's own cases" (286-290). `Alike` is that pattern.
* On ducklink the test for a numeric expectation reads the file as written
  (`run.sh:493`): a blank behind a number takes the case from the whitelist, and
  a case that passed may fail, against ".expected files can be hand-edited
  without breaking the comparison" (451-453). By the same way an expectation with
  an empty line between its numbers, which never passes on ducklink (505 drops
  the empty line of the output), may come to pass. `HandEditsChangeNothing`
  states exactly what an edit can change.
* A child that leaves early with status 0 is not modelled: `ChildBailOut` leaves
  with another status, and `ChildExit` at the end of the input.
