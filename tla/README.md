# Launchbound in TLA+

Launchbound tunes the launch configuration of a GPU kernel. It enumerates a
configuration space, lets an analyzer refuse the configurations it can prove
unsafe, compiles what is left, measures it on a machine with a GPU, and reports
the result. This directory models the parts of it whose correctness depends on
the order in which things happen: processes that die and are started again, a
watchdog thread, a memo, a cache, a scratch directory and a run directory that
several commands share; and the pure algorithms in between, at their edges.
Paths below are relative to the repository (`src/crates/...` is
`crates/...` there; `run.rs` alone means `launchbound-bench/src/run.rs`).

Contents: 1 inventory of the system; 2 plan; 3 modules and the code; 4 runs;
5 fairness; 6 what is proved; 7 what is only model-checked; 8 abstractions and
assumptions; 9 where the code and its comments disagree; 10 not modelled.

## 1. Inventory

| Component | Code | State it keeps | Operations |
|---|---|---|---|
| Measured sweep | `launchbound-bench/src/run.rs` | `results.json` and its temporary file; the document in memory; the watchdog's flag | `run_plan` (resume, loop, budget, outcome), `Results::checkpoint`, `arm_watchdog` |
| Safety gate | `launchbound-prune` (`runner.rs`, `findings.rs`, `decide.rs`) | one outcome per specialization key, the verdicts; `params.rs` of the scratch copy | `prune_kernel`, `run_reconverge`, `read_stream`, `decide` |
| Compile and artifact cache | `launchbound-build` (`compile.rs`, `cache.rs`, `scratch.rs`) | the scratch copy, the emitted `.ptx`, the cache directory | `compile`, `prepare_scratch`, `write_params`, `source_hash`, `lookup`, `store` |
| Run directory | `launchbound-cli/src/main.rs`, `launchbound-report` | `verdicts.json`, `plan.json`, staged PTX, `results.json` in one directory | `prune`, `stage`, `apply`, `tune`, `report` |
| Box runner | `launchbound-runner/src/main.rs` | none of its own | resolves options and calls `run_plan` |
| Configuration space | `launchbound-space` | none (pure) | parse, enumerate, constraints, ids, `spec_key`, `block_threads` |
| Plan resolution | `launchbound-bench/src/plan.rs` | none (pure) | expressions of `kernel.toml` to grid, block, arguments |
| Statistics | `launchbound-bench/src/stats.rs` | none (pure) | outlier rejection, quantiles, interval overlap |
| Search order | `launchbound-search` | none (pure, seeded) | a permutation of the plan |
| CUDA binding | `launchbound-bench/src/cuda.rs` | driver context | open, load, launch, time |
| Metal backend | `launchbound-metal` | a results document | a sweep with no gate, no resume, one checkpoint |
| Analytical model | `launchbound-model` | none (pure) | cost formulas |
| Terminal UI | `launchbound-tui` | cursor and tab | keys to views |

**How they interact.** `stage` runs the gate and then the compiler in one
scratch directory per kernel (`scratch.rs:115-121`), and hands the run directory
to the box. The runner on the box measures into `results.json` in that
directory, possibly over many processes. `report` joins verdicts, plan and
results by configuration id. There are no messages and no locks: components
communicate through files, and the only threads are the sweep's watchdog and
heartbeat.

**What is hard.** For each component, the behaviours that unit tests hardly
reach and the properties that make it correct:

- *Sweep.* The machine may vanish at any instruction; a hung launch cannot be
  cancelled, so a watchdog ends the process, and it may decide to do so just
  before it is disarmed; the process is started again on whatever is on disk.
  Correct means: the document is always readable, has one record per candidate,
  never loses a measurement, and a candidate the gate refused is launched at
  most once *ever*; a sweep that returns says truthfully whether it is
  complete; and it does complete.
- *Gate.* One analyzer run serves many configurations; the analyzer may fail in
  many ways; the rule depends on the launch shape at exactly one warp; another
  command may rewrite `params.rs` in between. Correct means: nothing is admitted
  by omission, no admitted configuration has a hazard in its own source, a
  smaller block is never worse, every configuration gets exactly one verdict.
- *Build.* The crate is edited while it is copied, hashed and compiled, the
  process may die half-way through a write, and entries stay for good. Correct
  means: what is served was built from what was asked for, as it is now.
- *Run directory.* Files of different stages meet in one directory. Correct
  means: a report joins a verdict, an artifact and a measurement of the same
  source.
- *Space, plan resolution, statistics, search, model, UI.* Pure functions with
  edges: overflow, zero, empty and infinite inputs, carries, ties, permutations.
  Correct means: a constraint means what its grammar says, in integers; no
  configuration is lost or repeated; what is launched is what was judged; a
  summary describes its sample; three different orders (by median over all, by
  median over the admitted, by interval) do not contradict each other on screen.

`PROJECT.json` lists each hazard at its line, with the properties that cover it.

## 2. Plan

In order of importance. All of it is built except what item 6 lists.

1. **Sweep** over **Measurements** (abstract), **SweepProofs**.
2. **Gate**, **GateProofs**.
3. **BuildCache** over **PtxStore** (abstract), **BuildCacheProofs**.
4. **RunDir** with **Ranking**, **RunDirProofs**: the commands that hand one
   directory on. It takes from the three components above what they promise (a
   gate record, an artifact per version, one outcome per candidate) and adds what
   none of them sees: documents of different stages, versions and backends in one
   place, joined by id.
5. **Constraints**, **Space**, **Sorting**, **Stats**, **Estimates** and
   **Ranking**: pure operators; **Tune** is the program that calls them one after
   the other, from `kernel.toml` to the screen. Proofs from the bottom up:
   **FoldProofs** (folds of any step), **ConstraintsProofs**, **StatsProofs**,
   **TuneProofs**.
6. Left: the ranking of `tune --backend model` and of `model` without results
   (printed text, no state).

## 3. Modules and the code

### Sweep.tla: `run_plan`

`disk` and `tmp` are `results.json` and `results.json.tmp`; `results` is the
document in memory; `pc` is where the sweep thread is; `after` is where it goes
after the checkpoint it is in (there are three call sites); `pending` is the
rest of the order; `armed` and `firing` are the two halves of the watchdog:
armed by the sweep thread, and past its deadline with the flag read.
`launches`, `fired`, `faults` are history.

| Action | Code |
|---|---|
| `Start` (through `Begins`) | `run_plan` up to the loop: `Results::load`, resume or a fresh document, `budget_exhausted = false` |
| `StartFails`, `Crash`, `CheckpointFails` | `Device::open` fails; the box dies; a write or rename fails |
| `Skip` | the candidate already has a record |
| `StopOnBudget` | the budget is spent: flag and `break` |
| `VisitSafe` | launch with no watchdog |
| `VisitUnsafe` | push the `timeout` record, checkpoint |
| `ArmWatchdog` | after that checkpoint: arm and launch |
| `Measured` (through `Appends`) | the launch returned: disarm, `retain`, push, total, checkpoint |
| `Hang` | the launch never returns |
| `CheckpointWrite`, `CheckpointRename` | `fs::write` of the temporary file; `fs::rename` |
| `FinishLoop`, `Return` | total, last checkpoint, `Ok` |
| `WatchdogExpires`, `WatchdogExits` | deadline passed and flag unset; `process::exit(3)`, at any later step |

The read of the flag and the exit are two steps on purpose: between them the
sweep thread may disarm, save the outcome and start the next candidate.

`Measurements.tla` is what the sweep promises: a ledger with one outcome per
candidate that moves only forward (none, open, ok / error / timeout). A record
`timeout` on disk is `open` while the process that wrote it still runs it, and
`timeout` once that process is gone: this is the refinement mapping `OutcomeOf`.

### Gate.tla: `prune_kernel`

`answer[k]` is what the external analyzer does on the source specialized for key
`k`: an exit status and a set of lines, each foreign, a document without
`findings`, or a document with findings. `Outcome` and `ReadStream` are
`run_reconverge` and `read_stream`; `Decide`, `Rejections` and `Caveats` are the
decision rule. `outcomes` is the memo, `scratch` the key that `params.rs` is
written for. Actions: `Recall` (memo hit), `WriteParams`, `ParamsFail`,
`RunReconverge` (reads whatever `scratch` now holds), `DecideConfig`, `Finish`,
and `OtherCommand`, another command writing the same scratch copy. The history
variable `disturbed` remembers that one did, so that each property says whether
it survives it.

### BuildCache.tla: `Compiler::compile`

`repo` is the crate, `scratch` its copy, `artifact` the emitted file, `cache` the
cache directory; `pc`, `key`, `todo`, `hash`, `ptx` are a process's locals.
`Files` is everything that is compiled: `Cargo.toml`, `Cargo.lock`, the build
script, the files below `src/` and the path dependencies. `Unhashed` are those that
`source_hash` does not read, which is all but `Cargo.toml` and the files directly in
`src/`. Two of them are special: `Lock` is copied with any error ignored
(`SkipLock`), and `Linked`, the path dependencies, are not copied at all, because the
copied manifest names them where they are. What is copied is copied one file at a
time and the crate may be edited between any two steps; `Compiled` is what `cargo
oxide` then sees, the scratch copy and the linked files. An entry is written in two
steps (`Create`, `Fill`). A PTX is represented by the source it was built from, and a
hash by the part of the source that is hashed. `Fails` is any error return, `Dies`
the death of a process. `edited` is history: the crate changed during this
compile.

`PtxStore.tla` is what the cache promises: entries are added once, under the
hash of their source, and never change.

### RunDir.tla: one directory and its commands

`verdicts`, `plan`, `results` and `ptx` are the files; a document that is being
written in place is `Torn`. `job` is the writer (`stage`, or `tune` on Metal),
`sweep` the runner, `reader` `report` or `apply`; the three run at once, each one
command at a time. `gates` is history: the gate records in the order they were
made, so that a document can name the record it was made from (`seq`), which the
code's documents do not. A version stands for the crate and for `--cc`;
`verdictAt` is what the gate answers at each. A copied artifact is named by the
hash of its source: `NameOf` gives the name, the same for two versions that differ
in `--cc` only.

| Action | Code |
|---|---|
| `Stage`, `StageVerdicts` | `cmd_stage`: flags, gate, tool errors refuse; `verdicts.json` truncated, then whole |
| `Compile`, `CopyDone`, `CopyFails`, `CompileFails` | its loop: compile the crate as it is now, copy unless the name exists, look for the entry; a copy that fails, or a compile, ends it |
| `OpenPlan`, `StagePlan` | `plan.json` truncated, then whole |
| `Metal`, `MetalVerdicts`, `MetalEnd`, `MetalFails` | `cmd_tune` on Metal: `ungated` verdicts, measurements in memory, one checkpoint over whatever was there |
| `SweepStart`, `Launch`, `SweepEnd` | `run_plan` by candidate; the steps inside are `Sweep` |
| `ReadVerdicts`, `ReadResults`, `ReaderDone` | `RunDir::load` one document after the other, `build_report`, the exit of `report` |
| `Apply`, `ApplyRead`, `ApplyEmit` | `cmd_apply`: the spec as it is now and `params.rs` written; `params.rs` read; verified by the gate as it is now, and printed |
| `Edit`, `Dies` | the author or a new `--cc`; a command dies |

`tune --backend cuda` is `Stage` and its continuation, then `SweepStart`, then
`ReadVerdicts`. `Ranking` holds `min_by` over the medians and the overlap of
intervals, shared with `Tune`.

### Tune.tla: one kernel from `kernel.toml` to the screen

`Constraints` is `constraint.rs`: `EvalArith` folds the tokens as the code's loop
does, with its pending operator, its open term and its errors, in checked
arithmetic up to `MaxU`. The same module states what the grammar at the top of the
file says an expression means, in integers without bound: a term starts after a
sign (`TermStarts`) and ends before one (`TermEnds`), `TermValue` is its product up
to each of its operands, `ExactSum` the sum of the terms that have ended, and `Fits`
says that each of these values exists and is a `u64`. The evaluator keeps one state
with a pending operator, the reference looks at places in the sequence: neither is
the other rewritten. `Space` is `spec.rs`, `enumerate` and `BenchSpec::candidate`;
its `Specs` is what `kernel.toml` can hold. `Sorting` says what a stable sort
returns; `Stats` is `summarize` with infinite and NaN samples, in exact quarters;
`Estimates` is the analytical model in exact fractions, with `spearman`.

A step that a fold repeats is an operator of its own with three arguments
(`ReadToken`, `TimesAxis`, `TimesBlocks`, `AddProduct`; the first argument holds what
does not change), so that the theorems of `FoldProofs` can be instantiated with it.

| Action | Code |
|---|---|
| `Load` | `KernelSpec::parse` accepts or refuses |
| `Visit` | one turn of the loop of `enumerate`: the constraints, then the odometer |
| `Plan` | the verdicts, the candidates that are taken, their launches; an expression that has no value ends the command |
| `Shuffle` | one swap of `Strategy::order` |
| `Measure`, `Measured` | one turn of the measuring loop; its end |
| `ReadFails` | any reader of `results.json`, if a time in it is not finite (`Readable`): JSON has `null` there, and `Results::load` refuses it |
| `Open`, `Select`, `ScrollDown`, `ScrollUp`, `Quit` | `launchbound-tui`: `main`, `App`, `event_loop` |
| `EstimateFails`, `Estimate`, `Correlate` | `model --results`: an expression without a value; the estimates; the correlation |

`Screen` is what `draw` shows of the candidates in each view, one line each.

### MC modules

`MCSweep`, `MCGate`, `MCBuildCache`, `MCRunDir`, `MCTune` give the constants their
small values and hold the statements quoted from comments and tests that the violation
runs check.

Definitions introduced by `(* Mutant: ... *)` are not part of the models: each
is a plausible mistake in the code (a dropped guard, a write in place, a missing
checkpoint) and is used to check that the property it is paired with in
`PROJECT.json` would notice it.

## 4. Runs

Passing runs:

- **sweep** (`Sweep.cfg`, 549 556 states, under two minutes). Two refused candidates
  and one admitted; no budget, a budget of 0 or of 2 seconds, another one for each
  process; each measurement takes one second;
  two external faults, and any number of watchdog exits and reruns. Three
  candidates are the fewest for which a late watchdog can hit the candidate
  after next; two refused ones let an abandoned candidate meet another; a budget
  of 2 stops after two of three measurements, and the next process finishes;
  two faults let a death during recovery from a death happen. Checks safety,
  the inductive invariant, the refinement and the two liveness properties.
- **gate** (`Gate.cfg`, 809 370 states, about a minute). Three configurations
  over two keys, one key at 32 and 64 threads, on both sides of the one-warp
  line; findings that are convergence warnings about `warp_id()`, another rule's
  warning and a deny; every answer with exit 0, 1 or 2 and up to two lines of
  every kind. Two lines are enough because a stream is read as a union, and one
  bad line decides.
- **build** (`Build.cfg`, 350 060 states, about a minute and a half). One process, two
  specializations, a crate of one hashed file and a `Cargo.lock`, which may be left
  out of the copy, with two contents each, edits at any time, one death or full disk.
  Edits back and forth meet entries of earlier versions. Symmetry in contents and keys
  is sound: they are only compared and copied, and the only temporal properties under
  it are action properties (`ImplementsStore` has no liveness part).
- **rundir** (`RunDir.cfg`, 5 537 517 states, two to three minutes). Two candidates
  and two versions: the second is either another `--cc`, which keeps the names of the
  artifacts and swaps the verdicts of the two, or an edited crate, which has new
  names, drops one configuration and makes the analyzer fail on the other. Four
  commands are the fewest for two stages, a sweep and a reader; one fault, a death at
  any point of the writer or the runner or a copy that fails. Two summaries with
  disjoint intervals: a refused candidate can be measurably faster, or slower.
- **tune** (`Tune.cfg`, 208 498 states, under a minute). 6-bit `u64` and 4-bit
  `u32`, so that every overflow of one or two operations and every cut to 32 bits
  happens. All 1 110 token sequences of up to three tokens as constraints, most of
  them errors, and all grammatical ones of five tokens, over a dimension of numbers
  and one with a name among its values; a cube of three dimensions with two
  constraints; each refusal of the parser; ten launches at the edges (a zero axis,
  an axis beyond 32 bits, a division by zero, a name in an expression, a hidden
  dimension); three candidates in every order; samples of 1, 2, 3, 4, 8 and 11
  timings (eleven is the least number for which the interval leaves out the last
  sample) with outliers, infinities and NaN, of which every summary is checked and
  the finite ones go on to the readers; scrolling up to two lines, over up to three.

Violation runs, each a statement of a comment or a test that the code does not
keep (section 9): **sweep_timeout**, **sweep_total**, **gate_mixed**,
**build_unhashed**, **build_torn**, **rundir_refused** (no death is needed),
**tune_nan**.

What the properties say, the most important first:

| Property | Meaning |
|---|---|
| `ImplementsMeasurements` | the document is a forward-only ledger through every crash |
| `MeasurementsDurable` | no measurement on disk is ever lost or rewritten |
| `UnsafeLaunchedOnce` | no sequence of crashes and reruns launches a refused candidate twice |
| `TimeoutBeforeLaunch` | its record is on disk before it runs |
| `OneRecordEach`, `DiskReadable` | one record per candidate; no torn document |
| `AtMostOneUnsaved` | a death costs at most one measurement |
| `RelaunchedOnlyAfterDeath` | an admitted candidate runs again only if a process died under it |
| `ExhaustedIsExact` | after `Ok`, `budget_exhausted` iff some candidate has no record, of an order of the whole plan |
| `EveryCandidateRecorded`, `HungProcessEnds` | the sweep completes, if processes with a budget other than 0 keep being started; a hang never blocks it |
| `NeverAPassByOmission` | no failed, empty or unreadable analyzer run admits anything |
| `AdmittedHasNoHazard` | no admitted configuration has a hazard in its own source |
| `SmallerBlockIsNoWorse` | launch shape counts only against the larger block, whoever else writes the scratch copy |
| `OneRunPerKey`, `EveryConfigDecided` | the analyzer runs once per key; a command that does not fail on `params.rs` decides every configuration |
| `ServedIsCurrent` | what is served has the params asked for and every hashed file as it is now |
| `ImplementsStore` | the cache is a content-addressed store |
| `PlanIsTheGates` | a plan has what its gate record admitted, and refused ones only with a reason |
| `VerdictsFirst` | a directory holds no plan or result newer than its verdicts |
| `JoinIsSound` | measurements of the plan of these verdicts: no refused one is chosen, and exit 1 means a refused one was measured faster |
| `AdmittedAreRanked` | an admitted candidate not chosen and not called indistinguishable is slower by its whole interval |
| `ArtifactsShipped` | every planned candidate has its PTX there, with its entry, and whole unless a process died or a copy failed |
| `AppliedIsChosen` | `apply` prints the parameters of what it names, verified where it says so |
| `ConstraintsAreExact` | constraints mean what the grammar says in exact integers; an overflow is an error and never an answer |
| `EnumerationIsComplete` | exactly the configurations that satisfy them, each once, in order |
| `GateSeesTheLaunch` | the threads that were judged are those launched; the blocks the model counts are those of the grid, unless an axis is zero or cut |
| `OrderVisitsEach` | the search order is a permutation and the measurements follow it |
| `SummaryIsSound` | a summary describes its sample, infinite and NaN times included: no NaN is kept, and half of the sample or more; the interval is inside what was kept; the median is inside the interval with half on each side, or it is NaN and the interval ends at an infinite time |
| `OnlyRefusedAboveChosen` | on the ranking, whatever stands above the chosen one was refused |
| `CorrelationIsSound` | the correlation is within -1 and 1, and it is 1 for equal and -1 for reversed rankings, however they tie |
| `IndInv`, `GateInv`, `FreshInv` | the inductive invariants behind the proofs |

`CHECK_DEADLOCK FALSE` is set where the program stops: `prune_kernel` returns
(**gate**), a command ends or is refused (**tune**), and the commands of a
behaviour are counted (**rundir**).

## 5. Fairness

*Sweep* (`FairSpec`): the operator starts a sweep again after it ended
(`docs/ARCHITECTURE.md:51-54`: a rerun of the same command continues; the watchdog's
message says "rerun to continue"); the sweep thread and the watchdog thread are
scheduled; a launch that does not hang returns. Nothing is assumed of faults, or of
`Hang`. The budget is compared with the time of this process, so under one above 0 a
process that starts measures at least one candidate; that is why reruns finish the
sweep. `parse_budget` accepts 0 too (`run.rs:550`, `run.rs:591`), and a process under
it stops before its first candidate, however often it is started:
`EveryCandidateRecorded` is therefore claimed of the behaviours in which processes
with another budget keep being started, and the run has budgets of 0, of 2 and none,
in any order. *Gate*: `prune_kernel` is one thread that waits for nothing but the
analyzer, so it keeps taking steps; `OtherCommand` is not fair. *Build*: no liveness
is claimed, since an author who never stops editing, or a crate that does not compile,
defeats it. *RunDir* and *Tune* claim none either: nothing in the code makes an
operator type the next command.

## 6. What is proved

Checked by TLAPS for every value of the constants; `PROJECT.json` lists them.

*SweepProofs.* For every plan, set of refused candidates, budget, machine set and
number of faults: types, `DiskReadable`, `OneRecordEach`, `TimeoutBeforeLaunch`,
`UnsafeLaunchedOnce`, `AtMostOneUnsaved`, `MeasurementsDurable`, and that
`Sweep` implements `Measurements`. None of these is inductive. The strengthening
`IndInv` has four parts: where the thread may be with which locals
(`ControlInv`); the disk is readable and holds the running refused candidate as
`timeout` (`DiskInv`); memory equals disk except for the one record being saved
(`MemoryInv`); a refused candidate that is not on disk has never been launched
(`LaunchInv`). `MemoryInv` carries the argument: every death falls back to the
disk, so it matters only what the disk can lack. The refinement splits a step
into the rename, the only step that changes the document (`OnlyRenameWrites`,
`RenameStep`), and all others, which change an outcome only when the process that
holds an open candidate ends (`QuietStep`).

The two invariants of the sweep that count are in the same module. `ExhaustedIsExact`
rests on `VisitInv`: every candidate a process passed in the order has a record in
memory, except the one it is measuring, and nothing but the end of the loop raises
the flag. `RelaunchedOnlyAfterDeath` rests on `CountInv`: an admitted candidate has
at most as many launches as there were deaths, plus one while its last outcome is
on disk or still in the memory of the process that runs it. A watchdog past its
deadline is counted before it ends its process, so that death is still owed; it is
counted once, because a refused candidate that has fired was launched, and none is
launched twice (`LaunchInv`).

*GateProofs.* `GateInv` and what follows from it: `OneRunPerKey`,
`SmallerBlockIsNoWorse`, `NeverAPassByOmission`, `AdmittedHasNoHazard`. `MemoInv`
(every verdict is the rule applied to the memo) holds whatever other commands do;
`SourceInv` (the memo is about the key's own source) holds until one does. This is the
line between what the shared scratch directory can and cannot break.

*BuildCacheProofs.* Types hold for any number of processes. Everything else
assumes one process at a time (`\A p, q \in Procs : p = q`), stated in each
theorem: with two, one process can change the scratch copy between the hash and
the build of the other, and a PTX is then stored under another source's hash. Under
that assumption: `OwnPtx` and the refinement of `PtxStore`, through deaths and
edits; `FreshInv` and `ServedIsCurrent`, until a process dies; and, if everything
that is compiled is hashed, that what is served is the PTX of the crate as it is
(`Exact`). That condition is narrow: it asks for a crate of `Cargo.toml` and files
directly in `src/`, with no `Cargo.lock`, build script, nested module or path
dependency. **build_unhashed** shows what happens without it.

*RunDirProofs.* All seven properties of the run, for any number of candidates,
versions, commands, deaths and failed copies, and any naming of the
artifacts, from `RunDirAssumption` (ids and versions are
numbers, summaries are ordered). `GatesGrow` is the lemma the rest hangs on: a
gate record once made stays at its place. Over it: `PlansInv` (the entries the
writer has collected, the plan in the file and the plan in the runner's memory are
what their record says), `RowsInv` (a row's `refused` mark is its record's verdict),
an order invariant (no document in memory or on disk is ahead of the record its
writer works under), `ShipInv` (an entry is only made when its file has an entry,
and only a death or a failed copy can leave it cut), `EmitInv`.

*FoldProofs.* The theorems about folds that the four modules below need, for any
step `Op`. The induction theorems of the library take a predicate as a parameter,
which the provers cannot instantiate; here induction is a statement about a *set* of
numbers (`Induction`: a set with 0 and closed under successor has all numbers), from
the fact that a set of numbers has a least member. From it `FoldLeftIs`: a fold over
a sequence is the last of the values `g[0], ..., g[n]`, each one step from the one
before, if the steps stay in a set; and `CountedIs`: a function defined by recursion
over `0..n` satisfies its definition. A module about a model instantiates `Op` with
the model's step.

*ConstraintsProofs.* `EvalIsExact`: for every expression of the grammar, of any
length, and every assignment, `EvalArith` is the exact value where all values on the
way are `u64`, and the error otherwise, and never anything else. The argument
relates the state after `k` tokens (`EvalPasses`) to the reference at `k`: the
state's open term is `TermValue` up to `k`, its sum and sign are the terms that ended
before, and once a value has left `u64` the state is an error for good.

*StatsProofs.* `SortedLists`: the sorted sequence of a finite set has its members,
each once, in order; everything else about sorting follows. `SummaryDescribes`: for
every sample, of finite, infinite and NaN times in any number, what `summarize`
returns describes it. Its core is `MedianHalves` and the bounds of an interpolated
quantile: a quantile lies between the two sorted samples at its place, so the fences
keep at least everything between the quartiles, which is half of the sample; and the
ranks of the interval are on both sides of the median, whatever the square root is.
`SpearmanIs`: the correlation is within -1 and 1 by the Cauchy-Schwarz inequality over
the integers (`Cauchy`), and at its ends when costs and medians rank alike or in
reverse, because a doubled mean rank is a count of smaller plus a count of
smaller-or-equal, and reversing the order turns it about the mean.

*TuneProofs.* All eight invariants of the run, for every spec with any number of
dimensions, values and constraints, every verdict, draw and sample. The inductive
invariant is `Inv` (`InvHolds`), in six parts, none of which a property could do
without:

- `EnumerationInv`: what is kept is what the odometer has passed and satisfies the
  constraints. The odometer visits the index vectors in lexicographic order and all of
  them (`TurnedIsNext`: nothing lies between a vector and the next; `LastIsGreatest`).
- `ComputeInv`: every constraint could be computed of every configuration passed, and
  one could not where the enumeration stopped.
- `OrderInv`: the order arranges the plan, and the rows follow it
  (`SwappedPermutes`: a swap keeps a permutation, for every draw).
- `PlanInv`: a candidate is the launch of a configuration that was kept, each of
  another one, and nothing is planned of a spec that was refused.
- `RowsInv`: a row has the sample its summary was made of.
- `ModelInv`: costs and correlation are those of the space and of the rows.

Over it: `EnumerationComplete`; `ConstraintsMeanTheGrammar`, from `EvalIsExact` of
both sides; `LaunchIsJudged`, which needs the parser's limits of the block axes
(within them neither the product nor the cut to 32 bits loses anything) and the two
products as folds; `OrderVisits`; `SummariesDescribe`, from `SummaryDescribes`;
`ScreenKeepsTheChosen`, from `SortedLists`: the chosen one is the first admitted one
of the ranking, and an interval below another has its median below the other's,
because a median is no less than the lower end of its interval and no more than the
upper end (`SummaryBrackets`), so the order by interval and the order by median cannot
contradict each other on the screen; `CorrelationHolds`, from `SpearmanIs`;
`TypesHold`.

The exactness of the launch needs the numbers of `kernel.toml` to be what TOML and
the code's types can hold: `Specs`. The rows that reach a screen or a correlation
have finite times, because `results.json` with any other time is refused
(`ReadFails`); so no median in a ranking is NaN, and no condition on it is needed.

## 7. Only model-checked

`EveryCandidateRecorded`, `HungProcessEnds` and `EveryConfigDecided`, because
liveness under fairness needs `ENABLED`, which the proof system does not handle.
Every invariant, action property and refinement that a passing run checks is also a
theorem. What a theorem assumes beyond the assumptions on the constants is in its
statement and in section 6 (one process at a time, in *BuildCacheProofs*; a scratch
copy of its own, in two properties of the gate). No module uses a `RECURSIVE`
operator.

## 8. Abstractions and assumptions

- A rename is atomic, and what was written before it is durable. A write is not atomic.
- One runner works on a run directory at a time (nothing in the code enforces it).
- A process visits the plan in any order, modelled by a set and a free choice;
  this covers every strategy of `launchbound-search` and every seed. In the same
  way the gate takes configurations in any order.
- A record keeps its status, its seconds and which launch it came from. Timings
  and statistics are left out. `label` stands for device, driver and strategy.
- An admitted candidate's launch does not hang: it has no watchdog, so nothing
  in the program would end it.
- Time passes only while a candidate runs. `MaxFaults` bounds external faults in
  behaviours, not watchdog exits.
- The analyzer and `cargo oxide` are functions of the source they read, as the
  comments of `decide.rs` and `cache.rs` say; an analyzer run may also be killed.
- SHA-256 has no collisions. Files are edited, never added or removed. The toolchain
  and the registry's crates are fixed: they are not in the hash, and not in the model.
- Path dependencies (`Linked`) are in the proofs and in **build_unhashed**; the
  passing run has none, since nothing but the build itself reads them.
- *RunDir*: one writer, one runner and one reader at a time; nothing enforces it. Its
  summaries are of finite times; what a time that is not finite does to the document
  is `Tune!ReadFails`. The order in which `stage` compiles is left free. A compile is
  one step (see `BuildCache`). Metal measures in memory, so its loop is merged into
  its end (`Tune!Measure` has it). An id the present crate no longer has gets any
  answer of the gate in `apply`, because the gate judges the spec that was loaded
  before. The text of the reason is a flag; `admitted_with_caveats` counts as `clean`,
  as the report counts it. Candidates are numbered in the order of enumeration.
- *Tune*: what is assumed of the constants is what the code's types and constants
  give: the integers of `kernel.toml` and the workload are at most the largest `u64`,
  the limits of the block axes (1024, 1024, 64) and their product fit
  (`SpaceAssumption`), a time is a number of which the quarters are below `Inf`, or
  `Inf`, or `NaN` (`Timings`); every NaN is a positive one, which `total_cmp` puts
  last. An expression is a sequence of tokens, the tokenizer is left out. Doubles are
  exact fractions; infinities and NaN are kept. The arguments of a kernel are the
  expressions of their sizes. The UI reads the directory once, as the code does. A
  line stands for one candidate: headings and rule lines, which scroll too, are left
  out. `Room` stands for the height of the terminal.
- Exit statuses other than 0 and 1 are treated alike, so one value stands for them.

## 9. Where the code and its comments disagree

1. `timeout` is documented as "a watchdog fired"; any death after the record is
   saved leaves it too, and the record is final (**sweep_timeout**, `run.rs:174`).
2. `total_gpu_seconds` is "the whole sweep" in its comment and the last process
   in the code (**sweep_total**, `run.rs:250`).
3. A `threadIdx` warning "is a caveat at any shape": not if the same finding also
   names `warp_id()` and the block is one warp (**gate_mixed**, `decide.rs:178`).
4. "A stale entry is unreachable": nested source files, `build.rs`, `Cargo.lock` and
   path dependencies are compiled and not hashed (**build_unhashed**,
   `scratch.rs:192`).
5. `lookup` returns a torn entry, for good (**build_torn**, `cache.rs:83`).
6. Timings of refused candidates "appear only in the rejection report and are never
   presented as safe" (`docs/BENCHMARKING.md:34-35`): a directory staged again with
   an edited crate or at another `--cc` that admits the candidate keeps the old
   record, and the report chooses it (**rundir_refused**, `run.rs:154`).
7. "No NaN reaches `median_ms`": the median of [1, 2, infinity] is one, as the sum of
   a product with infinity and zero (**tune_nan**, `stats.rs:99`).

Seen and not checked by a run: "a *missing* field never reads as a clean verdict"
(`findings.rs:23-24`), and a document without `findings` does (`findings.rs:40`; it is
one of the lines of the run **gate**); "an interrupted sweep resumes from what it
already measured" (`run.rs:44-45`), and one time that is not finite is written as
`null`, after which every rerun, report and view refuses the document (`run.rs:456`;
`Tune!ReadFails`); a resumed document keeps the device, driver and strategy labels of
the process that created it; `plan.rs:118-119` says the compute capability is carried
so that the runner can refuse, and `run.rs:111-117` only warns; the strategy label of
a random order differs between `launchbound-cli/src/main.rs:604` and `run.rs:67`;
`run_metal` says "rerun to continue" (`launchbound-metal/src/lib.rs:143`) and a rerun
starts a fresh document; `measured_ok` is documented as at most `admitted`
(`launchbound-report/src/lib.rs:178`) and counts refused candidates too
(`build.rs:125`); the grammar of constraints (`constraint.rs:3-8`) has no operator at
the end of a term, and the evaluator drops one (`constraint.rs:239`); a `plan.json`
that cannot be read is taken as absent, and its reason is then missing from the report
(`build.rs:45`); a PTX copy cut before its entry makes every later `stage` of that
source fail until the file is removed (`main.rs:899`).

## 10. Not modelled

- *CUDA binding*: foreign calls; the models use only that opening may fail and
  that a launch returns, fails or hangs. Whether a fault spoils the context for later
  candidates is the driver's. The same of the dispatch and the MSL source
  on Metal.
- *Printed rankings of the model* (`tune --backend model`, `model` without results),
  *`prune` and `space`*: they compute with the modelled functions and print.
- *Two writers in one directory*, or two runners: every document is written in place
  with no lock, so anything may result, and nothing in the repository promises
  otherwise.
- *Ids*: a hash over the name and value of each dimension, in which the number 4 and
  the name "4" are alike; candidates are numbered instead.
- *The heartbeat thread, progress lines, diagnoses and rendered text*: output only.
- *Argument parsing, executor detection, `PATH` set-up, the terminal*: set-up of one
  process.
