# Formal models of last-light-armory-ingest

TLA+ specifications of the ingest job, its download, worker pool, perk and roll
derivation, database and the static export, checked with TLC and, where marked, proved with TLAPS.
`PROJECT.json` lists the components, runs, mutants, the map from definitions to
source lines, findings, hazards and theorems.

Parse with `tlasany M.tla`, check with `tlc -config X.cfg M`, prove with
`tlapm MProofs.tla`.

## 1. The system

| part | state | operations | properties that make it correct |
|---|---|---|---|
| `cmd/ingest`, `internal/ingest` `Run`, `write` | version fetched, flags, perk ids, one job per weapon | check version, skip or download, derive, upsert perks, upsert weapons, load ids, reconcile links and rolls per weapon, record | nothing is recorded that is not there; a re-import disturbs nothing; a dry run writes nothing; repeated runs converge |
| `internal/db` `Store` | tables `perk`, `weapon`, `weapon_perk`, `roll`, `roll_perk`, `manifest_sync_state` | two upserts, two reconciliations, sync record, reads | foreign keys, scores survive |
| `internal/db` `AcquireIngestLock` | a session-level Postgres advisory lock | try-lock, release, death of the session | one run at a time, always returned; repair when it is lost |
| `internal/ingest` `processWeapons` | two unbuffered channels, an errgroup, results | feed, process, send, close, collect | all or an error; no deadlock, no panic |
| `internal/rolls`, `categorize.RollColumns` | an odometer | choose columns, count, cap, generate | the cartesian product, once; the cap |
| `cmd/export`, `internal/export`, `db/read.go` | rows read, artifact directory | lock, six reads, build, write files | one state of the database is read; the site converges |
| `categorize.Weapon`, `PerkColumns` | none (pure) | derive flags and perk columns from a definition | the full pool, whatever the order of the plugs; flags agree with rolls |
| `internal/bungie` client | attempt and open body per call, a shared limiter | get with retries | attempts bounded, bodies closed |
| `StreamDefinitions`, `download` | five goroutines in an errgroup | get, stream to the closing token, join | whole tables or an error, and the error is the cause |
| `internal/config`, `internal/models`, migrations, pool | — | start-up, types, library code | not modelled (below) |

**Interaction.** Cron starts `cmd/ingest` on one or more hosts and `cmd/export`
on one. All share one Postgres database and one advisory lock, taken without
waiting: a second start exits at once. `Run` issues its statements in sequence,
then one link and one roll statement per weapon from up to `DBWorkers`
goroutines. Bungie replaces the live manifest at its own time. The sibling
repository last-light-armory writes scores and rankings at any time, without the
lock. The export reads six times without a transaction.

**Hard behaviours.** No transaction spans an import, so every failure leaves a
prefix of it (and, among the per-weapon jobs, any subset) in the database; the
sync record is the only memory of what was completed. Replies can be lost after
a commit. Cancellation reaches each goroutine at its own time. The lock lives in
one connection while the statements use others, and a statement can outlive the
process that sent it.

## 2. Modules

```
Manifest <- Store <- Ingest <- Armory       <- MCArmory
                       ^ ^ ^-- IngestFaults <- MCFaults
                       | |---- IngestProofs
                       |------ MCIngest
Mirror      : implemented by Ingest
HttpGet    <- Download
ParallelMap : implemented by WorkerPool and by Download
Rolls      <- Categorize <- MCCategorize

theorems    : IngestProofs, MirrorProofs, IngestFaultsProofs, ArmoryProofs,
              WorkerPoolProofs, DownloadProofs, RollsProofs, CategorizeProofs
```

- **Manifest** — what a version says once derived: perk and weapon rows, links
  and rolls per weapon, as constants. The derivation is pure, so a version fixes
  them. Two assumptions: the types, and that rolls only use perks of the
  weapon's links (`RollColumns` only filters columns). A weapon over the
  combination cap has no rolls.
- **Store** — the tables as total functions, `NoRow` for an absent row, and one
  operator per statement. Upserts and `ReplaceWeaponPerks` are single SQL
  statements; `ReplaceRolls` is one transaction that either applies or rolls
  back. The score of a roll is part of its row, so that pruning a roll loses it.
  A perk that is missing drops out of the link statement silently (its JOIN)
  and fails the roll transaction. `Holds(v)` is the reference: the database has
  every row version `v` derives, and no other link or roll of `v`'s weapons.
- **Ingest** — runs on `Hosts`. `pc[h]` is the next database call of `Run`:

  | `pc` | action | code |
  |---|---|---|
  | idle | `Start` | `AcquireIngestLock` |
  | manifest | `GetManifest` | `ingest.go:129` |
  | compare | `GetSyncState` | `ingest.go:135-152` |
  | touch | `RecordCheck` | `ingest.go:144` |
  | download | `DownloadAndProcess` | `ingest.go:154-169` |
  | perks, weapons, perkIDs | `WritePerks`, `WriteWeapons`, `LoadPerkIDs` | `ingest.go:420-441` |
  | jobs | `JobLinks`, `JobRolls`, `AbortJob`, `WaitJobs` | `ingest.go:448-471` |
  | record | `RecordImport` | `ingest.go:175` |
  | exit | `Release` | `db.go:135-143` |

  A statement either fails without effect (`Fail`, `AbortJob`) or takes effect
  and then answers or loses its answer (the argument `ok`). `Crash` ends the
  process at any point and with it the session and the lock. The first failed
  job cancels the others: jobs not launched fail, running ones may or may not
  notice. `Publish` and `Score` are Bungie and the scoring job.
- **Mirror** — the abstract specification of cmd/ingest: a recorded version,
  whether the database holds it, and at most one import under way, which begins,
  writes and either completes, holding what it records, or ends without record.
  `Ingest` maps `recorded` to the sync record, `held` to `Holds(sync.version)`
  and `importing` to the version of the run in its write phases.
- **IngestFaults** — `Ingest` with two faults that part the lock from the writes.
  `LoseLock`: the server ends the session that holds the lock and the run goes
  on. `Abandon` and `OrphanExecutes`: a process dies, or is told to stop and
  exits, and one of its statements executes later. Every action of `Ingest` is
  kept. `alone[h]` is a history variable: no one but `h` has written rows since
  its import began.
- **Armory** — adds the ranking job and `cmd/export`: six reads one at a time,
  `Build` with its integrity errors, files written one at a time over the old
  ones, failure anywhere, possibly leaving a torn file.
- **WorkerPool** — the goroutines of `processWeapons`, one action per send,
  receive, close and return. A send on an unbuffered channel and its receive are
  one step; `select` is a choice between enabled disjuncts.
- **HttpGet** — `Client.get` for concurrent callers: `at[c]` is the place in the
  code (limiter, request, answer, sleep), `attempt[c]` the loop variable, `body[c]`
  the response body the caller has open. Answers are classed as the switch
  classes them; `asked` and `busy` are 429 or 5xx with and without Retry-After.
  A URL that does not parse (a `bad` path in the manifest) ends the call before
  the request, without a retry (`NewRequestFails`).
- **Download** — `GetManifest` and then `download`: one goroutine per table reads
  entries until the closing token (`read[t]`), and an errgroup keeps the first
  error and cancels the rest. A truncated body is one that is not `whole`.
- **ParallelMap** — the abstract specification of `WorkerPool` and of `Download`:
  each item is collected once, and the call returns nil with all of them, or an
  error only if something went wrong (the context was cancelled or, for
  `Download`, a table failed).
- **Rolls** — `RollColumns`, `Count` in integers of `Width` bits, the cap and
  `Generate`, from any pool of perks, a column being the set of its perks;
  `Ascending` enumerates it in the order of `sort.Slice`.
- **Categorize** — what comes before: `PerkColumns` plug by plug over a weapon
  definition (`Scan`), with sequences sorted by rank (`Sorted`) and a stored kind, and the
  flags of `Weapon`; then `Rolls` over the resulting pool, as `processOne`
  composes them.

Operators marked *Faulty variant* are plausible bugs kept beside the definition
they break; each property of a passing run has one that violates it
(`PROJECT.json`, `mutants`). No specification uses them.

## 3. Runs

| run | module, cfg | result |
|---|---|---|
| `ingest_safety` | `MCIngest`, `MCIngest_safety.cfg` | passes, 350 000 states |
| `ingest_live` | `MCIngest`, `MCIngest_live.cfg` | passes, 40 000 states |
| `ingest_skip` | `MCIngest`, `MCIngest_skip.cfg` | violation, finding 1 |
| `pool` | `WorkerPool`, `MCWorkerPool.cfg` | passes, 1 400 states |
| `rolls` | `MCCategorize`, `MCCategorize.cfg` | passes, 108 000 states |
| `rolls_overflow` | `Rolls`, `MCRolls_overflow.cfg` | violation, finding 2 |
| `download` | `Download`, `MCDownload.cfg` | passes, 81 000 states |
| `faults` | `MCFaults`, `MCFaults.cfg` | passes, 275 000 states |
| `faults_lock` | `MCFaults`, `MCFaults_lock.cfg` | violation, finding 5 |
| `armory` | `MCArmory`, `MCArmory.cfg` | passes, 187 000 states |
| `armory_partial` | `MCArmory`, `MCArmory_partial.cfg` | violation, finding 3 |
| `armory_ranking` | `MCArmory`, `MCArmory_ranking.cfg` | violation, finding 4 |

**What the passing runs show.** *Ingest*: `ImportComplete` — the change time
moves only over a database that holds the whole recorded version;
`HeldVersionStays` — a forced or repeated import of the held version passes
through no state that lacks a row of it; `ScoresSurvive` — only the scoring job
or an import that does not generate the roll takes a score away;
`DryRunWritesNothing`; `JobsResolve` — the two error returns of `ReplaceRolls`
are unreachable and the JOIN never drops a link; `RowsReferenced` — the foreign
keys; `Converges` and `LockReturned`; `ImplementsMirror`. *Faults*: with two
versions written at once, and statements of a dead run executing beside those of
the next, `JobsResolve` and `RowsReferenced` still hold, because no statement
deletes a perk or weapon row; `ScoresSurviveOverlap` — no score of a roll is lost
that every version involved generates; `ImportRepairs` — an import that no one
else's write disturbs ends with its version in the database, whatever it found;
`RecordFollowsLive` — the record ends up naming the live version; `FaultsInv` is
the invariant that these follow from. What does not
survive: `Converges` itself. A statement left behind that executes after the next
import has completed leaves a foreign row under a correct record, and later runs
skip. *Download*: `NilMeansWhole` — nil only with every table read to its closing
token; `RetriesBounded`; `NoBodyLeft`; `RootCause` — the reported error is never a
cancellation that another table's failure caused; `ImplementsMap`, which includes
that the join always returns. *Pool*: nil means all, none twice, no send
on a closed channel, everything returns, `ImplementsMap`. *Rolls*:
`ColumnsAreThePool` — the links are the full pool, ascending and without
repetition, for retired, repeated and unknown plugs; `KindsAgree` — the kind of a
column does not depend on the order of its plugs, which justifies that `Rolls`
works with sets; `EnhanceableRolls` — the flag agrees with the generated rolls;
the odometer against the cartesian product, and the cap from both sides. *Armory*:
`ReadsAreCurrent` — six reads under the lock equal one snapshot of the
ingest-owned tables (rolls' scores and rankings are not, and are left out);
`BuildNeverRefuses`; `SiteConverges` — from any mixture of old, new and torn
files.

**Findings.**
1. *Skip over a half-imported database.* An import of v2 fails after its
   upserts, Bungie goes back to v1, and the next run prints `manifest v1
   unchanged; nothing to do` over tables that hold part of v2.
2. *The cap can overflow.* `rolls.Count` multiplies in int64 unchecked; a
   pathological weapon can wrap below `MaxRollsPerWeapon`.
3. *An export of a half-finished import.* The lock keeps an export away from a
   running import, not from one that failed. The site is labelled with the old
   version and shows a mixture.
4. *Rankings outlive rolls.* A weapon whose rolls were pruned keeps its ranking
   row, and the export publishes it although the comment on `WeaponSummary`
   excludes that.
5. *The lock can be lost.* The package comment of `internal/db` guarantees one
   mutating run at a time. The guarantee ends with the lock's session, which the
   run never checks again.

Three smaller divergences are not worth a run. `get` promises a failed response
"fully consumed", and `drain` reads at most 1 MiB before closing it.
`UpsertSyncState` says that `changed=true` marks the import of a *new* version, and `-force` passes it for
the recorded one. The package comment of `internal/export` promises
byte-identical artifacts for identical database contents, and `meta.json`
carries the time of generation.

**Bounds.** `MCIngest`: two versions in which a weapon is renamed and re-rolled,
one loses all rolls, one is new, one perk leaves and another is renamed; three
weapons with `DBWorkers = 2`, so that one job waits for a slot; two hosts, the
least for a conflict over the lock; `MaxFaults = 2`, so that a recovery can fail
too; one score value. `MCArmory`: a weapon that is new in the second
version and one that is renamed, gets a new perk and loses its rolls, so that
without the lock a build could meet both an unknown weapon and an unknown perk;
one host, one fault, `DBWorkers = 1` (the interleaving of jobs is checked in
`MCIngest`).
`MCWorkerPool`: four weapons and three workers, so that weapons wait and workers
compete. `MCFaults`: one weapon that is renamed and loses one of two rolls, a perk
that leaves and one that is renamed, two hosts, one fault of any kind and at most
one statement left behind; one weapon suffices because each statement touches
the rows of one weapon or of one batch. `MCDownload`: the manifest and two tables,
enough for one to fail while the other is anywhere; three attempts, so that there
is a first, a middle and a last; two entries, so that a table can be cut before,
between and after them. `MCCategorize`: every pool of one perk of each kind over
three columns with a gap in the ordinals; two columns over plug sets that retire,
repeat, misorder or name unknown plugs, both kinds of plug set hash and five
category lists; at most 8 combinations, which occur as do 9 (the largest product
is 3^3 = 27), with an 8-bit `Count` that cannot overflow;
`MCRolls_overflow` narrows it to 4 bits. `last_changed_at` is a clock with two
readings, since only its moving matters. `HostSymmetry` is used only where no
liveness property is checked.

**Fairness.** `Ingest`: weak fairness of the steps of a run (a started process
runs on), strong fairness of a plain `Start` on each host, because cron starts it
again every week and the lock is free again and again, though not permanently. No
fairness is assumed of failures, releases or the scoring job; a bounded number of
failures and an acyclic `Releases` say that they stop. `Armory`: the same for the
export, and here the strong fairness of `ExportStart` is an assumption about the
operator: the repository describes a cron for the import only, and exports are
run by hand. `SiteConverges` speaks of a place where somebody keeps running them. `IngestFaults`: the same, and the server executes what it has been sent.
`Download`: weak fairness of its steps together, since the limiter grants, timers
fire and the client's five-minute Timeout ends every request and every read; no
answer is favoured. `WorkerPool`: weak fairness of the goroutines together; no channel
operation is favoured, and cancellation is never assumed.

## 4. Proofs

Every invariant and action property of the passing runs is a theorem, for all
values of the constants that satisfy the named assumptions (`ManifestAssumption`,
`CombosWithinPool`, `StoreAssumption`, `IngestAssumption`, `ArmoryAssumption`,
`WorkerPoolAssumption`, `HttpGetAssumption`, `DownloadAssumption`,
`RollsAssumption`, `CategorizeAssumption`, `DefinitionsAssumption`), which TLC
evaluates on its runs. They say that the constants have their types, that hashes
are numbers, and that the sets of weapons, perks and columns are finite.
`CombosWithinPool` says that rolls only use perks of the links, `ArmoryAssumption`
that the exporter is not a host of the import, `DefinitionsAssumption` that plug
sets are lists of items and that every socket ordinal is one of `Indexes`. One
theorem has a hypothesis of its own, `CountFits`, below.

**IngestProofs.** The safety properties are not inductive. `IInv` adds what each
phase has established: only the lock holder is past `Start` (`HolderRuns`); from
`weapons` on the database has the version's perks, from `perkIDs` on its weapons,
at `record` all of it (`PhaseInv`); during the jobs the loaded ids cover the
version's perks and are stored, and a job's state says which of its statements
took effect (`JobInv`). The argument: no run but the holder's writes, the upserts
never remove a row, and each job writes only its own weapon; so what a phase
established stays until `record`.

- Invariants: `TypeCorrect`, `Invariance` (`[]IInv`), `RowsAlwaysReferenced`,
  `JobsAlwaysResolve`.
- Action properties, each from `IInv` and one step: `ImportIsComplete`,
  `DryRunsWriteNothing`, `CuratedScoresSurvive`, `HeldVersionsStay`.
- Lemmas: what `ReplaceRolls` and `ReplaceWeaponPerks` leave in the tables when
  everything resolves, that a matched batch is stored, that scoring changes no
  set of rolls, which steps touch the sync record, the rolls or any table
  (`SyncSteps`, `RollSteps`, `WriteSteps`), that a writing run holds the lock and
  is no dry run (`WriterHolds`), and that repeating a statement of the held
  version changes nothing (`RewriteHolds`).

**MirrorProofs.** `IngestImplementsMirror`: the initial states map to `Mirror`'s,
and each step to one of its steps or to a stutter. `HolderRuns` makes the importer unique, so that
`importing` is well defined; `IInv` at `record` gives the completion its `held`;
`RewriteHolds` shows that re-importing the held version keeps `held`, as `Write`
requires of every step of a re-import.

**IngestFaultsProofs.** With the lock lost nothing of `HolderRuns` is left.
`FaultsInv` rests on two weaker facts: rows of perks and weapons only appear, so
each run keeps what it has *stored* (`StoredInv`), and a run whose `alone` flag is
still set keeps what it has *matched* (`MatchInv`); `OrphanInv` says that a roll
statement left behind names ids that exist. From it `OverlapKeepsRowsReferenced`,
`OverlapKeepsJobsResolve`, `UndisturbedImportRepairs` and `ScoresSurviveFaults`.

**ArmoryProofs.** The import is the same module under another lock: for it the lock is free while the
exporter holds it (`IngestLock`). `ArmoryInv` is `IInv` of that view and
`ExportInv`: the tables read so far are those stored as long as the lock is held,
and ranked weapons are stored (`RankedStored`), because no weapon row is deleted.
Failures of the export spend the fault budget it shares with the import, so the
composition is no plain refinement of `Ingest`, and the proof carries the
invariant through each action instead. `ReadsStayCurrent`, `BuildsSucceed`,
`ArmoryRowsReferenced`.

**WorkerPoolProofs.** `PoolInv`: while the group has no error every weapon is at
the feeder, held by one worker, or collected once; and the phases (`Phased`)
follow one another. From it `PoolTypeCorrect`, `NoneCollectedTwice`,
`NilIsComplete`, `NoPanicOnSend`, and `PoolRefinesMap`: initial states map to
initial states of `ParallelMap` and every step to a step or a stutter.

**DownloadProofs.** `DownloadInv` relates each goroutine's place to what it has
read, the body it holds, its cause and the group's error. To be inductive
it had to say that a goroutine that was answered has a body, that nothing was read
before streaming, and that a returned error means that every goroutine is back.
From it `RetriesAreBounded`, `NilIsWhole`, `BodiesAreClosed`, `ErrorIsRootCause`,
and `DownloadRefinesMap`.

**RollsProofs.** `RollsInv`: the odometer counts the positions in lexicographic
order, and the combinations yielded are those at the positions before it. The
lemmas: a finite set of numbers has an ascending enumeration (by rank), a step of
the odometer goes to the next position (`NextPosition`), nothing follows the last
one (`AllBeforeLast`), and positions are choices of perks (`PositionsAreChoices`).
`GenerationIsComplete`, `RollsComeFromPool`. `CapIsExact` is about `Count`: under
`CountFits`, that the number of combinations is below 2^(Width-1), the product is
that number. The proof guesses the recursive function, the sizes of the partial choices
(`Partial`), shows with one bijection per column that it satisfies the recursion
without wrapping, and that no other function does. `CountFits` is what finding 2
is about: without it `CapHolds` is false.

**CategorizeProofs.** The same for the specification that the run checks, from the
definition on. `ScanFacts`: after m turns of the plug loop the column holds the
rollable perks among the first m plugs, each once, and their kind; `SortedFacts`:
sorting by rank keeps the elements and orders them; `PerkColumnsFacts`: no column
is lost, doubled or moved. From `CategorizeInv` follow `ColumnsAreAlwaysThePool`,
`KindsAlwaysAgree`, `EnhanceableIsKept`, `DerivedRolls` and `DerivedCap`.

Where an argument goes over the numbers (a recursion, a next position), it takes
the least counterexample (`Least`, from the library's `WFMin`): the induction
theorems of the library take an operator as a parameter, which the provers cannot
instantiate.

**Model-checked only.** Liveness (`Converges`, `LockReturned`, `RecordFollowsLive`,
`AllReturn`, `SiteConverges`, and the fairness part of both `ImplementsMap`), which
needs ENABLED. Of the artifact files nothing is proved but what `Build` accepts.

## 5. Not modelled

- Log output, the summary's counts, flags other than `-force` and `-dry-run`,
  `updated_at`, `last_checked_at`, perk scores, artifact layout and
  `generated_at`.
- The text and number columns of a weapon row: each is one lookup on which
  nothing else depends. They are part of the abstract row in `Manifest`.
- Configuration parsing, plain types, and the connection pool, a library: one
  connection holds the lock, `write` uses four of the other seven.
- Migrations: golang-migrate applies them under its own lock before the ingest
  lock is taken; what a schema change does to a running import is decided by
  Postgres.
- Durations, and with them the delay that `backoff` computes. A huge Retry-After
  delays a run, with its lock, but not for ever.
- Serial ids: no statement deletes a perk or weapon row, so the hash stands for
  the id.
- Two `ReplaceRolls` transactions for one weapon inside one another, which needs
  a lost lock and then depends on Postgres' row locks. Whole transactions
  alternate in `IngestFaults`.

## 6. Plan

All modules of the plan are written, and their safety properties proved. To come:

1. `ImportComplete`, `ScoresSurvive`, `DryRunWritesNothing` and `HeldVersionStays`
   in the composition with the export (`ArmorySpec`), from `ArmoryInv`.
2. The safety half of `SiteConverges`: an export that ends without a failure leaves
   exactly the files of its artifact, whatever the directory held.
3. A bound on the combinations of real manifests that gives `CountFits`: at most
   n columns of at most m perks.
