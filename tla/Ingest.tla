------------------------------- MODULE Ingest -------------------------------
(***************************************************************************)
(* cmd/ingest runs on several hosts against one database.  A run takes the *)
(* advisory lock, performs Runner.Run statement by statement and releases  *)
(* the lock.  Bungie replaces the live manifest version and the scoring    *)
(* job writes scores at any time.  A statement can fail before it executes *)
(* or after (the reply is lost), and the process can be killed anywhere.   *)
(***************************************************************************)
EXTENDS Store

CONSTANTS
    Hosts,      \* machines whose cron starts an ingest
    DBWorkers,  \* limit of the errgroup in write()
    Releases,   \* Releases[<<u, v>>]: Bungie may replace version u by v
    MaxFaults   \* bound on failed statements and crashes

VARIABLES
    live,       \* the manifest version Bungie serves
    lock,       \* the session holding the ingest advisory lock, or Null
    pc,         \* pc[h]   : what the run on h does next
    opts,       \* opts[h] : the -force and -dry-run flags
    manifest,   \* manifest[h] : the version GetManifest returned
    perkIDs,    \* perkIDs[h]  : the perk hashes PerkIDsByHash returned
    job,        \* job[h][w]   : the reconciliation job of weapon w
    faults      \* failures so far

locals == <<pc, opts, manifest, perkIDs, job>>
vars == <<tables, live, lock, locals, faults>>

ASSUME IngestAssumption ==
    /\ Null \notin Hosts
    /\ NoRow \notin Hosts
    /\ DBWorkers \in Nat \ {0}
    /\ Releases \subseteq Versions \X Versions
    /\ MaxFaults \in Nat

Phases == {"idle", "manifest", "compare", "touch", "download", "perks",
           "weapons", "perkIDs", "jobs", "record", "exit"}

JobStates == {"none", "links", "rolls", "done", "failed"}

Options == [force : BOOLEAN, dryRun : BOOLEAN]

Plain == [force |-> FALSE, dryRun |-> FALSE]

NoJobs == [w \in Weapons |-> "none"]

IngestTypeOK ==
    /\ StoreTypeOK
    /\ live \in Versions
    /\ lock \in Hosts \cup {Null}
    /\ pc \in [Hosts -> Phases]
    /\ opts \in [Hosts -> Options]
    /\ manifest \in [Hosts -> Versions \cup {NoRow}]
    /\ perkIDs \in [Hosts -> SUBSET Perks]
    /\ job \in [Hosts -> [Weapons -> JobStates]]
    /\ faults \in 0 .. MaxFaults

Init ==
    /\ StoreInit
    /\ live \in Versions
    /\ lock = Null
    /\ pc = [h \in Hosts |-> "idle"]
    /\ opts = [h \in Hosts |-> Plain]
    /\ manifest = [h \in Hosts |-> NoRow]
    /\ perkIDs = [h \in Hosts |-> {}]
    /\ job = [h \in Hosts |-> NoJobs]
    /\ faults = 0

-----------------------------------------------------------------------------
Goto(h, phase) == pc' = [pc EXCEPT ![h] = phase]

\* A statement was executed; ok says whether its reply arrived.
Reply(ok) ==
    /\ ok \/ faults < MaxFaults
    /\ faults' = IF ok THEN faults ELSE faults + 1

\* The next phase after an executed statement: an error ends the run.
After(h, ok, phase) == Reply(ok) /\ Goto(h, IF ok THEN phase ELSE "exit")

\* The process is gone and nothing of its memory remains.
Forget(h) ==
    /\ pc' = [pc EXCEPT ![h] = "idle"]
    /\ opts' = [opts EXCEPT ![h] = Plain]
    /\ manifest' = [manifest EXCEPT ![h] = NoRow]
    /\ perkIDs' = [perkIDs EXCEPT ![h] = {}]
    /\ job' = [job EXCEPT ![h] = NoJobs]

\* Faulty variant: no lock.
StartUnlocked(h, o) ==
    /\ pc[h] = "idle"
    /\ lock' = h
    /\ opts' = [opts EXCEPT ![h] = o]
    /\ Goto(h, "manifest")
    /\ UNCHANGED <<tables, live, manifest, perkIDs, job, faults>>

\* AcquireIngestLock does not wait: a start that finds the lock taken exits
\* without having touched anything, which is no step.
Start(h, o) ==
    /\ pc[h] = "idle"
    /\ lock = Null
    /\ lock' = h
    /\ opts' = [opts EXCEPT ![h] = o]
    /\ Goto(h, "manifest")
    /\ UNCHANGED <<tables, live, manifest, perkIDs, job, faults>>

GetManifest(h) ==
    /\ pc[h] = "manifest"
    /\ manifest' = [manifest EXCEPT ![h] = live]
    /\ Goto(h, "compare")
    /\ UNCHANGED <<tables, live, lock, opts, perkIDs, job, faults>>

\* Faulty variant: the skip branch forgets -dry-run.
GetSyncStateTouching(h) ==
    /\ pc[h] = "compare"
    /\ Goto(h, IF sync.version = manifest[h] /\ ~opts[h].force
               THEN "touch" ELSE "download")
    /\ UNCHANGED <<tables, live, lock, opts, manifest, perkIDs, job, faults>>

\* Faulty variant: any recorded version will do.
GetSyncStateAnyVersion(h) ==
    /\ pc[h] = "compare"
    /\ Goto(h, IF sync.version # NoRow /\ ~opts[h].force
               THEN IF opts[h].dryRun THEN "exit" ELSE "touch"
               ELSE "download")
    /\ UNCHANGED <<tables, live, lock, opts, manifest, perkIDs, job, faults>>

\* sync.version = NoRow is found = FALSE.
GetSyncState(h) ==
    /\ pc[h] = "compare"
    /\ Goto(h, IF sync.version = manifest[h] /\ ~opts[h].force
               THEN IF opts[h].dryRun THEN "exit" ELSE "touch"
               ELSE "download")
    /\ UNCHANGED <<tables, live, lock, opts, manifest, perkIDs, job, faults>>

\* The skip branch records the check.
RecordCheck(h, ok) ==
    /\ pc[h] = "touch"
    /\ UpsertSyncState(manifest[h], FALSE)
    /\ After(h, ok, "exit")
    /\ UNCHANGED <<live, lock, opts, manifest, perkIDs, job>>

\* Faulty variant: -dry-run goes on to write().
DownloadAndWrite(h) ==
    /\ pc[h] = "download"
    /\ Goto(h, "perks")
    /\ UNCHANGED <<tables, live, lock, opts, manifest, perkIDs, job, faults>>

\* download and processWeapons: what they return is fixed by the version.
DownloadAndProcess(h) ==
    /\ pc[h] = "download"
    /\ Goto(h, IF opts[h].dryRun THEN "exit" ELSE "perks")
    /\ UNCHANGED <<tables, live, lock, opts, manifest, perkIDs, job, faults>>

WritePerks(h, ok) ==
    /\ pc[h] = "perks"
    /\ UpsertPerks(PerksOf(manifest[h]), PerkOf[manifest[h]])
    /\ After(h, ok, "weapons")
    /\ UNCHANGED <<live, lock, opts, manifest, perkIDs, job>>

WriteWeapons(h, ok) ==
    /\ pc[h] = "weapons"
    /\ UpsertWeapons(WeaponsOf(manifest[h]), WeaponOf[manifest[h]])
    /\ After(h, ok, "perkIDs")
    /\ UNCHANGED <<live, lock, opts, manifest, perkIDs, job>>

LoadPerkIDs(h) ==
    /\ pc[h] = "perkIDs"
    /\ perkIDs' = [perkIDs EXCEPT ![h] = StoredPerks]
    /\ job' = [job EXCEPT ![h] = [w \in Weapons |->
                  IF w \in WeaponsOf(manifest[h]) THEN "links" ELSE "none"]]
    /\ Goto(h, "jobs")
    /\ UNCHANGED <<tables, live, lock, opts, manifest, faults>>

-----------------------------------------------------------------------------
(* The reconciliation jobs of write().                                     *)

Unfinished(h) == {w \in Weapons : job[h][w] \in {"links", "rolls"}}

\* g.Go launches jobs in hash order and blocks at the limit, so the running
\* jobs are the first DBWorkers unfinished ones.
Running(h) ==
    {w \in Unfinished(h) :
        Cardinality({x \in Unfinished(h) : x < w}) < DBWorkers}

Cancelled(h) == \E w \in Weapons : job[h][w] = "failed"

\* The first error cancels gctx, and a job not yet launched fails at its
\* first call.  Jobs touch rows of different weapons, so it makes no
\* difference which of them still ran before the cancellation.
FailJob(h, w) ==
    job' = [job EXCEPT ![h] = [x \in Weapons |->
               IF x = w \/ x \in Unfinished(h) \ Running(h)
               THEN "failed" ELSE job[h][x]]]

SetJob(h, w, s) == job' = [job EXCEPT ![h][w] = s]

\* After an error of another job, this one may or may not have noticed.
JobLinks(h, w, ok) ==
    /\ pc[h] = "jobs"
    /\ w \in Running(h)
    /\ job[h][w] = "links"
    /\ ReplaceWeaponPerks(w, PoolOf[manifest[h]][w])
    /\ Reply(ok)
    /\ \/ ok /\ SetJob(h, w, "rolls")
       \/ (ok => Cancelled(h)) /\ FailJob(h, w)
    /\ UNCHANGED <<live, lock, pc, opts, manifest, perkIDs>>

JobRolls(h, w, ok) ==
    /\ pc[h] = "jobs"
    /\ w \in Running(h)
    /\ job[h][w] = "rolls"
    /\ ReplaceRolls(w, CombosOf[manifest[h]][w], perkIDs[h])
    /\ Reply(ok)
    /\ IF ok /\ RollsResolve(w, CombosOf[manifest[h]][w], perkIDs[h])
       THEN SetJob(h, w, "done") ELSE FailJob(h, w)
    /\ UNCHANGED <<live, lock, pc, opts, manifest, perkIDs>>

\* The next statement of the job does not execute: it failed, or the context was
\* already cancelled.
AbortJob(h, w) ==
    /\ pc[h] = "jobs"
    /\ w \in Running(h)
    /\ Reply(Cancelled(h))
    /\ FailJob(h, w)
    /\ UNCHANGED <<tables, live, lock, pc, opts, manifest, perkIDs>>

\* Faulty variant: the error of g.Wait is dropped.
WaitJobsNoError(h) ==
    /\ pc[h] = "jobs"
    /\ Unfinished(h) = {}
    /\ Goto(h, "record")
    /\ UNCHANGED <<tables, live, lock, opts, manifest, perkIDs, job, faults>>

\* g.Wait returns once every job has returned.
WaitJobs(h) ==
    /\ pc[h] = "jobs"
    /\ Unfinished(h) = {}
    /\ Goto(h, IF Cancelled(h) THEN "exit" ELSE "record")
    /\ UNCHANGED <<tables, live, lock, opts, manifest, perkIDs, job, faults>>

-----------------------------------------------------------------------------
RecordImport(h, ok) ==
    /\ pc[h] = "record"
    /\ UpsertSyncState(manifest[h], TRUE)
    /\ After(h, ok, "exit")
    /\ UNCHANGED <<live, lock, opts, manifest, perkIDs, job>>

\* A session gives back the lock only if it holds it.
Unlock(h) == lock' = IF lock = h THEN Null ELSE lock

\* The deferred release(), and the process exits.
Release(h) ==
    /\ pc[h] = "exit"
    /\ Unlock(h)
    /\ Forget(h)
    /\ UNCHANGED <<tables, live, faults>>

\* Any call outside the jobs returns an error without having had an effect.
Fail(h) ==
    /\ pc[h] \notin {"idle", "jobs", "exit"}
    /\ Reply(FALSE)
    /\ Goto(h, "exit")
    /\ UNCHANGED <<tables, live, lock, opts, manifest, perkIDs, job>>

\* Faulty variant: a lock that outlives the session, such as a table row.
CrashKeepingLock(h) ==
    /\ pc[h] # "idle"
    /\ Reply(FALSE)
    /\ Forget(h)
    /\ UNCHANGED <<tables, live, lock>>

\* The process dies; Postgres ends its sessions and with them the lock.
Crash(h) ==
    /\ pc[h] # "idle"
    /\ Unlock(h)
    /\ Reply(FALSE)
    /\ Forget(h)
    /\ UNCHANGED <<tables, live>>

-----------------------------------------------------------------------------
(* The environment.                                                        *)

Publish(v) ==
    /\ <<live, v>> \in Releases
    /\ live' = v
    /\ UNCHANGED <<tables, lock, locals, faults>>

Score(w, c, s) ==
    /\ ScoreRoll(w, c, s)
    /\ UNCHANGED <<live, lock, locals, faults>>

-----------------------------------------------------------------------------
JobStep(h, w) ==
    \/ \E ok \in BOOLEAN : JobLinks(h, w, ok) \/ JobRolls(h, w, ok)
    \/ AbortJob(h, w)

RunStep(h) ==
    \/ GetManifest(h)
    \/ GetSyncState(h)
    \/ DownloadAndProcess(h)
    \/ LoadPerkIDs(h)
    \/ WaitJobs(h)
    \/ Release(h)
    \/ \E ok \in BOOLEAN : \/ RecordCheck(h, ok)
                           \/ WritePerks(h, ok)
                           \/ WriteWeapons(h, ok)
                           \/ RecordImport(h, ok)
    \/ \E w \in Weapons : JobStep(h, w)

Next ==
    \/ \E h \in Hosts : \/ \E o \in Options : Start(h, o)
                        \/ RunStep(h)
                        \/ Fail(h)
                        \/ Crash(h)
    \/ \E v \in Versions : Publish(v)
    \/ \E w \in Weapons, c \in ComboKeys, s \in Scores : Score(w, c, s)

Spec == Init /\ [][Next]_vars

\* A started process runs on.  Cron starts a plain ingest on every host
\* again and again, so one of its starts finds the lock free.
Fairness ==
    \A h \in Hosts : WF_vars(RunStep(h)) /\ SF_vars(Start(h, Plain))

FairSpec == Spec /\ Fairness

-----------------------------------------------------------------------------
(* Properties.                                                             *)

\* ImportComplete: last_changed_at moves only at a moment when the database
\* holds every perk, weapon, link and roll of the version being recorded
\* ("marking a completed import", UpsertSyncState), whatever failed, was
\* cancelled or crashed before.
ImportComplete ==
    [][sync'.changed_at # sync.changed_at => Holds(sync.version)']_vars

\* HeldVersionStays: while the database holds the recorded version, only the
\* import of another version can take it out of that state.  In particular
\* a forced or repeated import of the same version, complete or not, passes
\* through no state that lacks a row of it.
HeldVersionStays ==
    [][(sync.version \in Versions /\ Holds(sync.version))
        => \/ Holds(sync.version)'
           \/ \E h \in Hosts : /\ lock = h
                               /\ manifest[h] # sync.version
                               /\ ~opts[h].dryRun]_vars

\* ScoresSurvive: the score of a roll changes only by the scoring job, or by
\* an import of a version that does not generate that roll ("existing rolls,
\* including any curated scores on them, are untouched", ReplaceRolls).
ScoresSurvive ==
    [][\A w \in Weapons, c \in ComboKeys :
        roll[w][c] \in Scores /\ roll'[w][c] # roll[w][c]
            => \/ roll'[w][c] \in Scores
               \/ \E h \in Hosts : /\ pc[h] = "jobs"
                                   /\ w \in WeaponsOf(manifest[h])
                                   /\ c \notin CombosOf[manifest[h]][w]]_vars

\* DryRunWritesNothing: while a dry run holds the lock, the ingest-owned
\* tables do not change ("nothing is written to the database", Runner.DryRun).
DryRunWritesNothing ==
    [][\A h \in Hosts : lock = h /\ opts[h].dryRun
        => /\ UNCHANGED <<perk, weapon, weapon_perk, sync>>
           /\ \A w \in Weapons : StoredRolls(w)' = StoredRolls(w)]_vars

\* JobsResolve: no reconciliation job can meet a weapon without a row or a
\* perk without an id, the two error returns of ReplaceRolls, and no link is
\* dropped by the JOIN of ReplaceWeaponPerks.
JobsResolve ==
    \A h \in Hosts : pc[h] = "jobs" =>
        \A w \in Unfinished(h) :
            /\ RollsResolve(w, CombosOf[manifest[h]][w], perkIDs[h])
            /\ PerksIn(PoolOf[manifest[h]][w]) \subseteq StoredPerks

\* RowsReferenced: the foreign keys.  Every link and every roll belongs to a
\* stored weapon and names stored perks, in every state of every run.
RowsReferenced ==
    \A w \in Weapons :
        /\ weapon_perk[w] # {} \/ StoredRolls(w) # {} => weapon[w] # NoRow
        /\ PerksIn(weapon_perk[w]) \subseteq StoredPerks
        /\ \A c \in StoredRolls(w) : PerksIn(c) \subseteq StoredPerks

\* Converges: once Bungie stops releasing and the failures stop, the live
\* version is recorded and held for good, however the earlier runs ended.
Converges == <>[](sync.version = live /\ Holds(live))

\* LockReturned: no run keeps the advisory lock for ever.
LockReturned == \A h \in Hosts : lock = h ~> lock # h

\* SkipMeansNothingToDo: a run that skips because the version is unchanged
\* reports "manifest %s unchanged; nothing to do" (cmd/ingest/main.go), so
\* at that moment the database should hold that version.
SkipMeansNothingToDo ==
    [][\A h \in Hosts :
        pc[h] = "compare" /\ pc'[h] = "touch" => Holds(sync.version)]_vars

\* ImplementsMirror: hosts, statements, flags and failures together keep the
\* simple promise of Mirror, "marking a completed import" for the record and
\* "at most one ingest run mutates the database at a time" (internal/db).
Importing == {h \in Hosts :
    pc[h] \in {"perks", "weapons", "perkIDs", "jobs", "record"}}

Promise == INSTANCE Mirror WITH
    Nothing <- NoRow,
    recorded <- sync.version,
    held <- sync.version \in Versions /\ Holds(sync.version),
    importing <- IF Importing = {} THEN NoRow
                 ELSE manifest[CHOOSE h \in Importing : TRUE]

ImplementsMirror == Promise!Spec

-----------------------------------------------------------------------------
(* The inductive invariant behind the safety properties (IngestProofs).    *)

\* Only the holder of the lock is past its start.
HolderRuns == \A h \in Hosts : pc[h] # "idle" => lock = h

\* What a run has established of its version in each phase.
PhaseInv(h) ==
    LET v == manifest[h] IN
    /\ pc[h] \notin {"idle", "manifest", "exit"} => v \in Versions
    /\ pc[h] = "touch" => sync.version = v
    /\ pc[h] \in {"touch", "perks", "weapons", "perkIDs", "jobs", "record"}
           => ~opts[h].dryRun
    /\ pc[h] \in {"weapons", "perkIDs", "jobs", "record"} => PerksMatch(v)
    /\ pc[h] \in {"perkIDs", "jobs", "record"} => WeaponsMatch(v)
    /\ pc[h] = "record" => Holds(v)

JobInv(h) ==
    LET v == manifest[h] IN
    pc[h] = "jobs" =>
        /\ PerksOf(v) \subseteq perkIDs[h]
        /\ perkIDs[h] \subseteq StoredPerks
        /\ \A w \in Weapons :
              /\ job[h][w] = "none" <=> w \notin WeaponsOf(v)
              /\ job[h][w] \in {"rolls", "done"} => LinksMatch(v, w)
              /\ job[h][w] = "done" => RollsMatch(v, w)

IInv ==
    /\ IngestTypeOK
    /\ HolderRuns
    /\ RowsReferenced
    /\ \A h \in Hosts : PhaseInv(h) /\ JobInv(h)
=============================================================================
