------------------------- MODULE IngestFaultsProofs -------------------------
(***************************************************************************)
(* What survives when the lock is lost under a run and statements are left *)
(* behind, for any number of overlapping runs, any manifest and any bound: *)
(* the foreign keys, the resolution of every job, the repair of the tables *)
(* by the first import nobody disturbs, and the scores.                    *)
(***************************************************************************)
EXTENDS IngestFaults, IngestProofs

-----------------------------------------------------------------------------
(* The statements.                                                         *)

\* A version's pool of a weapon consists of links.
LEMMA PoolTyped ==
    ASSUME NEW v \in Versions, NEW w \in Weapons
    PROVE  PoolOf[v][w] \subseteq Links
BY ManifestAssumption

\* The fields of a statement, by its kind.
LEMMA StatementFields ==
    ASSUME NEW s \in Statements
    PROVE  /\ s.stmt \in {"touch", "perks", "weapons", "record", "links", "rolls"}
           /\ s.v \in Versions
           /\ s.stmt \in {"links", "rolls"}
                 => s.w \in Weapons /\ s.ids \in SUBSET Perks
<1>1. CASE s \in [stmt : {"touch", "perks", "weapons", "record"}, v : Versions]
  BY <1>1
<1>2. CASE s \in [stmt : {"links", "rolls"}, v : Versions, w : Weapons,
                  ids : SUBSET Perks]
  BY <1>2
<1> QED
  BY <1>1, <1>2 DEF Statements

\* What a run has in the server are statements of its version.
LEMMA SentTyped ==
    ASSUME TypeInv, NEW h \in Hosts, NEW s \in Sent(h)
    PROVE  /\ s \in Statements
           /\ s.stmt \in {"links", "rolls"} => pc[h] = "jobs" /\ s.ids = perkIDs[h]
<1>1. manifest[h] \in Versions
  BY DEF Sent, TypeInv, VersionKnown
<1>2. CASE pc[h] = "jobs"
  <2>1. PICK w \in Running(h) :
           s = [stmt |-> job[h][w], v |-> manifest[h], w |-> w, ids |-> perkIDs[h]]
    BY <1>2 DEF Sent
  <2>2. w \in Weapons /\ job[h][w] \in {"links", "rolls"}
    BY DEF Running, Unfinished
  <2>3. perkIDs[h] \in SUBSET Perks
    BY DEF TypeInv, IngestTypeOK
  <2> QED
    BY <1>1, <1>2, <2>1, <2>2, <2>3 DEF Statements
<1>3. CASE pc[h] # "jobs"
  <2>1. /\ pc[h] \in {"touch", "perks", "weapons", "record"}
        /\ s = [stmt |-> pc[h], v |-> manifest[h]]
    BY <1>3 DEF Sent
  <2> QED
    BY <1>1, <2>1 DEF Statements
<1> QED
  BY <1>2, <1>3

\* The version a statement carries is that of its sender.
LEMMA SentVersion ==
    ASSUME NEW h \in Hosts, NEW s \in Sent(h)
    PROVE  s.v = manifest[h]
BY DEF Sent

\* A statement of a run that executes is one that it had in the server.
LEMMA WritesSent ==
    ASSUME NEW h \in Hosts, Writes(h)
    PROVE  \E s \in Sent(h) : Execute(s)
<1>1. ASSUME NEW ok \in BOOLEAN,
             \/ WritePerks(h, ok) \/ WriteWeapons(h, ok)
             \/ RecordImport(h, ok) \/ RecordCheck(h, ok)
      PROVE  \E s \in Sent(h) : Execute(s)
  <2> DEFINE s == [stmt |-> pc[h], v |-> manifest[h]]
  <2>1. s \in Sent(h) /\ s.stmt = pc[h] /\ s.v = manifest[h]
    BY <1>1 DEF WritePerks, WriteWeapons, RecordImport, RecordCheck, Sent
  <2>2. Execute(s)
    BY <1>1 DEF WritePerks, WriteWeapons, RecordImport, RecordCheck, Execute
  <2> QED
    BY <2>1, <2>2
<1>2. ASSUME NEW w \in Weapons, NEW ok \in BOOLEAN,
             JobLinks(h, w, ok) \/ JobRolls(h, w, ok)
      PROVE  \E s \in Sent(h) : Execute(s)
  <2> DEFINE s == [stmt |-> job[h][w], v |-> manifest[h], w |-> w,
                   ids |-> perkIDs[h]]
  <2>1. s \in Sent(h)
    BY <1>2 DEF JobLinks, JobRolls, Sent
  <2>2. Execute(s)
    BY <1>2 DEF JobLinks, JobRolls, Execute
  <2> QED
    BY <2>1, <2>2
<1> QED
  BY <1>1, <1>2 DEF Writes

\* Every statement leaves the tables well typed.
LEMMA ExecuteTyped ==
    ASSUME StoreTypeOK, NEW s \in Statements, Execute(s)
    PROVE  StoreTypeOK'
<1> USE ManifestAssumption DEF StoreTypeOK, content
<1>f. /\ s.stmt \in {"touch", "perks", "weapons", "record", "links", "rolls"}
      /\ s.v \in Versions
      /\ s.stmt \in {"links", "rolls"}
            => s.w \in Weapons /\ s.ids \in SUBSET Perks
  BY StatementFields
<1>1. CASE s.stmt \in {"touch", "record"}
  <2>1. \E b \in BOOLEAN : UpsertSyncState(s.v, b)
    BY <1>1 DEF Execute
  <2> QED
    BY <1>f, <2>1 DEF UpsertSyncState, Times, Now
<1>2. CASE s.stmt = "perks"
  <2>1. UpsertPerks(PerksOf(s.v), PerkOf[s.v])
    BY <1>2 DEF Execute
  <2> QED
    BY <1>f, <2>1 DEF UpsertPerks
<1>3. CASE s.stmt = "weapons"
  <2>1. UpsertWeapons(WeaponsOf(s.v), WeaponOf[s.v])
    BY <1>3 DEF Execute
  <2> QED
    BY <1>f, <2>1 DEF UpsertWeapons
<1>4. CASE s.stmt = "links"
  <2>1. ReplaceWeaponPerks(s.w, PoolOf[s.v][s.w])
    BY <1>4 DEF Execute
  <2>2. {l \in PoolOf[s.v][s.w] : perk[l[1]] # NoRow} \in SUBSET Links
    <3>1. s.v \in Versions /\ s.w \in Weapons
      BY <1>4, <1>f
    <3>2. PoolOf[s.v][s.w] \subseteq Links
      BY <3>1, PoolTyped
    <3> QED
      BY <3>2
  <2>3. weapon_perk' \in [Weapons -> SUBSET Links]
    BY <2>1, <2>2 DEF ReplaceWeaponPerks
  <2> QED
    BY <2>1, <2>3 DEF ReplaceWeaponPerks
<1>5. CASE s.stmt = "rolls"
  <2>1. ReplaceRolls(s.w, CombosOf[s.v][s.w], s.ids)
    BY <1>5 DEF Execute
  <2>2. roll' \in [Weapons -> [ComboKeys -> Scores \cup {Null, NoRow}]]
    BY <1>5, <1>f, <2>1 DEF ReplaceRolls
  <2> QED
    BY <2>1, <2>2 DEF ReplaceRolls
<1> QED
  BY <1>f, <1>1, <1>2, <1>3, <1>4, <1>5

\* Every statement whose ids exist keeps the foreign keys and deletes no perk
\* and no weapon.
LEMMA ExecuteKeeps ==
    ASSUME StoreTypeOK, RowsReferenced, NEW s \in Statements, Execute(s),
           s.stmt \in {"links", "rolls"} => s.ids \subseteq StoredPerks
    PROVE  /\ RowsReferenced'
           /\ StoredPerks \subseteq StoredPerks'
           /\ StoredWeapons \subseteq StoredWeapons'
<1> USE DEF StoreTypeOK
<1>f. /\ s.stmt \in {"touch", "perks", "weapons", "record", "links", "rolls"}
      /\ s.v \in Versions
      /\ s.stmt \in {"links", "rolls"}
            => s.w \in Weapons /\ s.ids \in SUBSET Perks
  BY StatementFields
<1> DEFINE Goal == /\ RowsReferenced'
                   /\ StoredPerks \subseteq StoredPerks'
                   /\ StoredWeapons \subseteq StoredWeapons'
<1>1. CASE s.stmt \in {"touch", "record"}
  <2>1. \E b \in BOOLEAN : UpsertSyncState(s.v, b)
    BY <1>1 DEF Execute
  <2> QED
    BY <2>1 DEF UpsertSyncState, content, RowsReferenced, StoredPerks,
                StoredWeapons, StoredRolls
<1>2. CASE s.stmt = "perks"
  <2>1. UpsertPerks(PerksOf(s.v), PerkOf[s.v])
    BY <1>2 DEF Execute
  <2>2. StoredPerks \subseteq StoredPerks'
    BY <1>f, <2>1, ManifestAssumption DEF UpsertPerks, StoredPerks
  <2> QED
    BY <2>1, <2>2 DEF UpsertPerks, RowsReferenced, StoredWeapons, StoredRolls
<1>3. CASE s.stmt = "weapons"
  <2>1. UpsertWeapons(WeaponsOf(s.v), WeaponOf[s.v])
    BY <1>3 DEF Execute
  <2>2. \A w \in Weapons : weapon[w] # NoRow => weapon'[w] # NoRow
    BY <2>1 DEF UpsertWeapons, WeaponsOf
  <2> QED
    BY <2>1, <2>2 DEF UpsertWeapons, RowsReferenced, StoredPerks,
                      StoredWeapons, StoredRolls
<1>4. CASE s.stmt = "links"
  <2> DEFINE links == {l \in PoolOf[s.v][s.w] : perk[l[1]] # NoRow}
  <2>1. ReplaceWeaponPerks(s.w, PoolOf[s.v][s.w])
    BY <1>4 DEF Execute
  <2>2. PoolOf[s.v][s.w] \subseteq Links
    <3>1. s.v \in Versions /\ s.w \in Weapons
      BY <1>4, <1>f
    <3> QED
      BY <3>1, PoolTyped
  <2>3. PerksIn(links) \subseteq StoredPerks
    BY <2>2 DEF PerksIn, StoredPerks, Links
  <2>4. UNCHANGED <<perk, weapon, roll>>
    BY <2>1 DEF ReplaceWeaponPerks
  <2>5. ASSUME NEW w \in Weapons
        PROVE  \/ weapon_perk'[w] = weapon_perk[w]
               \/ weapon[w] # NoRow /\ weapon_perk'[w] = links
    BY <1>4, <1>f, <2>1 DEF ReplaceWeaponPerks
  <2> HIDE DEF links
  <2>6. RowsReferenced'
    BY <2>3, <2>4, <2>5 DEF RowsReferenced, StoredPerks, StoredRolls
  <2> QED
    BY <2>4, <2>6 DEF StoredPerks, StoredWeapons
<1>5. CASE s.stmt = "rolls"
  <2> DEFINE combos == CombosOf[s.v][s.w]
  <2>1. ReplaceRolls(s.w, combos, s.ids) /\ s.w \in Weapons
    BY <1>5, <1>f DEF Execute
  <2>2. UNCHANGED <<perk, weapon, weapon_perk>>
    BY <2>1 DEF ReplaceRolls
  <2>3. CASE ~RollsResolve(s.w, combos, s.ids)
    <3>1. roll' = roll
      BY <2>1, <2>3 DEF ReplaceRolls
    <3> QED
      BY <2>2, <3>1 DEF RowsReferenced, StoredPerks, StoredWeapons, StoredRolls
  <2>4. CASE RollsResolve(s.w, combos, s.ids)
    <3>1. roll' = [roll EXCEPT ![s.w] = [c \in ComboKeys |->
                      IF c \notin combos THEN NoRow
                      ELSE IF roll[s.w][c] = NoRow THEN Null ELSE roll[s.w][c]]]
      BY <2>1, <2>4 DEF ReplaceRolls
    <3> HIDE DEF combos
    <3>2. ASSUME NEW w \in Weapons, w # s.w PROVE StoredRolls(w)' = StoredRolls(w)
      BY <3>1, <3>2 DEF StoredRolls
    <3>3. StoredRolls(s.w)' \subseteq combos
      BY <2>1, <3>1 DEF StoredRolls
    <3>4. weapon[s.w] # NoRow
      BY <2>4 DEF RollsResolve
    <3>5. ASSUME NEW c \in combos PROVE PerksIn(c) \subseteq StoredPerks
      <4>1. CASE c \in StoredRolls(s.w)
        BY <2>1, <4>1 DEF RowsReferenced
      <4>2. CASE c \notin StoredRolls(s.w)
        BY <1>5, <2>4, <3>5, <4>2 DEF RollsResolve
      <4> QED
        BY <4>1, <4>2
    <3>6. ASSUME NEW w \in Weapons
          PROVE  /\ weapon_perk[w] # {} \/ StoredRolls(w)' # {} => weapon[w] # NoRow
                 /\ PerksIn(weapon_perk[w]) \subseteq StoredPerks
                 /\ \A c \in StoredRolls(w)' : PerksIn(c) \subseteq StoredPerks
      BY <3>2, <3>3, <3>4, <3>5 DEF RowsReferenced
    <3>7. StoredPerks' = StoredPerks /\ StoredWeapons' = StoredWeapons
      BY <2>2 DEF StoredPerks, StoredWeapons
    <3>8. RowsReferenced'
      BY <2>2, <3>6, <3>7 DEF RowsReferenced
    <3> QED
      BY <3>7, <3>8
  <2> QED
    BY <2>3, <2>4
<1> QED
  BY <1>f, <1>1, <1>2, <1>3, <1>4, <1>5

-----------------------------------------------------------------------------
(* Types.                                                                  *)

FType ==
    /\ TypeInv
    /\ orphan \in Statements \cup {Null}
    /\ alone \in [Hosts -> BOOLEAN]

\* What a process does, started or running.
Moves(h) == RunStep(h) \/ Fail(h) \/ Crash(h) \/ \E o \in Options : Start(h, o)

\* A process does nothing that Ingest does not know.
LEMMA MovesNext == ASSUME NEW h \in Hosts, Moves(h) PROVE Next
BY DEF Moves, Next

\* The initial state is well typed.
LEMMA FTypeInit == FInit => FType
BY TypeInit DEF FInit, FType

\* Every step, with its faults, keeps the state well typed.
LEMMA FTypeNext == FType /\ [FNext]_fvars => FType'
<1> SUFFICES ASSUME FType, [FNext]_fvars PROVE FType'
  OBVIOUS
<1> USE DEF FType
<1>a. ASSUME NEW x, Track(x) PROVE alone' \in [Hosts -> BOOLEAN]
  BY <1>a DEF Track
<1>1. CASE UNCHANGED fvars
  <2>1. TypeInv'
    BY <1>1, TypeNext DEF fvars
  <2> QED
    BY <1>1, <2>1 DEF fvars
<1>2. ASSUME NEW h \in Hosts, Starts(h) \/ RunsOn(h) PROVE FType'
  <2>1. Moves(h)
    BY <1>2 DEF Starts, RunsOn, Moves
  <2>2. TypeInv'
    BY <2>1, MovesNext, TypeNext
  <2> QED
    BY <1>2, <1>a, <2>2 DEF Starts, RunsOn
<1>3. ASSUME NEW h \in Hosts, LoseLock(h) PROVE FType'
  <2>1. UNCHANGED <<tables, live, locals>> /\ lock' = Null /\ Reply(FALSE)
    BY <1>3 DEF LoseLock
  <2>2. TypeInv'
    BY <2>1, IngestAssumption
       DEF TypeInv, IngestTypeOK, StoreTypeOK, VersionKnown, tables, locals, Reply
  <2> QED
    BY <1>3, <2>2 DEF LoseLock
<1>4. ASSUME NEW h \in Hosts, Abandon(h) PROVE FType'
  <2>1. Moves(h)
    BY <1>4 DEF Abandon, Moves
  <2>2. TypeInv'
    BY <2>1, MovesNext, TypeNext
  <2>3. orphan' \in Statements
    BY <1>4, SentTyped DEF Abandon
  <2> QED
    BY <1>4, <1>a, <2>2, <2>3 DEF Abandon
<1>5. CASE OrphanExecutes
  <2>1. StoreTypeOK'
    BY <1>5, ExecuteTyped DEF OrphanExecutes, TypeInv, IngestTypeOK
  <2>2. TypeInv'
    BY <1>5, <2>1
       DEF OrphanExecutes, TypeInv, IngestTypeOK, VersionKnown, locals
  <2> QED
    BY <1>5, <1>a, <2>2 DEF OrphanExecutes
<1>6. CASE World
  <2>1. TypeInv'
    BY <1>6, TypeNext DEF World, Next
  <2> QED
    BY <1>6, <2>1 DEF World
<1> QED
  BY <1>1, <1>2, <1>3, <1>4, <1>5, <1>6 DEF FNext

-----------------------------------------------------------------------------
(* The tables only grow, and keep their foreign keys.                      *)

\* No step, of whatever run or left-behind statement, deletes a perk or a
\* weapon or breaks a foreign key.
LEMMA TablesKept ==
    ASSUME FaultsInv, FType, [FNext]_fvars
    PROVE  /\ RowsReferenced'
           /\ StoredPerks \subseteq StoredPerks'
           /\ StoredWeapons \subseteq StoredWeapons'
<1> DEFINE Kept == /\ RowsReferenced'
                   /\ StoredPerks \subseteq StoredPerks'
                   /\ StoredWeapons \subseteq StoredWeapons'
<1>g. SUFFICES Kept
  OBVIOUS
<1>i. RowsReferenced /\ StoreTypeOK
  BY DEF FaultsInv, FType, TypeInv, IngestTypeOK
<1>1. ASSUME UNCHANGED tables PROVE Kept
  BY <1>i, <1>1 DEF tables, RowsReferenced, StoredPerks, StoredWeapons, StoredRolls
<1> HIDE DEF Kept
<1>2. ASSUME NEW h \in Hosts, Writes(h) PROVE Kept
  <2>1. PICK s \in Sent(h) : Execute(s)
    BY <1>2, WritesSent
  <2>2. /\ s \in Statements
        /\ s.stmt \in {"links", "rolls"} => pc[h] = "jobs" /\ s.ids = perkIDs[h]
    BY SentTyped DEF FType
  <2>3. s.stmt \in {"links", "rolls"} => s.ids \subseteq StoredPerks
    BY <2>2 DEF FaultsInv, StoredInv
  <2> QED
    BY <1>i, <2>1, <2>2, <2>3, ExecuteKeeps DEF Kept
<1>3. ASSUME NEW w \in Weapons, NEW c \in ComboKeys, NEW s \in Scores,
             Score(w, c, s)
      PROVE  Kept
  <2>1. ScoreRoll(w, c, s)
    BY <1>3 DEF Score
  <2>2. \A x \in Weapons : StoredRolls(x)' = StoredRolls(x)
    BY <2>1, ScoreKeepsRolls DEF FType
  <2> QED
    BY <1>i, <2>1, <2>2
       DEF Kept, ScoreRoll, RowsReferenced, StoredPerks, StoredWeapons
<1>4. CASE Next
  BY <1>1, <1>2, <1>3, <1>4, WriteSteps
<1>5. CASE OrphanExecutes
  <2>1. orphan \in Statements /\ Execute(orphan)
    BY <1>5 DEF OrphanExecutes, FType
  <2>2. orphan.stmt \in {"links", "rolls"} => orphan.ids \subseteq StoredPerks
    BY <1>5 DEF OrphanExecutes, FaultsInv, OrphanInv
  <2> QED
    BY <1>i, <2>1, <2>2, ExecuteKeeps DEF Kept
<1>6. ASSUME NEW h \in Hosts, Starts(h) \/ RunsOn(h) \/ Abandon(h) PROVE Kept
  <2>1. Moves(h)
    BY <1>6 DEF Starts, RunsOn, Abandon, Moves
  <2> QED
    BY <2>1, <1>4, MovesNext
<1>7. ASSUME NEW h \in Hosts, LoseLock(h) PROVE Kept
  BY <1>1, <1>7 DEF LoseLock
<1>8. CASE World
  BY <1>4, <1>8 DEF World, Next
<1>9. CASE UNCHANGED fvars
  BY <1>1, <1>9 DEF fvars, vars
<1> QED
  BY <1>5, <1>6, <1>7, <1>8, <1>9 DEF FNext

-----------------------------------------------------------------------------
(* What a run relies on.                                                   *)

\* A process changes nothing of another's memory.
LEMMA OthersKept ==
    ASSUME TypeInv, NEW h \in Hosts, Moves(h), NEW k \in Hosts, k # h
    PROVE  /\ pc'[k] = pc[k] /\ manifest'[k] = manifest[k]
           /\ perkIDs'[k] = perkIDs[k] /\ job'[k] = job[k]
<1> USE DEF TypeInv, IngestTypeOK, Goto, After, Forget
<1> DEFINE Kept == /\ pc'[k] = pc[k] /\ manifest'[k] = manifest[k]
                   /\ perkIDs'[k] = perkIDs[k] /\ job'[k] = job[k]
<1>1. ASSUME \/ \E o \in Options : Start(h, o)
             \/ GetManifest(h) \/ GetSyncState(h) \/ DownloadAndProcess(h)
             \/ LoadPerkIDs(h) \/ WaitJobs(h)
      PROVE  Kept
  BY <1>1 DEF Start, GetManifest, GetSyncState, DownloadAndProcess,
              LoadPerkIDs, WaitJobs
<1>2. ASSUME Release(h) \/ Fail(h) \/ Crash(h) PROVE Kept
  BY <1>2 DEF Release, Fail, Crash
<1>3. ASSUME NEW ok \in BOOLEAN,
             \/ RecordCheck(h, ok) \/ WritePerks(h, ok)
             \/ WriteWeapons(h, ok) \/ RecordImport(h, ok)
      PROVE  Kept
  BY <1>3 DEF RecordCheck, WritePerks, WriteWeapons, RecordImport
<1>4. ASSUME NEW w \in Weapons, JobStep(h, w) PROVE Kept
  <2>1. \/ \E s \in JobStates : SetJob(h, w, s)
        \/ FailJob(h, w)
    BY <1>4 DEF JobStep, JobLinks, JobRolls, AbortJob, JobStates
  <2>2. job'[k] = job[k]
    BY <2>1 DEF SetJob, FailJob
  <2> QED
    BY <1>4, <2>2 DEF JobStep, JobLinks, JobRolls, AbortJob
<1> QED
  BY <1>1, <1>2, <1>3, <1>4 DEF Moves, RunStep

\* A run that takes no step itself relies on what it relied on.
LEMMA StoredSame ==
    ASSUME NEW k \in Hosts, StoredInv(k),
           pc'[k] = pc[k], manifest'[k] = manifest[k],
           perkIDs'[k] = perkIDs[k], job'[k] = job[k],
           StoredPerks \subseteq StoredPerks',
           StoredWeapons \subseteq StoredWeapons'
    PROVE  StoredInv(k)'
BY DEF StoredInv

\* Each step of a run establishes what the next ones rely on.
LEMMA StoredStep ==
    ASSUME TypeInv, NEW h \in Hosts, Moves(h), StoredInv(h),
           StoredPerks \subseteq StoredPerks',
           StoredWeapons \subseteq StoredWeapons'
    PROVE  StoredInv(h)'
<1>t. /\ pc \in [Hosts -> Phases]
      /\ manifest \in [Hosts -> Versions \cup {NoRow}]
      /\ perkIDs \in [Hosts -> SUBSET Perks]
      /\ job \in [Hosts -> [Weapons -> JobStates]]
      /\ live \in Versions
  BY DEF TypeInv, IngestTypeOK
<1> USE DEF Goto, After, Forget
<1>1. ASSUME pc'[h] \in {"idle", "manifest", "exit"} PROVE StoredInv(h)'
  BY <1>1 DEF StoredInv
<1>2. CASE \/ \E o \in Options : Start(h, o)
           \/ Release(h) \/ Fail(h) \/ Crash(h)
           \/ \E ok \in BOOLEAN : RecordCheck(h, ok) \/ RecordImport(h, ok)
  BY <1>1, <1>2, <1>t
     DEF Start, Release, Fail, Crash, RecordCheck, RecordImport
<1>3. CASE GetManifest(h) \/ GetSyncState(h) \/ DownloadAndProcess(h)
  BY <1>3, <1>t DEF GetManifest, GetSyncState, DownloadAndProcess, StoredInv
<1>4. ASSUME NEW ok \in BOOLEAN, WritePerks(h, ok) PROVE StoredInv(h)'
  <2> DEFINE v == manifest[h]
  <2>1. /\ pc[h] = "perks" /\ v \in Versions
        /\ pc' = [pc EXCEPT ![h] = IF ok THEN "weapons" ELSE "exit"]
        /\ UNCHANGED manifest
        /\ UpsertPerks(PerksOf(v), PerkOf[v])
    BY <1>4 DEF WritePerks, StoredInv
  <2>2. PerksOf(v) \subseteq Perks
    BY <2>1, BatchCovers DEF PerksOf
  <2>3. PerksOf(v) \subseteq StoredPerks'
    BY <2>1, <2>2, ManifestAssumption DEF UpsertPerks, StoredPerks
  <2> QED
    BY <2>1, <2>3, <1>t DEF StoredInv
<1>5. ASSUME NEW ok \in BOOLEAN, WriteWeapons(h, ok) PROVE StoredInv(h)'
  <2> DEFINE v == manifest[h]
  <2>1. /\ pc[h] = "weapons" /\ v \in Versions
        /\ pc' = [pc EXCEPT ![h] = IF ok THEN "perkIDs" ELSE "exit"]
        /\ UNCHANGED manifest
        /\ UpsertWeapons(WeaponsOf(v), WeaponOf[v])
    BY <1>5 DEF WriteWeapons, StoredInv
  <2>2. WeaponsOf(v) \subseteq StoredWeapons'
    BY <2>1 DEF UpsertWeapons, StoredWeapons, WeaponsOf
  <2> QED
    BY <2>1, <2>2, <1>t DEF StoredInv
<1>6. CASE LoadPerkIDs(h)
  <2> DEFINE v == manifest[h]
  <2>1. /\ pc[h] = "perkIDs" /\ v \in Versions
        /\ pc' = [pc EXCEPT ![h] = "jobs"]
        /\ perkIDs' = [perkIDs EXCEPT ![h] = StoredPerks]
        /\ job' = [job EXCEPT ![h] = [w \in Weapons |->
                      IF w \in WeaponsOf(v) THEN "links" ELSE "none"]]
        /\ UNCHANGED manifest
    BY <1>6 DEF LoadPerkIDs, StoredInv
  <2>2. PerksOf(v) \subseteq StoredPerks /\ WeaponsOf(v) \subseteq StoredWeapons
    BY <2>1 DEF StoredInv
  <2> QED
    BY <2>1, <2>2, <1>t DEF StoredInv
<1>7. ASSUME NEW w \in Weapons, JobStep(h, w) PROVE StoredInv(h)'
  <2>1. /\ pc[h] = "jobs" /\ w \in Running(h)
        /\ UNCHANGED <<pc, manifest, perkIDs>>
    BY <1>7 DEF JobStep, JobLinks, JobRolls, AbortJob
  <2>2. \/ SetJob(h, w, "rolls") \/ SetJob(h, w, "done")
        \/ FailJob(h, w)
    BY <1>7 DEF JobStep, JobLinks, JobRolls, AbortJob
  <2>3. job[h][w] # "none"
    BY <2>1 DEF Running, Unfinished
  <2>4. \A x \in Weapons : job'[h][x] = "none" <=> job[h][x] = "none"
    <3>1. CASE FailJob(h, w)
      BY <3>1, <2>1, <2>3, <1>t, FailJobResult
    <3>2. CASE SetJob(h, w, "rolls") \/ SetJob(h, w, "done")
      BY <3>2, <2>3, <1>t DEF SetJob
    <3> QED
      BY <2>2, <3>1, <3>2
  <2> QED
    BY <2>1, <2>4, <1>t DEF StoredInv
<1>8. CASE WaitJobs(h)
  BY <1>8, <1>t DEF WaitJobs, StoredInv
<1> QED
  BY <1>2, <1>3, <1>4, <1>5, <1>6, <1>7, <1>8 DEF Moves, RunStep

-----------------------------------------------------------------------------
(* What an undisturbed run establishes.                                    *)

\* Nothing is lost while the rows stay.
LEMMA MatchSame ==
    ASSUME NEW k \in Hosts, MatchInv(k),
           pc'[k] = pc[k], manifest'[k] = manifest[k], job'[k] = job[k],
           UNCHANGED <<perk, weapon, weapon_perk>>,
           \A w \in Weapons : StoredRolls(w)' = StoredRolls(w)
    PROVE  MatchInv(k)'
BY DEF MatchInv, Holds, PerksMatch, WeaponsMatch, LinksMatch, RollsMatch,
       WeaponsOf

\* A job that replaces links or rolls disturbs no other job.
LEMMA LinksStep ==
    ASSUME TypeInv, NEW h \in Hosts, NEW w \in Weapons, NEW ok \in BOOLEAN,
           JobLinks(h, w, ok), StoredInv(h), MatchInv(h)
    PROVE  MatchInv(h)'
<1> DEFINE v == manifest[h]
<1>t. /\ pc \in [Hosts -> Phases]
      /\ job \in [Hosts -> [Weapons -> JobStates]]
      /\ weapon_perk \in [Weapons -> SUBSET Links]
  BY DEF TypeInv, IngestTypeOK, StoreTypeOK
<1>1. /\ pc[h] = "jobs" /\ w \in Running(h) /\ job[h][w] = "links"
      /\ ReplaceWeaponPerks(w, PoolOf[v][w])
      /\ SetJob(h, w, "rolls") \/ FailJob(h, w)
      /\ UNCHANGED <<pc, manifest, perk, weapon, roll>>
  BY DEF JobLinks, ReplaceWeaponPerks
<1>2. v \in Versions /\ PerksMatch(v) /\ WeaponsMatch(v) /\ w \in WeaponsOf(v)
  BY <1>1 DEF StoredInv, MatchInv
<1>3. weapon_perk' = [weapon_perk EXCEPT ![w] = PoolOf[v][w]]
  BY <1>1, <1>2, ReplaceLinksResult
<1>4. \A x \in Weapons : /\ RollsMatch(v, x)' <=> RollsMatch(v, x)
                         /\ x # w => (LinksMatch(v, x)' <=> LinksMatch(v, x))
  BY <1>1, <1>3, <1>t DEF RollsMatch, LinksMatch, StoredRolls
<1>5. LinksMatch(v, w)'
  BY <1>1, <1>3, <1>t DEF LinksMatch
<1>6. \A x \in Weapons \ {w} : job'[h][x] \in {job[h][x], "failed"}
  <2>1. CASE SetJob(h, w, "rolls")
    BY <2>1, <1>t DEF SetJob
  <2>2. CASE FailJob(h, w)
    BY <2>2, <1>1, <1>t, FailJobResult
  <2> QED
    BY <1>1, <2>1, <2>2
<1>7. job'[h][w] \in {"rolls", "failed"}
  <2>1. CASE SetJob(h, w, "rolls")
    BY <2>1, <1>t DEF SetJob
  <2>2. CASE FailJob(h, w)
    BY <2>2, <1>1, <1>t, FailJobResult
  <2> QED
    BY <1>1, <2>1, <2>2
<1>8. /\ PerksMatch(v)' /\ WeaponsMatch(v)'
      /\ v' = v /\ pc'[h] = "jobs"
  BY <1>1, <1>2 DEF PerksMatch, WeaponsMatch
<1>9. \A x \in Weapons : /\ job[h][x] \in {"rolls", "done"} => LinksMatch(v, x)
                         /\ job[h][x] = "done" => RollsMatch(v, x)
  BY <1>1 DEF MatchInv
<1>10. \A x \in Weapons : /\ job'[h][x] \in {"rolls", "done"} => LinksMatch(v, x)'
                          /\ job'[h][x] = "done" => RollsMatch(v, x)'
  BY <1>4, <1>5, <1>6, <1>7, <1>9
<1> QED
  BY <1>8, <1>10 DEF MatchInv

\* Likewise for the rolls, which all resolve.
LEMMA RollsStep ==
    ASSUME TypeInv, NEW h \in Hosts, NEW w \in Weapons, NEW ok \in BOOLEAN,
           JobRolls(h, w, ok), StoredInv(h), MatchInv(h)
    PROVE  MatchInv(h)'
<1> DEFINE v == manifest[h]
           combos == CombosOf[v][w]
<1>t. /\ pc \in [Hosts -> Phases]
      /\ job \in [Hosts -> [Weapons -> JobStates]]
  BY DEF TypeInv, IngestTypeOK
<1>1. /\ pc[h] = "jobs" /\ w \in Running(h) /\ job[h][w] = "rolls"
      /\ ReplaceRolls(w, combos, perkIDs[h])
      /\ SetJob(h, w, "done") \/ FailJob(h, w)
      /\ UNCHANGED <<pc, manifest, perk, weapon, weapon_perk>>
  BY DEF JobRolls, ReplaceRolls
<1>2. /\ v \in Versions /\ PerksMatch(v) /\ WeaponsMatch(v) /\ w \in WeaponsOf(v)
      /\ PerksOf(v) \subseteq perkIDs[h] /\ w \in StoredWeapons
  BY <1>1 DEF StoredInv, MatchInv
<1>3. RollsResolve(w, combos, perkIDs[h])
  <2>1. \A c \in combos : PerksIn(c) \subseteq PerksOf(v)
    BY <1>2, BatchCovers
  <2> QED
    BY <1>2, <2>1 DEF RollsResolve, StoredWeapons
<1>4. combos \subseteq ComboKeys
  BY <1>2 DEF ComboKeys
<1>5. /\ StoredRolls(w)' = combos
      /\ \A x \in Weapons \ {w} : roll'[x] = roll[x]
  <2> HIDE DEF combos
  <2> QED
    BY <1>1, <1>3, <1>4, ReplaceRollsResult
<1>6. \A x \in Weapons : /\ LinksMatch(v, x)' <=> LinksMatch(v, x)
                         /\ x # w => (RollsMatch(v, x)' <=> RollsMatch(v, x))
  BY <1>1, <1>5 DEF RollsMatch, LinksMatch, StoredRolls
<1>7. RollsMatch(v, w)' /\ LinksMatch(v, w)
  BY <1>1, <1>5 DEF RollsMatch, MatchInv
<1>8. /\ \A x \in Weapons \ {w} : job'[h][x] \in {job[h][x], "failed"}
      /\ job'[h][w] \in {"done", "failed"}
  <2>1. CASE SetJob(h, w, "done")
    BY <2>1, <1>t DEF SetJob
  <2>2. CASE FailJob(h, w)
    BY <2>2, <1>1, <1>t, FailJobResult
  <2> QED
    BY <1>1, <2>1, <2>2
<1>9. /\ PerksMatch(v)' /\ WeaponsMatch(v)'
      /\ v' = v /\ pc'[h] = "jobs"
  BY <1>1, <1>2 DEF PerksMatch, WeaponsMatch
<1>10. \A x \in Weapons : /\ job[h][x] \in {"rolls", "done"} => LinksMatch(v, x)
                          /\ job[h][x] = "done" => RollsMatch(v, x)
  BY <1>1 DEF MatchInv
<1>11. \A x \in Weapons : /\ job'[h][x] \in {"rolls", "done"} => LinksMatch(v, x)'
                          /\ job'[h][x] = "done" => RollsMatch(v, x)'
  BY <1>6, <1>7, <1>8, <1>10
<1> QED
  BY <1>9, <1>11 DEF MatchInv

\* Each step of a run keeps its version in the tables, phase by phase, up to
\* the record.
LEMMA MatchStep ==
    ASSUME TypeInv, NEW h \in Hosts, Moves(h), StoredInv(h), MatchInv(h)
    PROVE  MatchInv(h)'
<1>t. /\ pc \in [Hosts -> Phases]
      /\ job \in [Hosts -> [Weapons -> JobStates]]
  BY DEF TypeInv, IngestTypeOK
<1> USE DEF Goto, After, Forget
<1>1. ASSUME pc'[h] \in {"idle", "manifest", "compare", "touch", "download",
                         "perks", "exit"}
      PROVE  MatchInv(h)'
  BY <1>1 DEF MatchInv
<1>2. CASE \/ \E o \in Options : Start(h, o)
           \/ Release(h) \/ Fail(h) \/ Crash(h)
           \/ \E ok \in BOOLEAN : RecordCheck(h, ok) \/ RecordImport(h, ok)
  BY <1>1, <1>2, <1>t
     DEF Start, Release, Fail, Crash, RecordCheck, RecordImport
<1>3. CASE GetManifest(h) \/ GetSyncState(h) \/ DownloadAndProcess(h)
  BY <1>1, <1>3, <1>t DEF GetManifest, GetSyncState, DownloadAndProcess
<1>4. ASSUME NEW ok \in BOOLEAN, WritePerks(h, ok) PROVE MatchInv(h)'
  <2> DEFINE v == manifest[h]
  <2>1. /\ pc[h] = "perks" /\ v \in Versions
        /\ pc' = [pc EXCEPT ![h] = IF ok THEN "weapons" ELSE "exit"]
        /\ UNCHANGED manifest
        /\ UpsertPerks(PerksOf(v), PerkOf[v])
    BY <1>4 DEF WritePerks, StoredInv
  <2>2. PerksOf(v) \subseteq Perks
    BY <2>1, BatchCovers DEF PerksOf
  <2>3. PerksMatch(v)'
    BY <2>1, <2>2 DEF UpsertPerks, PerksMatch
  <2> QED
    BY <2>1, <2>3, <1>t DEF MatchInv
<1>5. ASSUME NEW ok \in BOOLEAN, WriteWeapons(h, ok) PROVE MatchInv(h)'
  <2> DEFINE v == manifest[h]
  <2>1. /\ pc[h] = "weapons" /\ PerksMatch(v)
        /\ pc' = [pc EXCEPT ![h] = IF ok THEN "perkIDs" ELSE "exit"]
        /\ UNCHANGED manifest
        /\ UpsertWeapons(WeaponsOf(v), WeaponOf[v])
    BY <1>5 DEF WriteWeapons, MatchInv
  <2>2. WeaponsMatch(v)' /\ PerksMatch(v)'
    BY <2>1 DEF UpsertWeapons, WeaponsMatch, WeaponsOf, PerksMatch
  <2> QED
    BY <2>1, <2>2, <1>t DEF MatchInv
<1>6. CASE LoadPerkIDs(h)
  <2> DEFINE v == manifest[h]
  <2>1. /\ pc[h] = "perkIDs" /\ PerksMatch(v) /\ WeaponsMatch(v)
        /\ pc' = [pc EXCEPT ![h] = "jobs"]
        /\ job' = [job EXCEPT ![h] = [w \in Weapons |->
                      IF w \in WeaponsOf(v) THEN "links" ELSE "none"]]
        /\ UNCHANGED <<manifest, tables>>
    BY <1>6 DEF LoadPerkIDs, MatchInv
  <2>2. PerksMatch(v)' /\ WeaponsMatch(v)'
    BY <2>1 DEF tables, PerksMatch, WeaponsMatch
  <2>3. \A w \in Weapons : job'[h][w] \in {"links", "none"}
    BY <2>1, <1>t
  <2>4. pc'[h] = "jobs" /\ manifest'[h] = v
    BY <2>1, <1>t
  <2> QED
    BY <2>2, <2>3, <2>4 DEF MatchInv
<1>7. ASSUME NEW w \in Weapons, AbortJob(h, w) PROVE MatchInv(h)'
  <2>1. /\ pc[h] = "jobs" /\ w \in Running(h) /\ FailJob(h, w)
        /\ UNCHANGED <<pc, manifest, tables>>
    BY <1>7 DEF AbortJob
  <2>2. \A x \in Weapons : job'[h][x] \in {job[h][x], "failed"}
    BY <2>1, <1>t, FailJobResult
  <2> QED
    BY <2>1, <2>2 DEF MatchInv, tables, PerksMatch, WeaponsMatch, LinksMatch,
                      RollsMatch, StoredRolls
<1>8. CASE WaitJobs(h)
  <2> DEFINE v == manifest[h]
  <2>1. /\ pc[h] = "jobs" /\ PerksMatch(v) /\ WeaponsMatch(v)
        /\ Unfinished(h) = {}
        /\ pc' = [pc EXCEPT ![h] = IF Cancelled(h) THEN "exit" ELSE "record"]
        /\ UNCHANGED <<manifest, tables>>
    BY <1>8 DEF WaitJobs, MatchInv
  <2>2. CASE Cancelled(h)
    BY <1>1, <2>1, <2>2, <1>t
  <2>3. CASE ~Cancelled(h)
    <3>1. ASSUME NEW w \in WeaponsOf(v)
          PROVE  LinksMatch(v, w) /\ RollsMatch(v, w)
      <4>1. w \in Weapons /\ job[h][w] # "none"
        BY <2>1 DEF WeaponsOf, StoredInv
      <4>2. job[h][w] = "done"
        BY <2>1, <2>3, <4>1, <1>t DEF Unfinished, Cancelled, JobStates
      <4> QED
        BY <2>1, <4>1, <4>2 DEF MatchInv
    <3>2. Holds(v)
      BY <2>1, <3>1 DEF Holds
    <3>3. Holds(v)'
      BY <2>1, <3>2 DEF tables, Holds, PerksMatch, WeaponsMatch, LinksMatch,
                        RollsMatch, StoredRolls
    <3>4. pc'[h] = "record" /\ manifest'[h] = v
      BY <2>1, <2>3, <1>t
    <3> QED
      BY <3>3, <3>4 DEF MatchInv, Holds
  <2> QED
    BY <2>2, <2>3
<1> QED
  BY <1>2, <1>3, <1>4, <1>5, <1>6, <1>7, <1>8, LinksStep, RollsStep
     DEF Moves, RunStep, JobStep

-----------------------------------------------------------------------------
(* The inductive invariant.                                                *)

\* The typing facts that the lemmas ask for are part of the invariant.
LEMMA FaultsTyped == FaultsInv => FType
BY DEF FaultsInv, FaultsTypeOK, FType, TypeInv, VersionKnown, StoredInv

\* The initial state satisfies the invariant.
LEMMA FaultsInvInit == FInit => FaultsInv
<1> SUFFICES ASSUME FInit PROVE FaultsInv
  OBVIOUS
<1>1. FaultsTypeOK
  BY FTypeInit DEF FType, TypeInv, FaultsTypeOK
<1>2. RowsReferenced
  BY IInvInit DEF FInit, IInv
<1>3. OrphanInv /\ \A h \in Hosts : StoredInv(h) /\ MatchInv(h)
  BY DEF FInit, Init, OrphanInv, StoredInv, MatchInv
<1> QED
  BY <1>1, <1>2, <1>3 DEF FaultsInv

\* A process that takes a step keeps the invariant of every run, if others
\* are told that it wrote.
LEMMA MovesKeep ==
    ASSUME FaultsInv, FType, NEW h \in Hosts, Moves(h),
           StoredPerks \subseteq StoredPerks',
           StoredWeapons \subseteq StoredWeapons',
           Track(h) \/ (UNCHANGED <<tables, alone>> /\ pc'[h] = "manifest")
    PROVE  \A k \in Hosts : StoredInv(k)' /\ (alone'[k] => MatchInv(k)')
<1> SUFFICES ASSUME NEW k \in Hosts
             PROVE  StoredInv(k)' /\ (alone'[k] => MatchInv(k)')
  OBVIOUS
<1>t. TypeInv /\ \A x \in Hosts : StoredInv(x) /\ (alone[x] => MatchInv(x))
  BY DEF FaultsInv, FType
<1>1. StoredInv(k)'
  <2>1. CASE k = h
    BY <1>t, <2>1, StoredStep
  <2>2. CASE k # h
    BY <1>t, <2>2, OthersKept, StoredSame
  <2> QED
    BY <2>1, <2>2
<1>2. ASSUME alone'[k], pc'[k] \in ImportPhases PROVE MatchInv(k)'
  <2>1. alone[k] /\ (k = h \/ UNCHANGED content)
    BY <1>2 DEF Track, tables, content, ImportPhases
  <2>2. CASE k = h
    BY <1>t, <2>1, <2>2, MatchStep
  <2>3. CASE k # h
    <3>1. UNCHANGED <<perk, weapon, weapon_perk>>
          /\ \A w \in Weapons : StoredRolls(w)' = StoredRolls(w)
      BY <2>1, <2>3 DEF content, StoredRolls
    <3> QED
      BY <1>t, <2>1, <2>3, <3>1, OthersKept, MatchSame
  <2> QED
    BY <2>2, <2>3
<1>3. ASSUME pc'[k] \notin ImportPhases PROVE MatchInv(k)'
  BY <1>3 DEF MatchInv, ImportPhases
<1> QED
  BY <1>1, <1>2, <1>3

\* A step of the server or of the world keeps it too.
LEMMA OutsideKeeps ==
    ASSUME FaultsInv, UNCHANGED locals,
           StoredPerks \subseteq StoredPerks',
           StoredWeapons \subseteq StoredWeapons',
           \/ Track(Null)
           \/ /\ UNCHANGED <<perk, weapon, weapon_perk, alone>>
              /\ \A w \in Weapons : StoredRolls(w)' = StoredRolls(w)
    PROVE  \A k \in Hosts : StoredInv(k)' /\ (alone'[k] => MatchInv(k)')
<1> SUFFICES ASSUME NEW k \in Hosts
             PROVE  StoredInv(k)' /\ (alone'[k] => MatchInv(k)')
  OBVIOUS
<1>t. StoredInv(k) /\ (alone[k] => MatchInv(k))
  BY DEF FaultsInv
<1>1. StoredInv(k)'
  BY <1>t, StoredSame DEF locals
<1>2. ASSUME alone'[k], pc'[k] \in ImportPhases PROVE MatchInv(k)'
  <2>1. /\ alone[k]
        /\ UNCHANGED <<perk, weapon, weapon_perk>>
        /\ \A w \in Weapons : StoredRolls(w)' = StoredRolls(w)
    <3>1. k # Null
      BY IngestAssumption
    <3> QED
      BY <1>2, <3>1 DEF Track, content, StoredRolls
  <2> QED
    BY <1>t, <2>1, MatchSame DEF locals
<1>3. ASSUME pc'[k] \notin ImportPhases PROVE MatchInv(k)'
  BY <1>3 DEF MatchInv, ImportPhases
<1> QED
  BY <1>1, <1>2, <1>3

\* Every step, faults included, preserves the invariant.
LEMMA FaultsInvNext == FaultsInv /\ [FNext]_fvars => FaultsInv'
<1> SUFFICES ASSUME FaultsInv, [FNext]_fvars PROVE FaultsInv'
  OBVIOUS
<1>t. FType /\ FType'
  BY FaultsTyped, FTypeNext
<1>k. /\ RowsReferenced'
      /\ StoredPerks \subseteq StoredPerks'
      /\ StoredWeapons \subseteq StoredWeapons'
  BY <1>t, TablesKept
<1> DEFINE Each == \A k \in Hosts : StoredInv(k)' /\ (alone'[k] => MatchInv(k)')
<1>s. SUFFICES OrphanInv' /\ Each
  BY <1>t, <1>k DEF FaultsInv, FaultsTypeOK, FType, TypeInv
<1>o. UNCHANGED orphan \/ orphan' = Null => OrphanInv'
  BY <1>k DEF FaultsInv, OrphanInv
<1>1. CASE UNCHANGED fvars
  <2>1. UNCHANGED <<tables, locals, orphan, alone>>
    BY <1>1 DEF fvars, vars
  <2>2. Each
    BY <2>1, <1>k, OutsideKeeps DEF tables, StoredRolls
  <2> QED
    BY <2>1, <2>2, <1>o
<1>2. ASSUME NEW h \in Hosts, Starts(h) PROVE OrphanInv' /\ Each
  <2>1. Moves(h) /\ UNCHANGED <<tables, alone, orphan>> /\ pc'[h] = "manifest"
    BY <1>2, <1>t DEF Starts, Moves, Start, Goto, FType, TypeInv, IngestTypeOK
  <2> QED
    BY <2>1, <1>t, <1>k, <1>o, MovesKeep
<1>3. ASSUME NEW h \in Hosts, RunsOn(h) PROVE OrphanInv' /\ Each
  <2>1. Moves(h) /\ Track(h) /\ UNCHANGED orphan
    BY <1>3 DEF RunsOn, Moves
  <2> QED
    BY <2>1, <1>t, <1>k, <1>o, MovesKeep
<1>4. ASSUME NEW h \in Hosts, LoseLock(h) PROVE OrphanInv' /\ Each
  <2>1. UNCHANGED <<tables, locals, orphan, alone>>
    BY <1>4 DEF LoseLock
  <2>2. Each
    BY <2>1, <1>k, OutsideKeeps DEF tables, StoredRolls
  <2> QED
    BY <2>1, <2>2, <1>o
<1>5. ASSUME NEW h \in Hosts, Abandon(h) PROVE OrphanInv' /\ Each
  <2>1. Moves(h) /\ Track(h) /\ orphan' \in Sent(h)
    BY <1>5 DEF Abandon, Moves
  <2>2. Each
    BY <2>1, <1>t, <1>k, MovesKeep
  <2>3. orphan'.stmt \in {"links", "rolls"}
           => pc[h] = "jobs" /\ orphan'.ids = perkIDs[h]
    BY <2>1, <1>t, SentTyped DEF FType
  <2>4. OrphanInv'
    BY <2>3, <1>k DEF OrphanInv, FaultsInv, StoredInv
  <2> QED
    BY <2>2, <2>4
<1>6. CASE OrphanExecutes
  <2>1. UNCHANGED locals /\ Track(Null) /\ orphan' = Null
    BY <1>6 DEF OrphanExecutes
  <2> QED
    BY <2>1, <1>k, <1>o, OutsideKeeps
<1>7. CASE World
  <2>1. UNCHANGED <<locals, orphan, alone>>
    BY <1>7 DEF World, Publish, Score
  <2>2. /\ UNCHANGED <<perk, weapon, weapon_perk>>
        /\ \A w \in Weapons : StoredRolls(w)' = StoredRolls(w)
    <3>1. CASE \E v \in Versions : Publish(v)
      BY <3>1 DEF Publish, tables, StoredRolls
    <3>2. CASE \E w \in Weapons, c \in ComboKeys, s \in Scores : Score(w, c, s)
      BY <3>2, <1>t, ScoreKeepsRolls DEF Score, ScoreRoll, FType
    <3> QED
      BY <1>7, <3>1, <3>2 DEF World
  <2> QED
    BY <2>1, <2>2, <1>k, <1>o, OutsideKeeps
<1> QED
  BY <1>1, <1>2, <1>3, <1>4, <1>5, <1>6, <1>7 DEF FNext

\* FaultsInv: the invariant holds whatever locks are lost and whatever
\* statements are left behind.
THEOREM FaultsInvariance == FSpec => []FaultsInv
BY FaultsInvInit, FaultsInvNext, PTL DEF FSpec

\* RowsReferenced: no overlap of runs and statements breaks a foreign key.
THEOREM OverlapKeepsRowsReferenced == FSpec => []RowsReferenced
<1>1. FaultsInv => RowsReferenced
  BY DEF FaultsInv
<1> QED
  BY <1>1, FaultsInvariance, PTL

\* JobsResolve: not even overlapping runs meet a weapon without a row or a
\* perk without an id.
THEOREM OverlapKeepsJobsResolve == FSpec => []JobsResolve
<1>1. FaultsInv => JobsResolve
  <2> SUFFICES ASSUME FaultsInv, NEW h \in Hosts, pc[h] = "jobs",
                      NEW w \in Unfinished(h)
               PROVE  /\ RollsResolve(w, CombosOf[manifest[h]][w], perkIDs[h])
                      /\ PerksIn(PoolOf[manifest[h]][w]) \subseteq StoredPerks
    BY DEF JobsResolve
  <2>1. /\ manifest[h] \in Versions
        /\ WeaponsOf(manifest[h]) \subseteq StoredWeapons
        /\ PerksOf(manifest[h]) \subseteq perkIDs[h]
        /\ perkIDs[h] \subseteq StoredPerks
        /\ w \in WeaponsOf(manifest[h])
    BY DEF FaultsInv, StoredInv, Unfinished
  <2> QED
    BY <2>1, BatchCovers DEF RollsResolve, StoredWeapons
<1> QED
  BY <1>1, FaultsInvariance, PTL

\* ImportRepairs: an import that nobody disturbed holds its version when it
\* comes to record it, in whatever state it found the tables.
THEOREM UndisturbedImportRepairs == FSpec => []ImportRepairs
<1>1. FaultsInv => ImportRepairs
  BY DEF FaultsInv, MatchInv, ImportRepairs
<1> QED
  BY <1>1, FaultsInvariance, PTL

-----------------------------------------------------------------------------
(* The scores.                                                             *)

\* A statement takes a score away only if it prunes the roll.
LEMMA ExecutePrunes ==
    ASSUME StoreTypeOK, NEW s \in Statements, Execute(s),
           NEW w \in Weapons, NEW c \in ComboKeys,
           roll[w][c] \in Scores, roll'[w][c] # roll[w][c]
    PROVE  s.stmt = "rolls" /\ c \notin CombosOf[s.v][w]
<1>f. /\ s.stmt \in {"touch", "perks", "weapons", "record", "links", "rolls"}
      /\ s.stmt \in {"links", "rolls"} => s.w \in Weapons
  BY StatementFields
<1>1. CASE s.stmt # "rolls"
  BY <1>1, <1>f DEF Execute, UpsertSyncState, UpsertPerks, UpsertWeapons,
                    ReplaceWeaponPerks, content
<1>2. CASE s.stmt = "rolls"
  <2> DEFINE combos == CombosOf[s.v][s.w]
             row == [d \in ComboKeys |->
                       IF d \notin combos THEN NoRow
                       ELSE IF roll[s.w][d] = NoRow THEN Null ELSE roll[s.w][d]]
  <2>1. roll' = roll \/ roll' = [roll EXCEPT ![s.w] = row]
    BY <1>2 DEF Execute, ReplaceRolls
  <2>2. roll' = [roll EXCEPT ![s.w] = row] /\ s.w = w
    <3> HIDE DEF row
    <3> QED
      BY <2>1 DEF StoreTypeOK
  <2>3. roll'[w][c] = row[c] /\ roll[w][c] # NoRow
    <3> HIDE DEF row
    <3> QED
      BY <2>2, StoreAssumption DEF StoreTypeOK
  <2>4. c \notin combos
    BY <2>2, <2>3
  <2> QED
    BY <1>2, <2>2, <2>4
<1> QED
  BY <1>1, <1>2

\* ScoresSurviveOverlap: a score gives way only to another score, or to a
\* statement, of a run or left behind, whose version lacks the roll.
THEOREM ScoresSurviveFaults == FSpec => ScoresSurviveOverlap
<1> DEFINE Pruned(w, c) ==
        \E v \in {manifest[h] : h \in {k \in Hosts : pc[k] = "jobs"}}
                     \cup (IF orphan = Null THEN {} ELSE {orphan.v}) :
            c \notin CombosOf[v][w]
<1>1. ASSUME FaultsInv, [FNext]_fvars, NEW w \in Weapons, NEW c \in ComboKeys,
             roll[w][c] \in Scores, roll'[w][c] # roll[w][c],
             roll'[w][c] \notin Scores
      PROVE  Pruned(w, c)
  <2>t. FType /\ StoreTypeOK
    BY <1>1, FaultsTyped DEF FType, TypeInv, IngestTypeOK
  <2>1. ASSUME NEW h \in Hosts, Writes(h) PROVE Pruned(w, c)
    <3>1. PICK s \in Sent(h) : Execute(s)
      BY <2>1, WritesSent
    <3>2. s \in Statements /\ s.v = manifest[h]
          /\ (s.stmt \in {"links", "rolls"} => pc[h] = "jobs")
      BY <2>t, SentTyped, SentVersion DEF FType
    <3>3. s.stmt = "rolls" /\ c \notin CombosOf[s.v][w]
      BY <1>1, <2>t, <3>1, <3>2, ExecutePrunes
    <3> QED
      BY <3>2, <3>3
  <2>2. ASSUME NEW x \in Weapons, NEW d \in ComboKeys, NEW s \in Scores,
               Score(x, d, s)
        PROVE  FALSE
    <3>1. roll' = [roll EXCEPT ![x][d] = s]
      BY <2>2 DEF Score, ScoreRoll
    <3> QED
      BY <1>1, <2>t, <3>1 DEF StoreTypeOK
  <2>3. CASE Next
    <3>1. ~UNCHANGED tables
      BY <1>1 DEF tables
    <3> QED
      BY <2>1, <2>2, <2>3, <3>1, WriteSteps
  <2>4. CASE OrphanExecutes
    <3>1. orphan \in Statements /\ orphan # Null /\ Execute(orphan)
      BY <2>4, <2>t DEF OrphanExecutes, FType
    <3>2. c \notin CombosOf[orphan.v][w]
      BY <1>1, <2>t, <3>1, ExecutePrunes
    <3> QED
      BY <3>1, <3>2
  <2>5. CASE UNCHANGED tables
    BY <1>1, <2>5 DEF tables
  <2>6. Next \/ OrphanExecutes \/ UNCHANGED tables
    <3>1. ASSUME NEW h \in Hosts, Starts(h) \/ RunsOn(h) \/ Abandon(h)
          PROVE  Next
      <4>1. Moves(h)
        BY <3>1 DEF Starts, RunsOn, Abandon, Moves
      <4> QED
        BY <4>1, MovesNext
    <3>2. ASSUME NEW h \in Hosts, LoseLock(h) PROVE UNCHANGED tables
      BY <3>2 DEF LoseLock
    <3>3. ASSUME World PROVE Next
      BY <3>3 DEF World, Next
    <3> QED
      BY <1>1, <3>1, <3>2, <3>3 DEF FNext, fvars, vars
  <2> QED
    BY <2>3, <2>4, <2>5, <2>6
<1>2. FaultsInv /\ [FNext]_fvars
        => \A w \in Weapons, c \in ComboKeys :
              roll[w][c] \in Scores /\ roll'[w][c] # roll[w][c]
                  => \/ roll'[w][c] \in Scores
                     \/ \E v \in {manifest[h] : h \in {k \in Hosts : pc[k] = "jobs"}}
                                  \cup (IF orphan = Null THEN {} ELSE {orphan.v}) :
                           c \notin CombosOf[v][w]
  BY <1>1
<1> QED
  BY <1>2, FaultsInvariance, PTL DEF FSpec, ScoresSurviveOverlap
=============================================================================
