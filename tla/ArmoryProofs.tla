---------------------------- MODULE ArmoryProofs ----------------------------
(***************************************************************************)
(* Proofs about Armory: what the export may rely on although it reads one  *)
(* statement at a time, beside runs that fail and crash and a ranking job  *)
(* that takes no lock.                                                     *)
(***************************************************************************)
EXTENDS Armory, TLAPS

\* The lock as the ingest sees it: the export is not one of its runs.
IngestLock == IF lock = Exporter THEN Null ELSE lock

IngestView == INSTANCE IngestProofs WITH lock <- IngestLock

\* The assumptions of Ingest hold of the view.
LEMMA ViewAssumptions ==
    /\ IngestView!ManifestAssumption
    /\ IngestView!CombosWithinPool
    /\ IngestView!StoreAssumption
    /\ IngestView!IngestAssumption
BY ManifestAssumption, CombosWithinPool, StoreAssumption, IngestAssumption
   DEF IngestView!ManifestAssumption, IngestView!CombosWithinPool,
       IngestView!StoreAssumption, IngestView!IngestAssumption,
       Links, IngestView!Links, IsFiniteSet, IngestView!IsFiniteSet

-----------------------------------------------------------------------------
(* An ingest step is a step of the view.                                   *)

\* What a run takes from the manifest is the same in the view.
LEMMA SameManifest ==
    /\ IngestView!ComboKeys = ComboKeys
    /\ \A v : IngestView!WeaponsOf(v) = WeaponsOf(v)
    /\ \A v : IngestView!PerksOf(v) = PerksOf(v)
    /\ \A s : IngestView!PerksIn(s) = PerksIn(s)
BY DEF IngestView!ComboKeys, ComboKeys, IngestView!WeaponsOf, WeaponsOf,
       IngestView!PerksOf, PerksOf, IngestView!PerksIn, PerksIn

\* So is which jobs run.
LEMMA SameJobs ==
    ASSUME NEW h
    PROVE  /\ IngestView!Unfinished(h) = Unfinished(h)
           /\ IngestView!Running(h) = Running(h)
           /\ IngestView!Cancelled(h) = Cancelled(h)
<1>1. IngestView!Unfinished(h) = Unfinished(h)
  BY DEF IngestView!Unfinished, Unfinished
<1>2. \A S : IngestView!Cardinality(S) = Cardinality(S)
  BY DEF IngestView!Cardinality, Cardinality, IngestView!IsFiniteSet, IsFiniteSet
<1> QED
  BY <1>1, <1>2 DEF IngestView!Running, Running, IngestView!Cancelled, Cancelled

\* And what the statements do.
LEMMA SameStatements ==
    /\ \A w : IngestView!StoredRolls(w) = StoredRolls(w)
    /\ IngestView!StoredPerks = StoredPerks
    /\ \A ps, row : UpsertPerks(ps, row) => IngestView!UpsertPerks(ps, row)
    /\ \A ws, row : UpsertWeapons(ws, row) => IngestView!UpsertWeapons(ws, row)
    /\ \A w, ls : ReplaceWeaponPerks(w, ls) => IngestView!ReplaceWeaponPerks(w, ls)
    /\ \A w, cs, ids : IngestView!RollsResolve(w, cs, ids) = RollsResolve(w, cs, ids)
    /\ \A w, cs, ids : ReplaceRolls(w, cs, ids) => IngestView!ReplaceRolls(w, cs, ids)
    /\ \A v, b : UpsertSyncState(v, b) => IngestView!UpsertSyncState(v, b)
    /\ \A w, c, s : ScoreRoll(w, c, s) => IngestView!ScoreRoll(w, c, s)
<1>1. \A w : IngestView!StoredRolls(w) = StoredRolls(w)
  BY SameManifest DEF IngestView!StoredRolls, StoredRolls
<1>2. IngestView!StoredPerks = StoredPerks
  BY DEF IngestView!StoredPerks, StoredPerks
<1>3. \A ps, row : UpsertPerks(ps, row) => IngestView!UpsertPerks(ps, row)
  BY DEF IngestView!UpsertPerks, UpsertPerks
<1>4. \A ws, row : UpsertWeapons(ws, row) => IngestView!UpsertWeapons(ws, row)
  BY DEF IngestView!UpsertWeapons, UpsertWeapons
<1>5. \A w, ls : ReplaceWeaponPerks(w, ls) => IngestView!ReplaceWeaponPerks(w, ls)
  BY DEF IngestView!ReplaceWeaponPerks, ReplaceWeaponPerks
<1>6. ASSUME NEW w, NEW cs, NEW ids
      PROVE  IngestView!RollsResolve(w, cs, ids) = RollsResolve(w, cs, ids)
  BY <1>1, SameManifest DEF IngestView!RollsResolve, RollsResolve
<1>7. ASSUME NEW w, NEW cs, NEW ids, ReplaceRolls(w, cs, ids)
      PROVE  IngestView!ReplaceRolls(w, cs, ids)
  BY <1>6, <1>7, SameManifest DEF IngestView!ReplaceRolls, ReplaceRolls
<1>8. \A v, b : UpsertSyncState(v, b) => IngestView!UpsertSyncState(v, b)
  BY DEF IngestView!UpsertSyncState, UpsertSyncState, IngestView!content,
         content, IngestView!Now, Now
<1>9. \A w, c, s : ScoreRoll(w, c, s) => IngestView!ScoreRoll(w, c, s)
  BY DEF IngestView!ScoreRoll, ScoreRoll
<1> QED
  BY <1>1, <1>2, <1>3, <1>4, <1>5, <1>6, <1>7, <1>8, <1>9

\* Every step of the ingest is one of the view: a run never holds the lock
\* the export holds, and gives back only its own.
LEMMA ViewStep == Next => IngestView!Next
<1> SUFFICES ASSUME Next PROVE IngestView!Next
  OBVIOUS
<1> USE DEF Goto, IngestView!Goto, Reply, IngestView!Reply, After,
            IngestView!After, Forget, IngestView!Forget, Plain,
            IngestView!Plain, NoJobs, IngestView!NoJobs, tables,
            IngestView!tables, locals, IngestView!locals
<1>o. IngestView!Options = Options
  BY DEF Options, IngestView!Options
<1>l. ASSUME UNCHANGED lock PROVE UNCHANGED IngestLock
  BY <1>l DEF IngestLock
<1>r. ASSUME NEW h \in Hosts, IngestView!RunStep(h) PROVE IngestView!Next
  BY <1>r DEF IngestView!Next
<1>1. ASSUME NEW h \in Hosts, NEW o \in Options, Start(h, o)
      PROVE  IngestView!Next
  <2>1. IngestLock = Null /\ IngestLock' = h
    BY <1>1, ArmoryAssumption DEF Start, IngestLock
  <2>2. IngestView!Start(h, o)
    BY <1>1, <2>1 DEF Start, IngestView!Start
  <2> QED
    BY <2>2, <1>o DEF IngestView!Next
<1>2. ASSUME NEW h \in Hosts, GetManifest(h) PROVE IngestView!Next
  <2>1. IngestView!GetManifest(h)
    BY <1>2, <1>l DEF GetManifest, IngestView!GetManifest
  <2> QED
    BY <1>r, <2>1 DEF IngestView!RunStep
<1>3. ASSUME NEW h \in Hosts, GetSyncState(h) PROVE IngestView!Next
  <2>1. IngestView!GetSyncState(h)
    BY <1>3, <1>l DEF GetSyncState, IngestView!GetSyncState
  <2> QED
    BY <1>r, <2>1 DEF IngestView!RunStep
<1>4. ASSUME NEW h \in Hosts, DownloadAndProcess(h) PROVE IngestView!Next
  <2>1. IngestView!DownloadAndProcess(h)
    BY <1>4, <1>l DEF DownloadAndProcess, IngestView!DownloadAndProcess
  <2> QED
    BY <1>r, <2>1 DEF IngestView!RunStep
<1>5. ASSUME NEW h \in Hosts, LoadPerkIDs(h) PROVE IngestView!Next
  <2>1. IngestView!LoadPerkIDs(h)
    BY <1>5, <1>l, SameManifest, SameStatements
       DEF LoadPerkIDs, IngestView!LoadPerkIDs
  <2> QED
    BY <1>r, <2>1 DEF IngestView!RunStep
<1>6. ASSUME NEW h \in Hosts, WaitJobs(h) PROVE IngestView!Next
  <2>1. IngestView!WaitJobs(h)
    BY <1>6, <1>l, SameJobs DEF WaitJobs, IngestView!WaitJobs
  <2> QED
    BY <1>r, <2>1 DEF IngestView!RunStep
<1>7. ASSUME NEW h \in Hosts, Unlock(h) PROVE IngestView!Unlock(h)
  BY <1>7, ArmoryAssumption, IngestAssumption
     DEF Unlock, IngestView!Unlock, IngestLock
<1>8. ASSUME NEW h \in Hosts, Release(h) PROVE IngestView!Next
  <2>1. IngestView!Release(h)
    BY <1>8, <1>7 DEF Release, IngestView!Release
  <2> QED
    BY <1>r, <2>1 DEF IngestView!RunStep
<1>9. ASSUME NEW h \in Hosts, Crash(h) PROVE IngestView!Next
  <2>1. IngestView!Crash(h)
    BY <1>9, <1>7 DEF Crash, IngestView!Crash
  <2> QED
    BY <2>1 DEF IngestView!Next
<1>10. ASSUME NEW h \in Hosts, Fail(h) PROVE IngestView!Next
  <2>1. IngestView!Fail(h)
    BY <1>10, <1>l DEF Fail, IngestView!Fail
  <2> QED
    BY <2>1 DEF IngestView!Next
<1>11. ASSUME NEW h \in Hosts, NEW ok \in BOOLEAN,
              RecordCheck(h, ok) \/ RecordImport(h, ok)
       PROVE  IngestView!Next
  <2>1. IngestView!RecordCheck(h, ok) \/ IngestView!RecordImport(h, ok)
    BY <1>11, <1>l, SameStatements
       DEF RecordCheck, IngestView!RecordCheck, RecordImport,
           IngestView!RecordImport
  <2> QED
    BY <1>r, <2>1 DEF IngestView!RunStep
<1>12. ASSUME NEW h \in Hosts, NEW ok \in BOOLEAN,
              WritePerks(h, ok) \/ WriteWeapons(h, ok)
       PROVE  IngestView!Next
  <2>1. IngestView!WritePerks(h, ok) \/ IngestView!WriteWeapons(h, ok)
    BY <1>12, <1>l, SameStatements, SameManifest
       DEF WritePerks, IngestView!WritePerks, WriteWeapons,
           IngestView!WriteWeapons
  <2> QED
    BY <1>r, <2>1 DEF IngestView!RunStep
<1>13. ASSUME NEW h \in Hosts, NEW w \in Weapons, NEW s, SetJob(h, w, s)
       PROVE  IngestView!SetJob(h, w, s)
  BY <1>13 DEF SetJob, IngestView!SetJob
<1>14. ASSUME NEW h \in Hosts, NEW w \in Weapons, FailJob(h, w)
       PROVE  IngestView!FailJob(h, w)
  <2>1. IngestView!Unfinished(h) \ IngestView!Running(h) = Unfinished(h) \ Running(h)
    BY SameJobs
  <2> DEFINE row(S) == [x \in Weapons |-> IF x = w \/ x \in S
                                          THEN "failed" ELSE job[h][x]]
  <2>2. job' = [job EXCEPT ![h] = row(Unfinished(h) \ Running(h))]
    BY <1>14 DEF FailJob
  <2>3. job' = [job EXCEPT ![h] = row(IngestView!Unfinished(h) \ IngestView!Running(h))]
    BY <2>1, <2>2
  <2> QED
    BY <2>3 DEF IngestView!FailJob
<1>15. ASSUME NEW h \in Hosts, NEW w \in Weapons, JobStep(h, w)
       PROVE  IngestView!Next
  <2>1. ASSUME NEW ok \in BOOLEAN, JobLinks(h, w, ok)
        PROVE  IngestView!JobLinks(h, w, ok)
    BY <2>1, <1>l, <1>13, <1>14, SameStatements, SameJobs
       DEF JobLinks, IngestView!JobLinks
  <2>2. ASSUME NEW ok \in BOOLEAN, JobRolls(h, w, ok)
        PROVE  IngestView!JobRolls(h, w, ok)
    BY <2>2, <1>l, <1>13, <1>14, SameStatements, SameJobs
       DEF JobRolls, IngestView!JobRolls
  <2>3. ASSUME AbortJob(h, w) PROVE IngestView!AbortJob(h, w)
    BY <2>3, <1>l, <1>14, SameJobs DEF AbortJob, IngestView!AbortJob
  <2>4. IngestView!JobStep(h, w)
    BY <1>15, <2>1, <2>2, <2>3 DEF JobStep, IngestView!JobStep
  <2> QED
    BY <1>r, <2>4 DEF IngestView!RunStep
<1>16. ASSUME NEW v \in Versions, Publish(v) PROVE IngestView!Next
  <2>1. IngestView!Publish(v)
    BY <1>16, <1>l DEF Publish, IngestView!Publish
  <2> QED
    BY <2>1 DEF IngestView!Next
<1>17. ASSUME NEW w \in Weapons, NEW c \in ComboKeys, NEW s \in Scores,
              Score(w, c, s)
       PROVE  IngestView!Next
  <2>1. IngestView!Score(w, c, s)
    BY <1>17, <1>l, SameStatements DEF Score, IngestView!Score
  <2> QED
    BY <2>1, SameManifest DEF IngestView!Next
<1> QED
  BY <1>1, <1>2, <1>3, <1>4, <1>5, <1>6, <1>8, <1>9, <1>10, <1>11, <1>12,
     <1>15, <1>16, <1>17 DEF Next, RunStep

-----------------------------------------------------------------------------
(* The invariant of the ingest, seen from the armory.                      *)

\* What the export needs of it.
LEMMA ViewRows ==
    ASSUME IngestView!IInv
    PROVE  /\ RowsReferenced
           /\ IngestView!TypeInv
           /\ DOMAIN weapon = Weapons
<1>1. RowsReferenced
  BY SameStatements, SameManifest
     DEF IngestView!IInv, IngestView!RowsReferenced, RowsReferenced
<1>2. IngestView!TypeInv
  BY IngestView!IInvTyped, ViewAssumptions
<1>3. DOMAIN weapon = Weapons
  BY DEF IngestView!IInv, IngestView!IngestTypeOK, IngestView!StoreTypeOK
<1> QED
  BY <1>1, <1>2, <1>3

\* While the export holds the lock, only scores move.
LEMMA FrozenTables ==
    ASSUME IngestView!IInv, Next, lock = Exporter
    PROVE  /\ UNCHANGED <<perk, weapon, weapon_perk, sync>>
           /\ \A w \in Weapons : StoredRolls(w)' = StoredRolls(w)
<1>1. CASE UNCHANGED IngestView!tables
  BY <1>1 DEF IngestView!tables, StoredRolls
<1>2. ASSUME NEW h \in Hosts, IngestView!Writes(h) PROVE FALSE
  <2>1. IngestLock = h
    BY <1>2, IngestView!WriterHolds, ViewAssumptions
  <2> QED
    BY <2>1, IngestAssumption DEF IngestLock
<1>3. ASSUME NEW w \in Weapons, NEW c \in ComboKeys, NEW s \in Scores,
             IngestView!Score(w, c, s)
      PROVE  /\ UNCHANGED <<perk, weapon, weapon_perk, sync>>
             /\ \A x \in Weapons : StoredRolls(x)' = StoredRolls(x)
  <2>1. IngestView!ScoreRoll(w, c, s) /\ c \in IngestView!ComboKeys
    BY <1>3, SameManifest DEF IngestView!Score
  <2>2. \A x \in Weapons :
           IngestView!StoredRolls(x)' = IngestView!StoredRolls(x)
    BY <2>1, ViewRows, IngestView!ScoreKeepsRolls, ViewAssumptions
  <2>3. ASSUME NEW x \in Weapons
        PROVE  /\ IngestView!StoredRolls(x) = StoredRolls(x)
               /\ IngestView!StoredRolls(x)' = StoredRolls(x)'
    BY DEF IngestView!StoredRolls, StoredRolls, IngestView!ComboKeys, ComboKeys
  <2> QED
    BY <2>1, <2>2, <2>3 DEF IngestView!ScoreRoll
<1>4. \/ UNCHANGED IngestView!tables
      \/ \E h \in Hosts : IngestView!Writes(h)
      \/ \E w \in Weapons, c \in IngestView!ComboKeys, s \in Scores :
            IngestView!Score(w, c, s)
  BY ViewStep, IngestView!WriteSteps, ViewAssumptions
<1> QED
  BY <1>1, <1>2, <1>3, <1>4, SameManifest

\* No step of the ingest loses a weapon row.
LEMMA WeaponRowsStay ==
    ASSUME IngestView!IInv, Next, NEW w \in Weapons, weapon[w] # NoRow
    PROVE  weapon'[w] # NoRow
<1>1. CASE UNCHANGED IngestView!tables
  BY <1>1 DEF IngestView!tables
<1>2. ASSUME NEW h \in Hosts, IngestView!Writes(h) PROVE weapon'[w] # NoRow
  <2>1. CASE UNCHANGED weapon
    BY <2>1
  <2>2. ASSUME NEW ok \in BOOLEAN, IngestView!WriteWeapons(h, ok)
        PROVE  weapon'[w] # NoRow
    BY <2>2 DEF IngestView!WriteWeapons, IngestView!UpsertWeapons,
                IngestView!WeaponsOf
  <2> QED
    BY <1>2, <2>1, <2>2
       DEF IngestView!Writes, IngestView!WritePerks, IngestView!UpsertPerks,
           IngestView!RecordImport, IngestView!RecordCheck,
           IngestView!UpsertSyncState, IngestView!content,
           IngestView!JobLinks, IngestView!ReplaceWeaponPerks,
           IngestView!JobRolls, IngestView!ReplaceRolls
<1>3. ASSUME NEW x \in Weapons, NEW c, NEW s, IngestView!Score(x, c, s)
      PROVE  weapon'[w] # NoRow
  BY <1>3 DEF IngestView!Score, IngestView!ScoreRoll
<1>4. \/ UNCHANGED IngestView!tables
      \/ \E h \in Hosts : IngestView!Writes(h)
      \/ \E x \in Weapons, c \in IngestView!ComboKeys, s \in Scores :
            IngestView!Score(x, c, s)
  BY ViewStep, IngestView!WriteSteps, ViewAssumptions
<1> QED
  BY <1>1, <1>2, <1>3, <1>4

\* No step of the ingest takes the lock from the export.
LEMMA LockKept == Next /\ lock = Exporter => lock' = Exporter
<1> SUFFICES ASSUME Next, lock = Exporter, lock' # lock PROVE FALSE
  OBVIOUS
<1>1. ASSUME NEW h \in Hosts, NEW o \in Options, Start(h, o) PROVE FALSE
  BY <1>1, ArmoryAssumption DEF Start
<1>2. ASSUME NEW h \in Hosts, Release(h) \/ Crash(h) PROVE FALSE
  BY <1>2, ArmoryAssumption DEF Release, Crash, Unlock
<1>3. ASSUME NEW h \in Hosts, NEW w \in Weapons, JobStep(h, w) PROVE FALSE
  BY <1>3 DEF JobStep, JobLinks, JobRolls, AbortJob
<1> QED
  BY <1>1, <1>2, <1>3
     DEF Next, RunStep, GetManifest, GetSyncState, DownloadAndProcess,
         LoadPerkIDs, WaitJobs, RecordCheck, WritePerks, WriteWeapons,
         RecordImport, Fail, Publish, Score

\* The order in which the export reads.
LEMMA ReadOrder ==
    /\ Len(Reads) = 6 /\ DOMAIN Reads = 1 .. 6
    /\ Reads[1] = "version" /\ Reads[2] = "weapon" /\ Reads[3] = "perk"
    /\ Reads[4] = "weapon_perk" /\ Reads[5] = "roll" /\ Reads[6] = "ranking"
    /\ ToSet(Reads) = {"version", "weapon", "perk", "weapon_perk", "roll", "ranking"}
<1>1. /\ Len(Reads) = 6 /\ DOMAIN Reads = 1 .. 6
      /\ Reads[1] = "version" /\ Reads[2] = "weapon" /\ Reads[3] = "perk"
      /\ Reads[4] = "weapon_perk" /\ Reads[5] = "roll" /\ Reads[6] = "ranking"
  BY DEF Reads
<1>2. 1 .. 6 = {1, 2, 3, 4, 5, 6}
  OBVIOUS
<1>3. ToSet(Reads) = {Reads[1], Reads[2], Reads[3], Reads[4], Reads[5], Reads[6]}
  BY <1>1, <1>2 DEF ToSet
<1> QED
  BY <1>1, <1>3

ArmoryInv == IngestView!IInv /\ ExportInv

\* What a step that is not the export's leaves of its invariant: the tables it
\* has read stay, rankings come only for weapons that have rolls.
LEMMA ExportUndisturbed ==
    ASSUME ExportInv, UNCHANGED export,
           xpc # "idle" => /\ lock' = Exporter
                           /\ UNCHANGED <<perk, weapon, weapon_perk, sync>>
                           /\ \A w \in Weapons : StoredRolls(w)' = StoredRolls(w),
           DOMAIN ranking' = Weapons,
           \A w \in Weapons : weapon[w] # NoRow => weapon'[w] # NoRow,
           \A w \in Weapons : ranking'[w] # NoRow /\ ranking[w] = NoRow
                                  => weapon'[w] # NoRow
    PROVE  ExportInv'
<1> USE DEF ExportInv, export
<1>1. ExporterHolds'
  BY DEF ExporterHolds
<1>2. ReadsAreCurrent'
  <2> SUFFICES ASSUME xpc \in {"read", "write"}, NEW n \in DOMAIN Reads,
                      xpc = "write" \/ n < xnext,
                      Reads[n] \in {"version", "weapon", "perk", "weapon_perk"}
               PROVE  snap[Reads[n]] = Current(Reads[n])'
    BY DEF ReadsAreCurrent
  <2>1. snap[Reads[n]] = Current(Reads[n])
    BY DEF ReadsAreCurrent
  <2>2. UNCHANGED <<perk, weapon, weapon_perk, sync>>
    OBVIOUS
  <2> QED
    BY <2>1, <2>2 DEF Current
<1>3. RollsRead'
  BY DEF RollsRead, SnapRolls
<1>4. RankedStored'
  BY DEF RankedStored
<1> QED
  BY <1>1, <1>2, <1>3, <1>4

\* Ending an export, in whatever way, leaves nothing to rely on.
LEMMA ExportEnds ==
    ASSUME ExportInv, ExportForget, UNCHANGED <<tables, ranking>>
    PROVE  ExportInv'
<1>1. ExporterHolds' /\ ReadsAreCurrent' /\ RollsRead'
  BY DEF ExportForget, ExporterHolds, ReadsAreCurrent, RollsRead
<1>2. RankedStored'
  BY DEF ExportInv, ExportForget, RankedStored, tables
<1> QED
  BY <1>1, <1>2 DEF ExportInv, ExportForget, NothingRead

\* Reading one more table.
LEMMA ReadStep == ASSUME ExportInv, ExportRead PROVE ExportInv'
<1> DEFINE t == Reads[xnext]
<1>1. /\ xpc = "read" /\ xnext \in 1 .. 6
      /\ xnext' = xnext + 1
      /\ snap' = [snap EXCEPT ![t] = Current(t)]
      /\ UNCHANGED <<vars, ranking, site>>
  BY ReadOrder DEF ExportRead
<1>2. t \in DOMAIN snap
  BY <1>1, ReadOrder DEF ExportInv
<1>3. /\ DOMAIN snap' = DOMAIN snap
      /\ snap'[t] = Current(t)
      /\ \A u \in DOMAIN snap \ {t} : snap'[u] = snap[u]
  BY <1>1, <1>2
<1>4. UNCHANGED <<perk, weapon, weapon_perk, roll, sync, lock>>
  BY <1>1 DEF vars, tables
<1>5. xpc' \in {"read", "exit"}
  BY <1>1 DEF ExportRead
<1>6. ASSUME NEW n \in 1 .. 6, n # xnext
      PROVE  Reads[n] \in DOMAIN snap \ {t}
  BY <1>1, <1>6, ReadOrder DEF ExportInv
<1>7. ReadsAreCurrent'
  <2> SUFFICES ASSUME NEW n \in 1 .. 6, n < xnext',
                      Reads[n] \in {"version", "weapon", "perk", "weapon_perk"}
               PROVE  snap'[Reads[n]] = Current(Reads[n])'
    BY <1>5, ReadOrder DEF ReadsAreCurrent
  <2>1. Current(Reads[n])' = Current(Reads[n])
    BY <1>4 DEF Current
  <2>2. CASE n = xnext
    BY <1>3, <2>1, <2>2
  <2>3. CASE n # xnext
    <3>1. n < xnext
      BY <1>1, <2>3
    <3>2. snap[Reads[n]] = Current(Reads[n])
      BY <1>1, <3>1, ReadOrder DEF ExportInv, ReadsAreCurrent
    <3> QED
      BY <1>3, <1>6, <2>1, <2>3, <3>2
  <2> QED
    BY <2>2, <2>3
<1>8. RollsRead'
  <2> SUFFICES ASSUME xnext' > 5, NEW w \in Weapons
               PROVE  SnapRolls(w)' = StoredRolls(w)'
    BY DEF RollsRead
  <2>1. StoredRolls(w)' = StoredRolls(w)
    BY <1>4 DEF StoredRolls
  <2>2. CASE xnext = 5
    <3>1. snap'["roll"] = roll
      BY <1>3, <2>2, ReadOrder DEF Current
    <3> QED
      BY <2>1, <3>1 DEF SnapRolls, StoredRolls
  <2>3. CASE xnext = 6
    <3>1. snap'["roll"] = snap["roll"]
      BY <1>1, <1>3, <1>6, <2>3, ReadOrder
    <3>2. SnapRolls(w) = StoredRolls(w)
      BY <1>1, <2>3 DEF ExportInv, RollsRead
    <3> QED
      BY <2>1, <3>1, <3>2 DEF SnapRolls
  <2> QED
    BY <1>1, <2>2, <2>3
<1>9. RankedStored'
  <2> SUFFICES ASSUME NEW w \in Weapons,
                      \/ ranking[w] # NoRow
                      \/ xnext' > 6 /\ snap'["ranking"][w] # NoRow
               PROVE  weapon[w] # NoRow
    BY <1>1, <1>4 DEF RankedStored
  <2>1. ranking[w] # NoRow => weapon[w] # NoRow
    BY DEF ExportInv, RankedStored
  <2>2. xnext' > 6 => snap'["ranking"] = ranking
    BY <1>1, <1>3, ReadOrder DEF Current
  <2> QED
    BY <2>1, <2>2
<1> QED
  BY <1>1, <1>3, <1>4, <1>5, <1>7, <1>8, <1>9 DEF ExportInv, ExporterHolds

\* The initial state satisfies the invariant.
LEMMA ArmoryInvInit == ArmoryInit => ArmoryInv
<1> SUFFICES ASSUME ArmoryInit PROVE ArmoryInv
  OBVIOUS
<1>1. IngestView!Init
  BY ArmoryAssumption
     DEF ArmoryInit, Init, IngestView!Init, StoreInit, IngestView!StoreInit,
         ComboKeys, IngestView!ComboKeys, IngestLock, Plain,
         IngestView!Plain, NoJobs, IngestView!NoJobs
<1>2. IngestView!IInv
  BY <1>1, IngestView!IInvInit, ViewAssumptions
<1>3. ExportInv
  BY DEF ArmoryInit, ExportInv, NothingRead, ExporterHolds, ReadsAreCurrent,
         RollsRead, RankedStored
<1> QED
  BY <1>2, <1>3 DEF ArmoryInv

\* Every step preserves the invariant.
LEMMA ArmoryInvNext == ArmoryInv /\ [ArmoryNext]_avars => ArmoryInv'
<1> SUFFICES ASSUME IngestView!IInv, ExportInv, [ArmoryNext]_avars
             PROVE  IngestView!IInv' /\ ExportInv'
  BY DEF ArmoryInv
<1>i. ASSUME IngestView!Next \/ UNCHANGED IngestView!vars
      PROVE  IngestView!IInv'
  BY <1>i, IngestView!IInvNext, ViewAssumptions
<1>s. ASSUME UNCHANGED <<tables, live, locals, faults, IngestLock>>
      PROVE  IngestView!IInv'
  BY <1>i, <1>s DEF tables, locals, IngestView!vars, IngestView!tables,
                    IngestView!locals
<1>r. RowsReferenced /\ DOMAIN weapon = Weapons
  BY ViewRows
<1>1. CASE UNCHANGED avars
  <2>1. IngestView!IInv'
    BY <1>1, <1>s DEF avars, vars, IngestLock
  <2>2. ExportInv'
    BY <1>1, ExportUndisturbed
       DEF avars, vars, tables, ExportInv, ExporterHolds, StoredRolls
  <2> QED
    BY <2>1, <2>2
<1>2. CASE IngestStep
  <2>1. Next /\ UNCHANGED <<ranking, export>>
    BY <1>2 DEF IngestStep
  <2>2. IngestView!IInv'
    BY <2>1, <1>i, ViewStep
  <2>3. xpc # "idle" => lock = Exporter
    BY DEF ExportInv, ExporterHolds
  <2>4. \A w \in Weapons : weapon[w] # NoRow => weapon'[w] # NoRow
    BY <2>1, WeaponRowsStay
  <2>5. ExportInv'
    BY <2>1, <2>3, <2>4, FrozenTables, LockKept, ExportUndisturbed
       DEF ExportInv
  <2> QED
    BY <2>2, <2>5
<1>3. CASE ExportStart
  <2>1. IngestLock = Null /\ UNCHANGED IngestLock
    BY <1>3, ArmoryAssumption DEF ExportStart, IngestLock
  <2>2. IngestView!IInv'
    BY <1>3, <2>1, <1>s DEF ExportStart
  <2>3. ExporterHolds'
    BY <1>3 DEF ExportStart, ExporterHolds
  <2>4. xnext = 1 /\ xpc' = "read" /\ UNCHANGED <<tables, ranking, xnext, snap>>
    BY <1>3 DEF ExportStart, ExportInv
  <2>5. ReadsAreCurrent'
    BY <2>4, ReadOrder DEF ReadsAreCurrent
  <2>6. RollsRead' /\ RankedStored'
    BY <2>4 DEF RollsRead, RankedStored, ExportInv, tables
  <2> QED
    BY <1>3, <2>2, <2>3, <2>5, <2>6 DEF ExportStart, ExportInv
<1>4. CASE ExportRead
  <2>1. IngestView!IInv'
    BY <1>4, <1>s DEF ExportRead, vars, IngestLock
  <2> QED
    BY <1>4, <2>1, ReadStep
<1>5. CASE Build
  <2>1. IngestView!IInv'
    BY <1>5, <1>s DEF Build, vars, IngestLock
  <2>2. /\ xpc = "read" /\ xnext = 7 /\ xpc' \in {"write", "exit"}
        /\ UNCHANGED <<tables, lock, ranking, snap>>
    BY <1>5, ReadOrder DEF Build, vars
  <2>3. ReadsAreCurrent'
    <3> SUFFICES ASSUME NEW n \in 1 .. 6,
                        Reads[n] \in {"version", "weapon", "perk", "weapon_perk"}
                 PROVE  snap[Reads[n]] = Current(Reads[n])'
      BY <2>2, ReadOrder DEF ReadsAreCurrent
    <3>1. snap[Reads[n]] = Current(Reads[n])
      BY <2>2, ReadOrder DEF ExportInv, ReadsAreCurrent
    <3> QED
      BY <2>2, <3>1 DEF Current, tables
  <2>4. ExporterHolds' /\ RollsRead' /\ RankedStored'
    BY <2>2 DEF ExportInv, ExporterHolds, RollsRead, RankedStored, tables
  <2> QED
    BY <1>5, <2>1, <2>2, <2>3, <2>4 DEF Build, ExportInv
<1>6. CASE WriteFile
  <2>1. IngestView!IInv'
    BY <1>6, <1>s DEF WriteFile, vars, IngestLock
  <2>2. /\ xpc = "write" /\ xpc' = "write" /\ xnext' = xnext + 1
        /\ UNCHANGED <<tables, lock, ranking, snap>>
    BY <1>6 DEF WriteFile, vars
  <2>3. ReadsAreCurrent'
    <3> SUFFICES ASSUME NEW n \in DOMAIN Reads,
                        Reads[n] \in {"version", "weapon", "perk", "weapon_perk"}
                 PROVE  snap[Reads[n]] = Current(Reads[n])'
      BY <2>2 DEF ReadsAreCurrent
    <3>1. snap[Reads[n]] = Current(Reads[n])
      BY <2>2 DEF ExportInv, ReadsAreCurrent
    <3> QED
      BY <2>2, <3>1 DEF Current, tables
  <2>4. ExporterHolds' /\ RollsRead' /\ RankedStored'
    BY <2>2 DEF ExportInv, ExporterHolds, RollsRead, RankedStored, tables
  <2> QED
    BY <2>1, <2>2, <2>3, <2>4 DEF ExportInv
<1>7. ASSUME xpc # "idle", lock' = Null PROVE UNCHANGED IngestLock
  BY <1>7, ArmoryAssumption DEF ExportInv, ExporterHolds, IngestLock
<1>8. CASE ExportExit
  <2>1. IngestView!IInv'
    BY <1>7, <1>8, <1>s DEF ExportExit
  <2>2. ExportInv'
    BY <1>8, ExportEnds DEF ExportExit
  <2> QED
    BY <2>1, <2>2
<1>9. CASE ExportFail
  <2>1. /\ UNCHANGED <<tables, live, locals, IngestLock>>
        /\ faults < MaxFaults /\ faults' = faults + 1
    BY <1>7, <1>9 DEF ExportFail, Reply
  <2>2. IngestView!IngestTypeOK'
    BY <2>1, IngestAssumption
       DEF IngestView!IInv, IngestView!IngestTypeOK, IngestView!StoreTypeOK,
           tables, locals
  <2>3. IngestView!HolderRuns' /\ IngestView!RowsReferenced'
    BY <2>1 DEF IngestView!IInv, IngestView!HolderRuns,
                IngestView!RowsReferenced, IngestView!StoredPerks,
                IngestView!StoredRolls, tables, locals
  <2>4. \A h \in Hosts : IngestView!PhaseInv(h)' /\ IngestView!JobInv(h)'
    BY <2>1 DEF IngestView!IInv, IngestView!PhaseInv, IngestView!JobInv,
                IngestView!PerksMatch, IngestView!WeaponsMatch,
                IngestView!LinksMatch, IngestView!RollsMatch,
                IngestView!Holds, IngestView!StoredPerks,
                IngestView!StoredRolls, tables, locals
  <2>5. ExportInv'
    BY <1>9, ExportEnds DEF ExportFail
  <2> QED
    BY <2>2, <2>3, <2>4, <2>5 DEF IngestView!IInv
<1>10. ASSUME NEW w \in Weapons, NEW s \in Scores, Rank(w, s)
       PROVE  IngestView!IInv' /\ ExportInv'
  <2>1. IngestView!IInv'
    BY <1>10, <1>s DEF Rank, vars, IngestLock
  <2>2. UNCHANGED <<tables, lock, export>>
    BY <1>10 DEF Rank, vars
  <2>3. ASSUME NEW x \in Weapons, ranking'[x] # NoRow, ranking[x] = NoRow
        PROVE  weapon[x] # NoRow
    <3>1. x = w /\ StoredRolls(w) # {}
      BY <1>10, <2>3 DEF Rank, ExportInv
    <3> QED
      BY <3>1, <1>r DEF RowsReferenced
  <2>4. DOMAIN ranking' = Weapons
    BY <1>10 DEF Rank, ExportInv
  <2>5. \A x \in Weapons : StoredRolls(x)' = StoredRolls(x)
    BY <2>2 DEF StoredRolls, tables
  <2>6. ExportInv'
    BY <2>2, <2>3, <2>4, <2>5, ExportUndisturbed
       DEF tables, ExportInv, ExporterHolds
  <2> QED
    BY <2>1, <2>6
<1> QED
  BY <1>1, <1>2, <1>3, <1>4, <1>5, <1>6, <1>8, <1>9, <1>10
     DEF ArmoryNext, ExportStep

\* The invariant of the whole private side.
THEOREM ArmoryInvariance == ArmorySpec => []ArmoryInv
BY ArmoryInvInit, ArmoryInvNext, PTL DEF ArmorySpec

-----------------------------------------------------------------------------
(* What follows for the export.                                            *)

\* ReadsAreCurrent: the tables read one statement at a time are what they
\* hold for as long as the export keeps the lock.
THEOREM ReadsStayCurrent == ArmorySpec => []ReadsAreCurrent
<1>1. ArmoryInv => ReadsAreCurrent
  BY DEF ArmoryInv, ExportInv
<1> QED
  BY <1>1, ArmoryInvariance, PTL

\* BuildNeverRefuses: neither an import cut short nor a ranking written
\* without the lock can make Build return an integrity error, and every perk
\* of a document is in perks.json.
THEOREM BuildsSucceed == ArmorySpec => []BuildNeverRefuses
<1>1. ArmoryInv => BuildNeverRefuses
  <2> SUFFICES ASSUME IngestView!IInv, ExportInv, xpc = "read", xnext = 7
               PROVE  /\ BuildAccepts
                      /\ \A w \in KnownWeapons :
                            /\ PerksIn(snap["weapon_perk"][w])
                                  \subseteq {p \in Perks : snap["perk"][p] # NoRow}
                            /\ \A c \in SnapRolls(w) : PerksIn(c)
                                  \subseteq {p \in Perks : snap["perk"][p] # NoRow}
    BY ReadOrder DEF ArmoryInv, BuildNeverRefuses
  <2>1. \A n \in 1 .. 6 :
           Reads[n] \in {"version", "weapon", "perk", "weapon_perk"}
               => snap[Reads[n]] = Current(Reads[n])
    BY ReadOrder DEF ExportInv, ReadsAreCurrent
  <2>2. /\ snap["weapon"] = weapon
        /\ snap["perk"] = perk
        /\ snap["weapon_perk"] = weapon_perk
    <3>1. 2 \in 1 .. 6 /\ 3 \in 1 .. 6 /\ 4 \in 1 .. 6
      OBVIOUS
    <3> QED
      BY <2>1, <3>1, ReadOrder DEF Current
  <2>3. \A w \in Weapons : SnapRolls(w) = StoredRolls(w)
    BY DEF ExportInv, RollsRead
  <2>4. \A w \in Weapons : snap["ranking"][w] # NoRow => weapon[w] # NoRow
    BY DEF ExportInv, RankedStored
  <2>5. RowsReferenced
    BY ViewRows
  <2> QED
    BY <2>2, <2>3, <2>4, <2>5
       DEF RowsReferenced, BuildAccepts, KnownWeapons, StoredPerks
<1> QED
  BY <1>1, ArmoryInvariance, PTL

\* The foreign keys hold while exports, rankings and imports interleave.
THEOREM ArmoryRowsReferenced == ArmorySpec => []RowsReferenced
<1>1. ArmoryInv => RowsReferenced
  BY ViewRows DEF ArmoryInv
<1> QED
  BY <1>1, ArmoryInvariance, PTL
=============================================================================
