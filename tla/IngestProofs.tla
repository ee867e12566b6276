---------------------------- MODULE IngestProofs ----------------------------
(***************************************************************************)
(* Proofs about Ingest, for every set of hosts, weapons and versions and   *)
(* every bound.                                                            *)
(***************************************************************************)
EXTENDS Ingest, TLAPS

\* A run past GetManifest knows its version.
VersionKnown ==
    \A h \in Hosts : pc[h] \notin {"idle", "manifest", "exit"}
                        => manifest[h] \in Versions

TypeInv == IngestTypeOK /\ VersionKnown

\* The initial state is well typed.
LEMMA TypeInit == Init => TypeInv
BY ManifestAssumption, StoreAssumption, IngestAssumption
   DEF Init, StoreInit, TypeInv, IngestTypeOK, StoreTypeOK, VersionKnown,
       Phases, JobStates, Options, Plain, NoJobs, Times

\* Settling a job either way leaves the table of jobs well typed.
LEMMA JobTyped ==
    ASSUME NEW h \in Hosts, NEW w \in Weapons, NEW s \in JobStates,
           job \in [Hosts -> [Weapons -> JobStates]],
           SetJob(h, w, s) \/ FailJob(h, w)
    PROVE  job' \in [Hosts -> [Weapons -> JobStates]]
<1>1. CASE SetJob(h, w, s)
  BY <1>1 DEF SetJob
<1>2. CASE FailJob(h, w)
  <2> DEFINE row == [x \in Weapons |->
                        IF x = w \/ x \in Unfinished(h) \ Running(h)
                        THEN "failed" ELSE job[h][x]]
  <2>1. row \in [Weapons -> JobStates]
    BY DEF JobStates
  <2>2. job' = [job EXCEPT ![h] = row]
    BY <1>2 DEF FailJob
  <2> HIDE DEF row
  <2> QED
    BY <2>1, <2>2
<1> QED
  BY <1>1, <1>2

\* Every step keeps the state well typed.
LEMMA TypeNext == TypeInv /\ [Next]_vars => TypeInv'
<1> SUFFICES ASSUME TypeInv, [Next]_vars PROVE TypeInv'
  OBVIOUS
<1> USE ManifestAssumption, IngestAssumption
    DEF TypeInv, IngestTypeOK, StoreTypeOK, VersionKnown, Phases, JobStates,
        Options, tables, content, Goto, Reply, After, Forget
<1>1. CASE UNCHANGED vars
  BY <1>1 DEF vars, locals
<1>2. ASSUME NEW h \in Hosts, NEW o \in Options, Start(h, o) PROVE TypeInv'
  BY <1>2 DEF Start
<1>3. ASSUME NEW h \in Hosts, GetManifest(h) PROVE TypeInv'
  BY <1>3 DEF GetManifest
<1>4. ASSUME NEW h \in Hosts, GetSyncState(h) PROVE TypeInv'
  BY <1>4 DEF GetSyncState
<1>5. ASSUME NEW h \in Hosts, DownloadAndProcess(h) PROVE TypeInv'
  BY <1>5 DEF DownloadAndProcess
<1>6. ASSUME NEW h \in Hosts, LoadPerkIDs(h) PROVE TypeInv'
  BY <1>6 DEF LoadPerkIDs, StoredPerks
<1>7. ASSUME NEW h \in Hosts, WaitJobs(h) PROVE TypeInv'
  BY <1>7 DEF WaitJobs
<1>8. ASSUME NEW h \in Hosts, Release(h) PROVE TypeInv'
  BY <1>8 DEF Release, Unlock, Plain, NoJobs
<1>9. ASSUME NEW h \in Hosts, NEW ok \in BOOLEAN, RecordCheck(h, ok)
      PROVE TypeInv'
  BY <1>9 DEF RecordCheck, UpsertSyncState, Times
<1>10. ASSUME NEW h \in Hosts, NEW ok \in BOOLEAN, WritePerks(h, ok)
       PROVE TypeInv'
  BY <1>10 DEF WritePerks, UpsertPerks
<1>11. ASSUME NEW h \in Hosts, NEW ok \in BOOLEAN, WriteWeapons(h, ok)
       PROVE TypeInv'
  BY <1>11 DEF WriteWeapons, UpsertWeapons
<1>12. ASSUME NEW h \in Hosts, NEW ok \in BOOLEAN, RecordImport(h, ok)
       PROVE TypeInv'
  BY <1>12 DEF RecordImport, UpsertSyncState, Times, Now
<1>13. ASSUME NEW h \in Hosts, NEW w \in Weapons, NEW ok \in BOOLEAN,
              JobLinks(h, w, ok)
       PROVE TypeInv'
  <2>1. job' \in [Hosts -> [Weapons -> JobStates]]
    <3>1. SetJob(h, w, "rolls") \/ FailJob(h, w)
      BY <1>13 DEF JobLinks
    <3> QED
      BY <3>1, JobTyped
  <2>2. manifest[h] \in Versions
    BY <1>13 DEF JobLinks
  <2>3. weapon_perk' \in [Weapons -> SUBSET Links]
    <3>1. {l \in PoolOf[manifest[h]][w] : perk[l[1]] # NoRow} \in SUBSET Links
      BY <2>2
    <3> QED
      BY <3>1, <1>13 DEF JobLinks, ReplaceWeaponPerks
  <2> QED
    BY <2>1, <2>3, <1>13 DEF JobLinks, ReplaceWeaponPerks
<1>14. ASSUME NEW h \in Hosts, NEW w \in Weapons, NEW ok \in BOOLEAN,
              JobRolls(h, w, ok)
       PROVE TypeInv'
  <2>1. job' \in [Hosts -> [Weapons -> JobStates]]
    <3>1. SetJob(h, w, "done") \/ FailJob(h, w)
      BY <1>14 DEF JobRolls
    <3> QED
      BY <3>1, JobTyped
  <2>2. roll' \in [Weapons -> [ComboKeys -> Scores \cup {Null, NoRow}]]
    BY <1>14 DEF JobRolls, ReplaceRolls
  <2> QED
    BY <2>1, <2>2, <1>14 DEF JobRolls, ReplaceRolls
<1>15. ASSUME NEW h \in Hosts, NEW w \in Weapons, AbortJob(h, w)
       PROVE TypeInv'
  BY <1>15 DEF AbortJob, FailJob
<1>16. ASSUME NEW h \in Hosts, Fail(h) PROVE TypeInv'
  BY <1>16 DEF Fail
<1>17. ASSUME NEW h \in Hosts, Crash(h) PROVE TypeInv'
  BY <1>17 DEF Crash, Unlock, Plain, NoJobs
<1>18. ASSUME NEW v \in Versions, Publish(v) PROVE TypeInv'
  BY <1>18 DEF Publish, locals
<1>19. ASSUME NEW w \in Weapons, NEW c \in ComboKeys, NEW s \in Scores,
              Score(w, c, s)
       PROVE TypeInv'
  BY <1>19 DEF Score, ScoreRoll, locals
<1> HIDE DEF TypeInv, IngestTypeOK, StoreTypeOK, VersionKnown, Phases,
    JobStates, Options, tables, content, Goto, Reply, After, Forget
<1> QED
  BY <1>1, <1>2, <1>3, <1>4, <1>5, <1>6, <1>7, <1>8, <1>9, <1>10, <1>11,
     <1>12, <1>13, <1>14, <1>15, <1>16, <1>17, <1>18, <1>19
     DEF Next, RunStep, JobStep

\* The state of every behaviour is well typed.
THEOREM TypeCorrect == Spec => []IngestTypeOK
<1>1. TypeInv => IngestTypeOK
  BY DEF TypeInv
<1> QED
  BY TypeInit, TypeNext, <1>1, PTL DEF Spec

-----------------------------------------------------------------------------
(* The inductive invariant.                                                *)

Runs(h) == PhaseInv(h) /\ JobInv(h)

\* Nothing is claimed of a host whose process is not running.
LEMMA IdleRuns == ASSUME NEW h \in Hosts, pc'[h] = "idle" PROVE Runs(h)'
BY DEF Runs, PhaseInv, JobInv

\* A step of the one running process concerns that process alone.
LEMMA RunnerStep ==
    ASSUME TypeInv, HolderRuns, NEW h \in Hosts, pc[h] # "idle", lock' = lock,
           \A k \in Hosts \ {h} : pc'[k] = pc[k],
           Runs(h)'
    PROVE  HolderRuns' /\ \A k \in Hosts : Runs(k)'
<1>1. lock = h
  BY DEF HolderRuns
<1>2. ASSUME NEW k \in Hosts, k # h PROVE pc'[k] = "idle"
  BY <1>1, <1>2 DEF HolderRuns
<1>3. HolderRuns'
  BY <1>1, <1>2 DEF HolderRuns
<1>4. ASSUME NEW k \in Hosts PROVE Runs(k)'
  BY <1>2, IdleRuns
<1> QED
  BY <1>3, <1>4

\* The perk batch of a version names every perk its links and rolls use.
LEMMA BatchCovers ==
    ASSUME NEW v \in Versions, NEW w \in WeaponsOf(v)
    PROVE  /\ w \in Weapons
           /\ PerksIn(PoolOf[v][w]) \subseteq PerksOf(v)
           /\ PerksOf(v) \subseteq Perks
           /\ \A c \in CombosOf[v][w] : PerksIn(c) \subseteq PerksOf(v)
<1>1. w \in Weapons
  BY DEF WeaponsOf
<1>2. PerksIn(PoolOf[v][w]) \subseteq PerksOf(v)
  BY DEF PerksOf
<1>3. PerksOf(v) \subseteq Perks
  <2> SUFFICES ASSUME NEW x \in WeaponsOf(v), NEW l \in PoolOf[v][x]
               PROVE l[1] \in Perks
    BY DEF PerksOf, PerksIn
  <2>1. x \in Weapons
    BY DEF WeaponsOf
  <2>2. PoolOf[v][x] \subseteq Links
    BY <2>1, ManifestAssumption
  <2> QED
    BY <2>2 DEF Links
<1>4. ASSUME NEW c \in CombosOf[v][w] PROVE PerksIn(c) \subseteq PerksOf(v)
  <2>1. c \subseteq PoolOf[v][w]
    BY <1>1, CombosWithinPool
  <2>2. PerksIn(c) \subseteq PerksIn(PoolOf[v][w])
    BY <2>1 DEF PerksIn
  <2> QED
    BY <2>2, <1>2
<1> QED
  BY <1>1, <1>2, <1>3, <1>4

\* A perk whose row is that of the version is stored.
LEMMA MatchedStored ==
    ASSUME NEW v \in Versions, PerksMatch(v)
    PROVE  PerksOf(v) \cap Perks \subseteq StoredPerks
BY ManifestAssumption DEF PerksMatch, StoredPerks

\* Scoring a roll neither adds nor removes one.
LEMMA ScoreKeepsRolls ==
    ASSUME TypeInv, NEW w \in Weapons, NEW c \in ComboKeys, NEW s \in Scores,
           ScoreRoll(w, c, s)
    PROVE  \A x \in Weapons : StoredRolls(x)' = StoredRolls(x)
<1> SUFFICES ASSUME NEW x \in Weapons, NEW d \in ComboKeys
             PROVE roll'[x][d] # NoRow <=> roll[x][d] # NoRow
  BY DEF StoredRolls
<1>1. s # NoRow /\ roll[w][c] # NoRow /\ roll' = [roll EXCEPT ![w][c] = s]
  BY StoreAssumption DEF ScoreRoll
<1>2. roll \in [Weapons -> [ComboKeys -> Scores \cup {Null, NoRow}]]
  BY DEF TypeInv, IngestTypeOK, StoreTypeOK
<1>3. CASE x = w /\ d = c
  BY <1>1, <1>2, <1>3
<1>4. CASE ~(x = w /\ d = c)
  BY <1>1, <1>2, <1>4
<1> QED
  BY <1>3, <1>4

\* Committing the roll transaction leaves exactly the generated rolls.
LEMMA ReplaceRollsResult ==
    ASSUME TypeInv, NEW w \in Weapons, NEW combos, NEW ids,
           combos \subseteq ComboKeys,
           ReplaceRolls(w, combos, ids), RollsResolve(w, combos, ids)
    PROVE  /\ StoredRolls(w)' = combos
           /\ \A x \in Weapons \ {w} : roll'[x] = roll[x]
           /\ \A c \in combos : roll[w][c] # NoRow => roll'[w][c] = roll[w][c]
<1> DEFINE row == [c \in ComboKeys |->
                     IF c \notin combos THEN NoRow
                     ELSE IF roll[w][c] = NoRow THEN Null ELSE roll[w][c]]
<1>1. roll' = [roll EXCEPT ![w] = row]
  BY DEF ReplaceRolls
<1>2. roll \in [Weapons -> [ComboKeys -> Scores \cup {Null, NoRow}]]
  BY DEF TypeInv, IngestTypeOK, StoreTypeOK
<1>3. roll'[w] = row /\ \A x \in Weapons \ {w} : roll'[x] = roll[x]
  BY <1>1, <1>2
<1>4. \A c \in ComboKeys : row[c] # NoRow <=> c \in combos
  BY StoreAssumption
<1>5. StoredRolls(w)' = {c \in ComboKeys : row[c] # NoRow}
  BY <1>3 DEF StoredRolls
<1>6. \A c \in combos : roll[w][c] # NoRow => row[c] = roll[w][c]
  OBVIOUS
<1> QED
  BY <1>3, <1>4, <1>5, <1>6

\* Every link of the pool survives the JOIN once the perks are stored.
LEMMA ReplaceLinksResult ==
    ASSUME TypeInv, NEW v \in Versions, NEW w \in WeaponsOf(v),
           PerksMatch(v), WeaponsMatch(v),
           ReplaceWeaponPerks(w, PoolOf[v][w])
    PROVE  /\ weapon_perk' = [weapon_perk EXCEPT ![w] = PoolOf[v][w]]
           /\ weapon[w] # NoRow
           /\ PerksIn(PoolOf[v][w]) \subseteq StoredPerks
<1>1. w \in Weapons /\ weapon[w] # NoRow
  BY DEF WeaponsOf, WeaponsMatch
<1>2. PerksIn(PoolOf[v][w]) \subseteq StoredPerks
  BY BatchCovers, MatchedStored
<1>3. {l \in PoolOf[v][w] : perk[l[1]] # NoRow} = PoolOf[v][w]
  BY <1>2 DEF PerksIn, StoredPerks
<1> QED
  BY <1>1, <1>2, <1>3 DEF ReplaceWeaponPerks

\* A failing job fails, besides itself, only jobs that exist.
LEMMA FailJobResult ==
    ASSUME NEW h \in Hosts, NEW w \in Running(h),
           job \in [Hosts -> [Weapons -> JobStates]], FailJob(h, w)
    PROVE  \A x \in Weapons :
              \/ job'[h][x] = job[h][x] /\ x # w
              \/ job'[h][x] = "failed" /\ job[h][x] # "none"
<1>1. w \in Weapons /\ \A x \in Unfinished(h) : job[h][x] # "none"
  BY DEF Running, Unfinished
<1>2. w \in Unfinished(h)
  BY DEF Running
<1> DEFINE lost == {w} \cup (Unfinished(h) \ Running(h))
           row == [x \in Weapons |-> IF x \in lost THEN "failed" ELSE job[h][x]]
<1>3. job' = [job EXCEPT ![h] = row]
  BY DEF FailJob
<1>4. \A x \in lost : job[h][x] # "none"
  BY <1>1, <1>2
<1> HIDE DEF lost
<1>5. job'[h] = row
  BY <1>3
<1>6. w \in lost
  BY DEF lost
<1> QED
  BY <1>4, <1>5, <1>6

\* The initial state satisfies the invariant.
LEMMA IInvInit == Init => IInv
<1> SUFFICES ASSUME Init PROVE IInv
  OBVIOUS
<1>1. IngestTypeOK
  BY TypeInit DEF TypeInv
<1>2. HolderRuns /\ \A h \in Hosts : PhaseInv(h) /\ JobInv(h)
  BY DEF Init, HolderRuns, PhaseInv, JobInv
<1>3. RowsReferenced
  <2>1. \A w \in Weapons : weapon_perk[w] = {} /\ StoredRolls(w) = {}
    BY DEF Init, StoreInit, StoredRolls
  <2> QED
    BY <2>1 DEF RowsReferenced, PerksIn
<1> QED
  BY <1>1, <1>2, <1>3 DEF IInv

\* Every step preserves the invariant.
LEMMA IInvNext == IInv /\ [Next]_vars => IInv'
<1> SUFFICES ASSUME IInv, [Next]_vars PROVE IInv'
  OBVIOUS
<1> DEFINE Rest == HolderRuns' /\ RowsReferenced' /\ \A h \in Hosts : Runs(h)'
<1>t. TypeInv /\ TypeInv'
  <2>1. VersionKnown
    BY DEF IInv, PhaseInv, VersionKnown
  <2> QED
    BY <2>1, TypeNext DEF IInv, TypeInv
<1>i. HolderRuns /\ RowsReferenced /\ \A h \in Hosts : Runs(h)
  BY DEF IInv, Runs
<1>s. SUFFICES Rest
  BY <1>t DEF IInv, Runs, TypeInv
<1>r. ASSUME UNCHANGED content PROVE RowsReferenced'
  BY <1>i, <1>r DEF RowsReferenced, content, StoredRolls, StoredPerks
<1>ty. /\ pc \in [Hosts -> Phases]
       /\ opts \in [Hosts -> Options]
       /\ manifest \in [Hosts -> Versions \cup {NoRow}]
       /\ perkIDs \in [Hosts -> SUBSET Perks]
       /\ job \in [Hosts -> [Weapons -> JobStates]]
  BY <1>t DEF TypeInv, IngestTypeOK
<1> USE DEF Goto, tables, content
<1>1. CASE UNCHANGED vars
  BY <1>1, <1>i, <1>r
     DEF vars, locals, HolderRuns, Runs, PhaseInv, JobInv, PerksMatch,
         WeaponsMatch, Holds, LinksMatch, RollsMatch, StoredPerks, StoredRolls
<1>2. ASSUME NEW h \in Hosts, NEW o \in Options, Start(h, o) PROVE Rest
  <2>1. pc' = [pc EXCEPT ![h] = "manifest"] /\ lock = Null /\ lock' = h
    BY <1>2 DEF Start
  <2>2. \A k \in Hosts : pc[k] = "idle"
    BY <2>1, <1>i, IngestAssumption DEF HolderRuns
  <2>3. HolderRuns'
    BY <2>1, <2>2, <1>ty DEF HolderRuns
  <2>4. ASSUME NEW k \in Hosts PROVE Runs(k)'
    BY <2>1, <2>2, <1>ty DEF Runs, PhaseInv, JobInv
  <2> QED
    BY <2>3, <2>4, <1>r, <1>2 DEF Start
<1>3. ASSUME NEW h \in Hosts, GetManifest(h) PROVE Rest
  <2>1. Runs(h)'
    BY <1>3, <1>ty, <1>t
       DEF GetManifest, Runs, PhaseInv, JobInv, TypeInv, IngestTypeOK
  <2>2. HolderRuns' /\ \A k \in Hosts : Runs(k)'
    BY <2>1, <1>3, <1>ty, <1>t, <1>i, RunnerStep DEF GetManifest
  <2> QED
    BY <2>2, <1>r, <1>3 DEF GetManifest
<1>4. ASSUME NEW h \in Hosts, GetSyncState(h) PROVE Rest
  <2>1. Runs(h)'
    BY <1>4, <1>ty, <1>i DEF GetSyncState, Runs, PhaseInv, JobInv
  <2>2. HolderRuns' /\ \A k \in Hosts : Runs(k)'
    BY <2>1, <1>4, <1>ty, <1>t, <1>i, RunnerStep DEF GetSyncState
  <2> QED
    BY <2>2, <1>r, <1>4 DEF GetSyncState
<1>5. ASSUME NEW h \in Hosts, DownloadAndProcess(h) PROVE Rest
  <2>1. Runs(h)'
    BY <1>5, <1>ty, <1>i DEF DownloadAndProcess, Runs, PhaseInv, JobInv
  <2>2. HolderRuns' /\ \A k \in Hosts : Runs(k)'
    BY <2>1, <1>5, <1>ty, <1>t, <1>i, RunnerStep DEF DownloadAndProcess
  <2> QED
    BY <2>2, <1>r, <1>5 DEF DownloadAndProcess
<1>16. ASSUME NEW h \in Hosts, Fail(h) PROVE Rest
  <2>1. Runs(h)'
    BY <1>16, <1>ty, <1>i DEF Fail, Runs, PhaseInv, JobInv
  <2>2. HolderRuns' /\ \A k \in Hosts : Runs(k)'
    BY <2>1, <1>16, <1>ty, <1>t, <1>i, RunnerStep DEF Fail
  <2> QED
    BY <2>2, <1>r, <1>16 DEF Fail
<1>8. ASSUME NEW h \in Hosts, Release(h) \/ Crash(h) PROVE Rest
  <2>1. /\ pc[h] # "idle"
        /\ lock' = Null
        /\ pc' = [pc EXCEPT ![h] = "idle"]
        /\ UNCHANGED tables
    BY <1>8, <1>i DEF Release, Crash, Forget, Unlock, HolderRuns
  <2>2. \A k \in Hosts : pc'[k] = "idle"
    BY <2>1, <1>i, <1>ty DEF HolderRuns
  <2> QED
    BY <2>1, <2>2, <1>r, IdleRuns DEF HolderRuns
<1>9. ASSUME NEW h \in Hosts, NEW ok \in BOOLEAN, RecordCheck(h, ok)
      PROVE Rest
  <2>1. pc' = [pc EXCEPT ![h] = "exit"] /\ pc[h] # "idle"
    BY <1>9 DEF RecordCheck, After
  <2>2. Runs(h)'
    BY <2>1, <1>ty DEF Runs, PhaseInv, JobInv
  <2>3. HolderRuns' /\ \A k \in Hosts : Runs(k)'
    BY <2>1, <2>2, <1>9, <1>ty, <1>t, <1>i, RunnerStep DEF RecordCheck
  <2> QED
    BY <2>3, <1>r, <1>9 DEF RecordCheck, UpsertSyncState
<1>12. ASSUME NEW h \in Hosts, NEW ok \in BOOLEAN, RecordImport(h, ok)
       PROVE Rest
  <2>1. pc' = [pc EXCEPT ![h] = "exit"] /\ pc[h] # "idle"
    BY <1>12 DEF RecordImport, After
  <2>2. Runs(h)'
    BY <2>1, <1>ty DEF Runs, PhaseInv, JobInv
  <2>3. HolderRuns' /\ \A k \in Hosts : Runs(k)'
    BY <2>1, <2>2, <1>12, <1>ty, <1>t, <1>i, RunnerStep DEF RecordImport
  <2> QED
    BY <2>3, <1>r, <1>12 DEF RecordImport, UpsertSyncState
<1>18. ASSUME NEW v \in Versions, Publish(v) PROVE Rest
  BY <1>18, <1>i, <1>r
     DEF Publish, locals, HolderRuns, Runs, PhaseInv, JobInv, PerksMatch,
         WeaponsMatch, Holds, LinksMatch, RollsMatch, StoredPerks, StoredRolls
<1>10. ASSUME NEW h \in Hosts, NEW ok \in BOOLEAN, WritePerks(h, ok)
       PROVE Rest
  <2> DEFINE v == manifest[h]
  <2>1. /\ pc[h] = "perks"
        /\ pc' = [pc EXCEPT ![h] = IF ok THEN "weapons" ELSE "exit"]
        /\ UNCHANGED <<lock, opts, manifest, weapon, weapon_perk, roll>>
        /\ perk' = [p \in Perks |-> IF p \in PerksOf(v) THEN PerkOf[v][p]
                                    ELSE perk[p]]
    BY <1>10 DEF WritePerks, After, UpsertPerks
  <2>2. v \in Versions
    BY <2>1, <1>t DEF TypeInv, VersionKnown
  <2>3. PerksOf(v) \subseteq Perks
    BY <2>2, BatchCovers DEF PerksOf
  <2>4. PerksMatch(v)'
    BY <2>1, <2>3 DEF PerksMatch
  <2>5. StoredPerks \subseteq StoredPerks'
    BY <2>1, <2>2, ManifestAssumption DEF StoredPerks
  <2>6. RowsReferenced'
    BY <2>1, <2>5, <1>i DEF RowsReferenced, StoredRolls
  <2>7. Runs(h)'
    BY <2>1, <2>2, <2>4, <1>i, <1>ty DEF Runs, PhaseInv, JobInv
  <2>8. HolderRuns' /\ \A k \in Hosts : Runs(k)'
    BY <2>1, <2>7, <1>ty, <1>t, <1>i, RunnerStep
  <2> QED
    BY <2>6, <2>8
<1>11. ASSUME NEW h \in Hosts, NEW ok \in BOOLEAN, WriteWeapons(h, ok)
       PROVE Rest
  <2> DEFINE v == manifest[h]
  <2>1. /\ pc[h] = "weapons"
        /\ pc' = [pc EXCEPT ![h] = IF ok THEN "perkIDs" ELSE "exit"]
        /\ UNCHANGED <<lock, opts, manifest, perk, weapon_perk, roll>>
        /\ weapon' = [w \in Weapons |-> IF w \in WeaponsOf(v)
                                        THEN WeaponOf[v][w] ELSE weapon[w]]
    BY <1>11 DEF WriteWeapons, After, UpsertWeapons
  <2>2. v \in Versions
    BY <2>1, <1>t DEF TypeInv, VersionKnown
  <2>3. PerksMatch(v)'
    BY <2>1, <1>i DEF Runs, PhaseInv, PerksMatch
  <2>4. WeaponsMatch(v)'
    BY <2>1 DEF WeaponsMatch, WeaponsOf
  <2>5. \A w \in Weapons : weapon[w] # NoRow => weapon'[w] # NoRow
    BY <2>1 DEF WeaponsOf
  <2>6. RowsReferenced'
    BY <2>1, <2>5, <1>i DEF RowsReferenced, StoredRolls, StoredPerks
  <2>7. Runs(h)'
    BY <2>1, <2>2, <2>3, <2>4, <1>i, <1>ty DEF Runs, PhaseInv, JobInv
  <2>8. HolderRuns' /\ \A k \in Hosts : Runs(k)'
    BY <2>1, <2>7, <1>ty, <1>t, <1>i, RunnerStep
  <2> QED
    BY <2>6, <2>8
<1>6. ASSUME NEW h \in Hosts, LoadPerkIDs(h) PROVE Rest
  <2> DEFINE v == manifest[h]
  <2>1. /\ pc[h] = "perkIDs"
        /\ pc' = [pc EXCEPT ![h] = "jobs"]
        /\ perkIDs' = [perkIDs EXCEPT ![h] = StoredPerks]
        /\ job' = [job EXCEPT ![h] = [w \in Weapons |->
                      IF w \in WeaponsOf(v) THEN "links" ELSE "none"]]
        /\ UNCHANGED <<lock, opts, manifest, perk, weapon, weapon_perk, roll>>
    BY <1>6 DEF LoadPerkIDs
  <2>2. v \in Versions
    BY <2>1, <1>t DEF TypeInv, VersionKnown
  <2>3. PerksMatch(v) /\ WeaponsMatch(v) /\ ~opts[h].dryRun
    BY <2>1, <1>i DEF Runs, PhaseInv
  <2>4. PerksOf(v) \subseteq StoredPerks
    BY <2>2, <2>3, BatchCovers, MatchedStored DEF PerksOf
  <2>5. PhaseInv(h)'
    BY <2>1, <2>2, <2>3, <1>ty DEF PhaseInv, PerksMatch, WeaponsMatch
  <2>6. JobInv(h)'
    BY <2>1, <2>4, <1>ty DEF JobInv, StoredPerks
  <2>7. HolderRuns' /\ \A k \in Hosts : Runs(k)'
    BY <2>1, <2>5, <2>6, <1>ty, <1>t, <1>i, RunnerStep DEF Runs
  <2> QED
    BY <2>7, <1>r, <1>6 DEF LoadPerkIDs
<1>7. ASSUME NEW h \in Hosts, WaitJobs(h) PROVE Rest
  <2> DEFINE v == manifest[h]
  <2>1. /\ pc[h] = "jobs"
        /\ pc' = [pc EXCEPT ![h] = IF Cancelled(h) THEN "exit" ELSE "record"]
        /\ Unfinished(h) = {}
        /\ UNCHANGED <<lock, opts, manifest, tables>>
    BY <1>7 DEF WaitJobs
  <2>2. v \in Versions
    BY <2>1, <1>t DEF TypeInv, VersionKnown
  <2>3. PerksMatch(v) /\ WeaponsMatch(v) /\ ~opts[h].dryRun /\ JobInv(h)
    BY <2>1, <1>i DEF Runs, PhaseInv
  <2>4. ASSUME ~Cancelled(h) PROVE Holds(v)
    <3>1. \A w \in WeaponsOf(v) : w \in Weapons /\ job[h][w] = "done"
      BY <2>1, <2>3, <2>4, <1>ty
         DEF JobInv, WeaponsOf, Unfinished, Cancelled, JobStates
    <3> QED
      BY <3>1, <2>1, <2>3 DEF JobInv, Holds
  <2>5. Runs(h)'
    BY <2>1, <2>2, <2>3, <2>4, <1>ty
       DEF Runs, PhaseInv, JobInv, PerksMatch, WeaponsMatch, Holds, LinksMatch,
           RollsMatch, StoredRolls
  <2>6. HolderRuns' /\ \A k \in Hosts : Runs(k)'
    BY <2>1, <2>5, <1>ty, <1>t, <1>i, RunnerStep
  <2> QED
    BY <2>6, <1>r, <2>1
<1>19. ASSUME NEW w \in Weapons, NEW c \in ComboKeys, NEW s \in Scores,
              Score(w, c, s)
       PROVE Rest
  <2>1. /\ ScoreRoll(w, c, s)
        /\ UNCHANGED <<lock, pc, opts, manifest, perkIDs, job>>
        /\ UNCHANGED <<perk, weapon, weapon_perk, sync>>
    BY <1>19 DEF Score, ScoreRoll, locals
  <2>2. \A x \in Weapons : StoredRolls(x)' = StoredRolls(x)
    BY <2>1, <1>t, ScoreKeepsRolls
  <2>3. RowsReferenced'
    BY <2>1, <2>2, <1>i DEF RowsReferenced, StoredPerks
  <2>4. ASSUME NEW h \in Hosts PROVE Runs(h)'
    BY <2>1, <2>2, <1>i
       DEF Runs, PhaseInv, JobInv, PerksMatch, WeaponsMatch, Holds,
           LinksMatch, RollsMatch, StoredPerks, WeaponsOf
  <2> QED
    BY <2>1, <2>3, <2>4, <1>i DEF HolderRuns
<1>15. ASSUME NEW h \in Hosts, NEW w \in Weapons, AbortJob(h, w) PROVE Rest
  <2> DEFINE v == manifest[h]
  <2>1. /\ pc[h] = "jobs"
        /\ w \in Running(h)
        /\ FailJob(h, w)
        /\ UNCHANGED <<lock, pc, opts, manifest, perkIDs, tables>>
    BY <1>15 DEF AbortJob
  <2>2. \A x \in Weapons : \/ job'[h][x] = job[h][x]
                           \/ job'[h][x] = "failed" /\ job[h][x] # "none"
    BY <2>1, <1>ty, FailJobResult
  <2>3. JobInv(h) /\ PhaseInv(h)
    BY <1>i DEF Runs
  <2>4. JobInv(h)'
    BY <2>1, <2>2, <2>3
       DEF JobInv, LinksMatch, RollsMatch, StoredRolls, StoredPerks
  <2>5. PhaseInv(h)'
    BY <2>1, <2>3 DEF PhaseInv, PerksMatch, WeaponsMatch
  <2>6. HolderRuns' /\ \A k \in Hosts : Runs(k)'
    BY <2>1, <2>4, <2>5, <1>ty, <1>t, <1>i, RunnerStep DEF Runs
  <2> QED
    BY <2>6, <1>r, <2>1
<1>13. ASSUME NEW h \in Hosts, NEW w \in Weapons, NEW ok \in BOOLEAN,
              JobLinks(h, w, ok)
       PROVE Rest
  <2> DEFINE v == manifest[h]
  <2>1. /\ pc[h] = "jobs"
        /\ w \in Running(h)
        /\ job[h][w] = "links"
        /\ ReplaceWeaponPerks(w, PoolOf[v][w])
        /\ SetJob(h, w, "rolls") \/ FailJob(h, w)
        /\ UNCHANGED <<lock, pc, opts, manifest, perkIDs, perk, weapon, roll>>
    BY <1>13 DEF JobLinks, ReplaceWeaponPerks
  <2>2. v \in Versions /\ JobInv(h) /\ PhaseInv(h)
    BY <2>1, <1>i, <1>t DEF Runs, TypeInv, VersionKnown
  <2>3. PerksMatch(v) /\ WeaponsMatch(v) /\ w \in WeaponsOf(v)
    BY <2>1, <2>2 DEF PhaseInv, JobInv
  <2>4. /\ weapon_perk' = [weapon_perk EXCEPT ![w] = PoolOf[v][w]]
        /\ weapon[w] # NoRow
        /\ PerksIn(PoolOf[v][w]) \subseteq StoredPerks
    BY <2>1, <2>2, <2>3, <1>t, ReplaceLinksResult
  <2>5. weapon_perk \in [Weapons -> SUBSET Links]
    BY <1>t DEF TypeInv, IngestTypeOK, StoreTypeOK
  <2>6. \A x \in Weapons :
           \/ job'[h][x] = job[h][x] /\ x # w
           \/ job'[h][x] = "failed" /\ job[h][x] # "none"
           \/ job'[h][x] = "rolls" /\ x = w
    <3>1. CASE SetJob(h, w, "rolls")
      BY <3>1, <1>ty DEF SetJob
    <3>2. CASE FailJob(h, w)
      BY <3>2, <2>1, <1>ty, FailJobResult
    <3> QED
      BY <3>1, <3>2, <2>1
  <2>7. JobInv(h)'
    <3>1. \A x \in Weapons : /\ RollsMatch(v, x)' <=> RollsMatch(v, x)
                             /\ x # w => (LinksMatch(v, x)' <=> LinksMatch(v, x))
      BY <2>1, <2>4, <2>5 DEF RollsMatch, LinksMatch, StoredRolls
    <3>2. LinksMatch(v, w)'
      BY <2>1, <2>3, <2>4, <2>5 DEF LinksMatch, WeaponsOf
    <3>3. StoredPerks' = StoredPerks
      BY <2>1 DEF StoredPerks
    <3>4. v' = v /\ perkIDs'[h] = perkIDs[h] /\ pc'[h] = pc[h]
      BY <2>1
    <3> HIDE DEF v
    <3> QED
      BY <3>1, <3>2, <3>3, <3>4, <2>1, <2>2, <2>3, <2>6 DEF JobInv, v
  <2>8. PhaseInv(h)'
    BY <2>1, <2>2 DEF PhaseInv, PerksMatch, WeaponsMatch
  <2>9. RowsReferenced'
    BY <2>1, <2>4, <2>5, <1>i DEF RowsReferenced, StoredRolls, StoredPerks
  <2>10. HolderRuns' /\ \A k \in Hosts : Runs(k)'
    BY <2>1, <2>7, <2>8, <1>ty, <1>t, <1>i, RunnerStep DEF Runs
  <2> QED
    BY <2>9, <2>10
<1>14. ASSUME NEW h \in Hosts, NEW w \in Weapons, NEW ok \in BOOLEAN,
              JobRolls(h, w, ok)
       PROVE Rest
  <2> DEFINE v == manifest[h]
             combos == CombosOf[v][w]
  <2>1. /\ pc[h] = "jobs"
        /\ w \in Running(h)
        /\ job[h][w] = "rolls"
        /\ ReplaceRolls(w, combos, perkIDs[h])
        /\ \/ SetJob(h, w, "done") /\ RollsResolve(w, combos, perkIDs[h])
           \/ FailJob(h, w)
        /\ UNCHANGED <<lock, pc, opts, manifest, perkIDs>>
        /\ UNCHANGED <<perk, weapon, weapon_perk>>
    BY <1>14 DEF JobRolls, ReplaceRolls
  <2>2. v \in Versions /\ JobInv(h) /\ PhaseInv(h) /\ w \in Weapons
    BY <2>1, <1>i, <1>t DEF Runs, TypeInv, VersionKnown, Running, Unfinished
  <2>3. PerksMatch(v) /\ WeaponsMatch(v) /\ w \in WeaponsOf(v)
    BY <2>1, <2>2 DEF PhaseInv, JobInv
  <2>4. /\ weapon[w] # NoRow
        /\ \A c \in combos : PerksIn(c) \subseteq perkIDs[h]
        /\ perkIDs[h] \subseteq StoredPerks
    <3>1. \A c \in combos : PerksIn(c) \subseteq PerksOf(v)
      BY <2>2, <2>3, BatchCovers
    <3> QED
      BY <3>1, <2>1, <2>2, <2>3 DEF JobInv, WeaponsMatch, WeaponsOf
  <2>5. RollsResolve(w, combos, perkIDs[h])
    BY <2>4 DEF RollsResolve
  <2>6. combos \subseteq ComboKeys
    BY <2>2 DEF ComboKeys
  <2>7. /\ StoredRolls(w)' = combos
        /\ \A x \in Weapons \ {w} : roll'[x] = roll[x]
    <3> HIDE DEF combos
    <3> QED
      BY <2>1, <2>2, <2>5, <2>6, <1>t, ReplaceRollsResult
  <2>8. \A x \in Weapons :
           \/ job'[h][x] = job[h][x] /\ x # w
           \/ job'[h][x] = "failed" /\ job[h][x] # "none"
           \/ job'[h][x] = "done" /\ x = w
    <3>1. CASE SetJob(h, w, "done")
      BY <3>1, <1>ty DEF SetJob
    <3>2. CASE FailJob(h, w)
      BY <3>2, <2>1, <1>ty, FailJobResult
    <3> QED
      BY <3>1, <3>2, <2>1
  <2>9. JobInv(h)'
    <3>1. \A x \in Weapons : /\ LinksMatch(v, x)' <=> LinksMatch(v, x)
                             /\ x # w => (RollsMatch(v, x)' <=> RollsMatch(v, x))
      BY <2>1, <2>7 DEF RollsMatch, LinksMatch, StoredRolls
    <3>2. RollsMatch(v, w)' /\ LinksMatch(v, w)
      BY <2>1, <2>2, <2>7 DEF RollsMatch, JobInv
    <3>3. StoredPerks' = StoredPerks
      BY <2>1 DEF StoredPerks
    <3>4. v' = v /\ perkIDs'[h] = perkIDs[h] /\ pc'[h] = pc[h]
      BY <2>1
    <3> HIDE DEF v, combos
    <3> QED
      BY <3>1, <3>2, <3>3, <3>4, <2>1, <2>2, <2>3, <2>8 DEF JobInv, v
  <2>10. PhaseInv(h)'
    BY <2>1, <2>2 DEF PhaseInv, PerksMatch, WeaponsMatch
  <2>11. RowsReferenced'
    <3>1. ASSUME NEW x \in Weapons
          PROVE  /\ weapon_perk[x] # {} \/ StoredRolls(x)' # {} => weapon[x] # NoRow
                 /\ PerksIn(weapon_perk[x]) \subseteq StoredPerks
                 /\ \A c \in StoredRolls(x)' : PerksIn(c) \subseteq StoredPerks
      <4>1. CASE x = w
        BY <4>1, <2>4, <2>7, <1>i DEF RowsReferenced
      <4>2. CASE x # w
        <5>1. StoredRolls(x)' = StoredRolls(x)
          BY <4>2, <2>7 DEF StoredRolls
        <5> QED
          BY <5>1, <1>i DEF RowsReferenced
      <4> QED
        BY <4>1, <4>2
    <3>2. StoredPerks' = StoredPerks
      BY <2>1 DEF StoredPerks
    <3> QED
      BY <3>1, <3>2, <2>1 DEF RowsReferenced
  <2>12. HolderRuns' /\ \A k \in Hosts : Runs(k)'
    BY <2>1, <2>9, <2>10, <1>ty, <1>t, <1>i, RunnerStep DEF Runs
  <2> QED
    BY <2>11, <2>12
<1> HIDE DEF Rest, Goto, tables, content
<1> QED
  BY <1>1, <1>2, <1>3, <1>4, <1>5, <1>6, <1>7, <1>8, <1>9, <1>10, <1>11,
     <1>12, <1>13, <1>14, <1>15, <1>16, <1>18, <1>19
     DEF Next, RunStep, JobStep

\* The invariant holds in every reachable state.
THEOREM Invariance == Spec => []IInv
BY IInvInit, IInvNext, PTL DEF Spec

\* RowsReferenced: no run, however it ends, leaves a link or a roll without
\* its weapon row and perk rows.
THEOREM RowsAlwaysReferenced == Spec => []RowsReferenced
<1>1. IInv => RowsReferenced
  BY DEF IInv
<1> QED
  BY <1>1, Invariance, PTL

\* JobsResolve: the error returns of ReplaceRolls for an unknown weapon or
\* perk are unreachable, and ReplaceWeaponPerks drops no link.
THEOREM JobsAlwaysResolve == Spec => []JobsResolve
<1>1. IInv => JobsResolve
  <2> SUFFICES ASSUME IInv, NEW h \in Hosts, pc[h] = "jobs",
                      NEW w \in Unfinished(h)
               PROVE  /\ RollsResolve(w, CombosOf[manifest[h]][w], perkIDs[h])
                      /\ PerksIn(PoolOf[manifest[h]][w]) \subseteq StoredPerks
    BY DEF JobsResolve
  <2>1. /\ manifest[h] \in Versions
        /\ WeaponsMatch(manifest[h])
        /\ PerksOf(manifest[h]) \subseteq perkIDs[h]
        /\ perkIDs[h] \subseteq StoredPerks
    BY DEF IInv, PhaseInv, JobInv
  <2>2. w \in WeaponsOf(manifest[h])
    BY DEF IInv, JobInv, Unfinished
  <2>3. weapon[w] # NoRow
    BY <2>1, <2>2 DEF WeaponsMatch, WeaponsOf
  <2> QED
    BY <2>1, <2>2, <2>3, BatchCovers DEF RollsResolve
<1> QED
  BY <1>1, Invariance, PTL

\* Only the two UpsertSyncState calls of Run write manifest_sync_state.
LEMMA SyncSteps ==
    ASSUME [Next]_vars, sync' # sync
    PROVE  \E h \in Hosts, ok \in BOOLEAN :
               RecordImport(h, ok) \/ RecordCheck(h, ok)
<1>1. ASSUME UNCHANGED vars PROVE FALSE
  BY <1>1 DEF vars, tables
<1>2. ASSUME NEW h \in Hosts,
             \/ \E o \in Options : Start(h, o)
             \/ GetManifest(h) \/ GetSyncState(h) \/ DownloadAndProcess(h)
             \/ LoadPerkIDs(h) \/ WaitJobs(h) \/ Release(h)
             \/ Fail(h) \/ Crash(h)
      PROVE  FALSE
  BY <1>2 DEF Start, GetManifest, GetSyncState, DownloadAndProcess,
              LoadPerkIDs, WaitJobs, Release, Fail, Crash, tables
<1>3. ASSUME NEW h \in Hosts, NEW ok \in BOOLEAN,
             WritePerks(h, ok) \/ WriteWeapons(h, ok)
      PROVE  FALSE
  BY <1>3 DEF WritePerks, UpsertPerks, WriteWeapons, UpsertWeapons
<1>4. ASSUME NEW h \in Hosts, NEW w \in Weapons, JobStep(h, w) PROVE FALSE
  BY <1>4 DEF JobStep, JobLinks, ReplaceWeaponPerks, JobRolls, ReplaceRolls,
              AbortJob, tables
<1>5. ASSUME NEW v \in Versions, Publish(v) PROVE FALSE
  BY <1>5 DEF Publish, tables
<1>6. ASSUME NEW w \in Weapons, NEW c \in ComboKeys, NEW s \in Scores,
             Score(w, c, s)
      PROVE  FALSE
  BY <1>6 DEF Score, ScoreRoll
<1> QED
  BY <1>1, <1>2, <1>3, <1>4, <1>5, <1>6 DEF Next, RunStep

\* ImportComplete: the moment last_changed_at moves, the database holds all
\* of the recorded version.
THEOREM ImportIsComplete == Spec => ImportComplete
<1>1. IInv /\ [Next]_vars
        => (sync'.changed_at # sync.changed_at => Holds(sync.version)')
  <2> SUFFICES ASSUME IInv, [Next]_vars, sync'.changed_at # sync.changed_at
               PROVE  Holds(sync.version)'
    OBVIOUS
  <2>1. PICK h \in Hosts, ok \in BOOLEAN :
           RecordImport(h, ok) \/ RecordCheck(h, ok)
    BY SyncSteps
  <2>2. RecordImport(h, ok)
    BY <2>1 DEF RecordCheck, UpsertSyncState
  <2>3. /\ Holds(manifest[h])
        /\ sync' = [version |-> manifest[h], changed_at |-> Now(sync.changed_at)]
        /\ UNCHANGED content
    BY <2>2 DEF RecordImport, UpsertSyncState, IInv, PhaseInv
  <2> QED
    BY <2>3 DEF content, Holds, PerksMatch, WeaponsMatch, LinksMatch,
                RollsMatch, StoredRolls
<1> QED
  BY <1>1, Invariance, PTL DEF Spec, ImportComplete

-----------------------------------------------------------------------------
(* What a step may never do.                                               *)

Writes(h) ==
    \/ \E ok \in BOOLEAN : \/ WritePerks(h, ok) \/ WriteWeapons(h, ok)
                           \/ RecordImport(h, ok) \/ RecordCheck(h, ok)
    \/ \E w \in Weapons, ok \in BOOLEAN : JobLinks(h, w, ok) \/ JobRolls(h, w, ok)

\* Only these steps touch the tables.
LEMMA WriteSteps ==
    ASSUME [Next]_vars
    PROVE  \/ UNCHANGED tables
           \/ \E h \in Hosts : Writes(h)
           \/ \E w \in Weapons, c \in ComboKeys, s \in Scores : Score(w, c, s)
<1>1. ASSUME UNCHANGED vars PROVE UNCHANGED tables
  BY <1>1 DEF vars
<1>2. ASSUME NEW h \in Hosts,
             \/ \E o \in Options : Start(h, o)
             \/ GetManifest(h) \/ GetSyncState(h) \/ DownloadAndProcess(h)
             \/ LoadPerkIDs(h) \/ WaitJobs(h) \/ Release(h)
             \/ Fail(h) \/ Crash(h)
      PROVE  UNCHANGED tables
  BY <1>2 DEF Start, GetManifest, GetSyncState, DownloadAndProcess,
              LoadPerkIDs, WaitJobs, Release, Fail, Crash
<1>3. ASSUME NEW h \in Hosts, NEW w \in Weapons, JobStep(h, w)
      PROVE  UNCHANGED tables \/ Writes(h)
  BY <1>3 DEF JobStep, Writes, AbortJob
<1>4. ASSUME NEW v \in Versions, Publish(v) PROVE UNCHANGED tables
  BY <1>4 DEF Publish
<1> QED
  BY <1>1, <1>2, <1>3, <1>4 DEF Next, RunStep, Writes

\* A writing run holds the lock and is no dry run.
LEMMA WriterHolds ==
    ASSUME IInv, NEW h \in Hosts, Writes(h)
    PROVE  /\ lock = h
           /\ ~opts[h].dryRun
           /\ pc[h] \in {"touch", "perks", "weapons", "jobs", "record"}
           /\ manifest[h] \in Versions
<1>1. pc[h] \in {"touch", "perks", "weapons", "jobs", "record"}
  BY DEF Writes, WritePerks, WriteWeapons, RecordImport, RecordCheck,
         JobLinks, JobRolls
<1> QED
  BY <1>1 DEF IInv, HolderRuns, PhaseInv

\* DryRunWritesNothing: a dry run changes no ingest-owned row.
THEOREM DryRunsWriteNothing == Spec => DryRunWritesNothing
<1>1. ASSUME IInv, [Next]_vars, NEW h \in Hosts, lock = h, opts[h].dryRun
      PROVE  /\ UNCHANGED <<perk, weapon, weapon_perk, sync>>
             /\ \A w \in Weapons : StoredRolls(w)' = StoredRolls(w)
  <2>1. CASE UNCHANGED tables
    BY <2>1 DEF tables, StoredRolls
  <2>2. CASE \E k \in Hosts : Writes(k)
    BY <1>1, <2>2, WriterHolds
  <2>3. ASSUME NEW w \in Weapons, NEW c \in ComboKeys, NEW s \in Scores,
               Score(w, c, s)
        PROVE  /\ UNCHANGED <<perk, weapon, weapon_perk, sync>>
               /\ \A x \in Weapons : StoredRolls(x)' = StoredRolls(x)
    <3>1. TypeInv
      BY <1>1 DEF IInv, TypeInv, VersionKnown, PhaseInv
    <3>2. ScoreRoll(w, c, s)
      BY <2>3 DEF Score
    <3> QED
      BY <3>1, <3>2, ScoreKeepsRolls DEF ScoreRoll
  <2> QED
    BY <1>1, <2>1, <2>2, <2>3, WriteSteps
<1>2. IInv /\ [Next]_vars
        => \A h \in Hosts : lock = h /\ opts[h].dryRun
              => /\ UNCHANGED <<perk, weapon, weapon_perk, sync>>
                 /\ \A w \in Weapons : StoredRolls(w)' = StoredRolls(w)
  BY <1>1
<1> QED
  BY <1>2, Invariance, PTL DEF Spec, DryRunWritesNothing

\* Which steps touch the rolls of a weapon.
LEMMA RollSteps ==
    ASSUME [Next]_vars, NEW w \in Weapons, TypeInv, roll'[w] # roll[w]
    PROVE  \/ \E h \in Hosts, ok \in BOOLEAN :
                  /\ JobRolls(h, w, ok)
                  /\ RollsResolve(w, CombosOf[manifest[h]][w], perkIDs[h])
           \/ \E c \in ComboKeys, s \in Scores : Score(w, c, s)
<1>1. roll \in [Weapons -> [ComboKeys -> Scores \cup {Null, NoRow}]]
  BY DEF TypeInv, IngestTypeOK, StoreTypeOK
<1>2. CASE UNCHANGED tables
  BY <1>2 DEF tables
<1>3. ASSUME NEW h \in Hosts, NEW ok \in BOOLEAN,
             WritePerks(h, ok) \/ WriteWeapons(h, ok)
             \/ RecordImport(h, ok) \/ RecordCheck(h, ok)
      PROVE  FALSE
  BY <1>3 DEF WritePerks, UpsertPerks, WriteWeapons, UpsertWeapons,
              RecordImport, RecordCheck, UpsertSyncState, content
<1>4. ASSUME NEW h \in Hosts, NEW x \in Weapons, NEW ok \in BOOLEAN,
             JobLinks(h, x, ok)
      PROVE  FALSE
  BY <1>4 DEF JobLinks, ReplaceWeaponPerks
<1>5. ASSUME NEW h \in Hosts, NEW x \in Weapons, NEW ok \in BOOLEAN,
             JobRolls(h, x, ok)
      PROVE  x = w /\ RollsResolve(w, CombosOf[manifest[h]][w], perkIDs[h])
  <2>1. ReplaceRolls(x, CombosOf[manifest[h]][x], perkIDs[h])
    BY <1>5 DEF JobRolls
  <2>2. RollsResolve(x, CombosOf[manifest[h]][x], perkIDs[h])
    BY <2>1 DEF ReplaceRolls
  <2>3. x = w
    BY <1>1, <2>1, <2>2 DEF ReplaceRolls
  <2> QED
    BY <2>2, <2>3
<1>6. ASSUME NEW x \in Weapons, NEW c \in ComboKeys, NEW s \in Scores,
             Score(x, c, s)
      PROVE  x = w
  BY <1>1, <1>6 DEF Score, ScoreRoll
<1> QED
  BY <1>2, <1>3, <1>4, <1>5, <1>6, WriteSteps DEF Writes

\* The typing invariant the lemmas on statements ask for.
LEMMA IInvTyped == IInv => TypeInv
BY DEF IInv, TypeInv, VersionKnown, PhaseInv

\* ScoresSurvive: a score gives way only to another score, or to an import of
\* a version that does not generate the roll.
THEOREM CuratedScoresSurvive == Spec => ScoresSurvive
<1>1. ASSUME IInv, [Next]_vars, NEW w \in Weapons, NEW c \in ComboKeys,
             roll[w][c] \in Scores, roll'[w][c] # roll[w][c],
             roll'[w][c] \notin Scores
      PROVE  \E h \in Hosts : /\ pc[h] = "jobs"
                              /\ w \in WeaponsOf(manifest[h])
                              /\ c \notin CombosOf[manifest[h]][w]
  <2>1. TypeInv /\ roll'[w] # roll[w]
    BY <1>1, IInvTyped
  <2>2. ASSUME NEW d \in ComboKeys, NEW s \in Scores, Score(w, d, s)
        PROVE  FALSE
    <3>1. roll' = [roll EXCEPT ![w][d] = s]
      BY <2>2 DEF Score, ScoreRoll
    <3>2. roll \in [Weapons -> [ComboKeys -> Scores \cup {Null, NoRow}]]
      BY <2>1 DEF TypeInv, IngestTypeOK, StoreTypeOK
    <3> QED
      BY <1>1, <3>1, <3>2
  <2>3. PICK h \in Hosts, ok \in BOOLEAN :
           /\ JobRolls(h, w, ok)
           /\ RollsResolve(w, CombosOf[manifest[h]][w], perkIDs[h])
    BY <1>1, <2>1, <2>2, RollSteps
  <2>4. /\ pc[h] = "jobs" /\ job[h][w] = "rolls" /\ manifest[h] \in Versions
        /\ ReplaceRolls(w, CombosOf[manifest[h]][w], perkIDs[h])
    BY <1>1, <2>3 DEF JobRolls, IInv, PhaseInv
  <2>5. w \in WeaponsOf(manifest[h])
    BY <1>1, <2>4 DEF IInv, JobInv
  <2>6. CombosOf[manifest[h]][w] \subseteq ComboKeys
    BY <2>4 DEF ComboKeys
  <2>7. roll[w][c] # NoRow
    BY <1>1, StoreAssumption
  <2>8. c \notin CombosOf[manifest[h]][w]
    BY <1>1, <2>1, <2>3, <2>4, <2>6, <2>7, ReplaceRollsResult
  <2> QED
    BY <2>4, <2>5, <2>8
<1>2. IInv /\ [Next]_vars
        => \A w \in Weapons, c \in ComboKeys :
              roll[w][c] \in Scores /\ roll'[w][c] # roll[w][c]
                  => \/ roll'[w][c] \in Scores
                     \/ \E h \in Hosts : /\ pc[h] = "jobs"
                                         /\ w \in WeaponsOf(manifest[h])
                                         /\ c \notin CombosOf[manifest[h]][w]
  BY <1>1
<1> QED
  BY <1>2, Invariance, PTL DEF Spec, ScoresSurvive

\* Repeating any statement of the version the database holds changes no row
\* of it.
LEMMA RewriteHolds ==
    ASSUME IInv, NEW h \in Hosts, Writes(h),
           NEW v \in Versions, manifest[h] = v, sync.version = v, Holds(v)
    PROVE  Holds(sync.version)'
<1> USE DEF Holds
<1>1. TypeInv
  BY IInvTyped
<1>2. ASSUME sync'.version = v,
             PerksMatch(v)', WeaponsMatch(v)',
             \A w \in WeaponsOf(v) : LinksMatch(v, w)' /\ RollsMatch(v, w)'
      PROVE  Holds(sync.version)'
  BY <1>2
<1>3. ASSUME NEW ok \in BOOLEAN, RecordImport(h, ok) \/ RecordCheck(h, ok)
      PROVE  Holds(sync.version)'
  <2>1. sync'.version = v /\ UNCHANGED content
    BY <1>3 DEF RecordImport, RecordCheck, UpsertSyncState
  <2> QED
    BY <1>2, <2>1 DEF content, PerksMatch, WeaponsMatch, LinksMatch,
                      RollsMatch, StoredRolls
<1>4. ASSUME NEW ok \in BOOLEAN, WritePerks(h, ok)
      PROVE  Holds(sync.version)'
  <2>1. UpsertPerks(PerksOf(v), PerkOf[v])
    BY <1>4 DEF WritePerks
  <2>2. PerksMatch(v)'
    <3>1. ASSUME NEW p \in PerksOf(v) PROVE p \in Perks
      BY BatchCovers DEF PerksOf
    <3> QED
      BY <2>1, <3>1 DEF UpsertPerks, PerksMatch
  <2>3. UNCHANGED <<weapon, weapon_perk, roll, sync>>
    BY <2>1 DEF UpsertPerks
  <2> QED
    BY <1>2, <2>2, <2>3 DEF WeaponsMatch, LinksMatch, RollsMatch, StoredRolls
<1>5. ASSUME NEW ok \in BOOLEAN, WriteWeapons(h, ok)
      PROVE  Holds(sync.version)'
  <2>1. UpsertWeapons(WeaponsOf(v), WeaponOf[v])
    BY <1>5 DEF WriteWeapons
  <2>2. WeaponsMatch(v)' /\ UNCHANGED <<perk, weapon_perk, roll, sync>>
    BY <2>1 DEF UpsertWeapons, WeaponsMatch, WeaponsOf
  <2> QED
    BY <1>2, <2>2 DEF PerksMatch, LinksMatch, RollsMatch, StoredRolls
<1>6. ASSUME NEW w \in Weapons, NEW ok \in BOOLEAN, JobLinks(h, w, ok)
      PROVE  Holds(sync.version)'
  <2>1. /\ ReplaceWeaponPerks(w, PoolOf[v][w])
        /\ pc[h] = "jobs" /\ job[h][w] = "links"
    BY <1>6 DEF JobLinks
  <2>2. w \in WeaponsOf(v)
    BY <2>1 DEF IInv, JobInv
  <2>3. weapon_perk' = [weapon_perk EXCEPT ![w] = PoolOf[v][w]]
    BY <1>1, <2>1, <2>2, ReplaceLinksResult
  <2>4. UNCHANGED <<perk, weapon, roll, sync>>
    BY <2>1 DEF ReplaceWeaponPerks
  <2>5. \A x \in WeaponsOf(v) : LinksMatch(v, x)'
    BY <1>1, <2>3 DEF LinksMatch, WeaponsOf, TypeInv, IngestTypeOK, StoreTypeOK
  <2> QED
    BY <1>2, <2>4, <2>5 DEF PerksMatch, WeaponsMatch, RollsMatch, StoredRolls
<1>7. ASSUME NEW w \in Weapons, NEW ok \in BOOLEAN, JobRolls(h, w, ok)
      PROVE  Holds(sync.version)'
  <2>1. ReplaceRolls(w, CombosOf[v][w], perkIDs[h])
    BY <1>7 DEF JobRolls
  <2>2. UNCHANGED <<perk, weapon, weapon_perk, sync>>
    BY <2>1 DEF ReplaceRolls
  <2>3. ASSUME NEW x \in WeaponsOf(v) PROVE RollsMatch(v, x)'
    <3>1. x \in Weapons /\ RollsMatch(v, x)
      BY <2>3 DEF WeaponsOf
    <3>2. CASE roll'[x] = roll[x]
      BY <3>1, <3>2 DEF RollsMatch, StoredRolls
    <3>3. CASE roll'[x] # roll[x]
      <4>1. RollsResolve(w, CombosOf[v][w], perkIDs[h])
        BY <2>1, <3>3 DEF ReplaceRolls
      <4>2. CombosOf[v][w] \subseteq ComboKeys
        BY <1>1 DEF ComboKeys
      <4>3. x = w /\ StoredRolls(w)' = CombosOf[v][w]
        BY <1>1, <2>1, <3>1, <3>3, <4>1, <4>2, ReplaceRollsResult
      <4> QED
        BY <4>3 DEF RollsMatch
    <3> QED
      BY <3>2, <3>3
  <2> QED
    BY <1>2, <2>2, <2>3 DEF PerksMatch, WeaponsMatch, LinksMatch
<1> QED
  BY <1>3, <1>4, <1>5, <1>6, <1>7 DEF Writes

\* HeldVersionStays: only the import of another version takes the database
\* out of the version it holds.
THEOREM HeldVersionsStay == Spec => HeldVersionStays
<1>1. ASSUME IInv, [Next]_vars, sync.version \in Versions, Holds(sync.version)
      PROVE  \/ Holds(sync.version)'
             \/ \E h \in Hosts : /\ lock = h
                                 /\ manifest[h] # sync.version
                                 /\ ~opts[h].dryRun
  <2>1. CASE UNCHANGED tables
    BY <1>1, <2>1 DEF tables, Holds, PerksMatch, WeaponsMatch, LinksMatch,
                      RollsMatch, StoredRolls
  <2>2. ASSUME NEW w \in Weapons, NEW c \in ComboKeys, NEW s \in Scores,
               Score(w, c, s)
        PROVE  Holds(sync.version)'
    <3>1. ScoreRoll(w, c, s)
      BY <2>2 DEF Score
    <3>2. /\ UNCHANGED <<perk, weapon, weapon_perk, sync>>
          /\ \A x \in Weapons : StoredRolls(x)' = StoredRolls(x)
      BY <1>1, <3>1, IInvTyped, ScoreKeepsRolls DEF ScoreRoll
    <3> QED
      BY <1>1, <3>2 DEF Holds, PerksMatch, WeaponsMatch, LinksMatch,
                        RollsMatch, WeaponsOf
  <2>3. ASSUME NEW h \in Hosts, Writes(h), manifest[h] = sync.version
        PROVE  Holds(sync.version)'
    <3> DEFINE v == sync.version
    <3>1. v \in Versions /\ manifest[h] = v /\ Holds(v)
      BY <1>1, <2>3
    <3> QED
      BY <1>1, <2>3, <3>1, RewriteHolds
  <2> QED
    BY <1>1, <2>1, <2>2, <2>3, WriteSteps, WriterHolds
<1>2. IInv /\ [Next]_vars
        => ((sync.version \in Versions /\ Holds(sync.version))
              => \/ Holds(sync.version)'
                 \/ \E h \in Hosts : /\ lock = h
                                     /\ manifest[h] # sync.version
                                     /\ ~opts[h].dryRun)
  BY <1>1
<1> QED
  BY <1>2, Invariance, PTL DEF Spec, HeldVersionStays
=============================================================================
