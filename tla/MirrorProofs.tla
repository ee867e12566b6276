---------------------------- MODULE MirrorProofs ----------------------------
(***************************************************************************)
(* Ingest implements Mirror: for every number of hosts and every manifest, *)
(* each statement, failure and crash is a step of the abstract import or   *)
(* invisible to it.                                                        *)
(***************************************************************************)
EXTENDS IngestProofs

\* What Mirror sees of a state of Ingest besides the sync record.
Held == sync.version \in Versions /\ Holds(sync.version)

UnderWay ==
    IF Importing = {} THEN NoRow ELSE manifest[CHOOSE h \in Importing : TRUE]

Writing == {"perks", "weapons", "perkIDs", "jobs", "record"}

\* The version under way is the one of the only process that runs.
Shown ==
    /\ (\A h \in Hosts : pc[h] = "idle") => UnderWay = NoRow
    /\ \A h \in Hosts : pc[h] # "idle" =>
          UnderWay = IF pc[h] \in Writing THEN manifest[h] ELSE NoRow

\* Shown follows from the lock.
LEMMA RunImports == IInv => Shown
<1> SUFFICES ASSUME IInv PROVE Shown
  OBVIOUS
<1>1. ASSUME \A h \in Hosts : pc[h] = "idle" PROVE UnderWay = NoRow
  BY <1>1 DEF UnderWay, Importing
<1>2. ASSUME NEW h \in Hosts, pc[h] # "idle"
      PROVE  UnderWay = IF pc[h] \in Writing THEN manifest[h] ELSE NoRow
  <2>1. Importing \subseteq {h}
    BY <1>2 DEF Importing, IInv, HolderRuns
  <2>2. CASE pc[h] \in Writing
    <3>1. Importing = {h}
      BY <2>1, <2>2 DEF Importing, Writing
    <3> QED
      BY <3>1, <2>2 DEF UnderWay
  <2>3. CASE pc[h] \notin Writing
    <3>1. Importing = {}
      BY <2>1, <2>3 DEF Importing, Writing
    <3> QED
      BY <3>1, <2>3 DEF UnderWay
  <2> QED
    BY <2>2, <2>3
<1> QED
  BY <1>1, <1>2 DEF Shown

\* It still holds after a step.
LEMMA RunImportsNext == IInv /\ [Next]_vars => Shown'
<1>1. IInv' => Shown'
  BY RunImports, PTL
<1> QED
  BY <1>1, IInvNext

\* The rows alone decide what is held; a score does not.
LEMMA SameHeld ==
    ASSUME UNCHANGED <<perk, weapon, weapon_perk, sync>>,
           \A w \in Weapons : StoredRolls(w)' = StoredRolls(w)
    PROVE  Held' = Held
BY DEF Held, Holds, PerksMatch, WeaponsMatch, LinksMatch, RollsMatch, WeaponsOf

\* A failing or finished statement leaves at most one process, in phase q.
LEMMA OnlyRunner ==
    ASSUME IInv, NEW h \in Hosts, pc[h] # "idle", NEW q,
           pc' = [pc EXCEPT ![h] = q]
    PROVE  pc'[h] = q /\ (q = "idle" => \A k \in Hosts : pc'[k] = "idle")
BY DEF IInv, IngestTypeOK, HolderRuns

\* A step in the middle of an import is a write of Mirror.
LEMMA ImportWrites ==
    ASSUME IInv, NEW h \in Hosts, pc[h] \in Writing,
           UnderWay' \in {manifest[h], NoRow},
           UNCHANGED tables \/ Writes(h),
           sync'.version = sync.version
    PROVE  Promise!Write
<1>1. UnderWay = manifest[h] /\ manifest[h] \in Versions
  BY RunImports DEF Shown, Writing, IInv, PhaseInv
<1>2. UnderWay # NoRow
  BY <1>1, ManifestAssumption
<1>3. ASSUME UnderWay = sync.version, Held PROVE Held'
  <2>1. CASE UNCHANGED tables
    BY <1>3, <2>1, SameHeld DEF tables, StoredRolls
  <2>2. CASE Writes(h)
    <3>1. Holds(sync.version)'
      BY <1>1, <1>3, <2>2, RewriteHolds DEF Held
    <3> QED
      BY <3>1, <1>3 DEF Held
  <2> QED
    BY <2>1, <2>2
<1>4. Held' \in BOOLEAN
  BY DEF Held
<1> QED
  BY <1>1, <1>2, <1>3, <1>4 DEF Promise!Write, Held, UnderWay

\* Outside an import nothing of what Mirror sees changes.
LEMMA QuietStutters ==
    ASSUME UnderWay = NoRow, UnderWay' = NoRow, Held' = Held,
           sync'.version = sync.version
    PROVE  UNCHANGED Promise!vars
BY DEF Promise!vars, Held, UnderWay

\* Every step of a run, and every step of its environment, is a step of
\* Mirror or a stutter.
LEMMA MirrorStep == IInv /\ [Next]_vars => [Promise!Next]_(Promise!vars)
<1> SUFFICES ASSUME IInv, [Next]_vars
             PROVE  Promise!Next \/ UNCHANGED Promise!vars
  OBVIOUS
<1> DEFINE Goal == Promise!Next \/ UNCHANGED Promise!vars
<1>s. Shown /\ Shown'
  BY RunImports, RunImportsNext
<1>ty. /\ pc \in [Hosts -> Phases]
       /\ manifest \in [Hosts -> Versions \cup {NoRow}]
  BY DEF IInv, IngestTypeOK
<1>u. UNCHANGED tables => Held' = Held /\ sync'.version = sync.version
  BY SameHeld DEF tables, StoredRolls
<1>w. Promise!Write => Goal
  BY DEF Promise!Next
<1>g. SUFFICES Goal
  OBVIOUS
<1> HIDE DEF Goal
<1>1. ASSUME UNCHANGED <<pc, manifest>>, Held' = Held, sync' = sync PROVE Goal
  BY <1>1 DEF Goal, Promise!vars, Held, Importing
<1>2. CASE UNCHANGED vars
  BY <1>1, <1>2, <1>u DEF vars, locals, tables
<1>3. ASSUME NEW v \in Versions, Publish(v) PROVE Goal
  BY <1>1, <1>3, <1>u DEF Publish, locals, tables
<1>4. ASSUME NEW w \in Weapons, NEW c \in ComboKeys, NEW s \in Scores,
             Score(w, c, s)
      PROVE  Goal
  BY <1>1, <1>4, IInvTyped, ScoreKeepsRolls, SameHeld
     DEF Score, ScoreRoll, locals
\* A step of one process: quiet outside an import, a write inside.
<1>5. ASSUME NEW h \in Hosts, pc[h] \notin Writing, pc[h] # "idle", NEW q,
             q \notin Writing, pc' = [pc EXCEPT ![h] = q],
             Held' = Held, sync'.version = sync.version
      PROVE  Goal
  <2>1. UnderWay = NoRow
    BY <1>5, <1>s DEF Shown
  <2>2. UnderWay' = NoRow
    BY <1>5, <1>s, OnlyRunner DEF Shown
  <2> QED
    BY <1>5, <2>1, <2>2, QuietStutters DEF Goal
<1>6. ASSUME NEW h \in Hosts, pc[h] \in Writing, NEW q,
             pc' = [pc EXCEPT ![h] = q],
             q \in Writing => UNCHANGED manifest,
             UNCHANGED tables \/ Writes(h), sync'.version = sync.version
      PROVE  Goal
  <2>1. pc[h] # "idle"
    BY <1>6 DEF Writing
  <2>2. UnderWay' \in {manifest[h], NoRow}
    BY <1>6, <1>s, <2>1, OnlyRunner DEF Shown
  <2> QED
    BY <1>6, <2>2, <1>w, ImportWrites
<1>7. ASSUME NEW h \in Hosts, NEW o \in Options, Start(h, o) PROVE Goal
  <2>1. \A k \in Hosts : pc[k] = "idle"
    BY <1>7, IngestAssumption DEF Start, IInv, HolderRuns
  <2>2. pc' = [pc EXCEPT ![h] = "manifest"] /\ UNCHANGED tables
    BY <1>7 DEF Start, Goto
  <2>3. UnderWay = NoRow /\ UnderWay' = NoRow
    BY <1>s, <2>1, <2>2, <1>ty DEF Shown, Writing
  <2> QED
    BY <2>2, <2>3, <1>u, QuietStutters DEF Goal
<1>8. ASSUME NEW h \in Hosts, GetManifest(h) \/ GetSyncState(h) PROVE Goal
  BY <1>8, <1>5, <1>u DEF GetManifest, GetSyncState, Goto, Writing
<1>9. ASSUME NEW h \in Hosts, NEW ok \in BOOLEAN, RecordCheck(h, ok) PROVE Goal
  <2>1. sync'.version = sync.version /\ UNCHANGED content
    BY <1>9 DEF RecordCheck, UpsertSyncState, IInv, PhaseInv
  <2>2. Held' = Held
    BY <2>1 DEF content, Held, Holds, PerksMatch, WeaponsMatch, LinksMatch,
                RollsMatch, StoredRolls
  <2> QED
    BY <1>9, <1>5, <2>1, <2>2 DEF RecordCheck, After, Goto, Writing
<1>10. ASSUME NEW h \in Hosts, DownloadAndProcess(h) PROVE Goal
  <2>1. /\ pc[h] = "download" /\ manifest[h] \in Versions
        /\ UNCHANGED manifest /\ UNCHANGED tables
        /\ pc' = [pc EXCEPT ![h] = IF opts[h].dryRun THEN "exit" ELSE "perks"]
    BY <1>10 DEF DownloadAndProcess, Goto, IInv, PhaseInv
  <2>2. CASE opts[h].dryRun
    BY <2>1, <2>2, <1>5, <1>u DEF Writing
  <2>3. CASE ~opts[h].dryRun
    <3>1. UnderWay = NoRow /\ UnderWay' = manifest[h]
      BY <2>1, <2>3, <1>s, <1>ty DEF Shown, Writing
    <3>2. Promise!Begin(manifest[h])
      BY <2>1, <3>1, <1>u DEF Promise!Begin, Held, UnderWay
    <3> QED
      BY <2>1, <3>2 DEF Goal, Promise!Next
  <2> QED
    BY <2>2, <2>3
<1>11. ASSUME NEW h \in Hosts, LoadPerkIDs(h) \/ WaitJobs(h) PROVE Goal
  BY <1>11, <1>6, <1>u DEF LoadPerkIDs, WaitJobs, Goto, Writing
<1>12. ASSUME NEW h \in Hosts, NEW ok \in BOOLEAN,
              WritePerks(h, ok) \/ WriteWeapons(h, ok)
       PROVE  Goal
  <2>1. Writes(h)
    BY <1>12 DEF Writes
  <2> QED
    BY <1>12, <2>1, <1>6
       DEF WritePerks, WriteWeapons, UpsertPerks, UpsertWeapons, After, Goto,
           Writing
<1>13. ASSUME NEW h \in Hosts, NEW w \in Weapons, NEW ok \in BOOLEAN,
              JobLinks(h, w, ok) \/ JobRolls(h, w, ok)
       PROVE  Goal
  <2>1. Writes(h)
    BY <1>13 DEF Writes
  <2>2. /\ pc[h] = "jobs"
        /\ UNCHANGED <<pc, manifest>>
        /\ sync' = sync
    BY <1>13 DEF JobLinks, JobRolls, ReplaceWeaponPerks, ReplaceRolls
  <2>3. pc' = [pc EXCEPT ![h] = "jobs"]
    BY <2>2, <1>ty
  <2> QED
    BY <2>1, <2>2, <2>3, <1>6 DEF Writing
<1>14. ASSUME NEW h \in Hosts, NEW w \in Weapons, AbortJob(h, w) PROVE Goal
  BY <1>14, <1>1, <1>u DEF AbortJob, tables
<1>15. ASSUME NEW h \in Hosts, NEW ok \in BOOLEAN, RecordImport(h, ok)
       PROVE  Goal
  <2>1. /\ pc[h] = "record" /\ manifest[h] \in Versions /\ Holds(manifest[h])
        /\ pc' = [pc EXCEPT ![h] = "exit"]
        /\ sync'.version = manifest[h] /\ UNCHANGED content
    BY <1>15 DEF RecordImport, UpsertSyncState, After, Goto, IInv, PhaseInv
  <2>2. UnderWay = manifest[h]
    BY <2>1, <1>s DEF Shown, Writing
  <2>3. UnderWay' = NoRow
    <3>1. pc'[h] = "exit"
      BY <2>1, <1>ty
    <3> QED
      BY <3>1, <1>s DEF Shown, Writing
  <2>4. Held'
    BY <2>1 DEF content, Held, Holds, PerksMatch, WeaponsMatch, LinksMatch,
                RollsMatch, StoredRolls
  <2>5. Promise!Complete
    BY <2>1, <2>2, <2>3, <2>4, ManifestAssumption
       DEF Promise!Complete, Held, UnderWay
  <2> QED
    BY <2>5 DEF Goal, Promise!Next
<1>16. ASSUME NEW h \in Hosts, Release(h) \/ Fail(h) \/ Crash(h) PROVE Goal
  <2>1. PICK q \in {"idle", "exit"} : pc' = [pc EXCEPT ![h] = q]
    BY <1>16 DEF Release, Fail, Crash, Forget, Goto
  <2>2. pc[h] # "idle" /\ UNCHANGED tables
    BY <1>16 DEF Release, Fail, Crash
  <2>3. CASE pc[h] \in Writing
    BY <2>1, <2>2, <2>3, <1>6, <1>u DEF Writing
  <2>4. CASE pc[h] \notin Writing
    BY <2>1, <2>2, <2>4, <1>5, <1>u DEF Writing
  <2> QED
    BY <2>3, <2>4
<1> QED
  BY <1>2, <1>3, <1>4, <1>7, <1>8, <1>9, <1>10, <1>11, <1>12, <1>13, <1>14,
     <1>15, <1>16
     DEF Next, RunStep, JobStep

\* ImplementsMirror: hosts, statements, flags, failures and crashes keep the
\* promise that a recorded version is held and lost only to another import.
THEOREM IngestImplementsMirror == Spec => ImplementsMirror
<1>1. Init => Promise!Init
  BY ManifestAssumption DEF Init, StoreInit, Promise!Init, Importing
<1> QED
  BY <1>1, MirrorStep, Invariance, PTL DEF Spec, ImplementsMirror, Promise!Spec
=============================================================================
