---------------------------- MODULE IngestFaults ----------------------------
(***************************************************************************)
(* Ingest when the lock and the statements fail apart from the process.    *)
(* The lock belongs to the session of one connection; the server may end   *)
(* that session while the run goes on with the other connections of the    *)
(* pool.  And a process that dies or is told to stop can leave its current *)
(* statement (of ReplaceRolls, its commit) behind in the server, which     *)
(* executes it later, when the lock has long been given back.  There is at *)
(* most one such statement at a time.                                      *)
(***************************************************************************)
EXTENDS Ingest

VARIABLES
    orphan,     \* the statement left behind in the server, or Null
    alone       \* alone[h] : only the import of h has written since its start

fvars == <<vars, orphan, alone>>

\* The phases in which a run writes its version.
ImportPhases == {"perks", "weapons", "perkIDs", "jobs", "record"}

\* The statements of a run of version v, by the phase or job that sends them.
Statements == [stmt : {"touch", "perks", "weapons", "record"}, v : Versions]
    \cup [stmt : {"links", "rolls"}, v : Versions, w : Weapons,
          ids : SUBSET Perks]

FaultsTypeOK ==
    /\ IngestTypeOK
    /\ orphan \in Statements \cup {Null}
    /\ alone \in [Hosts -> BOOLEAN]

FInit ==
    /\ Init
    /\ orphan = Null
    /\ alone = [h \in Hosts |-> TRUE]

\* The statements that h has in the server: one, or one per running job.
Sent(h) ==
    IF pc[h] = "jobs"
    THEN {[stmt |-> job[h][w], v |-> manifest[h], w |-> w, ids |-> perkIDs[h]] :
              w \in Running(h)}
    ELSE IF pc[h] \in {"touch", "perks", "weapons", "record"}
    THEN {[stmt |-> pc[h], v |-> manifest[h]]} ELSE {}

Execute(s) ==
    CASE s.stmt = "touch"   -> UpsertSyncState(s.v, FALSE)
      [] s.stmt = "perks"   -> UpsertPerks(PerksOf(s.v), PerkOf[s.v])
      [] s.stmt = "weapons" -> UpsertWeapons(WeaponsOf(s.v), WeaponOf[s.v])
      [] s.stmt = "links"   -> ReplaceWeaponPerks(s.w, PoolOf[s.v][s.w])
      [] s.stmt = "rolls"   -> ReplaceRolls(s.w, CombosOf[s.v][s.w], s.ids)
      [] s.stmt = "record"  -> UpsertSyncState(s.v, TRUE)

\* A history variable: after a step of writer, an import is alone if it has
\* just begun, or was alone and nobody else wrote rows.
Track(writer) ==
    alone' = [h \in Hosts |->
        \/ pc'[h] \notin ImportPhases
        \/ alone[h] /\ (h = writer \/ UNCHANGED content)]

-----------------------------------------------------------------------------
\* The server ends the session that holds the lock.  Nothing tells the run.
LoseLock(h) ==
    /\ lock = h
    /\ Reply(FALSE)
    /\ lock' = Null
    /\ UNCHANGED <<tables, live, locals, orphan, alone>>

\* The process dies, or its context is cancelled and it exits, while the
\* server has one of its statements.
Abandon(h) ==
    /\ orphan = Null
    /\ \E s \in Sent(h) : orphan' = s
    /\ Crash(h)
    /\ Track(h)

OrphanExecutes ==
    /\ orphan # Null
    /\ Execute(orphan)
    /\ orphan' = Null
    /\ UNCHANGED <<live, lock, locals, faults>>
    /\ Track(Null)

RunsOn(h) ==
    /\ RunStep(h) \/ Fail(h) \/ Crash(h)
    /\ Track(h)
    /\ UNCHANGED orphan

Starts(h) ==
    /\ \E o \in Options : Start(h, o)
    /\ UNCHANGED <<orphan, alone>>

World ==
    /\ \/ \E v \in Versions : Publish(v)
       \/ \E w \in Weapons, c \in ComboKeys, s \in Scores : Score(w, c, s)
    /\ UNCHANGED <<orphan, alone>>

FNext ==
    \/ \E h \in Hosts : Starts(h) \/ RunsOn(h) \/ LoseLock(h) \/ Abandon(h)
    \/ OrphanExecutes
    \/ World

FSpec == FInit /\ [][FNext]_fvars

\* As in Ingest; and the server finishes what it has been sent.
FFairSpec ==
    /\ FSpec
    /\ \A h \in Hosts :
          /\ WF_fvars(RunStep(h) /\ Track(h) /\ UNCHANGED orphan)
          /\ SF_fvars(Start(h, Plain) /\ UNCHANGED <<orphan, alone>>)
    /\ WF_fvars(OrphanExecutes)

-----------------------------------------------------------------------------
(* Properties.                                                             *)

\* OneRunMutates: "at most one ingest run mutates the database at a time,
\* even across hosts" (package comment of internal/db): neither do two runs
\* write, nor does a statement of one that is over run beside another's.
OneRunMutates ==
    /\ \A h, k \in Hosts :
          pc[h] \in ImportPhases /\ pc[k] \in ImportPhases => h = k
    /\ orphan # Null => \A h \in Hosts : pc[h] \notin ImportPhases

\* ImportRepairs: whatever overlapping runs and statements left behind have
\* done to the tables, an import that no one disturbs ends with the database
\* holding its version when it records it.
ImportRepairs ==
    \A h \in Hosts :
        pc[h] = "record" /\ alone[h] => Holds(manifest[h])

\* RecordFollowsLive: however runs and left-behind statements overlapped,
\* the recorded version ends up being the live one.
RecordFollowsLive == <>[](sync.version = live)

\* ScoresSurviveOverlap: even overlapping runs lose no score of a roll that
\* the versions of all of them generate.
ScoresSurviveOverlap ==
    [][\A w \in Weapons, c \in ComboKeys :
        roll[w][c] \in Scores /\ roll'[w][c] # roll[w][c]
            => \/ roll'[w][c] \in Scores
               \/ \E v \in {manifest[h] : h \in {k \in Hosts : pc[k] = "jobs"}}
                            \cup (IF orphan = Null THEN {} ELSE {orphan.v}) :
                     c \notin CombosOf[v][w]]_fvars

-----------------------------------------------------------------------------
(* The inductive invariant behind the safety properties                    *)
(* (IngestFaultsProofs).  No row is ever deleted, so what a run has put    *)
(* into the tables stays there, whatever others write over it; and while   *)
(* no one does, it stays what the version says.                            *)

StoredWeapons == {w \in Weapons : weapon[w] # NoRow}

\* What a run may rely on in each phase, undisturbed or not.
StoredInv(h) ==
    LET v == manifest[h] IN
    /\ pc[h] \notin {"idle", "manifest", "exit"} => v \in Versions
    /\ pc[h] \in {"weapons", "perkIDs", "jobs", "record"}
           => PerksOf(v) \subseteq StoredPerks
    /\ pc[h] \in {"perkIDs", "jobs", "record"}
           => WeaponsOf(v) \subseteq StoredWeapons
    /\ pc[h] = "jobs" =>
           /\ PerksOf(v) \subseteq perkIDs[h]
           /\ perkIDs[h] \subseteq StoredPerks
           /\ \A w \in Weapons : job[h][w] = "none" <=> w \notin WeaponsOf(v)

\* What an undisturbed run has established.
MatchInv(h) ==
    LET v == manifest[h] IN
    /\ pc[h] \in {"weapons", "perkIDs", "jobs", "record"} => PerksMatch(v)
    /\ pc[h] \in {"perkIDs", "jobs", "record"} => WeaponsMatch(v)
    /\ pc[h] = "jobs" => \A w \in Weapons :
           /\ job[h][w] \in {"rolls", "done"} => LinksMatch(v, w)
           /\ job[h][w] = "done" => RollsMatch(v, w)
    /\ pc[h] = "record" => Holds(v)

\* A roll transaction left behind names only ids that exist.
OrphanInv ==
    orphan # Null /\ orphan.stmt \in {"links", "rolls"}
        => orphan.ids \subseteq StoredPerks

FaultsInv ==
    /\ FaultsTypeOK
    /\ RowsReferenced
    /\ OrphanInv
    /\ \A h \in Hosts : StoredInv(h) /\ (alone[h] => MatchInv(h))
=============================================================================
