------------------------------- MODULE Armory -------------------------------
(***************************************************************************)
(* The whole private side of the armory: the ingest runs of Ingest, the    *)
(* ranking job of last-light-armory, and cmd/export, which takes the same  *)
(* advisory lock, reads the tables one statement at a time without a       *)
(* transaction, assembles the site and writes it file by file over the     *)
(* previous one.                                                           *)
(***************************************************************************)
EXTENDS Ingest, Sequences, SequencesExt

CONSTANTS
    Exporter,   \* the machine where cmd/export is started
    Torn        \* a file whose writing was cut short

ASSUME ArmoryAssumption == Exporter \notin Hosts \cup {Null}

VARIABLES
    ranking,    \* weapon_ranking[w] : a score, or NoRow
    xpc,        \* what the export does next
    xnext,      \* the next table to read or file to write
    snap,       \* what the export has read, by table
    site        \* the artifact directory, by file

export == <<xpc, xnext, snap, site>>
avars == <<vars, ranking, export>>

Reads == <<"version", "weapon", "perk", "weapon_perk", "roll", "ranking">>

NothingRead == [t \in ToSet(Reads) |-> NoRow]

Current(t) ==
    CASE t = "version"     -> sync.version
      [] t = "weapon"      -> weapon
      [] t = "perk"        -> perk
      [] t = "weapon_perk" -> weapon_perk
      [] t = "roll"        -> roll
      [] t = "ranking"     -> ranking

SnapRolls(w) == {c \in ComboKeys : snap["roll"][w][c] # NoRow}

KnownWeapons == {w \in Weapons : snap["weapon"][w] # NoRow}

-----------------------------------------------------------------------------
(* The artifacts.  generated_at and the row counts are left out.           *)

DocPath(w) == <<"weapons", w>>

\* Site.Write's order: weapon documents come last, by ascending hash.
Files ==
    LET hashes == SetToSortSeq(Weapons, <)
    IN  <<<<"meta">>, <<"perks">>, <<"index">>>>
            \o [i \in DOMAIN hashes |-> DocPath(hashes[i])]

Summary(w) ==
    [row |-> snap["weapon"][w], links |-> snap["weapon_perk"][w],
     rollCount |-> Cardinality(SnapRolls(w)), ranking |-> snap["ranking"][w]]

Doc(w) == [summary |-> Summary(w),
           rolls |-> {<<c, snap["roll"][w][c]>> : c \in SnapRolls(w)}]

Artifact(f) ==
    CASE f = <<"meta">>  -> snap["version"]
      [] f = <<"perks">> -> snap["perk"]
      [] f = <<"index">> -> [w \in KnownWeapons |-> Summary(w)]
      [] OTHER           -> Doc(f[2])

\* A weapon without a row gets no document.
ToWrite(f) == \A w \in Weapons \ KnownWeapons : f # DocPath(w)

\* Build refuses a link, a ranking or a roll of a weapon it has not read.
BuildAccepts ==
    \A w \in Weapons \ KnownWeapons :
        /\ snap["weapon_perk"][w] = {}
        /\ snap["ranking"][w] = NoRow
        /\ SnapRolls(w) = {}

-----------------------------------------------------------------------------
ArmoryInit ==
    /\ Init
    /\ ranking = [w \in Weapons |-> NoRow]
    /\ xpc = "idle"
    /\ xnext = 1
    /\ snap = NothingRead
    /\ site = [f \in ToSet(Files) |-> NoRow]

\* Faulty variant: the export does not take the lock.
ExportStartUnlocked ==
    /\ xpc = "idle"
    /\ xpc' = "read"
    /\ UNCHANGED <<tables, live, lock, locals, faults, ranking, xnext, snap, site>>

ExportStart ==
    /\ xpc = "idle"
    /\ lock = Null
    /\ lock' = Exporter
    /\ xpc' = "read"
    /\ UNCHANGED <<tables, live, locals, faults, ranking, xnext, snap, site>>

\* The export ends and starts afresh next time.
ExportForget ==
    /\ xpc' = "idle"
    /\ xnext' = 1
    /\ snap' = NothingRead

\* GetSyncState finding no row ends the export before the other reads.
ExportRead ==
    /\ xpc = "read"
    /\ xnext \in DOMAIN Reads
    /\ LET t == Reads[xnext]
       IN  /\ snap' = [snap EXCEPT ![t] = Current(t)]
           /\ xpc' = IF t = "version" /\ sync.version = NoRow
                     THEN "exit" ELSE xpc
    /\ xnext' = xnext + 1
    /\ UNCHANGED <<vars, ranking, site>>

Build ==
    /\ xpc = "read"
    /\ xnext = Len(Reads) + 1
    /\ xpc' = IF BuildAccepts THEN "write" ELSE "exit"
    /\ xnext' = 1
    /\ UNCHANGED <<vars, ranking, snap, site>>

\* Faulty variant: an existing weapon document is not written again.
WriteNewFiles ==
    /\ xpc = "write"
    /\ xnext \in DOMAIN Files
    /\ LET f == Files[xnext]
       IN  site' = IF ToWrite(f) /\ (Len(f) = 2 => site[f] = NoRow)
                   THEN [site EXCEPT ![f] = Artifact(f)] ELSE site
    /\ xnext' = xnext + 1
    /\ UNCHANGED <<vars, ranking, xpc, snap>>

WriteFile ==
    /\ xpc = "write"
    /\ xnext \in DOMAIN Files
    /\ LET f == Files[xnext]
       IN  site' = IF ToWrite(f) THEN [site EXCEPT ![f] = Artifact(f)] ELSE site
    /\ xnext' = xnext + 1
    /\ UNCHANGED <<vars, ranking, xpc, snap>>

ExportExit ==
    /\ xpc = "exit" \/ (xpc = "write" /\ xnext = Len(Files) + 1)
    /\ lock' = Null
    /\ ExportForget
    /\ UNCHANGED <<tables, live, locals, faults, ranking, site>>

\* A read or write fails, or the process dies, possibly within a write.
ExportFail ==
    /\ xpc # "idle"
    /\ Reply(FALSE)
    /\ lock' = Null
    /\ ExportForget
    /\ \/ UNCHANGED site
       \/ /\ xpc = "write"
          /\ xnext \in DOMAIN Files
          /\ ToWrite(Files[xnext])
          /\ site' = [site EXCEPT ![Files[xnext]] = Torn]
    /\ UNCHANGED <<tables, live, locals, ranking>>

\* last-light-armory ranks a weapon by its best roll, and gives a weapon with
\* zero rolls no row.
Rank(w, s) ==
    /\ ranking' = [ranking EXCEPT ![w] = IF StoredRolls(w) = {} THEN NoRow ELSE s]
    /\ UNCHANGED <<vars, export>>

IngestStep == Next /\ UNCHANGED <<ranking, export>>

ExportStep == ExportRead \/ Build \/ WriteFile \/ ExportExit

ArmoryNext ==
    \/ IngestStep
    \/ ExportStart
    \/ ExportStep
    \/ ExportFail
    \/ \E w \in Weapons, s \in Scores : Rank(w, s)

ArmorySpec == ArmoryInit /\ [][ArmoryNext]_avars

\* cron keeps starting the import; the export is assumed to be started again
\* and again too, by hand or by a job.  Whatever is started runs on.
ArmoryFairness ==
    /\ \A h \in Hosts : /\ WF_avars(RunStep(h) /\ UNCHANGED <<ranking, export>>)
                        /\ SF_avars(Start(h, Plain) /\ UNCHANGED <<ranking, export>>)
    /\ WF_avars(ExportStep)
    /\ SF_avars(ExportStart)

ArmoryFairSpec == ArmorySpec /\ ArmoryFairness

-----------------------------------------------------------------------------
(* Properties.                                                             *)

\* ReadsAreCurrent: although the export reads table by table, what it has
\* read of the ingest-owned tables is what they hold until it lets the lock
\* go, so Build sees one state of the database.
ReadsAreCurrent ==
    xpc \in {"read", "write"} => \A n \in DOMAIN Reads :
        (xpc = "write" \/ n < xnext) /\ Reads[n] \in {"version", "weapon", "perk", "weapon_perk"}
            => snap[Reads[n]] = Current(Reads[n])

\* BuildNeverRefuses: the integrity errors of Build are unreachable, and
\* every perk hash in a document has an entry in perks.json to join with.
BuildNeverRefuses ==
    xpc = "read" /\ xnext = Len(Reads) + 1 =>
        /\ BuildAccepts
        /\ \A w \in KnownWeapons :
              /\ PerksIn(snap["weapon_perk"][w]) \subseteq {p \in Perks : snap["perk"][p] # NoRow}
              /\ \A c \in SnapRolls(w) :
                    PerksIn(c) \subseteq {p \in Perks : snap["perk"][p] # NoRow}

Written(f) == site[f] \notin {NoRow, Torn}

\* The artifacts say what version v says, for all that v lists.
Shows(v) ==
    /\ site[<<"meta">>] = v
    /\ Written(<<"perks">>)
    /\ \A p \in PerksOf(v) : site[<<"perks">>][p] = PerkOf[v][p]
    /\ Written(<<"index">>)
    /\ \A w \in WeaponsOf(v) :
          /\ Written(DocPath(w))
          /\ LET doc == site[DocPath(w)]
             IN  /\ doc.summary.row = WeaponOf[v][w]
                 /\ doc.summary.links = PoolOf[v][w]
                 /\ {r[1] : r \in doc.rolls} = CombosOf[v][w]
          /\ w \in DOMAIN site[<<"index">>]
          /\ site[<<"index">>][w].rollCount = Cardinality(CombosOf[v][w])

\* SiteConverges: once releases and failures stop, the artifact directory
\* comes to show the live version and keeps showing it, whatever half-done
\* imports and half-written sites came before.
SiteConverges == <>[](Shows(live))

\* ExportsReconciled: a site is only built from a database that holds the
\* version it is labelled with ("an export never reads while an ingest is
\* mid-reconciliation", cmd/export/main.go).
ExportsReconciled ==
    [][xpc = "read" /\ xpc' = "write" => Holds(snap["version"])]_avars

\* ZeroRollsUnranked: the ranking of a weapon document is nil for a weapon
\* with zero rolls ("All nil for a weapon with zero rolls, which never gets a
\* ranking row", WeaponSummary).
ZeroRollsUnranked ==
    \A w \in Weapons :
        Written(DocPath(w)) /\ site[DocPath(w)].rolls = {}
            => site[DocPath(w)].summary.ranking = NoRow

-----------------------------------------------------------------------------
(* The invariant behind ReadsAreCurrent and BuildNeverRefuses              *)
(* (ArmoryProofs), beside the one of Ingest.                               *)

\* A running export has the lock to itself.
ExporterHolds == xpc # "idle" => lock = Exporter

\* Scores move under the export, rolls do not.
RollsRead ==
    xpc = "read" /\ xnext > 5 =>
        \A w \in Weapons : SnapRolls(w) = StoredRolls(w)

\* A ranking, stored or read, belongs to a stored weapon, although the table
\* of rankings is written without the lock.
RankedStored ==
    \A w \in Weapons :
        (\/ ranking[w] # NoRow
         \/ xpc = "read" /\ xnext > 6 /\ snap["ranking"][w] # NoRow)
        => weapon[w] # NoRow

ExportInv ==
    /\ xpc \in {"idle", "read", "write", "exit"}
    /\ xnext \in Nat \ {0}
    /\ xpc = "idle" => xnext = 1
    /\ DOMAIN snap = ToSet(Reads)
    /\ DOMAIN ranking = Weapons
    /\ ExporterHolds
    /\ ReadsAreCurrent
    /\ RollsRead
    /\ RankedStored
=============================================================================
