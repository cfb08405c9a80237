--------------------------- MODULE MetbullSnapshot ---------------------------
(***************************************************************************)
(* The bundled Meteoritical Bulletin snapshot: the maintainer's updater    *)
(* (scripts/update_metbull_snapshot.py), which turns the official CSV into *)
(* a database and a metadata file and replaces the two on disk one after   *)
(* the other, and the API processes (app/metbull/snapshot.py), which check *)
(* the pair once when they start and open the database again for every     *)
(* lookup.                                                                 *)
(*                                                                         *)
(* A row keeps the distinctions the checks make: whether its texts, status *)
(* and fall marker are allowed, whether its status makes the name          *)
(* official, and what kind of year, place and coordinates it has.  A       *)
(* SHA-256 is the thing hashed; the same rows give the same database file. *)
(***************************************************************************)
EXTENDS Naturals, Sequences, FiniteSets

CONSTANTS
    Reader,         \* API processes
    Code,           \* meteorite codes
    Sentinel,       \* 87447, the record every export must hold
    CSV,            \* the exports LPI may answer with: sequences of rows
    MinimumRows,    \* 80,000 in the code
    MaxUpdates,     \* bound: runs of the updater
    MaxFaults,      \* bound: killed updaters, power losses
    None

VARIABLES
    database, metadata,     \* the two files
    durable,                \* what of them survives a power loss
    pc, csv,                \* where the updater is, and what it downloaded
    database_temp, metadata_temp,
    before,                 \* the files when this update began
    phase, checked, seen,   \* of an API process: its start, the metadata and
                            \* the database it has checked
    answers,                \* status codes of the lookups
    updates, faults

file_vars == <<database, metadata>>
temp_vars == <<database_temp, metadata_temp>>
reader_vars == <<phase, checked, seen, answers>>
vars == <<database, metadata, durable, pc, csv, database_temp, metadata_temp,
          before, phase, checked, seen, answers, updates, faults>>

Coordinates == {"empty", "inside", "outside", "malformed"}
Row == [code : Code, allowed : BOOLEAN, official : BOOLEAN,
        year : {"year", "zero", "text"},
        place : {"country", "alias", "region"},
        latitude : Coordinates, longitude : Coordinates]

\* A file mkstemp made and nobody has written to.
Empty == [source_sha256 |-> None, rows |-> <<>>]

-----------------------------------------------------------------------------
(* What the updater makes of an export.                                    *)

\* A year that is not one to four digits, or is zero, is not recorded.
year_or_none(y) == IF y = "year" THEN y ELSE None

\* Only reviewed names of countries; an alias becomes the country's name.
country_or_none(p) == IF p = "region" THEN None ELSE "country"

\* One coordinate alone, or one that is not a number, condemns the export;
\* one that is off the globe only empties both.
CoordinatesValid(lat, lon) ==
    \/ lat = "empty" /\ lon = "empty"
    \/ {lat, lon} \subseteq {"inside", "outside"}

\* Mutant: each coordinate is looked at alone.
coordinates_or_none_each(lat, lon) ==
    <<IF lat = "inside" THEN lat ELSE None, IF lon = "inside" THEN lon ELSE None>>
coordinates_or_none(lat, lon) ==
    IF {lat, lon} = {"inside"} THEN <<lat, lon>> ELSE <<None, None>>

record(row) ==
    [official |-> row.official, year |-> year_or_none(row.year),
     country |-> country_or_none(row.place),
     coordinates |-> coordinates_or_none(row.latitude, row.longitude)]

expected_sentinel ==
    [official |-> TRUE, year |-> "year", country |-> "country",
     coordinates |-> <<None, None>>]

Codes(export) == {export[i].code : i \in DOMAIN export}
RowOf(export, c) ==
    CHOOSE row \in {export[i] : i \in DOMAIN export} : row.code = c

\* _validated_rows: every row valid, no code twice, enough rows and the
\* sentinel as it is known.
Accepts(export) ==
    /\ \A i \in DOMAIN export :
        /\ export[i].allowed
        /\ CoordinatesValid(export[i].latitude, export[i].longitude)
    /\ Cardinality(Codes(export)) = Len(export)
    /\ Len(export) >= MinimumRows
    /\ Sentinel \in Codes(export)
    /\ record(RowOf(export, Sentinel)) = expected_sentinel

\* _write_database: the rows by code, and which export they are from.
Built(export) ==
    [source_sha256 |-> export,
     rows |-> [c \in Codes(export) |-> record(RowOf(export, c))]]

\* Mutant: the published file is hashed.
Hashed_published == database

\* The hash is of the temporary file, before it replaces anything.
Hashed == database_temp

Metadata(export, hash) ==
    [source_sha256 |-> export, database_sha256 |-> hash,
     row_count |-> Len(export)]

Pair(db, meta) == [database |-> db, metadata |-> meta]
Matching(export) ==
    Pair(Built(export), Metadata(export, Built(export)))

-----------------------------------------------------------------------------
(* The updater.                                                            *)

AtRest == {"idle", "failed", "done"}
Building == {"validate", "write", "metadata", "replace_database"}
Publishing == {"replace_metadata", "fsync"}

download_official_csv ==
    /\ pc \in AtRest
    /\ updates < MaxUpdates
    /\ updates' = updates + 1
    /\ before' = Pair(database, metadata)
    /\ \/ csv' \in CSV /\ pc' = "validate"
       \/ csv' = None /\ pc' = "failed"
    /\ UNCHANGED <<file_vars, temp_vars, reader_vars, durable, faults>>

\* build_snapshot up to mkstemp.
validate_rows ==
    /\ pc = "validate"
    /\ IF Accepts(csv) THEN pc' = "write" /\ database_temp' = Empty
       ELSE pc' = "failed" /\ UNCHANGED database_temp
    /\ UNCHANGED <<file_vars, metadata_temp, reader_vars, durable, csv, before,
                   updates, faults>>

\* Mutant: the published file is opened for writing.
write_database_in_place ==
    /\ pc = "write"
    /\ database' = Empty
    /\ database_temp' = Built(csv)
    /\ pc' = "metadata"
    /\ UNCHANGED <<metadata, metadata_temp, reader_vars, durable, csv, before,
                   updates, faults>>

write_database ==
    /\ pc = "write"
    /\ database_temp' = Built(csv)
    /\ pc' = "metadata"
    /\ UNCHANGED <<file_vars, metadata_temp, reader_vars, durable, csv, before,
                   updates, faults>>

\* Mutant: the database is put in place before its metadata has been written.
write_metadata_temp_late ==
    /\ pc = "metadata"
    /\ metadata_temp' = Metadata(csv, Hashed)
    /\ database' = database_temp
    /\ pc' = "replace_database"
    /\ UNCHANGED <<metadata, database_temp, reader_vars, durable, csv, before,
                   updates, faults>>

write_metadata_temp ==
    /\ pc = "metadata"
    /\ metadata_temp' = Metadata(csv, Hashed)
    /\ pc' = "replace_database"
    /\ UNCHANGED <<file_vars, database_temp, reader_vars, durable, csv, before,
                   updates, faults>>

replace_database ==
    /\ pc = "replace_database"
    /\ database' = database_temp
    /\ database_temp' = None
    /\ pc' = "replace_metadata"
    /\ UNCHANGED <<metadata, metadata_temp, reader_vars, durable, csv, before,
                   updates, faults>>

replace_metadata ==
    /\ pc = "replace_metadata"
    /\ metadata' = metadata_temp
    /\ metadata_temp' = None
    /\ pc' = "fsync"
    /\ UNCHANGED <<database, database_temp, reader_vars, durable, csv, before,
                   updates, faults>>

fsync_directory ==
    /\ pc = "fsync"
    /\ durable' = Pair(database, metadata)
    /\ pc' = "done"
    /\ UNCHANGED <<file_vars, temp_vars, reader_vars, csv, before, updates,
                   faults>>

\* Any file operation may fail; finally unlinks what is still temporary.
build_fails ==
    /\ pc \in (Building \ {"validate"}) \cup Publishing
    /\ pc' = "failed"
    /\ database_temp' = None /\ metadata_temp' = None
    /\ UNCHANGED <<file_vars, reader_vars, durable, csv, before, updates,
                   faults>>

\* The process is killed: the temporary files stay, under names no later
\* run uses.
killed ==
    /\ pc \in Building \cup Publishing
    /\ faults < MaxFaults /\ faults' = faults + 1
    /\ pc' = "idle"
    /\ database_temp' = None /\ metadata_temp' = None
    /\ UNCHANGED <<file_vars, reader_vars, durable, csv, before, updates>>

\* The machine stops: of the renames that the directory has not been synced
\* for, any may be lost.
power_loss ==
    /\ faults < MaxFaults /\ faults' = faults + 1
    /\ database' \in {database, durable.database}
    /\ metadata' \in {metadata, durable.metadata}
    /\ durable' = Pair(database', metadata')
    /\ pc' = "idle"
    /\ database_temp' = None /\ metadata_temp' = None
    /\ phase' = [r \in Reader |-> "off"]
    /\ checked' = [r \in Reader |-> None]
    /\ seen' = [r \in Reader |-> None]
    /\ UNCHANGED <<answers, csv, before, updates>>

-----------------------------------------------------------------------------
(* An API process.                                                         *)

Reads(r, p) == phase' = [phase EXCEPT ![r] = p]

\* MeteoriticalBulletinSnapshot(): _load_metadata reads the metadata file.
load_metadata(r) ==
    /\ phase[r] = "off"
    /\ database # None /\ metadata # None
    /\ metadata.row_count >= MinimumRows
    /\ Reads(r, "hash")
    /\ checked' = [checked EXCEPT ![r] = metadata]
    /\ UNCHANGED <<file_vars, temp_vars, durable, pc, csv, before, seen,
                   answers, updates, faults>>

\* Then it hashes the database file, which may be another one by now.
hash_database(r) ==
    /\ phase[r] = "hash"
    /\ Reads(r, IF checked[r].database_sha256 = database THEN "validate"
                ELSE "off")
    /\ UNCHANGED <<file_vars, temp_vars, durable, pc, csv, before, checked,
                   seen, answers, updates, faults>>

\* Mutant: only the sentinel is looked up.
InternalAgrees_schema(db, meta) ==
    /\ Sentinel \in DOMAIN db.rows
    /\ db.rows[Sentinel] = expected_sentinel

\* _validate_database opens the file again: the export it names, the row
\* count and the sentinel.
InternalAgrees(db, meta) ==
    /\ db.source_sha256 = meta.source_sha256
    /\ Cardinality(DOMAIN db.rows) = meta.row_count
    /\ Sentinel \in DOMAIN db.rows
    /\ db.rows[Sentinel] = expected_sentinel

validate_database(r) ==
    /\ phase[r] = "validate"
    /\ IF InternalAgrees(database, checked[r])
       THEN Reads(r, "serving") /\ seen' = [seen EXCEPT ![r] = database]
       ELSE Reads(r, "off") /\ UNCHANGED seen
    /\ UNCHANGED <<file_vars, temp_vars, durable, pc, csv, before, checked,
                   answers, updates, faults>>

\* lookup's checks of the row, and those of MetbullRecordResponse.
RecordValid(rec) ==
    \/ rec.coordinates = <<None, None>>
    \/ rec.coordinates = <<"inside", "inside">>

Answer(db, c) ==
    IF db = Empty THEN 503
    ELSE IF c \notin DOMAIN db.rows THEN 404
    ELSE IF ~db.rows[c].official THEN 409
    ELSE IF ~RecordValid(db.rows[c]) THEN 503
    ELSE 200

\* metbull_record: the file of that name now.
lookup(r, c) ==
    /\ phase[r] = "serving"
    /\ answers' = answers \cup {Answer(database, c)}
    /\ UNCHANGED <<file_vars, temp_vars, durable, pc, csv, before, phase,
                   checked, seen, updates, faults>>

stop(r) ==
    /\ phase[r] = "serving"
    /\ Reads(r, "off")
    /\ checked' = [checked EXCEPT ![r] = None]
    /\ seen' = [seen EXCEPT ![r] = None]
    /\ UNCHANGED <<file_vars, temp_vars, durable, pc, csv, before, answers,
                   updates, faults>>

-----------------------------------------------------------------------------
\* A checkout holds no snapshot, or one an update has completed.
Init ==
    /\ \/ database = None /\ metadata = None
       \/ \E export \in CSV :
            /\ Accepts(export)
            /\ database = Matching(export).database
            /\ metadata = Matching(export).metadata
    /\ durable = Pair(database, metadata)
    /\ before = Pair(database, metadata)
    /\ pc = "idle" /\ csv = None
    /\ database_temp = None /\ metadata_temp = None
    /\ phase = [r \in Reader |-> "off"]
    /\ checked = [r \in Reader |-> None]
    /\ seen = [r \in Reader |-> None]
    /\ answers = {}
    /\ updates = 0 /\ faults = 0

Updater ==
    \/ download_official_csv \/ validate_rows
    \/ write_database \/ write_metadata_temp
    \/ replace_database \/ replace_metadata \/ fsync_directory
    \/ build_fails \/ killed

Api(r) ==
    \/ load_metadata(r) \/ hash_database(r) \/ validate_database(r)
    \/ stop(r)
    \/ \E c \in Code : lookup(r, c)

Next ==
    \/ Updater
    \/ power_loss
    \/ \E r \in Reader : Api(r)

Spec == Init /\ [][Next]_vars

-----------------------------------------------------------------------------
(* What holds.                                                             *)

Databases == {Built(e) : e \in {x \in CSV : Accepts(x)}}
Metadatas == [source_sha256 : CSV, database_sha256 : Databases \cup {None},
              row_count : Nat]

\* The files, the updater's temporary ones and the checks of the API are of
\* the kinds the code writes: in particular the database_path never names a
\* file that is not a whole, accepted export.
TypeOK ==
    /\ database \in Databases \cup {None}
    /\ metadata \in Metadatas \cup {None}
    /\ durable \in [database : Databases \cup {None},
                    metadata : Metadatas \cup {None}]
    /\ pc \in AtRest \cup Building \cup Publishing
    /\ csv \in CSV \cup {None}
    /\ database_temp \in Databases \cup {None, Empty}
    /\ metadata_temp \in Metadatas \cup {None}
    /\ phase \in [Reader -> {"off", "hash", "validate", "serving"}]
    /\ \A r \in Reader : phase[r] # "off" => checked[r] # None
    /\ answers \subseteq {200, 404, 409, 503}
    /\ updates \in 0..MaxUpdates /\ faults \in 0..MaxFaults

\* An API process that serves has checked a database and a metadata file of
\* one and the same export, although it reads the metadata, hashes the
\* database and opens it at three moments between which the updater may
\* replace either: the hash and the database's own record of its source
\* together see to that.
StartedOnOneBuild ==
    \A r \in Reader : phase[r] = "serving" =>
        /\ seen[r] = checked[r].database_sha256
        /\ seen[r].source_sha256 = checked[r].source_sha256

\* The updater accepts no export with a row the lookup then finds invalid,
\* and replaces the database only by a finished one: a process that has
\* started never answers "meteorite lookup unavailable", whatever update
\* runs meanwhile.
PublishedIsServable == 503 \notin answers

\* An update that completes leaves a matching pair, also after one that was
\* killed between its two replacements.
UpdateRepairs ==
    pc = "done" => /\ database = Built(csv)
                   /\ metadata = Matching(csv).metadata
                   /\ durable = Matching(csv)

\* Until the database is replaced an update has changed neither file, so
\* that a refused export, a failed write or a failed check leaves the old
\* snapshot in place.
NothingBeforeReplace ==
    pc \in Building => Pair(database, metadata) = before

\* What the code does not have (README.md, "Where code and documents part"):
\* the service README's "atomically replaces the validated read-only SQLite snapshot
\* and attribution metadata": when no update is under way, the two files
\* belong together.
PairIsReplacedAtomically ==
    pc \in AtRest /\ database # None /\ metadata # None
        => metadata.database_sha256 = database

=============================================================================
