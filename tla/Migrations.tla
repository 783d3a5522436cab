------------------------------- MODULE Migrations -------------------------------
(***************************************************************************)
(* The start of the database (jossie-db/src/lib.rs migrate and its         *)
(* migrations): a damaged schema of the attachments is dropped and made    *)
(* again, a database from before the versioned migrations is brought up    *)
(* to the first of them, and the migrations that are missing are applied.  *)
(* The server may end between any two statements and start again.          *)
(***************************************************************************)
EXTENDS Integers, FiniteSets

CONSTANTS
  MaxVersion,         \* the number of migrations (4)
  MaxCrashes    \* bound: ends of the server in between

\* There is a baseline and the migration that adds the column.
SchemaAssumption == MaxVersion \in Nat /\ MaxVersion >= 2 /\ MaxCrashes \in Nat

VARIABLES
  version,   \* migrations applied; -1 when the file has no record of any
  base,      \* the tables of the baseline exist, all columns of today: "none", "old", "whole"
  files,     \* the table: "none", "plain", "encrypted", "damaged"
  links,     \* message_attachments: "none", "whole", "damaged"
  step,      \* what the start does next
  backups,   \* copies of the file: of its files and links
  origin,    \* what the first start found
  crashed    \* ends of the server in between, and whether one hit a repair

schemaVars == <<version, base, files, links, step, backups, origin, crashed>>

Found == [version |-> version, base |-> base, files |-> files, links |-> links]

\* A new file, one from before the migrations, or one with some of them; its attachments may be
\* damaged.
Init ==
  /\ version \in -1 .. MaxVersion /\ version # 0
  /\ base \in IF version > 0 THEN {"whole"} ELSE {"none", "old"}
  /\ files \in CASE base = "none" -> {"none"}
                 [] base # "none" /\ version \in {-1, 1} -> {"plain", "damaged"}
                 [] OTHER -> {"encrypted", "damaged"}
  /\ links \in IF base = "none" THEN {"none"} ELSE {"whole", "damaged"}
  /\ step = "inspect" /\ backups = {} /\ origin = Found
  /\ crashed = [times |-> 0, repair |-> FALSE]

Goes(next) == step' = next /\ UNCHANGED <<origin, crashed>>
Backup == backups' = backups \union {[files |-> files, links |-> links, base |-> base]}

-------------------------------------------------------------------------------
(* The attachments *)

\* attachment_schema_needs_repair
Inspect ==
  /\ step = "inspect"
  /\ Goes(IF "damaged" \in {files, links} THEN "copy" ELSE "version")
  /\ UNCHANGED <<version, base, files, links, backups>>

\* Mutant of Copy: the file is not copied before the repair.
CopyLater ==
  /\ step = "copy" /\ Goes("drop")
  /\ UNCHANGED <<version, base, files, links, backups>>

\* repair_attachment_schema_with_backup
Copy ==
  /\ step = "copy" /\ Backup /\ Goes("drop")
  /\ UNCHANGED <<version, base, files, links>>

\* repair_attachment_schema: both tables are taken from the schema.
Drop ==
  /\ step = "drop"
  /\ files' = "none" /\ links' = "none"
  /\ Goes("files")
  /\ UNCHANGED <<version, base, backups>>

\* ensure_attachment_schema: with today's columns
MakeFiles ==
  /\ step = "files" /\ files' = "encrypted"
  /\ Goes("links")
  /\ UNCHANGED <<version, base, links, backups>>

MakeLinks ==
  /\ step = "links" /\ links' = "whole"
  /\ Goes("version")
  /\ UNCHANGED <<version, base, files, backups>>

-------------------------------------------------------------------------------
(* Versions *)

\* Is there a table of migrations, and if not, is there a database?
LookUp ==
  /\ step = "version"
  /\ Goes(IF version = -1 /\ base # "none" THEN "copying_old" ELSE "migrate")
  /\ UNCHANGED <<version, base, files, links, backups>>

CopyOld ==
  /\ step = "copying_old" /\ Backup /\ Goes("normalize")
  /\ UNCHANGED <<version, base, files, links>>

\* normalize_legacy_schema: the columns the baseline expects
Normalize ==
  /\ step = "normalize" /\ base' = "whole"
  /\ Goes("migrate")
  /\ UNCHANGED <<version, files, links, backups>>

\* 0001_baseline.sql creates the tables that do not exist.
Baseline ==
  /\ files' = IF files = "none" THEN "plain" ELSE files
  /\ links' = IF links = "none" THEN "whole" ELSE links

\* 0002_telegram_secretary.sql adds a column to files.
AddsColumn == files' = "encrypted" /\ UNCHANGED links

\* A migration is a transaction.
Migrate ==
  LET next == IF version = -1 THEN 1 ELSE version + 1 IN
  /\ step = "migrate"
  /\ IF next > MaxVersion THEN Goes("up") /\ UNCHANGED <<version, base, files, links>>
     ELSE IF next = 2 /\ files # "plain" THEN Goes("failed") /\ UNCHANGED <<version, base, files, links>>
     ELSE /\ version' = next /\ base' = "whole"
          /\ CASE next = 1 -> Baseline
               [] next = 2 -> AddsColumn
               [] OTHER -> UNCHANGED <<files, links>>
          /\ Goes("migrate")
  /\ UNCHANGED backups

\* The server ends, or a statement fails and it is started again.
Crash ==
  /\ step # "inspect" /\ crashed.times < MaxCrashes
  /\ crashed' = [times |-> crashed.times + 1, repair |-> crashed.repair \/ step \in {"files", "links"}]
  /\ step' = "inspect"
  /\ UNCHANGED <<version, base, files, links, backups, origin>>

Steps == Inspect \/ Copy \/ Drop \/ MakeFiles \/ MakeLinks \/ LookUp \/ CopyOld \/ Normalize \/ Migrate
Next == Steps \/ Crash
Spec == Init /\ [][Next]_schemaVars /\ WF_schemaVars(Steps)

-------------------------------------------------------------------------------
(* Properties *)

TypeOK ==
  /\ version \in -1 .. MaxVersion /\ base \in {"none", "old", "whole"}
  /\ files \in {"none", "plain", "encrypted", "damaged"} /\ links \in {"none", "whole", "damaged"}
  /\ crashed.times \in 0 .. MaxCrashes

\* What the first start found is in a copy before it is changed, unless the file was new or
\* versioned and undamaged; and attachments that were not damaged are only dropped together with
\* damaged ones (lib.rs 161-202).
FoundIsKept ==
  LET was == [files |-> origin.files, links |-> origin.links, base |-> origin.base] IN
  /\ ("damaged" \in {was.files, was.links} /\ <<files, links>> # <<was.files, was.links>>) => was \in backups
  /\ (was.base = "old" /\ base # "old") => \E copy \in backups : copy.base = "old"
  /\ (files = "none" /\ was.files # "none") => "damaged" \in {was.files, was.links}

\* A start that succeeds leaves the schema whole, unless the server ended between dropping the
\* tables and making them again.
UpIsWhole ==
  (step = "up" /\ ~crashed.repair) => version = MaxVersion /\ base = "whole" /\ files = "encrypted" /\ links = "whole"

\* A start fails for good only when attachments were damaged before the second migration was
\* applied, which adds a column that the repair has made, or when a repair was cut short.
FailsOnlyThen ==
  step = "failed" => ("damaged" \in {origin.files, origin.links} /\ origin.version < 2)

SchemaKept == FoundIsKept /\ UpIsWhole /\ FailsOnlyThen

\* A start ends.
StartEnds == step = "inspect" ~> step \in {"up", "failed"}
===============================================================================
