------------------------------ MODULE MCPlugins ------------------------------
(* Small instances of Export, Backup and Importer for TLC. They share no    *)
(* state: part says which of them moves, and the others stay as they are.   *)
EXTENDS Naturals, TLC

CONSTANTS Directories, DirectoryOf, Values, Links, TTL, Empty,
          Names, Interval, Retentions, MaxFaults,
          Exports, Tokens, MaxMishaps, None

VARIABLES part,
          file, writing, stage, left, todo, zip, downloads, handed, temps, steady,
          enabled, keep, age, name, failed, uploads, running, wake, armed, spc,
          bpc, by, kept, upload, doomed, faults, latest, promised,
          pluginUploads, job, batch, ipc, item, done, errors, paths, slip,
          stored, shown, mishaps, unheard

E == INSTANCE Export
B == INSTANCE Backup
I == INSTANCE Importer

ASSUME SettingAssumption == E!Setting /\ B!Setting /\ I!Setting

exportVars   == <<file, writing, stage, left, todo, zip, downloads, handed, temps,
                  steady>>
backupVars   == <<enabled, keep, age, name, failed, uploads, running, wake, armed,
                  spc, bpc, by, kept, upload, doomed, faults, latest, promised>>
importerVars == <<pluginUploads, job, batch, ipc, item, done, errors, paths, slip,
                  stored, shown, mishaps, unheard>>
vars         == <<part, exportVars, backupVars, importerVars>>

Init ==
    /\ part \in {"export", "backup", "importer"}
    /\ E!Init /\ B!Init /\ I!Init
    /\ part # "export" => file = [f \in E!Files |-> None]
    /\ part # "backup" => keep = CHOOSE k \in Retentions : TRUE

ExportNext   == part = "export" /\ E!Next /\ UNCHANGED <<part, backupVars, importerVars>>
BackupNext   == part = "backup" /\ B!Next /\ UNCHANGED <<part, exportVars, importerVars>>
ImporterNext == part = "importer" /\ I!Next /\ UNCHANGED <<part, exportVars, backupVars>>

Next     == ExportNext \/ BackupNext \/ ImporterNext
SafeSpec == Init /\ [][Next]_vars

(* Of the changes of the retention, TLC takes those that lower it: they    *)
(* make a backup delete more than one old archive.                         *)
Lowered == keep' <= keep

Spec == /\ Init /\ [][Next /\ Lowered]_vars
        /\ WF_backupVars(part = "backup" /\ B!Schedule)
        /\ WF_backupVars(part = "backup" /\ B!Perform)
        /\ WF_backupVars(part = "backup" /\ B!Start)
        /\ WF_backupVars(part = "backup" /\ B!Hour)
        /\ WF_importerVars(part = "importer" /\ I!Step)

TypeOK == /\ part = "export" => E!TypeOK
          /\ part = "backup" => B!TypeOK
          /\ part = "importer" => I!TypeOK
ExportWhole    == part = "export" => E!ExportWhole
BackupsKept    == part = "backup" => B!BackupsKept
ImportHonest   == part = "importer" => I!ImportHonest
PlaceholdersDiffer == part = "importer" => I!PlaceholdersDiffer
KeepsBackingUp == B!KeepsBackingUp
ImportEnds     == I!ImportEnds

MCDirectories == <<"posts", "media">>
MCDirectoryOf == [f \in {"a", "b", "c"} |-> IF f = "c" THEN "media" ELSE "posts"]

\* Ids that begin with one another, URLs and ids that repeat, an attachment
\* without an id, media that is only shown; and an empty file.
At(url, id) == [url |-> url, id |-> id]
MCExports ==
    {[attachments |-> <<At("a", <<"1">>), At("b", <<"1", "2">>), At("a", <<"7">>)>>,
      drafts |-> <<{"a", "b"}, {"c"}>>],
     [attachments |-> <<At("a", <<"1">>), At("b", <<"1">>), At("c", <<>>)>>,
      drafts |-> <<{"b"}, {}>>],
     [attachments |-> <<>>, drafts |-> <<>>]}
=============================================================================
