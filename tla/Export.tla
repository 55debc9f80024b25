-------------------------------- MODULE Export --------------------------------
(***************************************************************************)
(* createContentExport of internal/http/export.go: it walks the posts, the *)
(* pages and the media files while requests go on changing them, and adds  *)
(* what it finds to a temporary archive. The archive is handed to a plugin *)
(* as a path, or kept behind a link that is good for a few hours.          *)
(*                                                                         *)
(* A file is its content: one of Values, or Empty between the truncation   *)
(* and the write of os.WriteFile. One export is made at a time; exports    *)
(* only read, so that they do not meet.                                    *)
(*                                                                         *)
(* SkipsVanished and LeavesArchive are not the code: they are mutants the  *)
(* properties must catch.                                                  *)
(***************************************************************************)
EXTENDS Integers, FiniteSets, Sequences

CONSTANTS
    Directories, \* the exported directories, in the order they are walked
    DirectoryOf, \* the directory of each file
    Values,      \* contents of a file
    Links,       \* tokens of links
    TTL,         \* pluginDownloadTTL
    Empty, None

Files == DOMAIN DirectoryOf
Walked == {Directories[i] : i \in DOMAIN Directories}

(* Every file is in a directory that is walked.                            *)
Setting ==
    /\ Directories \in Seq(Walked)
    /\ \A f \in Files : DirectoryOf[f] \in Walked
    /\ IsFiniteSet(Links)
    /\ TTL \in Nat
    /\ Empty \notin Values
    /\ None \notin Values /\ None \notin Files /\ None \notin 0..TTL + 1

VARIABLES
    file,      \* what each file holds; None if there is none
    writing,   \* the file a request has truncated and not written yet
    stage,     \* where the export is: "idle", "walk" or "made"
    left,      \* directories not listed yet
    todo,      \* files listed and not added yet
    zip,       \* what the archive holds of each file
    downloads, \* the age of each link, TTL + 1 at most; None if there is none
    handed,    \* an archive is with a plugin
    temps,     \* temporary archives on disk
    steady     \* files that were whole at the start and not touched since

vars == <<file, writing, stage, left, todo, zip, downloads, handed, temps, steady>>
archive == <<stage, left, todo, zip>>

Init ==
    /\ file \in [Files -> Values \cup {None}]
    /\ writing = None
    /\ stage = "idle"
    /\ left = <<>>
    /\ todo = {}
    /\ zip = [f \in Files |-> None]
    /\ downloads = [k \in Links |-> None]
    /\ handed = FALSE
    /\ temps = 0
    /\ steady = {}

-----------------------------------------------------------------------------
(* Requests that change the content meanwhile: a save truncates and writes,*)
(* a rename or a deletion removes.                                         *)

Truncate(f) ==
    /\ writing = None
    /\ writing' = f
    /\ file' = [file EXCEPT ![f] = Empty]
    /\ steady' = steady \ {f}
    /\ UNCHANGED <<archive, downloads, handed, temps>>

Write(f) ==
    /\ writing = f
    /\ writing' = None
    /\ \E v \in Values : file' = [file EXCEPT ![f] = v]
    /\ UNCHANGED <<archive, downloads, handed, temps, steady>>

Remove(f) ==
    /\ file[f] \in Values
    /\ file' = [file EXCEPT ![f] = None]
    /\ steady' = steady \ {f}
    /\ UNCHANGED <<writing, archive, downloads, handed, temps>>

-----------------------------------------------------------------------------
(* The export.                                                             *)

StartExport ==
    /\ stage = "idle"
    /\ stage' = "walk"
    /\ left' = Directories
    /\ temps' = temps + 1
    /\ steady' = {f \in Files : file[f] \in Values}
    /\ UNCHANGED <<file, writing, todo, zip, downloads, handed>>

(* The archive of an export that fails is closed and removed. Mutant: it   *)
(* is left where it is.                                                    *)
LeavesArchive == UNCHANGED temps
DropArchive   == temps' = temps - 1

FailExport ==
    /\ stage' = "idle"
    /\ left' = <<>>
    /\ todo' = {}
    /\ zip' = [f \in Files |-> None]
    /\ DropArchive
    /\ steady' = {}

(* WalkDir reads the names of a directory before it visits the first.      *)
ListDirectory ==
    /\ stage = "walk"
    /\ todo = {}
    /\ left # <<>>
    /\ todo' = {f \in Files : DirectoryOf[f] = Head(left) /\ file[f] # None}
    /\ left' = Tail(left)
    /\ UNCHANGED <<file, writing, stage, zip, downloads, handed, temps, steady>>

(* addFileToZip. A name whose file is gone is an error of the whole walk.  *)
(* Mutant: a directory with a file that is gone counts as done.            *)
SkipsVanished(f) ==
    /\ stage = "walk"
    /\ f \in todo
    /\ IF file[f] = None
       THEN todo' = {} /\ UNCHANGED zip
       ELSE todo' = todo \ {f} /\ zip' = [zip EXCEPT ![f] = file[f]]
    /\ UNCHANGED <<file, writing, stage, left, downloads, handed, temps, steady>>

AddFile(f) ==
    /\ stage = "walk"
    /\ f \in todo
    /\ IF file[f] = None
       THEN FailExport
       ELSE /\ todo' = todo \ {f}
            /\ zip' = [zip EXCEPT ![f] = file[f]]
            /\ UNCHANGED <<stage, left, temps, steady>>
    /\ UNCHANGED <<file, writing, downloads, handed>>

(* The manifest is added and the archive closed; a full disk fails it.     *)
CloseArchive ==
    /\ stage = "walk"
    /\ todo = {}
    /\ left = <<>>
    /\ \/ /\ stage' = "made"
          /\ UNCHANGED <<left, todo, zip, temps, steady>>
       \/ FailExport
    /\ UNCHANGED <<file, writing, downloads, handed>>

Made ==
    /\ stage = "made"
    /\ stage' = "idle"
    /\ zip' = [f \in Files |-> None]
    /\ steady' = {}
    /\ UNCHANGED <<file, writing, left, todo>>

(* With LocalFile the plugin gets the path, and removes the file.          *)
HandOver ==
    /\ Made
    /\ ~handed
    /\ handed' = TRUE
    /\ UNCHANGED <<downloads, temps>>

PluginRemoves ==
    /\ handed
    /\ handed' = FALSE
    /\ temps' = temps - 1
    /\ UNCHANGED <<file, writing, archive, downloads, steady>>

(* storePluginDownload removes the links that are too old, and adds one.   *)
Expired == {k \in Links : downloads[k] # None /\ downloads[k] = TTL + 1}

StoreDownload(k) ==
    /\ Made
    /\ downloads[k] = None
    /\ downloads' = [l \in Links |-> IF l = k THEN 0
                                     ELSE IF l \in Expired THEN None
                                     ELSE downloads[l]]
    /\ temps' = temps - Cardinality(Expired)
    /\ UNCHANGED handed

Hour ==
    /\ downloads' = [k \in Links |->
                       IF downloads[k] = None \/ downloads[k] = TTL + 1
                       THEN downloads[k] ELSE downloads[k] + 1]
    /\ downloads' # downloads
    /\ UNCHANGED <<file, writing, archive, handed, temps, steady>>

Next ==
    \/ \E f \in Files : Truncate(f) \/ Write(f) \/ Remove(f) \/ AddFile(f)
    \/ StartExport \/ ListDirectory \/ CloseArchive
    \/ HandOver \/ PluginRemoves \/ Hour
    \/ \E k \in Links : StoreDownload(k)

Spec == Init /\ [][Next]_vars

-----------------------------------------------------------------------------
(* Properties.                                                             *)

TypeOK ==
    /\ file \in [Files -> Values \cup {Empty, None}]
    /\ writing \in Files \cup {None}
    /\ stage \in {"idle", "walk", "made"}
    /\ left \in Seq(Walked)
    /\ todo \subseteq Files
    /\ zip \in [Files -> Values \cup {Empty, None}]
    /\ downloads \in [Links -> 0..TTL + 1 \cup {None}]
    /\ handed \in BOOLEAN
    /\ temps \in Nat
    /\ steady \subseteq Files

(* README.md of the backup plugin: a backup is of all posts, pages and     *)
(* media. What nobody touched while the archive was made is in it as it    *)
(* is; and no archive stays on disk without a link or a plugin to remove   *)
(* it.                                                                     *)
ArchiveWhole == stage = "made" => \A f \in steady : zip[f] = file[f]
Live         == {k \in Links : downloads[k] # None}
NoLeftovers  ==
    temps = Cardinality(Live)
            + (IF stage = "idle" THEN 0 ELSE 1) + (IF handed THEN 1 ELSE 0)
ExportWhole  == ArchiveWhole /\ NoLeftovers
=============================================================================
