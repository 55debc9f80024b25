-------------------------------- MODULE Backup --------------------------------
(***************************************************************************)
(* The WebDAV backup plugin (examples/bundles/webdav-backup): a scheduler  *)
(* and a button that start the same backup, which asks the host for an     *)
(* archive, uploads it, deletes the oldest uploads, and writes down that   *)
(* it succeeded. Each of these steps can fail, and the plugin can be       *)
(* stopped between any two.                                                *)
(*                                                                         *)
(* Names of uploads are the times they were made at; here uploads is the   *)
(* sequence of names, oldest first. The time since the last success is     *)
(* counted up to the interval, which is when the next backup is due.       *)
(*                                                                         *)
(* DeletesNewest, ErrorLogged and NotRearmed are not the code: they are    *)
(* mutants the properties must catch.                                      *)
(***************************************************************************)
EXTENDS Integers, FiniteSets, Sequences, SequencesExt

CONSTANTS
    Names,      \* names of archives
    Interval,   \* hours between backups
    Retentions, \* numbers of backups to keep that may be configured
    MaxFaults,  \* bound on the failures of host, disk and WebDAV server and on
                \* the ends of the plugin
    None

(* At least one backup is kept (config.validate).                          *)
Setting ==
    /\ Retentions \subseteq Nat \ {0}
    /\ Interval \in Nat /\ MaxFaults \in Nat
    /\ None \notin Names \cup {"timer", "button"}

VARIABLES
    enabled, keep, \* config.json
    age, name, failed, \* state.json: hours since LastSuccess (Interval also
                   \* for never), LastFilename, LastError # ""
    uploads,       \* what is on the WebDAV server
    running,       \* the plugin's process
    wake, armed,   \* the channel and the timer of the scheduler
    spc,           \* the scheduler
    bpc,           \* the backup that holds backupMu
    by,            \* who runs it: "timer", "button", or None
    kept,          \* its copy of keep
    upload,        \* its archive
    doomed,        \* names it has still to delete
    faults,
    latest,        \* the last archive the server has acknowledged
    promised       \* the retention of the last success; 0 if there is none
                   \* or a backup has ended without a note since then

config    == <<enabled, keep>>
state     == <<age, name, failed, promised>>
scheduler == <<running, wake, armed, spc>>
backup    == <<bpc, by, kept, upload, doomed>>
vars      == <<config, state, uploads, scheduler, backup, faults, latest>>

Init ==
    /\ enabled = FALSE /\ keep \in Retentions
    /\ age = Interval /\ name = None /\ failed = FALSE
    /\ uploads = <<>>
    /\ running = TRUE /\ wake = FALSE /\ armed = TRUE /\ spc = "select"
    /\ bpc = "none" /\ by = None /\ kept = 0 /\ upload = None /\ doomed = {}
    /\ faults = 0
    /\ latest = None /\ promised = 0

MayFail == faults < MaxFaults /\ faults' = faults + 1

-----------------------------------------------------------------------------
(* The settings, saved through a temporary file and a rename.              *)

Configure ==
    /\ running
    /\ \E e \in BOOLEAN, k \in Retentions :
         /\ <<e, k>> # <<enabled, keep>>
         /\ enabled' = e /\ keep' = k
    /\ wake' = TRUE
    /\ UNCHANGED <<state, uploads, running, armed, spc, backup, faults, latest>>

(* runScheduler. select takes the wake-up or the timer.                    *)
Select ==
    /\ running /\ spc = "select"
    /\ \/ wake /\ wake' = FALSE /\ UNCHANGED armed
       \/ armed /\ armed' = FALSE /\ UNCHANGED wake
    /\ spc' = "check"
    /\ UNCHANGED <<config, state, uploads, running, backup, faults, latest>>

(* The timer is set again after every round. Mutant: it is not.            *)
NotRearmed == armed' = armed
Rearm      == armed' = TRUE

(* loadConfig and backupDue.                                               *)
Check ==
    /\ running /\ spc = "check"
    /\ IF enabled /\ age = Interval
       THEN spc' = "try" /\ UNCHANGED armed
       ELSE spc' = "select" /\ Rearm
    /\ UNCHANGED <<config, state, uploads, running, wake, backup, faults, latest>>

Begin(who) ==
    /\ bpc = "none"
    /\ bpc' = "attempt" /\ by' = who /\ kept' = keep
    /\ UNCHANGED <<upload, doomed>>

(* performBackup waits for the backup it makes; when the button has        *)
(* started one, the scheduler goes on to the next round.                   *)
TryBackup ==
    /\ running /\ spc = "try"
    /\ \/ Begin("timer") /\ spc' = "wait" /\ UNCHANGED armed
       \/ bpc # "none" /\ spc' = "select" /\ Rearm /\ UNCHANGED backup
    /\ UNCHANGED <<config, state, uploads, running, wake, faults, latest>>

(* backupNow answers at once; a second one is refused.                     *)
BackupNow ==
    /\ running /\ Begin("button")
    /\ UNCHANGED <<config, state, uploads, scheduler, faults, latest>>

-----------------------------------------------------------------------------
(* performBackupLocked.                                                    *)

At(step) == running /\ bpc = step

(* The backup returns: its archive is removed, the mutex free.             *)
EndBackup ==
    /\ bpc' = "none" /\ by' = None /\ kept' = 0 /\ upload' = None /\ doomed' = {}
    /\ IF by = "timer" THEN spc' = "select" /\ Rearm ELSE UNCHANGED <<spc, armed>>

(* fail: the error goes to state.json, unless that fails too. LastSuccess  *)
(* stays, so that the next round finds the backup due again. Mutant: the   *)
(* error is only logged.                                                   *)
ErrorLogged == UNCHANGED <<failed, promised>>
WriteError  == \/ failed' = TRUE /\ UNCHANGED promised
               \/ promised' = 0 /\ UNCHANGED failed

FailBackup ==
    /\ MayFail
    /\ EndBackup
    /\ WriteError
    /\ UNCHANGED <<age, name>>

(* One step of the backup, to the next one.                                *)
Goto(step) ==
    /\ bpc' = step
    /\ UNCHANGED <<by, kept, state, spc, armed, faults>>

Attempt ==
    /\ At("attempt")
    /\ failed' = FALSE
    /\ bpc' = "export"
    /\ UNCHANGED <<config, age, name, promised, uploads, scheduler, by, kept,
                   upload, doomed, faults, latest>>

(* CreateContentExport of the host: see module Export. The archive has a   *)
(* name that is later than all others: here, any that is not in use, while *)
(* there is one.                                                           *)
NewNames == Names \ (ToSet(uploads) \cup {name, latest})

ExportContent ==
    /\ At("export")
    /\ \/ /\ NewNames # {}
          /\ upload' = CHOOSE n \in NewNames : TRUE
          /\ Goto("collect") /\ UNCHANGED doomed
       \/ FailBackup
    /\ UNCHANGED <<config, uploads, running, wake, latest>>

(* MKCOL, which may find the directory there.                              *)
EnsureCollection ==
    /\ At("collect")
    /\ \/ Goto("upload") /\ UNCHANGED <<upload, doomed>>
       \/ FailBackup
    /\ UNCHANGED <<config, uploads, running, wake, latest>>

(* PUT. The server may have stored what it did not acknowledge.            *)
Upload ==
    /\ At("upload")
    /\ \/ /\ uploads' = Append(uploads, upload)
          /\ latest' = upload
          /\ Goto("list") /\ UNCHANGED <<upload, doomed>>
       \/ /\ uploads' \in {uploads, Append(uploads, upload)}
          /\ UNCHANGED latest
          /\ FailBackup
    /\ UNCHANGED <<config, running, wake>>

(* listBackups sorts by name, latest first; what comes after the first     *)
(* kept ones is deleted, in that order. Mutant: earliest first.            *)
DeletesNewest(n) == ToSet(SubSeq(uploads, n + 1, Len(uploads)))
Beyond(n)        == ToSet(SubSeq(uploads, 1, Len(uploads) - n))

ListBackups ==
    /\ At("list")
    /\ \/ doomed' = Beyond(kept) /\ Goto("prune") /\ UNCHANGED upload
       \/ FailBackup
    /\ UNCHANGED <<config, uploads, running, wake, latest>>

Prune ==
    /\ At("prune")
    /\ \/ \E i \in DOMAIN uploads :
            /\ uploads[i] \in doomed
            /\ \A j \in i + 1..Len(uploads) : uploads[j] \notin doomed
            /\ doomed' = doomed \ {uploads[i]}
            /\ uploads' = RemoveAt(uploads, i)
            /\ Goto("prune") /\ UNCHANGED upload
       \/ doomed # {} /\ FailBackup /\ UNCHANGED uploads
    /\ UNCHANGED <<config, running, wake, latest>>

(* The last write of state.json. If it fails the error is only logged.     *)
RecordSuccess ==
    /\ At("prune") /\ doomed = {}
    /\ EndBackup
    /\ \/ /\ age' = 0 /\ name' = upload /\ failed' = FALSE
          /\ promised' = kept
          /\ UNCHANGED faults
       \/ MayFail /\ promised' = 0 /\ UNCHANGED <<age, name, failed>>
    /\ UNCHANGED <<config, uploads, running, wake, latest>>

-----------------------------------------------------------------------------
(* The host ends the plugin (an update, a restart) or it dies: main returns*)
(* although a backup is under way. It is started again.                    *)
Stop ==
    /\ running /\ MayFail
    /\ running' = FALSE
    /\ wake' = FALSE /\ armed' = FALSE /\ spc' = "select"
    /\ bpc' = "none" /\ by' = None /\ kept' = 0 /\ upload' = None /\ doomed' = {}
    /\ promised' = IF bpc = "none" THEN promised ELSE 0
    /\ UNCHANGED <<config, age, name, failed, uploads, latest>>

Start ==
    /\ ~running
    /\ running' = TRUE /\ armed' = TRUE
    /\ UNCHANGED <<config, state, uploads, wake, spc, backup, faults, latest>>

Hour ==
    /\ age < Interval
    /\ age' = age + 1
    /\ UNCHANGED <<config, name, failed, promised, uploads, scheduler, backup,
                   faults, latest>>

Perform == \/ Attempt \/ ExportContent \/ EnsureCollection \/ Upload
           \/ ListBackups \/ Prune \/ RecordSuccess

Schedule == Select \/ Check \/ TryBackup

Next == Configure \/ Schedule \/ BackupNow \/ Perform \/ Stop \/ Start \/ Hour

Spec == Init /\ [][Next]_vars

(* The goroutines of the plugin go on (a backup has 12 hours), the host    *)
(* starts a background plugin again, and time passes. Administrators,      *)
(* failures and ends of the plugin owe nothing.                            *)
Fairness == WF_vars(Schedule) /\ WF_vars(Perform) /\ WF_vars(Start) /\ WF_vars(Hour)
FairSpec == Spec /\ Fairness

-----------------------------------------------------------------------------
(* Properties.                                                             *)

TypeOK ==
    /\ enabled \in BOOLEAN /\ keep \in Retentions
    /\ age \in 0..Interval /\ name \in Names \cup {None} /\ failed \in BOOLEAN
    /\ uploads \in Seq(Names)
    /\ running \in BOOLEAN /\ wake \in BOOLEAN /\ armed \in BOOLEAN
    /\ spc \in {"select", "check", "try", "wait"}
    /\ bpc \in {"none", "attempt", "export", "collect", "upload", "list", "prune"}
    /\ by \in {"timer", "button", None}
    /\ kept \in Retentions \cup {0} /\ promised \in Retentions \cup {0}
    /\ upload \in Names \cup {None} /\ doomed \subseteq Names
    /\ faults \in 0..MaxFaults
    /\ latest \in Names \cup {None}

(* However backups fail or are cut off, the last archive the server has    *)
(* acknowledged is never deleted, and a deletion that stops half way       *)
(* leaves as many as were to be kept.                                      *)
LatestKept ==
    /\ latest # None => latest \in ToSet(uploads)
    /\ doomed # {} => Len(uploads) - Cardinality(doomed) = kept

(* statusResult. When it says that the last backup was uploaded, then that *)
(* is the newest one there, and there are no more than were to be kept;    *)
(* unless a backup was cut off before it could write its error.            *)
SaysSuccess == name # None /\ ~failed
StatusTrue  ==
    bpc = "none" /\ promised # 0 /\ SaysSuccess =>
        uploads # <<>> /\ name = Last(uploads) /\ Len(uploads) <= promised

BackupsKept == LatestKept /\ StatusTrue

(* An automatic backup that is due is made, once failures end: the         *)
(* scheduler never stops looking.                                          *)
KeepsBackingUp == enabled /\ age = Interval ~> age = 0 \/ ~enabled
=============================================================================
