------------------------------- MODULE Importer -------------------------------
(***************************************************************************)
(* The WordPress importer plugin (examples/bundles/wordpress-importer) and *)
(* what the host does for it: the uploaded file behind a token, the job    *)
(* the administration polls, and the calls that save media and content and *)
(* reload the site. The plugin goes through the batch in the background    *)
(* and reports after each item; any call can fail or time out, the plugin  *)
(* can die and the host can be restarted.                                  *)
(*                                                                         *)
(* An export is its attachments, each with a URL and a post id, and its    *)
(* drafts, each the set of the URLs it shows. A post id is the sequence of *)
(* its characters, so that one id may begin with another. Saving a post is *)
(* module Publishing, saving media module MediaStore.                      *)
(*                                                                         *)
(* SameAsBefore, OfNothing, ReloadForgiven and StillRunning are not the    *)
(* code: they are mutants the properties must catch.                       *)
(***************************************************************************)
EXTENDS Integers, Sequences, SequencesExt

CONSTANTS
    Exports,     \* the WXR files
    Tokens,      \* tokens of uploaded files
    MaxMishaps,  \* bound on failed calls, deaths of the plugin and restarts
    None

VARIABLES
    pluginUploads, \* the files behind tokens
    job,      \* the import job; None before it and after a restart of the host
    batch,    \* what is imported: media and drafts with their placeholders
    ipc,      \* where runImport is
    item,     \* the item it is at, of media and drafts together
    done, errors,  \* its counters
    paths,    \* the placeholders mediaPaths has
    slip,     \* the error to report for the item
    stored,   \* drafts saved on the host, with what their links became
    shown,    \* how many drafts the served index has
    mishaps,
    unheard   \* the last update of the job did not arrive

import == <<batch, item, done, errors, paths, slip, stored, shown>>
vars   == <<pluginUploads, job, ipc, import, mishaps, unheard>>

-----------------------------------------------------------------------------
(* buildImportBatch: media get ids, and bodies name media by placeholders. *)

(* Ids tried for an item, one after the other; the counter grows with each.*)
(* Mutant: an id that is taken is taken again.                             *)
SameAsBefore(start, taken) == start

Untaken(start, taken) ==
    LET try[k \in 0..Cardinality(taken)] ==
            IF k = 0 THEN start
            ELSE LET c == try[k - 1].extra + 1
                 IN [id |-> try[k - 1].id \o <<"-", ToString(c)>>, extra |-> c]
    IN try[CHOOSE k \in DOMAIN try : /\ try[k].id \notin taken
                                     /\ \A j \in 0..k - 1 : try[j].id \in taken]

AddMedia(b, url, postID) ==
    IF url \in DOMAIN b.placeholder THEN b
    ELSE LET first == IF postID # <<>> THEN [id |-> postID, extra |-> b.extra]
                      ELSE [id |-> <<"extra-">> \o <<ToString(b.extra + 1)>>,
                            extra |-> b.extra + 1]
             u == Untaken(first, ToSet(b.media))
         IN [media |-> Append(b.media, u.id),
             placeholder |-> [x \in DOMAIN b.placeholder \cup {url} |->
                                IF x = url THEN u.id ELSE b.placeholder[x]],
             extra |-> u.extra]

NoMedia == [media |-> <<>>, placeholder |-> <<>>, extra |-> 0]

Attached(e) ==
    FoldLeft(LAMBDA b, a : AddMedia(b, a.url, a.id), NoMedia, e.attachments)

(* A body may show media that is not among the attachments.                *)
Shown(b, urls) ==
    FoldLeft(LAMBDA c, u : AddMedia(c, u, <<>>), b, SetToSeq(urls))
AllMedia(e) == FoldLeft(Shown, Attached(e), e.drafts)

BuildBatch(e) ==
    LET all == AllMedia(e)
    IN [media |-> all.media,
        drafts |-> [i \in DOMAIN e.drafts |->
                      {all.placeholder[u] : u \in e.drafts[i]}]]

Jobs == [status : {"running", "completed", "completed_with_errors"},
         total : Nat \ {0}, done : Nat, errors : Nat]

(* Placeholders are sequences, and drafts come one after the other.        *)
Setting ==
    /\ MaxMishaps \in Nat /\ None \notin Exports \cup Jobs
    /\ \A e \in Exports :
          /\ Len(e.attachments) \in Nat /\ DOMAIN e.attachments = 1..Len(e.attachments)
          /\ \A i \in DOMAIN e.attachments : e.attachments[i].id \in Seq(STRING)
          /\ Len(e.drafts) \in Nat /\ DOMAIN e.drafts = 1..Len(e.drafts)
          /\ \A i \in DOMAIN e.drafts : IsFiniteSet(e.drafts[i])

NoBatch == [media |-> <<>>, drafts |-> <<>>]
Batches == {NoBatch} \cup {BuildBatch(e) : e \in Exports}
Items == Len(batch.media) + Len(batch.drafts)
(* A job counts to 1 at least. Mutant: it may be of nothing.               *)
OfNothing(b) == Len(b.media) + Len(b.drafts)
Total(b) == IF Len(b.media) + Len(b.drafts) = 0 THEN 1
            ELSE Len(b.media) + Len(b.drafts)

(* replaceMediaPlaceholders goes through the map in any order: a link      *)
(* becomes the path of the first entry it begins with, and what is left.   *)
LeadsTo(q) == {[to |-> p, rest |-> SubSeq(q, Len(p) + 1, Len(q))] :
                 p \in {p \in paths : IsPrefix(p, q)}}
Replaced(refs) == {f \in [refs -> UNION {LeadsTo(q) : q \in refs}] :
                     \A q \in refs : f[q] \in LeadsTo(q)}

Init ==
    /\ pluginUploads = [k \in Tokens |-> None]
    /\ job = None
    /\ batch = NoBatch
    /\ ipc = "idle"
    /\ item = 1 /\ done = 0 /\ errors = 0
    /\ paths = {}
    /\ slip = FALSE
    /\ stored = <<>>
    /\ shown = 0
    /\ mishaps = 0
    /\ unheard = FALSE

Mishap == mishaps < MaxMishaps /\ mishaps' = mishaps + 1

-----------------------------------------------------------------------------
(* Server.pluginActionRequest: a file gets a token, and the token gives    *)
(* the file to the next action.                                            *)

Inspect(k, e) ==
    /\ pluginUploads[k] = None
    /\ pluginUploads' = [pluginUploads EXCEPT ![k] = e]
    /\ UNCHANGED <<job, ipc, import, mishaps, unheard>>

(* InvokeAction, with Server.CreateJob. One import at a time is looked at. *)
Import(k) ==
    /\ ipc = "idle"
    /\ pluginUploads[k] # None
    /\ batch' = BuildBatch(pluginUploads[k])
    /\ job' = [status |-> "running", total |-> Total(batch'), done |-> 0,
               errors |-> 0]
    /\ ipc' = "prepare"
    /\ UNCHANGED <<pluginUploads, item, done, errors, paths, slip, stored, shown,
                   mishaps, unheard>>

-----------------------------------------------------------------------------
(* importJob.update, of what the request says.                             *)
Unsaid == ""

Updated(j, request) ==
    LET total == IF request.total > 0 THEN request.total ELSE j.total
    IN [status |-> IF request.status # Unsaid THEN request.status ELSE j.status,
        total  |-> total,
        done   |-> IF request.done > total THEN total
                   ELSE IF request.done > 0 THEN request.done ELSE j.done,
        errors |-> IF request.error THEN j.errors + 1 ELSE j.errors]

(* runImport's update. A call that fails is only logged, and done nowhere. *)
Send(request) ==
    \/ job' = Updated(job, request) /\ UNCHANGED <<mishaps, unheard>>
    \/ Mishap /\ unheard' = (request.status # Unsaid) /\ UNCHANGED job

Report(error) == [status |-> Unsaid, total |-> Total(batch), done |-> done,
                  error |-> error]

(* runImport. Every item is a step, and its report another.                *)
Goto(place) == ipc' = place

Prepare ==
    /\ ipc = "prepare"
    /\ Send(Report(FALSE))
    /\ Goto("item")
    /\ UNCHANGED <<pluginUploads, import>>

Done(failed) ==
    /\ done' = done + 1
    /\ errors' = errors + (IF failed THEN 1 ELSE 0)
    /\ slip' = failed
    /\ Goto("report")
    /\ UNCHANGED <<pluginUploads, job, batch, item, shown, unheard>>

(* downloadAndSaveMedia; links to media that failed keep their old URL,    *)
(* which paths has under the same placeholder.                             *)
SaveMedia ==
    /\ ipc = "item" /\ item <= Len(batch.media)
    /\ \/ Done(FALSE) /\ UNCHANGED mishaps
       \/ Done(TRUE) /\ Mishap
    /\ paths' = paths \cup {batch.media[item]}
    /\ UNCHANGED stored

(* SavePost and SavePage. The host may have saved what timed out.          *)
Draft == item - Len(batch.media)

SaveDraft ==
    /\ ipc = "item" /\ item \in Len(batch.media) + 1..Items
    /\ \E links \in Replaced(batch.drafts[Draft]) :
         LET saved == Append(stored, [draft |-> Draft, links |-> links])
         IN \/ stored' = saved /\ Done(FALSE) /\ UNCHANGED mishaps
            \/ stored' \in {saved, stored} /\ Done(TRUE) /\ Mishap
    /\ UNCHANGED paths

ReportItem ==
    /\ ipc = "report"
    /\ Send(Report(slip))
    /\ item' = item + 1
    /\ slip' = FALSE
    /\ Goto("item")
    /\ UNCHANGED <<pluginUploads, batch, done, errors, paths, stored, shown>>

(* ReloadRuntime. Mutant: a reload that fails is no error of the import.   *)
ReloadForgiven(e) == e
ReloadCounted(e)  == e + 1

Reload ==
    /\ ipc = "item" /\ item > Items
    /\ \/ shown' = Len(stored) /\ slip' = FALSE /\ UNCHANGED <<errors, mishaps>>
       \/ /\ Mishap /\ slip' = TRUE /\ errors' = ReloadCounted(errors)
          /\ UNCHANGED shown
    /\ Goto("reloaded")
    /\ UNCHANGED <<pluginUploads, job, batch, item, done, paths, stored, unheard>>

ReportReload ==
    /\ ipc = "reloaded"
    /\ Send(Report(slip))
    /\ Goto("final")
    /\ UNCHANGED <<pluginUploads, import>>

(* The last update. Mutant: it does not say that the job has ended.        *)
StillRunning == Unsaid
Outcome == IF errors > 0 THEN "completed_with_errors" ELSE "completed"

Finish ==
    /\ ipc = "final"
    /\ Send([status |-> Outcome, total |-> Total(batch), done |-> Total(batch),
             error |-> FALSE])
    /\ Goto("ended")
    /\ UNCHANGED <<pluginUploads, import>>

-----------------------------------------------------------------------------
(* The plugin is stopped (an update, a change of plugins) or dies.         *)
Die ==
    /\ ipc \notin {"idle", "ended", "dead"}
    /\ Mishap
    /\ Goto("dead")
    /\ UNCHANGED <<pluginUploads, job, import, unheard>>

(* The host starts again: tokens and jobs were in memory, and its plugins  *)
(* ended with it. The index is loaded.                                     *)
RestartHost ==
    /\ ipc # "idle"
    /\ Mishap
    /\ pluginUploads' = [k \in Tokens |-> None]
    /\ job' = None
    /\ Goto("dead")
    /\ shown' = Len(stored)
    /\ UNCHANGED <<batch, item, done, errors, paths, slip, stored, unheard>>

Step == \/ Prepare \/ SaveMedia \/ SaveDraft \/ ReportItem
        \/ Reload \/ ReportReload \/ Finish

Next ==
    \/ \E k \in Tokens, e \in Exports : Inspect(k, e)
    \/ \E k \in Tokens : Import(k)
    \/ Step \/ Die \/ RestartHost

Spec == Init /\ [][Next]_vars

(* The calls of runImport end after two minutes at most.                   *)
FairSpec == Spec /\ WF_vars(Step)

-----------------------------------------------------------------------------
(* Properties.                                                             *)

PCs == {"idle", "prepare", "item", "report", "reloaded", "final", "ended", "dead"}

TypeOK ==
    /\ pluginUploads \in [Tokens -> Exports \cup {None}]
    /\ job \in Jobs \cup {None}
    /\ job # None => job.done <= job.total /\ job.errors <= MaxMishaps
    /\ batch \in Batches
    /\ ipc \in PCs
    /\ item \in 1..Items + 1 /\ done \in 0..Items /\ errors \in 0..MaxMishaps
    /\ paths \subseteq ToSet(batch.media)
    /\ slip \in BOOLEAN /\ unheard \in BOOLEAN
    /\ Len(stored) <= Len(batch.drafts) /\ shown \in 0..Len(stored)
    /\ mishaps \in 0..MaxMishaps

(* What the job says in the end is what happened: "completed" means that   *)
(* every draft of the file was saved once and is served, at 100 percent;   *)
(* "completed_with_errors" that something failed.                          *)
JobHonest ==
    job # None /\ job.status # "running" =>
        /\ job.done = job.total
        /\ job.status = "completed_with_errors" <=> errors > 0
        /\ job.status = "completed" =>
               /\ shown = Len(stored)
               /\ [i \in DOMAIN stored |-> stored[i].draft]
                      = [i \in DOMAIN batch.drafts |-> i]

(* A link of an imported draft leads to its own media, unless that one's   *)
(* placeholder begins with another's.                                      *)
LinksLead ==
    \A i \in DOMAIN stored : \A q \in DOMAIN stored[i].links :
        \/ stored[i].links[q] = [to |-> q, rest |-> <<>>]
        \/ \E p \in ToSet(batch.media) \ {q} : IsPrefix(p, q)

ImportHonest == JobHonest /\ LinksLead

(* Every media of a batch has a placeholder of its own, whatever ids the   *)
(* file gives: none gets the path of another.                              *)
PlaceholdersDiffer == Cardinality(ToSet(batch.media)) = Len(batch.media)

(* A job does not stay "running" for ever, unless the plugin died or the   *)
(* last update did not arrive.                                             *)
ImportEnds ==
    job # None ~> job = None \/ job.status # "running" \/ ipc = "dead" \/ unheard
=============================================================================
