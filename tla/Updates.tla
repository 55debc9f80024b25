------------------------------ MODULE Updates ------------------------------
(***************************************************************************)
(* The update page: the check for a newer release, the request to install  *)
(* it, and the update log that a run leaves and the page shows             *)
(* (internal/updatecheck, internal/http/update_check.go, runSelfUpdate and *)
(* below in cmd/postizer/main.go, internal/site/update_log.go).            *)
(*                                                                         *)
(* An answer of GitHub is a record [status, tag]; a tag is a sequence of   *)
(* numbers, <<>> if there is none. The output of the script is a sequence  *)
(* of lines: an event in good form is a record [event, version], and all   *)
(* other lines have the event "text".                                      *)
(*                                                                         *)
(* NeverAsks and LogsAlways are not the code: they are mutants that the    *)
(* property must catch.                                                    *)
(***************************************************************************)
EXTENDS Integers, Sequences, SequencesExt, Lists

CONSTANTS App,     \* the version of this program
          Limit    \* how many entries the page shows

Newer(a, b) == \E i \in 1..3 : a[i] > b[i] /\ \A j \in 1..i - 1 : a[j] = b[j]
IsVersion(v) == Len(v) = 3

-----------------------------------------------------------------------------
(* Client.LatestRelease: a token that is refused is not needed for a       *)
(* public repository. Mutant: a refused token is the end of it.            *)
Good(answer) == answer.status = 200 /\ answer.tag # <<>>
NeverAsks(token, answer) == FALSE
AsksAgain(token, answer) == token /\ answer.status \in {401, 403}
Latest(token, answer, anonymous) ==
    IF Good(answer) THEN answer.tag
    ELSE IF AsksAgain(token, answer) /\ Good(anonymous) THEN anonymous.tag
    ELSE <<>>

(* fetchLatestRelease, and the check and guard of applyUpdate.             *)
Comparable(tag) == IsVersion(tag) /\ IsVersion(App)
Offered(tag)  == Comparable(tag) /\ Newer(tag, App)
Accepted(tag) == Comparable(tag) /\ ~(tag = App \/ Newer(App, tag))

-----------------------------------------------------------------------------
(* updateLogEntriesFromOutput.                                             *)
Events == {"detected", "completed", "failed"}
Entries(output) == Where(output, {line \in ToSet(output) : line.event \in Events})

HasEvent(entries, event) == \E i \in DOMAIN entries : entries[i].event = event
VersionOf(entries) ==
    LET n == SelectInSeq(entries, LAMBDA e : e.version # <<>>)
    IN IF n = 0 THEN <<>> ELSE entries[n].version

(* runSelfUpdate: what it adds to the events that the script wrote, if the *)
(* script ends with an error or with 42. Mutant: also what is there.       *)
LogsAlways(entries, event) == <<[event |-> event, version |-> VersionOf(entries)]>>
LogsMissing(entries, event) ==
    IF HasEvent(entries, event) THEN <<>>
    ELSE <<[event |-> event, version |-> VersionOf(entries)]>>
RunLog(output, exit) ==
    LET entries == Entries(output)
    IN entries \o
       CASE exit = 0  -> <<>>
         [] exit = 42 -> LogsMissing(entries, "detected") \o LogsMissing(entries, "completed")
         [] OTHER     -> LogsMissing(entries, "failed")

(* AppendUpdateLogEntry and LoadUpdateLog: the newest entries first, and a *)
(* line that cannot be read, as a crash may leave one, is not shown.       *)
Shown(log) ==
    LET good == Where(log, {e \in ToSet(log) : e.event \in Events})
    IN SubSeq(Reverse(good), 1, IF Len(good) < Limit THEN Len(good) ELSE Limit)

-----------------------------------------------------------------------------
(* The property.                                                           *)

(* A version that the check offers is one that a request may name, and a   *)
(* refused token does not hide what everyone can see; and after a run of   *)
(* the script the log tells how it ended: a failure exactly once, an       *)
(* update as detected and completed, exactly once each, whatever of it the *)
(* script had told itself.                                                 *)
Times(log, event) == Len(Where(log, {e \in ToSet(log) : e.event = event}))
Twice(output) == \E event \in Events : Times(output, event) > 1

UpdatesTold(token, answer, anonymous, before, output, exit) ==
    LET latest == Latest(token, answer, anonymous)
        run    == RunLog(output, exit)
        page   == Shown(before \o run)
    IN /\ Offered(latest) => Accepted(latest)
       /\ answer.status = 401 /\ Good(anonymous) /\ token => latest = anonymous.tag
       /\ ~Twice(output) =>
            /\ exit = 42 => Times(run, "detected") = 1 /\ Times(run, "completed") = 1
            /\ exit \notin {0, 42} => Times(run, "failed") = 1
       /\ Len(run) > 0 /\ Limit > 0 => page[1] = run[Len(run)]
       /\ \A i \in DOMAIN page : i > Len(run) \/ page[i] = run[Len(run) + 1 - i]
=============================================================================
