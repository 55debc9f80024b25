# Postizer in TLA+

Postizer is a self-hosted publishing platform in one Go process: an HTTP server
over Markdown and JSON files in `content/`, a media directory, plugins that run as
child processes, and a script that replaces the program by a newer release. This
directory models the parts of it that change state, checks them with TLC on small
instances, and proves the main safety properties with TLAPS for instances of any
size. The functions without state, from permalinks to the settings file, are modelled
too, compared with what they promise over bounded inputs, and proved to keep five of the eight
promises for inputs of any size. Paths below are relative to the repository.

Nearly all of the program's state is a file that is rewritten in place
(`os.WriteFile` truncates, then writes) plus a copy of it in memory that is replaced
by a reload. Requests run concurrently, each in its goroutine, and most of them
hold no lock between reading that copy and writing the file. The questions the
models ask follow from that: what may happen between the steps of two requests,
between truncation and write, between a write and the reload after it, and when the
process dies at one of those points.

## Inventory

| Component | State | Operations | What is hard | Correct means |
|---|---|---|---|---|
| Plugin host, `internal/pluginhost/host.go` | `clients` (id -> runtime), child processes, host services; the catalog it is given | `InvokeAction`/`client`/`start`, `ReconcileBackground`, `Close` | starts outside the mutex, plugins that die, hang or answer late, reloads that change releases meanwhile | every process has one owner; at rest a plugin runs once; a reload keeps what should run and stops what should not; calls return |
| Comments, `internal/site/comments.go` | `comments.json`, `commentMu` | add, reply, move, list | read-change-write of the whole file; a crash inside the write | the file is what the requests one after the other would make it; nothing lost |
| Publishing, `internal/site/site.go`, `internal/http/server.go` | files of posts, `Store` in memory, comments by slug | save (new, edit, rename), import, delete, reload, `New` | no lock around a save; several reloads at once; renames in steps | the index follows the files; a rename never leaves the post without a whole copy; comments follow it |
| Settings and the served snapshot, `server.go`, `site.go`, `internal/appearance/appearance.go` | `settings.json`, installed bundles, store + catalog + templates served | every settings page, apply/install/delete of bundles, `reloadRuntime`, rendering | copies of the settings changed in parallel; stale snapshots after failed reloads; half-done installs | acknowledged changes survive; what is served belongs together and is installed |
| Media, `internal/media/store.go` | media files, `index.json`, `Store.items`, `Store.mu` | upload, update, delete, load | files and index written in an order; failures after the change in memory | what is listed has its files; answers stay true |
| Self-update (Docker), `cmd/postizer/main.go`, `scripts/docker-*.sh`, `internal/http/update_check.go` | runtime volume (releases, link, lock directory), `updatePending`, the request channel, timer | request, timer, script, timeout, restart | kills between any two commands of a shell script; a channel, a flag and a timer in one loop | the link leads to whole releases; requests are neither refused for ever nor dropped; updates happen |
| Account, limiter, audit and sessions, `server.go` | failures by address, audit file, credentials file and its copy, session secret, the cookie in the browser | login, change of account, logout, notice, start | check, password and record are separate critical sections, and the clock is read before all of them; file and copy are written one after the other | guessing stays bounded; an address told to wait is locked; failures are reported once; an account change holds; sessions last |
| Export, `internal/http/export.go` | temporary archives, links that expire | walk and add, hand over, link, expire | content changes under the walk | an archive has all that nobody touched; nothing is left on disk |
| Backup plugin, `examples/bundles/webdav-backup` | `config.json`, `state.json`, archives on the WebDAV server, timer | schedule, back up, prune, configure | timer and button; failures and stops between the steps; deletion of old uploads | the last good archive is never deleted; the status is true; backups go on |
| Plugin jobs, uploads and the WordPress importer, `server.go`, `examples/bundles/wordpress-importer` | jobs, upload tokens; the importer's batch and counters | upload, start, update, status; import of an item, reload | failed calls, deaths, restarts; placeholders replaced as text | the job tells what happened; links lead to their media; imports end |
| Packs, `internal/appearance/appearance.go` | bundles on disk (functions here) | scan, select, layer, prepare for a platform | ids in several places, layers of texts, manifests merged by platform | the catalog is right or refused; what is installed can be started |
| Permalinks, listing, front matter, `site.go`, `server.go` | none (functions) | format, match, sort, paginate, write and read | ambiguous patterns, boundaries, quoting | addresses lead to what they were made for; pages cover the list once; saving loses nothing |
| Menus, sidebars, settings file, `site.go`, `server.go` | none (functions) | normalise, migrate, edit | ids made unique, fields of older releases | what was chosen stays |
| Marketplace and update check, `internal/marketplace`, `internal/updatecheck`, `internal/site/update_log.go` | update log | fetch with fallbacks, verify, compare, log | answers that do not fit together | what is offered can be had, and an installed one is not offered again; the log tells how a run ended |
| Plugin RPC types and transport, front end, Linux updater | | | | *not modelled*, see the end |

How they interact: almost every administrative request ends in `reloadRuntime`, which
loads settings, content and catalog from disk, parses the templates of the active
theme, publishes all of them under `runtimeMu` and then calls `ReconcileBackground`
of the plugin host. Plugins call back into the server (`HostService`) for imports,
media, exports, jobs and reloads. A rename of a post moves its comments. The timer of
the update loop reads `settings.json`. Each model takes the interface of its neighbours
as actions of its own: `PluginHost` has the reload with the catalog it loads,
`Publishing` has the reload of the index and the move of the comments, `SiteRuntime`
has the served snapshot as a whole, `SelfUpdate` has the switch for automatic updates,
`Export` has the requests that change files under it, `Backup` the archive it is handed,
`Importer` the saving of media and content and the reload.

## Modules

| Module | Role |
|---|---|
| `PluginHost` | `host.go`, together with the catalog publication of `reloadRuntime` |
| `CommentBook` | abstract specification: comments change by one request at a time |
| `Comments` | `comments.go` under `commentMu`, step by step; implements `CommentBook` |
| `Publishing` | saves, imports, renames, deletions, reloads, visitors' comments |
| `SiteRuntime` | settings pages, bundles, `reloadRuntime`, rendering |
| `MediaStore` | `store.go` |
| `SelfUpdate` | update loop, update script, entrypoint |
| `Access` | logins, audit, account, session |
| `Export`, `Backup`, `Importer` | archives, the backup plugin, the importer plugin with its job |
| `Permalinks`, `Listing`, `FrontMatter`, `Catalog`, `PackRuntime`, `SettingsFile`, `Marketplace`, `Updates` | functions without state |
| `Lists` | the loop that appends to a new list what belongs there |
| `PureFunctions` | what each function promises of an input: the property that `MCFunctions` checks and the proofs are about |
| `MC...` | instances for TLC |
| `...Proofs` | theorems, one module per component |

In every module with state a handler is a process with a program counter, one action
per step that another process can see between; the code under one mutex without
visible intermediate states is one action. Local variables are reset when the handler
returns. A few definitions in each module are not the code: variants named in the
module's header, each with one mistake, that show that the properties can fail.

### PluginHost

A slot stands for one `runtimeClient`: its pack, its process, its host service.
`clients` is the map of that name. `wpc` is where a goroutine is inside `client` and
`start` (`lookup`, `host`, `pipes`, `spawn`, `handshake`, `register`, `discard`,
`ready`); each failure path of `start` is an action. `catalog` is the published
catalog, `disk` what is installed and enabled, `rpc` the place of a reload. Exits of a process are
actions of the environment at any time. Arguments, environment, protocol bytes and
the contents of requests are left out: they only decide which failure happens.

`Slots` bounds the number of runtimes at a time; two are enough for one plugin in two
releases with two concurrent callers, because a slot is free again when its process
has ended, and each caller holds at most one that is not registered. The
theorems hold for any set of slots.

### Comments and CommentBook

`file` is the parsed content of `comments.json`, `state` says whether it is whole,
open (truncated by a request that is writing) or left empty by a fault. Handlers take
`commentMu` (`Lock`, `RLock`), load, compute, truncate, write. `CommentBook` knows
only the set of comments and changes it by one request in one step; `ImplementsBook`
is the refinement, with `file` for its comments. Texts and dates are left out; a
comment is its id, its post and whether it has a reply.

### Publishing

A slug is a base and a suffix, as `uniqueContentSlug` makes them. `file` maps slugs to
contents: none, empty (truncated) or a text with its draft flag. `store` is the
published index, `seen` and `todo` the directory walk of one reload. Kinds of
requests are a constant, so that a run can choose. `dirty` is history: which of
overlap and error has occurred since the last request that ran alone; `alone` says
of a request that nothing overlapped it so far. Markdown, dates and tags are left out.
Pages use the same functions as posts, without comments. `MCPublishing` has three scenes,
chosen by the initial state: `overlap` (two requests at a time over one title, and
restarts), `visitors` (one request at a time over one title, and a visitor who comments)
and `renames` (one author among two titles, with commented posts).

### SiteRuntime

Settings are abstract fields plus the selected theme and plugins. A bundle is a set of
pack ids, of which a release may have any. A request looks (the store it got from
`currentStore`), changes, truncates, writes and reloads; installs and deletions of
bundles replace directories in steps. `store`, `catalog` and `templates` are what is
served. The three catalog scans are one step, and `RemoveAll` is atomic. `Viewers`
render pages with three separate reads.

The run `runtime` has `Plugins = {}` to stay small: plugins take the same paths as
themes there (selected in the settings, resolved by `CatalogOf`, dropped when their
bundle goes). The theorems do not fix `Plugins`. `MCSiteRuntime` adds `calm`, which says
of a page that no reload was published while it was rendered.

### MediaStore

`main` and `original` are the two files of an item (none, part, whole), `index` and
`readable` are `index.json`, `items` is the list in memory, `holder` the mutex. An
upload writes its files before it takes the mutex. `promised` is history: what the
answers so far promise of an id. A call that has begun to change an item weakens
the promise to what holds before and after it, and its answer makes a new one; a call
that fails makes none. `SaveMedia` of the plugin interface is an upload followed by an
update and needs nothing of its own.

### SelfUpdate

Releases are numbers in order. `release[v]` is the directory `releases/{v}`: absent,
part, part but with everything the script looks for (`seems`), or whole; `mv` copies,
because the archive is unpacked on another file system. `current` is the link, which
`ln -sfn` removes before it makes the new one. `pc` is the place in the loop and in
the script. Download, checksum and unpacking happen outside the runtime volume and
are one step that may fail. `Timeout` kills the shell but lets the running command
finish, as `CombinedOutput` does; `Crash` kills everything. `faults` counts failures,
timeouts and crashes up to `MaxFaults`. Requests are for published releases, which
is what the settings page offers. Releases are only ever added.

### Access

A login reads the clock once (`StartLogin`), is let through or refused (`CheckLimit`), is
compared with the account in memory (`VerifyPassword`), and has its result counted in
`attempts` with the time of its start (`RecordFailure`, `ClearFailures`); then come the
audit file and the cookie. `Flight` bounds how long a login takes; `2 * Flight < Lockout`
assumes that this is less than seven and a half of the fifteen minutes of
`loginLockoutDuration`, and `Flight <= Window` that it is no more than
`loginAttemptWindow`. The program sets no such bound itself. An account change writes `credentials` (truncate, write) and then `auth`, by
separate steps. A session is the user and the secret it was signed with and the time it
ends; the cookie also has its own end, or none. `Scenes` are sets of events of which a
behaviour has one: the clock and the limiter, the audit and its faults, the account and
its faults, the session in the browser. All events at once are too many states; the
theorems are for any scenes, the full set included. `told`, `unreported`, `sure` and
`alone` are history.

### Export, Backup, Importer

`Export` lists a directory, adds its files one by one and goes on to the next, while
requests create, change, truncate and remove files. `steady` is history: the files
nobody touched since the walk began. An archive is handed to a plugin as a path, which
removes it, or kept behind a link; `downloads` are the ages of the links.

`Backup` has the scheduler (`spc`, with its timer `armed` and its channel `wake`) and one
backup at a time under `backupMu` (`bpc`, started by the timer or the button): ask for an
archive, upload, list, delete the oldest, write the state. `age` counts hours since the
last success. The plugin is stopped and started by the host at any step; the host
starts it again because it is a background plugin. `uploads` is the
list of archives on the server by age, and a new one takes a name that none of them has;
what the retention dooms is deleted from the latest to the oldest, as the loop in the code
does. `latest` and `promised` are history: the archive the server acknowledged last, and
the retention that the last success kept.

`Importer` parses the upload behind a token, makes placeholders for media, and goes through
media and drafts, one call of the host each; a failed call is counted and reported. A post id is
a sequence of characters, since one placeholder that begins with another is replaced inside
it; `BuildBatch` goes through attachments and drafts and gives each URL the first
placeholder that is free, as `addMedia` does. The
job is what the administration polls; the plugin can die and the host restart, which
forgets the job and kills the plugin.

The three share nothing, so that `MCPlugins` checks them side by side in one run:
`part` says which of them moves.

### The function modules

Each state of the run `functions` is one input, and each property compares an algorithm
with its promise, stated apart from it. Where the code does not keep the promise for
every input, the exception is a named part of the property, as narrow as the code allows:

| Module | Property | Promise | Except |
|---|---|---|---|
| `Permalinks` | `AddressesLead` | a request for the address of a post, page or tag gets that item, with or without a final slash, and the address of older releases still leads to the post | a reserved address, or one that a post (for a page) or a post or page (for a tag) has; a pattern that has lost the name (`NameLost`) |
| `Listing` | `PagesCover` | paging through a list shows every published post once, newest first, and no draft; the page numbers have no gaps; tags list the posts that carry them | front matter that names one tag in two spellings (`NoTagTwice`) |
| `FrontMatter` | `EditsKeepText` | what the author wrote is what readers and the next edit get; imports keep their dates | quotes, backslashes and new lines in front matter, also in the beginning of a body that serves as the summary, commas in tags: backslashes are never taken away again |
| `Catalog` | `TextsLayered` | every text comes from the last layer that has it and none is missing; loading again what was selected changes nothing; a scan fails exactly for packs of one id that no rule decides between, a pack in the wrong place or a missing default theme (`Undecided`) | nothing |
| `PackRuntime` | `PacksWork` | a plugin whose installation is accepted can be started with what its author declared, a second installation changes nothing, and a pack without a warning finds the methods it needs | a command with a backslash, or spelled in two ways (`SpelledTwice`) |
| `SettingsFile` | `SettingsSurvive` | menus, sidebars and the choice of theme, language and plugins survive loading, saving and the editor | a sidebar with the reserved id, which the editor never gets; the first choice after an upgrade from a text pack |
| `Marketplace` | `OffersEnd` | an item is listed as what it contains, ids once; only what the checksums confirm is installed, nothing else changes, and the update is then no longer offered | a bundle whose own version is older than its release tag |
| `Updates` | `UpdatesTold` | an offered version may be requested, a refused token hides nothing, and the log tells each end of a run once | a script that repeats an event itself (`Twice`) |

`Catalog` and `SiteRuntime` meet in `CatalogOf`: there a catalog is what bundles and
settings make of it, here how; `Updates` makes the log of the runs that `SelfUpdate` models.

## Runs

| Run | Instance | Shows |
|---|---|---|
| `plugin_host` | 1 plugin in 2 releases, 2 callers, 1 reload at a time | `NoOrphanProcess`, `SingleOwner`, `OneRuntimeAtRest`, `RunningReused`, and `CallsReturn` under fairness |
| `plugin_disabled` | 1 plugin, 1 caller, 1 reload | **violated:** `DisabledStopped` |
| `comments` | 3 handlers, 2 posts, 2 comments, failing writes, restarts | `ImplementsBook`, `NothingLost`, `StaysRefused` |
| `publishing` | 2 titles with 2 suffixes, 2 requests at a time, a visitor, 2 comments, failures, crashes and restarts, in three scenes; 0.96 million states | `FreshAfterQuiet`, `CommentsFollow`, `RenameKeepsACopy` |
| `runtime` | 2 settings fields, 2 bundles that may have a theme in common, 1 admin, 1 reader, failures, restarts | `EditsKept`, `PagesWhole`, `ThemeInstalled` |
| `media` | 2 items, 2 callers, failing writes, restarts | `ListedHaveFiles`, `PromisesKept` |
| `selfupdate` | 3 releases, 2 faults | `CurrentWhole`, `PendingExactly`, `NoSilentEnd`, and `KeepsUpUnlessKilled` under fairness |
| `selfupdate_stuck` | 2 releases, 1 fault | **violated:** `KeepsUp` |
| `access` | 2 requests at a time, 1 address, 2 accounts, limit 2, window and lockout 3, flight 1, clock to 6, 4 scenes | `FailuresBounded`, `WaitHonoured`, `AuditExact`, `AccountKept`, `SessionsSurvive` |
| `access_remember` | 1 request at a time, the scene of the session | **violated:** `Remembered` |
| `plugins` | 3 files in 2 directories, 2 links; 5 archives, 1 or 2 to keep, 2 faults; 3 WordPress exports, 2 tokens, 2 mishaps; of the changes of the retention those that lower it | `TypeOK` of the three modules, `ExportWhole`, `BackupsKept`, `ImportHonest`, `PlaceholdersDiffer`, and `KeepsBackingUp`, `ImportEnds` under fairness |
| `functions` | the inputs in `MCFunctions` | the eight properties above |

The type invariants of the other modules with state are theorems, and no run repeats
them. Every property of a passing run is violated when one definition is replaced by
its variant with a mistake; `PROJECT.json` lists the pairs.

Why the bounds are enough to be interesting: every hazard listed in `PROJECT.json`
with a property needs at most two concurrent requests and two faults. Two callers
reach both orders of the registration in `client`; three comment handlers allow a
reader between two writers; two suffixes allow a rename onto a slug that an earlier
rename freed; two bundles with one theme reach the duplicate that refuses a reload;
two media calls reach every pair of upload, update and deletion of one id; three
releases allow a release to be published while an older one is being installed; two
logins at the limit reach a count above it, and a clock that runs past window plus
lockout reaches the end of both; three files allow one directory to change after it was
listed and another before; five archives and a retention of two allow a deletion that
stops half way and a later one that makes up for it.

### What the violations say

* `plugin_disabled`: a start that waits for its handshake while its plugin is
  disabled registers afterwards; the disabled plugin keeps running until the next
  reload (`host.go:97` promises that it is stopped).
* `selfupdate_stuck`: a stop of the container (or a timeout) while the update
  script runs leaves `.self-update.lock` on the volume. Nothing removes it; from then
  on every update, requested or automatic, ends with exit code 0 and does nothing.
* `access_remember`: the "Remember me" cookie of 30 days (`README.md:170`,
  `DESIGN.md:237`) is replaced on the first page of the administration by one without
  an end, which the browser drops when it is closed.

### What the passing properties allow

The properties are no stronger than the code.

* `FreshAfterQuiet` speaks of a request that runs alone, after whatever came before.
  Two reloads at once may publish the older snapshot last: until the next request
  that runs alone, the index then shows, for instance, a post that was deleted.
* `RenameKeepsACopy` speaks of a rename that nothing overlaps; two requests may give one
  slug to two posts. `CommentsFollow` is checked in the scene of renames, and once
  the saves are answered without an error. `Fails` leaves out a failing move of comments:
  `Comments` has the failing write.
* `EditsKept` is checked with one admin. Two settings pages saved at once can
  write back the old value of what the other changed.
* `PagesWhole` excepts a page into whose rendering a reload falls: it takes settings,
  theme and templates by separate reads and may mix two snapshots.
* `PromisesKept` excludes one case: an `index.json` left empty by a crash is taken
  for an empty library by `load`, and the next upload makes the loss permanent.
  `StaysRefused` is the reason why the same crash does not lose comments: an
  empty `comments.json` is an error there.
* `CurrentWhole` names one exception: if `mv` fails half way and what it left has a
  binary, `web` and `internal/bundles`, the next run takes it for the release.
* `WaitHonoured` allows the lock to end earlier by one `Flight`: a slow login records
  the time it started at. `AccountKept` speaks of a change that no other one overlaps:
  two at once may leave file and memory with different accounts.
* `BackupsKept` excepts the status after a backup that was cut off before it could
  write its error; `ImportHonest` excepts links whose placeholder begins with another.
  `PlaceholdersDiffer` has no exception: whatever the ids in an export, repeated, empty or
  equal to one that was made up, no two media share a placeholder.
  `ImportEnds` excepts a plugin that died and a last update that did not arrive: such a
  job stays "running".

### Fairness

* `PluginHost!FairSpec`: weak fairness of each goroutine inside the host (every wait
  in `client` ends: `startupTimeout`, the handshake's context, `callTimeout`) and of
  reloads. A plugin owes nothing: `HandshakeSucceeds`, requests, exits and
  administrative changes have no fairness.
* `SelfUpdate!FairSpec`: weak fairness of the start of the container
  (`restart: unless-stopped` in `compose.yaml`), of the send to the channel, of the timer
  and of the script; strong fairness of receiving a request and of taking the tick,
  because `select` chooses at random among ready cases. Faults are bounded by
  `MaxFaults`; requests, new releases and the administrator owe nothing.
* `MCPlugins!Spec`: of the backup plugin, weak fairness of its scheduler, of the steps of a
  backup (every call has a time limit), of its start by the host and of the passing
  hours; of the importer, weak fairness of the steps of an import (each call of the host
  ends within two minutes). Failures, deaths and restarts are
  bounded; the administrator owes nothing. `Export` has no liveness property.

The other specifications have no fairness and no liveness property.

## Proofs

The theorems hold for every value of the constants that satisfies the named assumptions of
their modules: model values such as `None` are outside the sets they stand beside; in
`SelfUpdate`, versions are positive naturals and the image is one of them; in `Access`,
the times are naturals with `2 * Flight < Lockout` and `Flight <= Window`, and finitely
many requests are served at a time; in `Publishing`, a post need not be a draft.
`MCPublishing` assumes that the one comment of its second scene is a comment. `Export`,
`Backup` and `Importer` have their assumptions in `Setting`, which `MCPlugins` states of all
three: a file is in one of the directories that are walked and there are finitely many
links; a retention keeps at least one archive; and an export is a sequence of attachments,
whose ids are sequences of characters, and of drafts, each with finitely many URLs. What is
proved of `Catalog` is of sequences of languages with English among the languages, and of
bundles with an id.

Some theorems have hypotheses of their own, because the code needs them. `EditsStay`
assumes one administrator and `CommentsTravel` one author who only saves and nobody
commenting meanwhile (`OneAuthor`); without these their properties are false. `PagesWalk`
and `PagesAlwaysCover` assume `2 * Around < Window`: the code has 2 and 7. The theorems about
functions say of their `input` what its type is, with sets `X` and `W` of any texts, ids or
names in it and sequences of any length: `PagesAlwaysCover` that files have different names
and a page holds at least one post, `EveryUpdateTold` that the program has a version,
`AddressesAlwaysLead` that the names of items are not empty and have no slash, that no two
posts have one name, and that no other handler has the old address of a post. `NormalizeSlug`
leaves only letters, digits and hyphens, and the handlers under `/posts/` are those of posts.
`EditsAlwaysKeepText` assumes that the five marks are five characters and that the time of a
save is not the zero time. `SettingsAlwaysSurvive` assumes that a link that was accepted is
accepted again (`LinksClean`), that different numbers are different words and all of them,
like "menu" and "sidebar", may be in an id (`IdsMade`), and that the name the editor gives to
an empty sidebar of an older release is not empty.

| Module | Theorems | Inductive invariant, or argument |
|---|---|---|
| `PluginHostProofs` | `TypeCorrect`, `NoOrphans`, `SingleOwners`, `OneRuntime`, `Reused` | `TypeOK`, `NoOrphanProcess`, `SingleOwner` and `OwnPack`: a registered slot has a pack of that id, and a goroutine's slot is made for its own pack and runs no process before `SpawnProcess`. Without it a registration could put a second runtime under another id. |
| | `PacksAlwaysWork` | `PackRuntime` for any manifests: a valid runtime has at most one entry for a platform, so that pruning keeps the one that `Host.command` takes and what it names, and a second pruning finds nothing more. Versions are compared number by number, so no host is older than a pack and newer too. |
| `CommentsProofs` | `TypeCorrect`, `ReadersWhole`, `Implements`, `NoneLost`, `Refused` | `TypeOK` and `Locals`: a writer excludes readers, and between load and write the buffer is a result of the request *on the file as it still is*. That is what `commentMu` is for, and it makes every write a step of `CommentBook` and every other step a stutter. |
| `PublishingProofs` | `TypeCorrect`, `IndexFollows`, `CopyKept` | `TypeOK`, `FreshAfterQuiet`; `AskedOf` (each place belongs to a kind of request), `MarkedOf` (a request that was overlapped has left its mark in `dirty` until one has run alone), `UnreadOf` (only a reload has read anything), and `LoneOf`: while a request runs alone the others are idle, and what it knows of the disk, or has read of it, stays true. |
| | `CommentsTravel`, `CommentsFollowRenames` | `TravelInv`: requests come one at a time, comments are under the old name or the new one until the rename is over (`Named`), and the new file is there first (`ThereFirst`). The second theorem needs no hypothesis: it is about `MCSpec`, whose scene of renames is such an author. |
| | `PagesWalk`, `PagesAlwaysCover` | `Listing` for any files, dates, tags and page sizes. Post `i` is on page `(i - 1) \div size + 1` and on no other, which is arithmetic of division, and the window of page numbers has no gap. The pages joined are the list again, by induction over the pages (`PagesJoined`); a sorted list has the posts of the list it was made of (`SortedWhole`), the posts of a tag are rows of one post each, at most one long where no post names the tag twice (`TaggedFound`), and the list keeps the order, because each post is no newer than the one before it (`Descending`). |
| | `AddressesAlwaysLead` | `Permalinks` for any patterns and content. Position by position, a pattern puts the same text into the addresses of two items, or a date part of one length, or their names (`ExpandedAlike`). So where one name is longer its address ends later, final slashes apart (`LongerPiece`), and two addresses that count as the same have names of one length; then they agree at every position (`EqualPieces`), and the names are one. This needs a name in the pattern, which one accepted has unless it is lost in another token (`ValidText`, `TokenThere`). The first item that the handler finds is thus the one the address was made for. |
| | `EditsAlwaysKeepText` | `FrontMatter` for texts and tags of any number and length. A text has at most one first and last place outside a set of characters, so trimming is what lies between them (`TrimIs`), and a text without quotes and backslashes comes back from between its quotes (`ValueKept`). Where the list of tags is split at commas, what follows without a comma goes into the last part and what follows a comma is the next (`SplitOn`, `SplitMore`), so the parts of the written list are the quoted names (`AllJoined`, `TagsRead`). What was read is trimmed and plain, the beginning of the body too, so writing it again changes nothing (`WrittenAgain`). |
| | `OffersAlwaysEnd` | `Marketplace` for any sources, archives and checksums. An item that is listed has each tag once, `theme` and `plugin` exactly with the packs they announce (`DistinctTags`, `TagsFit`), and normalising it again changes nothing (`ItemListed`); an archive that passes the checks is as new as its release at least, and a comparison of versions the other way round is its opposite (`ComparedBack`), so the release is not offered again. |
| | `EveryUpdateTold` | `Updates` for any answers and any number of printed lines. The log has the events among the lines, and counting an event in a list that is taken out of another, or put behind it, is counting it in the parts (`TimesCounted`, `TimesJoined`), so what the script did not print is added once; the page shows the end of the log backwards, whatever was in it before. |
| `SiteRuntimeProofs` | `TypeCorrect`, `Together`, `ServedThemeInstalled`, `EditsStay` | `TypeOK`, `ServedTogether` and `Matched`: a reload about to publish holds a catalog made from the settings it holds. `EditInv`: the store, the file unless it is empty, and what the one request holds have every acknowledged value. |
| | `CalmPagesWhole` | `CalmInv`: as long as no reload was published since a page was begun, what it has read is what is served. |
| | `SettingsAlwaysSurvive` | `SettingsFile` for menus and sidebars of any length. What reading makes of a link, a section, a list or a location is normal (`LinkCleaned`, `SectionMade`, `CollectionMade`, `PlacesMade`), and reading leaves alone what is normal (`LinksKept`, `SortedKept`, `CollectionKept`, `PlacesStay`), so a second reading changes nothing. Ids are distinct because of one more number than there are ids one is free (`FreeId`, the pigeonhole principle), and a distinct id stays. A sidebar has either sections or links of the old kind (`TwoKinds`), and the section the editor puts the links into is the one the page shows (`SidebarEdited`). |
| `MediaStoreProofs` | `TypeCorrect`, `FilesThere`, `AnswersStand` | `TypeOK`, `PromisesKept`, `Filed` (what is in the list or the last index has its files, even while the index is unreadable), `Uploads` (an upload works alone on an id that nobody has listed, promised or is changing) and `Holding` (the holder of the mutex writes the list as it is in memory). |
| `SelfUpdateProofs` | `TypeCorrect`, `LinkWhole`, `FlagExact`, `SendFree`, `EndsLoudly` | `TypeOK`; for the volume `CurrentWhole`, `Remnants` (part of a release is being moved, was spoiled, or lies behind a lock that nobody holds, where no script gets) and `Target`; for requests `PendingExactly` and `OneRequest` (one at most, in one place). `Loud`: a request names a newer release than the one that runs, and the link leads to the one that runs, or the run that changed it will restart the container or has left its lock. |
| `AccessProofs` | `TypeCorrect`, `Bounded`, `AuditCounted`, `AccountStays`, `Sessions`, `Waits` | `TypeOK` and `Locals`; `BoundInv`: the failures of a locked address and the logins let through and not counted yet stay in bounds together, and those let through before a lock have ended when others are let through after it (this is where `2 * Flight < Lockout` is needed); `AuditInv`: what the holder of `loginAuditMu` will write is what it read, changed; `AccountInv`: a change that runs alone finds the file as it truncated or wrote it, and while an account is sure nobody is past the truncation; `WaitInv`: a login let through before a lock started within `Window` of the failures it counts with, so it cannot open a new window and forget the lock (this is where `Flight <= Window` is needed). |
| `PluginsProofs` | `ArchivesWhole`, `ExportsWhole` | `ExportInv`: `TypeOK`, `Writing` (only the file a request has truncated is empty), `Steady` (a file nobody touched is still to be listed, still to be added, or in the archive as it is) and `NoLeftovers`. |
| | `BackupsSurvive`, `BackupsStay` | `BackupInv`: `TypeOK`; `Distinct` (no two uploads have one name), `AtHand` (the archive at hand is none of the uploads until it is the last of them), `Trimmed` (those still to be deleted are the first of them, after which as many are left as were to be kept), `Acknowledged` (the last success is on the server) and `StatusTrue`. `BackupsKept` alone is not inductive: that a deletion spares the newest follows only from where the doomed ones are. |
| | `ImportsHonest`, `ImportsTruthful` | `ImportInv`: `TypeOK`; `Progress` (counters by place), `JobFollows` (what the administration sees is at most one error behind), `NoneLost` (as long as nothing failed, every draft that was passed is stored, in order) and `LinksLead`. |
| | `PlaceholdersApart` | What `BuildBatch` makes of an export of any length. The loop of `addMedia` ends with a free id, because each try appends two characters, so that no two tries are equal and one more of them than there are ids taken cannot all be taken (the pigeonhole principle); and each step of the folds over attachments and drafts keeps the ids different. |
| | `EveryTextLayered` | `Catalog` for any packs, texts, languages and settings. `Shown`: laid over each other, texts are those of the first layer that gives one, which one more layer in front keeps so (`LaidOver`), for the plugins by induction along the fold. `Kept`: of the packs gone through, one per id is left, the last with that id, exactly if any two of one id are the first alone and the second in a bundle; this needs that a scan lists what was installed alone first. The ids that are written back are each there once, so that asking for them finds the same packs (`OrderedAgain`). |
| | `PluginsTyped` | The three together in `MCPlugins`, of which one part moves. |

Each proof about a specification has one step per action; the temporal step is the last.
Theorems without a run (`ReadersWhole`, `SendFree`, `Together`, the type invariants of
single modules) were found true by TLC before they were proved and are stated in the modules
like the others.

The prover cannot instantiate the library's induction theorems, which take a predicate
as a parameter. Where an induction over data was worth it, `PluginsProofs`,
`PublishingProofs` and `SiteRuntimeProofs` have it by hand: a set of naturals has a
least element (`LeastNumber`), so there is no least index at which a fold leaves the set
that its steps stay in (`Counting`, `FoldSteps`, `FoldStays`). A `FoldLeft` over a
sequence then goes turn by turn (`FoldTurns`), and what each turn keeps holds at the
end. In the same way a recursive function such as the one in `Where`, or the one that
joins lists in `FlattenSeq`, is shown to exist and to be what its equation says
(`WhereTurns`, `FlattenTurns`).

Orders that `sort.Slice` leaves open are sets of orders in `Listing`, and `PagesAlwaysCover`
is about each of them.

Only TLC checks: the liveness properties (`CallsReturn`, `KeepsUpUnlessKilled`,
`KeepsBackingUp`, `ImportEnds`), since liveness under fairness is out of the provers'
reach. The property of each function is proved too.

## Not modelled

* What a request may contain: validation, limits, escaping, Markdown, the conversion of
  HTML by the importer, image formats.
* Feeds, the sitemap and search: they read the lists that `Listing` makes and keep nothing.
* Custom theme settings and the limits of numbers in `settings.json`.
* File system errors other than failing writes, renames and copies; power loss that
  reorders writes.
* The Linux service's updater: a root script generated by the installer, to which the
  server only writes a request file.
* The RPC types and gRPC transport, and the front end: generated or separate code without
  state in this process; the calls are modelled where they arrive.

## Plan

Written, most important first: `PluginHost`, `Comments`, `Publishing`, `SiteRuntime`,
`MediaStore`, `SelfUpdate`, `Access`, `Export`, `Backup`, `Importer`, and the functions.
Worth doing next:

1. The custom settings of a theme, which a change of theme carries over.
2. `Export` with `Publishing` and `MediaStore` in place of its own changes of files.
