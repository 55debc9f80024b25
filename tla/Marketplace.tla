---------------------------- MODULE Marketplace ----------------------------
(***************************************************************************)
(* The resource marketplace: reading its index from one of several         *)
(* sources, installing the release an item names, and what the page says   *)
(* of the item afterwards (internal/marketplace/marketplace.go and the     *)
(* marketplace handlers of internal/http/server.go).                       *)
(*                                                                         *)
(* Index, archive and checksums come by three requests, and the publisher  *)
(* may change any of them in between: the three answers are independent.   *)
(* An item is a record [id, tags, themes, plugins, repo, release, min], an *)
(* archive a record [digest, type, id, repo, version]; a version is a      *)
(* sequence of numbers, and an id "" is a blank one. Names, summaries and  *)
(* the form of addresses and file names are left out.                      *)
(*                                                                         *)
(* TagsAsGiven and AnyDigest are not the code: they are mutants that the   *)
(* property must catch.                                                    *)
(***************************************************************************)
EXTENDS Integers, Sequences, SequencesExt, Lists

CONSTANTS
    GoodIds,   \* ids of the form validID accepts
    Repos,     \* repositories of the form GitHubRepoSlug accepts
    App,       \* the version of this program
    Failed     \* a request that fails, or an answer too large

-----------------------------------------------------------------------------
(* Versions: 1, 0 or -1, or nothing if one of the two is no version.       *)
IsVersion(v) == Len(v) = 3
CompareVersions(a, b) ==
    IF ~IsVersion(a) \/ ~IsVersion(b) THEN <<>>
    ELSE IF a = b THEN <<0>>
    ELSE LET i == CHOOSE i \in 1..3 : a[i] # b[i] /\ \A j \in 1..i - 1 : a[j] = b[j]
         IN IF a[i] > b[i] THEN <<1>> ELSE <<-1>>

(* The index: normalizePackItem, validateIndex. Mutant: the tags of an     *)
(* item are not completed.                                                 *)
Distinct(seq) ==
    LET first == Where([i \in DOMAIN seq |-> i],
                       {i \in DOMAIN seq : seq[i] # "" /\ \A j \in 1..i - 1 : seq[j] # seq[i]})
    IN [i \in DOMAIN first |-> seq[first[i]]]
TagsAsGiven(item) == Distinct(item.tags)
WithTheme(tags, item) ==
    IF Len(item.themes) > 0 /\ "theme" \notin ToSet(tags) THEN <<"theme">> \o tags ELSE tags
WithPlugin(tags, item) ==
    IF Len(item.plugins) = 0 \/ "plugin" \in ToSet(tags) THEN tags
    ELSE IF "theme" \in ToSet(tags) THEN <<tags[1], "plugin">> \o Tail(tags)
    ELSE <<"plugin">> \o tags
Tags(item) == WithPlugin(WithTheme(Distinct(item.tags), item), item)

Tagged(item)     == [item EXCEPT !.tags = Tags(item)]
NormalItem(item) == Tagged([item EXCEPT !.themes = Where(@, ToSet(@) \ {""}),
                                        !.plugins = Where(@, ToSet(@) \ {""})])

ValidMembers(members) == ToSet(members) \subseteq GoodIds /\ IsInjective(members)
ValidItem(item) ==
    /\ item.id \in GoodIds
    /\ Len(item.themes) + Len(item.plugins) > 0
    /\ "theme" \in ToSet(item.tags) => Len(item.themes) > 0
    /\ "plugin" \in ToSet(item.tags) => Len(item.plugins) > 0
    /\ ToSet(item.tags) \subseteq GoodIds
    /\ ValidMembers(item.themes) /\ ValidMembers(item.plugins)
    /\ item.repo \in Repos
    /\ IsVersion(item.release)
    /\ item.min # <<>> => IsVersion(item.min)

(* LoadIndex, and loadResourceMarketplaceIndex: one bad item spoils the    *)
(* source, and the next source is asked.                                   *)
Normals(items) == [i \in DOMAIN items |-> NormalItem(items[i])]
Loads(answer) ==
    /\ answer # Failed
    /\ \A i \in DOMAIN answer.items : ValidItem(Normals(answer.items)[i])
    /\ \A i, j \in DOMAIN answer.items : answer.items[i].id = answer.items[j].id => i = j
IndexAt(answers, n) == IF n = 0 THEN Failed ELSE [items |-> Normals(answers[n].items)]
LoadIndex(answers)  == IndexAt(answers, SelectInSeq(answers, Loads))

-----------------------------------------------------------------------------
(* installResourceMarketplaceItem.                                         *)

FindPack(index, id) == SelectInSeq(index.items, LAMBDA item : item.id = id)

Compatible(item) == item.min = <<>> \/ CompareVersions(App, item.min) # <<-1>>

(* VerifyReleaseAsset: the first line with the name of the archive counts, *)
(* and a line in bad form before it spoils the file. Mutant: some line     *)
(* with the name.                                                          *)
AnyDigest(sums, digest) ==
    \E i \in DOMAIN sums : sums[i].name = "archive" /\ sums[i].digest = digest
Verified(sums, digest) ==
    \E i \in DOMAIN sums : /\ sums[i].name = "archive" /\ sums[i].digest = digest
                           /\ \A j \in 1..i - 1 : sums[j].name = "other"

(* validateMarketplaceBundle: the version of the archive is not looked at. *)
MarketBundle(archive, item) ==
    archive.type = "bundle" /\ archive.id = item.id /\ archive.repo = item.repo

(* The bundles installed, a function from ids to versions, after the       *)
(* request and the reload.                                                 *)
MayInstall(item, archive, sums) ==
    /\ Compatible(item)
    /\ archive # Failed /\ sums # Failed
    /\ Verified(sums, archive.digest)
    /\ MarketBundle(archive, item)
AfterInstall(installed, index, id, archive, sums) ==
    IF \E i \in DOMAIN index.items : /\ i = FindPack(index, id)
                                     /\ MayInstall(index.items[i], archive, sums)
    THEN [b \in DOMAIN installed \cup {id} |->
            IF b = id THEN archive.version ELSE installed[b]]
    ELSE installed

(* resourceMarketplaceInstallState.                                        *)
UpdateAvailable(item, installed) ==
    item.id \in DOMAIN installed /\ CompareVersions(item.release, installed[item.id]) = <<1>>

-----------------------------------------------------------------------------
(* The property.                                                           *)

(* The page lists an item under "theme" or "plugin" just if it has some,   *)
(* and ids once; an installation changes one bundle only, to an archive    *)
(* whose checksum was not contested by the file; and the update is then no *)
(* longer offered, unless the publisher put a bundle of an older version   *)
(* into the release.                                                       *)
ListedRight(index) ==
    \A i \in DOMAIN index.items : \A item \in {index.items[i]} :
        /\ "theme" \in ToSet(item.tags) <=> item.themes # <<>>
        /\ "plugin" \in ToSet(item.tags) <=> item.plugins # <<>>
        /\ IsInjective(item.tags)
        /\ FindPack(index, item.id) = i
        /\ NormalItem(item) = item

Uncontested(sums, digest) ==
    \A i \in DOMAIN sums : sums[i].name = "archive" /\ sums[i].digest # digest =>
        \E j \in 1..i - 1 : sums[j].name = "archive" /\ sums[j].digest = digest

InstalledRight(index, installed, after, id, archive, sums) ==
    /\ \A b \in DOMAIN installed : b # id => after[b] = installed[b]
    /\ after # installed =>
          /\ Uncontested(sums, archive.digest)
          /\ \A item \in {index.items[FindPack(index, id)]} :
                UpdateAvailable(item, after) =>
                   CompareVersions(archive.version, item.release) = <<-1>>

IndexRight(index, installed, id, archive, sums) ==
    index # Failed =>
        /\ ListedRight(index)
        /\ InstalledRight(index, installed, AfterInstall(installed, index, id, archive, sums),
                          id, archive, sums)

OffersEnd(installed, answers, id, archive, sums) ==
    IndexRight(LoadIndex(answers), installed, id, archive, sums)
=============================================================================
