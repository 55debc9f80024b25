--------------------------- MODULE PureFunctions ---------------------------
(***************************************************************************)
(* What the functions that keep no state promise for an input. An input is *)
(* a pair: the promise it is for, and the arguments. MCFunctions checks    *)
(* small inputs, and the proofs are about inputs of any size.              *)
(***************************************************************************)
EXTENDS Integers, Sequences

CONSTANTS
    Words, Reserved, Live,                       \* Permalinks
    Languages, English, DefaultId, Blank, NoId,  \* Catalog
    Here, Cleaned, HostFile, Unset,              \* PackRuntime
    SlugOfTag, Window, Around,                   \* Listing
    GoodIds, Repos, App, Failed,                 \* Marketplace
    Limit,                                       \* Updates
    Quote, Slash, Comma, NewLine, Space,         \* FrontMatter
    GoodDates, Minute, Undated, SlugOfTitle,
    IdWords, Numeral, BaseTheme, SafeLinks, HttpsLinks,  \* SettingsFile
    Existing, Release, HeroPlace, Unchosen, OldNames, NewName

VARIABLE input

Addr     == INSTANCE Permalinks
Cat      == INSTANCE Catalog WITH None <- NoId
Runtime  == INSTANCE PackRuntime
Listings == INSTANCE Listing WITH SlugOf <- SlugOfTag
Market   == INSTANCE Marketplace
Log      == INSTANCE Updates
Editor   == INSTANCE FrontMatter WITH
                Dates <- GoodDates, Now <- Minute, NoDate <- Undated, SlugOf <- SlugOfTitle
Stored   == INSTANCE SettingsFile WITH
                Letters <- IdWords, Number <- Numeral, Base <- BaseTheme, Safe <- SafeLinks,
                Https <- HttpsLinks, Content <- Existing, Current <- Release,
                Hidden <- HeroPlace, Default <- Unchosen

(* PostURL, PageURL, TagURL and the public handlers: whatever patterns are *)
(* saved, an address leads to what it was made for.                        *)
AddressesLead == input[1] = "address" => Addr!AddressesLead(input[2])

(* LoadCatalog: every text is that of the first of the plugins, the theme  *)
(* and the default theme that gives one.                                   *)
TextsLayered ==
    input[1] = "catalog" =>
        LET c == input[2] IN Cat!TextsLayered(c.files, c.selection, c.locale, c.order)

(* Installation of packs: an installed plugin can be started, and one      *)
(* without a warning has what it asks for.                                 *)
PacksWork ==
    /\ input[1] = "plugin" => Runtime!InstalledStarts(input[2])
    /\ input[1] = "manifest" => Runtime!QuietIsCompatible(input[2].m, input[2].host)

(* Load and paginateItems: readers who page through a list see every       *)
(* public post once.                                                       *)
PagesCover ==
    input[1] = "list" =>
        LET l == input[2] IN Listings!PagesCover(l.files, l.size, l.asked, l.described)

(* The marketplace: the page is right about what is offered, before and    *)
(* after installing.                                                       *)
OffersEnd ==
    input[1] = "market" =>
        LET w == input[2]
        IN Market!OffersEnd(w.installed, w.answers, w.id, w.archive, w.sums)

(* The update page: what is offered can be had, and the log tells how each *)
(* run ended.                                                              *)
UpdatesTold ==
    input[1] = "update" =>
        LET r == input[2]
        IN Log!UpdatesTold(r.token, r.answer, r.anonymous, r.before, r.output, r.exit)

(* SavePost, SavePage, loadPosts and the editor: what an author wrote is   *)
(* what readers see, also after further edits.                             *)
EditsKeepText ==
    /\ input[1] = "post" => Editor!EditsKeepText("post", input[2])
    /\ input[1] = "page" => Editor!EditsKeepText("page", input[2])

(* LoadSettings, SaveSettings and the editor of menus: menus, sidebars and *)
(* choices survive loads, saves and the editor.                            *)
SettingsSurvive ==
    /\ input[1] = "menus" => Stored!MenusKept(input[2])
    /\ input[1] = "picks" =>
          Stored!ChoicesStay(input[2].file, input[2].first, input[2].second)
=============================================================================
