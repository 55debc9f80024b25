---------------------------- MODULE SettingsFile ----------------------------
(***************************************************************************)
(* What becomes of settings.json when it is read and written again: the    *)
(* chosen packs, the fields of older releases, the version, and menus and  *)
(* sidebars, as the public pages show them and as the editors get them and *)
(* send them back (internal/site/site.go, normalizeSettings and below, and *)
(* the menu functions of internal/http/server.go).                         *)
(*                                                                         *)
(* A name, a label, an id or a location is a sequence of words, joined by  *)
(* "-" in an id; only the words in Letters are left there. A menu item is  *)
(* a record [type, label, target, url, items], where "" is no text. Texts  *)
(* have no white space around them. Two locations of a file never have the *)
(* same normal form: the order of a Go map would decide between them.      *)
(*                                                                         *)
(* KeepsLegacy and CustomBlocks are not the code: they are mutants that    *)
(* the properties must catch.                                              *)
(***************************************************************************)
EXTENDS Integers, Sequences, SequencesExt, FiniteSets, Lists

CONSTANTS
    Letters,   \* the words of which an id may consist
    Number,    \* the word for each number
    Base,      \* the default theme
    Safe,      \* the links that ValidMenuURL accepts
    Https,     \* the link a domain without a scheme becomes
    Content,   \* pairs <<type, slug>>: the pages, posts and tags there are
    Current,   \* the version of this program, three numbers
    Hidden,    \* a location of an older release that held a title
    Default,   \* no choice of a sidebar, and what is shown then
    OldNames,  \* the names older releases gave to empty sidebars
    NewName    \* the name they get in the editor

DefaultMenu    == <<"default", "menu">>
DefaultSidebar == <<"default", "sidebar">>

-----------------------------------------------------------------------------
(* Packs, language and version.                                            *)

Distinct(seq) ==
    LET first == Where([i \in DOMAIN seq |-> i],
                       {i \in DOMAIN seq : seq[i] # "" /\ \A j \in 1..i - 1 : seq[j] # seq[i]})
    IN [i \in DOMAIN first |-> seq[first[i]]]

Locale(l) == IF l \in {"zh-cn", "zh_cn", "zh-CN"} THEN "zh-CN" ELSE l

(* The theme of older releases counts if the file has no newer one.        *)
ThemeOf(s) ==
    IF s.pack # "" THEN s.pack
    ELSE IF s.theme \in {"", "newspaper"} THEN Base ELSE s.theme

(* The text pack of older releases, each time the settings are normalised: *)
(* it becomes the language of the theme, or the first of the plugins.      *)
TextPack(s) == IF s.text.enabled THEN s.text.id ELSE ""
LocaleOf(s) ==
    IF TextPack(s) = "zh-cn" THEN "zh-CN"
    ELSE IF Locale(s.locale) = "" THEN "en" ELSE Locale(s.locale)
OrderOf(s) ==
    IF TextPack(s) \in {"", "default-en", "zh-cn"} THEN Distinct(s.order)
    ELSE Distinct(<<TextPack(s)>> \o Distinct(s.order))

(* A version that is no version, and an older one, become the current one. *)
Newer(a, b) == \E i \in 1..3 : a[i] > b[i] /\ \A j \in 1..i - 1 : a[j] = b[j]
VersionOf(v) == IF Len(v) = 3 /\ Newer(v, Current) THEN v ELSE Current

-----------------------------------------------------------------------------
(* The items of menus and sidebars.                                        *)

SiteLinks == {"home", "archive", "tags", "search", "admin"}
Sections  == {"", "custom", "topics", "pages", "feeds", "recent-posts"}

Item(type, label, items) ==
    [type |-> type, label |-> label, target |-> "", url |-> "", items |-> items]

(* normalizeMenuURL: "" for a link that is refused.                        *)
CleanURL(url) ==
    IF url \in Safe THEN url ELSE IF url \in DOMAIN Https THEN Https[url] ELSE ""

(* normalizeMenuItems, of one item.                                        *)
LinkType(type) == IF type = "tagindex" THEN "tags" ELSE type
GoodLink(item) ==
    \/ item.type = "" /\ (item.label # <<>> \/ item.target # "")
    \/ item.type \in {"page", "post", "tag"} /\ item.target # ""
    \/ item.type = "url" /\ CleanURL(item.url) # ""
    \/ LinkType(item.type) \in SiteLinks
CleanLink(item) ==
    [type |-> LinkType(item.type), label |-> item.label,
     target |-> IF item.type \in {"", "page", "post", "tag"} THEN item.target ELSE "",
     url |-> IF item.type = "url" THEN CleanURL(item.url) ELSE "",
     items |-> <<>>]
EachClean(items) == [i \in DOMAIN items |-> CleanLink(items[i])]
Links(items)     == EachClean(Where(items, {x \in ToSet(items) : GoodLink(x)}))

(* migrateLegacyCustomMenuItems: "custom" was the type of a link once.     *)
Migrated(item) == IF item.type = "custom" THEN [item EXCEPT !.type = "url"] ELSE item
OldLinks(items) == Links([i \in DOMAIN items |-> Migrated(items[i])])

(* legacySidebarDirectMenuItem and legacySidebarItems.                     *)
IsOldLink(item) ==
    \/ item.type = "custom" /\ item.items = <<>> /\ (item.url # "" \/ item.target # "")
    \/ item.type \in {"page", "post", "tag", "tagindex", "url"} \cup SiteLinks
IsOldList(items) == items # <<>> /\ \A i \in DOMAIN items : IsOldLink(items[i])

SectionType(type) ==
    CASE type \in Sections -> type
      [] type \in {"feed", "subscriptions"} -> "feeds"
      [] type \in {"recent", "recent_posts"} -> "recent-posts"
      [] OTHER -> "custom"

(* normalizeSidebarSectionItems, of one item.                              *)
Clean(type, item) ==
    Item(type, item.label, IF type = "custom" THEN Links(item.items) ELSE <<>>)
Unless(section) ==
    IF section = Item("custom", <<>>, <<>>) THEN <<>> ELSE <<section>>
Section(item) == Unless(Clean(SectionType(item.type), item))

(* normalizeSidebarCollectionItems: links of the old kind between sections *)
(* are put together in a section of their own.                             *)
Gathered(links) == IF links = <<>> THEN <<>> ELSE <<Item("custom", <<>>, links)>>
Flushed(all)    == all.done \o Gathered(OldLinks(all.links))
WithItem(all, item) ==
    IF IsOldLink(item) THEN [all EXCEPT !.links = Append(@, item)]
    ELSE [done |-> Flushed(all) \o Section(item), links |-> <<>>]
Sorted(items) ==
    LET all[n \in 0..Len(items)] == IF n = 0 THEN [done |-> <<>>, links |-> <<>>]
                                    ELSE WithItem(all[n - 1], items[n])
    IN Flushed(all[Len(items)])
SidebarItems(items) == IF IsOldList(items) THEN OldLinks(items) ELSE Sorted(items)

-----------------------------------------------------------------------------
(* The lists of menus and sidebars.                                        *)

IdOf(text)   == Where(text, Letters)
IdsIn(lists) == {lists[i].id : i \in DOMAIN lists}

(* An id that is taken gets the first free number.                         *)
Numbered(id, n) == id \o <<Number[n]>>
Free(id, taken) ==
    IF id \notin taken THEN id
    ELSE Numbered(id, CHOOSE n \in 2..Cardinality(taken) + 2 :
                          /\ Numbered(id, n) \notin taken
                          /\ \A m \in 2..n - 1 : Numbered(id, m) \in taken)

(* normalizeMenuCollection and normalizeSidebarCollection.                 *)
GivenId(list, i, prefix) ==
    IF IdOf(list.id) # <<>> THEN IdOf(list.id)
    ELSE IF IdOf(list.name) # <<>> THEN IdOf(list.name)
    ELSE <<prefix, Number[i]>>
Entry(id, list) ==
    [id |-> id, name |-> IF list.name = <<>> THEN id ELSE list.name, items |-> list.items]
Collection(lists, prefix) ==
    LET done[n \in 0..Len(lists)] ==
            IF n = 0 THEN <<>>
            ELSE Append(done[n - 1], Entry(Free(GivenId(lists[n], n, prefix), IdsIn(done[n - 1])),
                                           lists[n]))
    IN done[Len(lists)]
Menus(menus)       == Collection([i \in DOMAIN menus |->
                                    [menus[i] EXCEPT !.items = OldLinks(@)]], "menu")
Sidebars(sidebars) == Collection([i \in DOMAIN sidebars |->
                                    [sidebars[i] EXCEPT !.items = SidebarItems(@)]], "sidebar")

(* The locations of menus, and what an old release hid in one of them.     *)
Placed(given, menus) ==
    {l \in DOMAIN given : /\ IdOf(l) \notin {<<>>, Hidden}
                          /\ IdOf(given[l]) \in IdsIn(menus) \cup {<<>>, DefaultMenu}}
Locations(given, menus) ==
    [n \in {IdOf(l) : l \in Placed(given, menus)} |->
        IdOf(given[CHOOSE l \in Placed(given, menus) : IdOf(l) = n])]
TitleOf(s) ==
    IF s.title = "" /\ \E l \in DOMAIN s.locations : IdOf(l) = Hidden THEN "title"
    ELSE s.title

SidebarOf(selected, sidebars) ==
    IF selected = Default THEN Default
    ELSE IF IdOf(selected) \in IdsIn(sidebars) \cup {<<>>} THEN IdOf(selected)
    ELSE Default

WithLists(s, menus, sidebars) ==
    [s EXCEPT !.pack = ThemeOf(s), !.locale = LocaleOf(s), !.order = OrderOf(s),
              !.version = VersionOf(s.version),
              !.menus = menus, !.sidebars = sidebars,
              !.locations = Locations(s.locations, menus),
              !.sidebar = SidebarOf(s.sidebar, sidebars),
              !.title = TitleOf(s)]
Normal(s) == WithLists(s, Menus(s.menus), Sidebars(s.sidebars))

(* LoadSettings and SaveSettings. Mutant: the old fields are written too.  *)
LoadSettings(file) == Normal(file)
KeepsLegacy(s)     == Normal(s)
SaveSettings(s)    == [Normal(s) EXCEPT !.theme = "", !.text = [enabled |-> FALSE, id |-> ""]]
Reloaded(s)        == LoadSettings(SaveSettings(s))

-----------------------------------------------------------------------------
(* What the pages show.                                                    *)

(* resolveMenuItem: links to what is not there are not shown.              *)
Resolves(item) ==
    \/ item.type \in SiteLinks
    \/ item.type \in {"page", "post", "tag"} /\ <<item.type, item.target>> \in Content
    \/ item.type = "url" /\ CleanURL(item.url) # ""
Resolved(items) == EachClean(Where(items, {x \in ToSet(items) : Resolves(x)}))

(* Store.MenuLinks and menuLinksForLocation: what is shown of the menu, if *)
(* there is one. No two menus that were loaded have one id.                *)
Listed(lists, id) == {l \in ToSet(lists) : l.id = id}
MenuLinks(s, location) ==
    IF location \notin DOMAIN s.locations
    THEN IF location = <<"navbar">> THEN {Default} ELSE {}
    ELSE IF s.locations[location] = DefaultMenu THEN {Default}
    ELSE {Resolved(menu.items) : menu \in Listed(s.menus, s.locations[location])}

(* resolveSidebarSectionItem: a section of links needs links, one without  *)
(* a type has none, and the others are filled from the content.            *)
Shown(section) ==
    IF section.type \in {"custom", ""} THEN Resolved(section.items) # <<>>
    ELSE TRUE
Drawn(section) ==
    <<section.type, section.label, IF section.type = "custom"
                                    THEN Resolved(section.items) ELSE <<>>>>

(* SidebarSectionsWithLabels and selectedSidebarMenus.                     *)
Blocks(list) ==
    IF IsOldList(list.items) THEN <<Item("custom", list.name, OldLinks(list.items))>>
    ELSE SidebarItems(list.items)
SectionsOf(list) ==
    LET shown == Where(Blocks(list), {x \in ToSet(Blocks(list)) : Shown(x)})
    IN [i \in DOMAIN shown |-> Drawn(shown[i])]
SidebarSections(s) ==
    IF s.sidebar = Default THEN {Default}
    ELSE {SectionsOf(list) : list \in Listed(s.sidebars, s.sidebar)}

-----------------------------------------------------------------------------
(* What the editors get and send back.                                     *)

(* sidebarHasSidebarBlocks. Mutant: only sections of links are sections.   *)
CustomBlocks(items) == \E i \in DOMAIN items : items[i].type = "custom"
HasBlocks(items)    == \E i \in DOMAIN items : items[i].type \in Sections

(* sidebarAdminMenus, themeSettingsWithDefaultMenu, and what               *)
(* filterPersistedMenus and filterPersistedSidebars leave of them.         *)
EditedSidebar(list) ==
    IF list.items = <<>>
    THEN [list EXCEPT !.name = IF @ \in OldNames THEN NewName ELSE @]
    ELSE IF HasBlocks(list.items) THEN list
    ELSE [list EXCEPT !.items = <<Item("custom", list.name, list.items)>>]
Without(lists, id) == Where(lists, {l \in ToSet(lists) : l.id # id})
Edited(s) ==
    [s EXCEPT !.menus = Without(@, DefaultMenu),
              !.sidebars = LET kept == Without(@, DefaultSidebar)
                           IN [i \in DOMAIN kept |-> EditedSidebar(kept[i])]]

-----------------------------------------------------------------------------
(* The properties.                                                         *)

(* Whatever an older release or a hand has written: what was read is       *)
(* written so that it is read again the same; and menus and sidebars that  *)
(* the editor opened and saved show the same links, except for a sidebar   *)
(* with the reserved id, which the editor never gets.                      *)
SameSettings(s, t) ==
    \A field \in {"menus", "sidebars", "locations", "sidebar", "title", "version"} :
        t[field] = s[field]
SameLinks(s, t) ==
    /\ \A l \in DOMAIN s.locations \cup {<<"navbar">>} : MenuLinks(t, l) = MenuLinks(s, l)
    /\ s.sidebar # DefaultSidebar => SidebarSections(t) = SidebarSections(s)
LoadedKept(s)   == SameSettings(s, Reloaded(s)) /\ SameLinks(s, Reloaded(Edited(s)))
MenusKept(file) == LoadedKept(LoadSettings(file))

(* A choice of theme, language and plugins is what the next load finds, if *)
(* the file had no text pack of an older release; and if it had one, the   *)
(* second choice is: the first may be changed by it once more.             *)
Chosen(s, c) == [s EXCEPT !.pack = c.pack, !.locale = c.locale, !.order = c.order]
Found(t, c)  == t.pack = c.pack /\ t.locale = c.locale /\ t.order = c.order
Chooses(s, first, second, old) ==
    /\ ~old => Found(Reloaded(Chosen(s, first)), first)
    /\ Found(Reloaded(Chosen(Reloaded(Chosen(s, first)), second)), second)
ChoicesStay(file, first, second) ==
    Chooses(LoadSettings(file), first, second, TextPack(file) # "")
=============================================================================
