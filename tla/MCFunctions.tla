----------------------------- MODULE MCFunctions -----------------------------
(***************************************************************************)
(* The functions that keep no state, over bounded inputs: every input is   *)
(* an initial state, and nothing moves. An input is a pair: the property   *)
(* it is for, and the arguments.                                           *)
(***************************************************************************)
EXTENDS PureFunctions, SequencesExt

UpTo(S, n) == UNION {[1..k -> S] : k \in 0..n}

-----------------------------------------------------------------------------
(* Permalinks: patterns of up to three pieces.                             *)

MCWords    == {"slug", "postname", "pagename", "tag", "year", "monthnum", "day", "x"}
MCReserved == {<<"/", "archive">>, <<"/">>}
MCLive     == [posts |-> <<[slug |-> <<"a">>, date |-> <<"2", "4", "1", "1">>],
                           [slug |-> <<"a", "1">>, date |-> <<"2", "4", "1", "2">>],
                           [slug |-> <<"1">>, date |-> <<>>]>>,
               pages |-> <<<<"a">>, <<"archive">>>>,
               tags  |-> <<<<"a">>, <<"1">>>>]

Pieces == {<<"/">>, <<"x">>, <<"%", "slug", "%">>, <<"%", "year", "%">>,
           <<"%", "day", "%">>, <<"slug", "%">>, <<"%">>}
WordsApart(p) == \A i \in 1..Len(p) - 1 : p[i] \in {"/", "%"} \/ p[i + 1] \in {"/", "%"}
Patterns == {p \in {<<"/">> \o FlattenSeq(s) : s \in UpTo(Pieces, 3)} : WordsApart(p)}

Addresses ==
    [post : Patterns,
     page : {<<"/", "pages", "/", "%", "pagename", "%">>, <<"/", "%", "slug", "%">>,
             <<"/", "%", "slug", "%", "/">>},
     tag  : {<<"/", "tags", "/", "%", "tag", "%">>, <<"/", "%", "slug", "%">>}]

-----------------------------------------------------------------------------
(* Catalog: one bundle over the default theme, with two plugins; and packs *)
(* with one id in several places.                                          *)

MCLanguages == <<"de", "en", "ja">>
MCBlank     == <<>>

Texts(id, l, given, blank) ==
    [k \in given \cup blank |-> IF k \in blank THEN <<>> ELSE <<id, l>>]
Pack(id, type, source, declared, files) ==
    [id |-> id, type |-> type, source |-> source, declared |-> declared,
     files |-> [l \in DOMAIN files |-> Texts(id, l, files[l][1], files[l][2])]]
Files(themes, plugins, texts, bundles) ==
    [themes |-> themes, plugins |-> plugins, texts |-> texts, bundles |-> bundles]
Bundle(id, source, packs) == [id |-> id, source |-> source, packs |-> packs]
Catalog(files, enabled, id, locale, order) ==
    [files |-> files, selection |-> [enabled |-> enabled, id |-> id],
     locale |-> locale, order |-> order]

Both  == {"k1", "k2"}
Plain == [en |-> <<{"k1"}, {}>>]
BaseTexts   == {[en |-> <<Both, {}>>, ja |-> <<{"k1"}, {}>>], [en |-> <<{"k1"}, {"k2"}>>]}
ThemeTexts  == {<<>>, [en |-> <<{"k2"}, {}>>], [de |-> <<{"k3"}, {"k1"}>>]}
PluginTexts == {[ja |-> <<Both, {}>>], [de |-> <<{"k1", "k2", "k3"}, {}>>],
                [de |-> <<{"k1"}, {"k2"}>>],
                [en |-> <<{"k2"}, {"k1"}>>, de |-> <<Both, {}>>]}

Layers ==
    {Catalog(Files(<<Pack("base", "theme", "official", "en", b)>>, <<>>, <<>>,
                   <<Bundle("b", "user", <<Pack("retro", "theme", "user", d, r),
                                           Pack("p", "plugin", "user", "none", p),
                                           Pack("q", "plugin", "user", "none", q)>>)>>),
             s[1], s[2], l, o) :
        b \in BaseTexts, d \in {"none", "ja"}, r \in ThemeTexts,
        p \in PluginTexts, q \in PluginTexts,
        s \in {<<FALSE, "retro">>, <<TRUE, "retro">>, <<TRUE, "gone">>},
        l \in {"none", "de", "ja"},
        o \in {<<>>, <<"p">>, <<"q", "gone", "p">>, <<"p", "p", "q">>}}

Single(type, source) == Pack("p", type, source, "none", Plain)
Somewhere == {<<>>, <<Single("plugin", "user")>>, <<Single("plugin", "official")>>,
              <<Single("plugin", "user"), Single("plugin", "user")>>,
              <<Single("theme", "user")>>}
SameIds ==
    {Catalog(Files(t, p, x, <<Bundle("a", s, a), Bundle("b", "user", b)>>),
             TRUE, "p", "en", <<"p">>) :
        t \in {<<Pack("base", "theme", "official", "en", Plain)>>, <<>>},
        p \in Somewhere, x \in {<<>>, <<Single("text", "user")>>},
        s \in {"official", "user"}, a \in Somewhere, b \in Somewhere}

-----------------------------------------------------------------------------
(* PackRuntime: plugins with files for two platforms; manifests and hosts. *)

Commands == {"unset", "bin/a", "./bin/a", "bin|a", "bin/b", "node"}
MCCleaned  == [c \in Commands |-> CASE c \in {"bin/a", "./bin/a", "bin|a"} -> "a"
                                    [] c = "bin/b" -> "b"
                                    [] OTHER -> "unset"]
MCHostFile == [c \in Commands |-> IF c = "bin|a" THEN "bin|a" ELSE MCCleaned[c]]

Entries(platform) ==
    {[platform |-> platform, command |-> c, args |-> a, dir |-> "unset", env |-> [v |-> "1"]] :
        c \in Commands, a \in {"unset", "x"}}
Platforms == {<<>>} \cup {<<e>> : e \in Entries("here") \cup Entries("there")}
                    \cup {<<e, f>> : e \in Entries("here"), f \in Entries("there")}
                    \cup {<<e, f>> : e \in Entries("here"), f \in Entries("here")}
Plugins ==
    {<<[id |-> "p", type |-> "plugin", kind |-> "grpc", files |-> f, runs |-> {},
        runtime |-> [command |-> c, args |-> "y", dir |-> "w", env |-> e, platforms |-> p]]>> :
        c \in {"unset", "bin/a", "bin|a"}, e \in {<<>>, [v |-> "0", w |-> "0"]},
        p \in Platforms, f \in {{}, {"a"}, {"a", "b"}}}

Service(name, methods) == [name |-> name, methods |-> methods]
Services ==
    {<<>>} \cup {<<Service(n, m)>> : n \in {"s", "t"}, m \in SUBSET {"m", "n"}}
           \cup {<<Service("s", {"m"}), Service(n, {"n"})>> : n \in {"s", "t"}}
Manifests ==
    {[m |-> [declares |-> d, version |-> v, needs |-> n, services |-> s],
      host |-> [version |-> <<1, 0, 1>>, services |-> <<Service("s", {"m"})>>, plugin |-> h]] :
        d \in BOOLEAN, v \in {<<0, 1, 1>>, <<1, 0, 0>>, <<1, 0, 1>>, <<1, 1, 0>>},
        n \in Services, s \in Services, h \in Services}

-----------------------------------------------------------------------------
(* FrontMatter: drafts with titles, tags and bodies of a few characters.   *)

Chars         == {"x", "q", "b", "c", "n", "s"}
MCGoodDates   == {1, 2, 9}
MCSlugOfTitle == [t \in Seq(Chars) |-> SelectSeq(t, LAMBDA c : c = "x")]

Draft(title, tags, summary, date, updated, manual, draft, body) ==
    [title |-> title, tags |-> tags, summary |-> summary, date |-> date,
     updated |-> updated, manual |-> manual, draft |-> draft, toc |-> ~draft, body |-> body]
Drafts ==
    {Draft(t, <<>>, s, 1, 2, FALSE, o, [text |-> <<"x">>, more |-> FALSE]) :
        t \in UpTo(Chars, 3), s \in UpTo(Chars, 1), o \in BOOLEAN}
    \cup
    {Draft(<<"x">>, g, s, d, u, m, o, [text |-> t, more |-> e]) :
        g \in {<<t, v>> : t, v \in UpTo(Chars, 1)} \cup {<<t>> : t \in UpTo(Chars, 2)},
        s \in {<<>>, <<"s", "x">>}, d \in {0, 1, 7}, u \in {0, 2}, m \in BOOLEAN,
        o \in BOOLEAN, t \in {<<>>, <<"s", "x", "b", "s">>, <<"q", "x">>, <<"b", "x">>},
        e \in BOOLEAN}

-----------------------------------------------------------------------------
(* Listing: up to two posts with any tags, and five posts over pages.      *)

MCSlugOfTag == [n \in {"go", "Go", "tla"} |-> IF n = "tla" THEN 2 ELSE 1]

Posts(n) ==
    {[i \in 1..n |-> [file |-> i, slug |-> s[i], date |-> d[i], tags |-> t[i], draft |-> o[i]]] :
        s \in {[i \in 1..n |-> i], [i \in 1..n |-> 1]}, d \in [1..n -> 0..1],
        t \in [1..n -> {<<>>, <<"go">>, <<"tla", "Go">>, <<"go", "Go">>}], o \in [1..n -> BOOLEAN]}
FivePosts ==
    {[i \in 1..5 |-> [file |-> i, slug |-> i, date |-> d[i], tags |-> <<>>, draft |-> i = o]] :
        d \in {[i \in 1..5 |-> i], [i \in 1..5 |-> i % 3], [i \in 1..5 |-> 2]}, o \in 0..5}
Lists == [files : Posts(0) \cup Posts(1) \cup Posts(2) \cup FivePosts,
          size : 1..3, asked : {-1, 0, 1, 3, 9}, described : {{}, {1, 3}}]

-----------------------------------------------------------------------------
(* SettingsFile: sidebars with up to three items, three menus with any     *)
(* ids, and packs chosen after an upgrade.                                 *)

MCIdWords    == {"m", "n", "1", "2", "3", "default", "menu", "sidebar", "navbar",
                 "footer", "hero"}
MCNumeral    == [n \in Nat |-> ToString(n)]
MCSafeLinks  == {"/a", "https://e.org"}
MCHttpsLinks == [u \in {"e.org"} |-> "https://e.org"]
MCExisting   == {<<"page", "p">>}
MCRelease    == <<0, 1, 7>>
MCHeroPlace  == <<"hero">>
MCOldNames   == {<<"n">>}
MCNewName    == <<"new">>

Item(type, label, target, url, items) ==
    [type |-> type, label |-> label, target |-> target, url |-> url, items |-> items]
Link(url) == Item("url", <<>>, "", url, <<>>)
Items ==
    {Item(t, <<"l">>, "", "", i) : t \in {"custom", "topics", "odd", ""},
                               i \in {<<>>, <<Link("e.org"), Item("topics", <<>>, "", "", <<>>)>>}}
    \cup {Item("custom", <<>>, "", u, <<>>) : u \in {"", "e.org"}}
    \cup {Item("page", <<>>, p, "", <<>>) : p \in {"", "p", "gone"}}
    \cup {Item("custom", <<"l">>, "p", "", <<>>), Item("tagindex", <<>>, "x", "", <<>>),
          Item("recent", <<>>, "", "", <<>>), Link("e.org"), Link("bad")}
Kinds == {Item("topics", <<>>, "", "", <<>>), Item("custom", <<>>, "", "e.org", <<>>),
          Item("page", <<>>, "p", "", <<>>), Item("odd", <<"l">>, "", "", <<Link("/a")>>)}
ItemLists == UpTo(Items, 2) \cup [1..3 -> Kinds]

List(id, name, items) == [id |-> id, name |-> name, items |-> items]
Two == <<Item("page", <<>>, "p", "", <<>>), Item("custom", <<>>, "", "/a", <<>>)>>
Ids == {<<>>, <<"m">>, <<"m", "2">>, <<"default", "menu">>, <<"default", "sidebar">>, <<"!">>}
MenuLists ==
    {<<List(i, n, Two), List(j, <<"n">>, <<>>), List(k, <<>>, <<Two[1]>>)>> :
        i, j, k \in Ids, n \in {<<>>, <<"m">>, <<"!">>}}

Fresh == [pack |-> "base", theme |-> "", locale |-> "en", order |-> <<>>,
          text |-> [enabled |-> FALSE, id |-> ""], version |-> <<>>, menus |-> <<>>,
          sidebars |-> <<>>, locations |-> <<>>, sidebar |-> Unchosen, title |-> ""]
WithSidebar == {[Fresh EXCEPT !.sidebars = <<List(<<"m">>, <<"n">>, i)>>, !.sidebar = <<"m">>] :
                    i \in ItemLists}
WithMenus ==
    {[Fresh EXCEPT !.menus = m, !.sidebars = m, !.sidebar = b, !.version = v,
                   !.locations = [l \in {<<"navbar">>, <<"footer", "!">>, <<"!", "hero">>} |->
                                    IF l = <<"navbar">> THEN b ELSE <<"m">>]] :
        m \in MenuLists \cup {<<>>}, v \in {<<>>, <<0, 1, 8>>},
        b \in {<<>>, <<"m">>, <<"m", "2">>, <<"n">>, <<"default", "menu">>,
               <<"default", "sidebar">>}}
Upgraded ==
    {[Fresh EXCEPT !.pack = p, !.theme = t, !.locale = l, !.order = o,
                   !.text = [enabled |-> e, id |-> x]] :
        p \in {"", "retro"}, t \in {"", "newspaper", "old"}, l \in {"", "zh_cn"},
        o \in {<<>>, <<"a", "a", "">>, <<"b", "a">>}, e \in BOOLEAN,
        x \in {"", "zh-cn", "default-en", "b"}}
Picks == [pack : {"base", "retro"}, locale : {"en", "zh-CN"}, order : {<<>>, <<"a", "b">>}]

-----------------------------------------------------------------------------
(* Marketplace: items in one or two sources, and independent answers.      *)

MCGoodIds == {"r", "s", "theme", "plugin", "dark"}
MCRepos   == {"repo"}
MCApp     == <<1, 0, 0>>

Offer(id, tags, themes, plugins, release, min) ==
    [id |-> id, tags |-> tags, themes |-> themes, plugins |-> plugins,
     repo |-> "repo", release |-> release, min |-> min]
TagLists == {<<>>, <<"dark">>, <<"theme">>, <<"dark", "theme">>, <<"plugin", "dark", "dark">>, <<"", "plugin">>}
Tagged == {Offer("r", t, h, p, <<1, 0, 1>>, <<>>) : t \in TagLists,
            h \in {<<>>, <<"">>, <<"r">>, <<"r", "r">>, <<"r", "">>}, p \in {<<>>, <<"s">>, <<"BAD">>}}
Plainly(id, release, min) == Offer(id, <<>>, <<"r">>, <<>>, release, min)
Indexes ==
    {[items |-> <<i>>] : i \in Tagged}
    \cup {[items |-> <<Plainly("r", v, m), Plainly(i, <<1, 0, 0>>, <<>>)>>] :
            v \in {<<1, 0, 0>>, <<1, 0, 1>>, <<>>}, m \in {<<>>, <<1, 0, 0>>, <<1, 1, 0>>},
            i \in {"r", "s"}}
Archives == {Failed} \cup
    [digest : {1}, type : {"bundle"}, id : {"r", "s"}, repo : {"repo", "other"},
     version : {<<1, 0, 0>>, <<1, 0, 1>>, <<1, 1, 0>>}]
Line(name, digest) == [name |-> name, digest |-> digest]
SumFiles == {Failed, <<>>, <<Line("archive", 1)>>, <<Line("other", 2), Line("archive", 1)>>,
             <<Line("archive", 2), Line("archive", 1)>>, <<Line("bad", 0), Line("archive", 1)>>}
Installs ==
    [installed : {<<>>, [r |-> <<1, 0, 0>>, s |-> <<2, 0, 0>>]},
     answers : {<<i>> : i \in Indexes} \cup {<<Failed, i>> : i \in Indexes},
     id : {"r"}, archive : Archives, sums : SumFiles]

-----------------------------------------------------------------------------
(* Updates: answers with and without a token, and outputs of the script.   *)

Answers == [status : {200, 401, 403, 500}, tag : {<<>>, <<1, 0, 0>>, <<0, 9, 9>>, <<1, 1, 0>>, <<1>>}]
Lines == [event : {"text", "detected", "completed", "failed"}, version : {<<>>, <<1, 1, 0>>}]
Runs ==
    [token : BOOLEAN, answer : Answers, anonymous : Answers, before : {<<>>}, output : {<<>>},
     exit : {0}]
    \cup [token : {FALSE}, answer : {[status |-> 500, tag |-> <<>>]},
          anonymous : {[status |-> 500, tag |-> <<>>]},
          before : {<<>>} \cup
                   {<<l>> : l \in Lines} \cup {<<l, l, l>> : l \in Lines},
          output : UpTo(Lines, 3), exit : {0, 1, 42}]

-----------------------------------------------------------------------------

Init ==
    \/ \E x \in Addresses : input = <<"address", x>>
    \/ \E x \in Layers \cup SameIds : input = <<"catalog", x>>
    \/ \E x \in Plugins : input = <<"plugin", x>>
    \/ \E x \in Manifests : input = <<"manifest", x>>
    \/ \E x \in Drafts : input = <<"post", x>> \/ input = <<"page", x>>
    \/ \E x \in Lists : input = <<"list", x>>
    \/ \E x \in WithSidebar \cup WithMenus : input = <<"menus", x>>
    \/ \E x \in [file : Upgraded, first : Picks, second : Picks] : input = <<"picks", x>>
    \/ \E x \in Installs : input = <<"market", x>>
    \/ \E x \in Runs : input = <<"update", x>>
Next == UNCHANGED input
=============================================================================
