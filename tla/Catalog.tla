------------------------------ MODULE Catalog ------------------------------
(***************************************************************************)
(* What a scan of the resource directories makes of the packs it finds:    *)
(* which of them exist, which theme, plugins and language are active, and  *)
(* the text every message gets (internal/appearance/appearance.go,         *)
(* LoadCatalog and below).                                                 *)
(*                                                                         *)
(* The files are a record [themes, plugins, texts, bundles]: sequences of  *)
(* packs in the order of the scan, and of bundles [id, source, packs]. A   *)
(* pack is a record [id, type, source, files, declared]: its translation   *)
(* files by language, each a function from keys to texts, and the default  *)
(* language of its manifest. Names and tags, by which lists are sorted,    *)
(* are left out, and so is what concerns only the display.                 *)
(*                                                                         *)
(* BundledTwice, FirstLast and HalfCovers are not the code: they are       *)
(* mutants that the property must catch.                                   *)
(***************************************************************************)
EXTENDS Integers, Sequences, SequencesExt, FiniteSets

CONSTANTS
    Languages,  \* a sequence: the codes in the order of their letters
    English,    \* the code a pack without any language gets
    DefaultId,  \* the theme that is always there: newspaper-classic
    Blank,      \* a text of white space, or none
    None        \* no bundle, no declared language, nothing requested

-----------------------------------------------------------------------------
(* The packs.                                                              *)

(* shouldReplaceWithBundledPack and dedupeBundledPacks: a pack that was    *)
(* installed alone gives way to the same pack in a bundle. Mutant: any     *)
(* pack in a bundle replaces the one before.                               *)
BundledTwice(existing, candidate) == candidate.bundle # None
Replaces(existing, candidate) ==
    /\ existing.source = candidate.source
    /\ existing.bundle = None
    /\ candidate.bundle # None

\* The pack of an id.
Place(packs, id) == SelectInSeq(packs, LAMBDA p : p.id = id)
Named(packs, id) == packs[Place(packs, id)]

AfterPack(seen, pack, same) ==
    IF ~seen.ok THEN seen
    ELSE IF same = 0 THEN [seen EXCEPT !.packs = Append(@, pack)]
    ELSE IF Replaces(seen.packs[same], pack) THEN [seen EXCEPT !.packs[same] = pack]
    ELSE IF Replaces(pack, seen.packs[same]) THEN seen
    ELSE [seen EXCEPT !.ok = FALSE]
Deduped(packs) ==
    FoldLeft(LAMBDA seen, pack : AfterPack(seen, pack, Place(seen.packs, pack.id)),
             [ok |-> TRUE, packs |-> <<>>], packs)

(* loadPackTranslations, in the pack that buildPack makes: the default     *)
(* language is there, if only with no texts.                               *)
DefaultLocale(pack, first) ==
    IF pack.declared # None THEN pack.declared
    ELSE IF first # 0 THEN Languages[first]
    ELSE English
WithTexts(pack, bundle, default) ==
    [id |-> pack.id, type |-> pack.type, source |-> pack.source, bundle |-> bundle,
     default |-> default,
     locales |-> DOMAIN pack.files \cup {default},
     texts |-> [l \in DOMAIN pack.files \cup {default} |->
                   IF l \in DOMAIN pack.files THEN pack.files[l] ELSE <<>>]]
Built(pack, bundle) ==
    WithTexts(pack, bundle,
              DefaultLocale(pack, SelectInSeq(Languages, LAMBDA l : l \in DOMAIN pack.files)))

(* scanPackRoot and scanBundleChildren.                                    *)
Alone(packs) == [i \in DOMAIN packs |-> Built(packs[i], None)]

WithChildren(found, bundle, type) ==
    FoldLeft(LAMBDA all, pack : IF pack.type = type THEN Append(all, Built(pack, bundle.id))
                                ELSE all,
             found, bundle.packs)
Bundled(files, type) ==
    FoldLeft(LAMBDA found, bundle : WithChildren(found, bundle, type), <<>>, files.bundles)

WellPlaced(files) ==
    /\ \A i \in DOMAIN files.themes : files.themes[i].type = "theme"
    /\ \A i \in DOMAIN files.plugins : files.plugins[i].type = "plugin"
    /\ \A i \in DOMAIN files.texts : files.texts[i].type = "text"
    /\ \A b \in DOMAIN files.bundles : \A i \in DOMAIN files.bundles[b].packs :
          files.bundles[b].packs[i].type \in {"theme", "plugin"}

(* scanThemePacks, and scanPluginPacks with the old text packs.            *)
Themes(files)  == Deduped(Alone(files.themes) \o Bundled(files, "theme"))
Plugins(files) ==
    [Deduped(Alone(files.plugins) \o Bundled(files, "plugin"))
        EXCEPT !.packs = @ \o Alone(files.texts)]

-----------------------------------------------------------------------------
(* Texts and languages.                                                    *)

(* mergeMessages: a blank text hides nothing.                              *)
Merged(target, source) ==
    LET given == {k \in DOMAIN source : source[k] # Blank}
    IN [k \in DOMAIN target \cup given |->
           IF k \in given THEN source[k] ELSE target[k]]

TextsIn(pack, locale) ==
    IF locale \in DOMAIN pack.texts THEN pack.texts[locale] ELSE <<>>

(* localizedPackMessages.                                                  *)
Localized(pack, locale) ==
    IF locale = pack.default THEN TextsIn(pack, locale)
    ELSE Merged(TextsIn(pack, pack.default), TextsIn(pack, locale))

(* requiredThemeMessages.                                                  *)
Required(base, theme) ==
    LET own == Localized(base, base.default)
    IN DOMAIN (IF theme.id = base.id THEN own
               ELSE Merged(own, Localized(theme, theme.default)))

(* pluginLocaleCoversMessages. Mutant: one key is enough.                  *)
HalfCovers(plugin, locale, required) ==
    \E k \in required : k \in DOMAIN TextsIn(plugin, locale)
Covers(plugin, locale, required) ==
    /\ required # {}
    /\ \A k \in required : /\ k \in DOMAIN TextsIn(plugin, locale)
                           /\ TextsIn(plugin, locale)[k] # Blank

(* mergeActiveLocaleCodes; the order of the languages is for the display.  *)
WithPluginLocales(theme, plugins, required) ==
    [theme EXCEPT !.locales = @ \cup
        UNION {{l \in plugins[i].locales : Covers(plugins[i], l, required)} :
               i \in DOMAIN plugins}]

(* resolvePluginOrder: what is requested, once, as far as it exists.       *)
Ordered(packs, requested) ==
    LET ids == FoldLeft(LAMBDA order, id : IF id \in ToSet(order) \/ Place(packs, id) = 0
                                           THEN order ELSE Append(order, id),
                        <<>>, requested)
    IN [i \in DOMAIN ids |-> Named(packs, ids[i])]

(* normalizeThemeLocale.                                                   *)
LocaleOf(requested, theme) ==
    IF requested \in theme.locales THEN requested ELSE theme.default

(* The plugins are laid over the theme from the last to the first. Mutant: *)
(* from the first to the last.                                             *)
FirstLast(plugins, locale, messages) ==
    FoldLeft(LAMBDA all, p : Merged(all, TextsIn(p, locale)), messages, plugins)
Overlaid(plugins, locale, messages) ==
    FoldLeft(LAMBDA all, p : Merged(all, TextsIn(p, locale)), messages, Reverse(plugins))

(* LoadCatalog.                                                            *)
NoCatalog == [ok |-> FALSE]

Unique(packs) == Cardinality({packs[i].id : i \in DOMAIN packs}) = Len(packs)

Catalog(base, theme, active, lang) ==
    [ok |-> TRUE, base |-> base, theme |-> theme, plugins |-> active,
     selection |-> [enabled |-> theme.id # DefaultId, id |-> theme.id],
     locale |-> lang,
     order |-> [i \in DOMAIN active |-> active[i].id],
     messages |-> Overlaid(active, lang,
                           IF theme.id = base.id THEN Localized(base, lang)
                           ELSE Merged(Localized(base, lang), Localized(theme, lang)))]

WithTheme(base, theme, active, locale) ==
    Catalog(base, theme, active, LocaleOf(locale, theme))
WithPlugins(base, chosen, active, locale) ==
    WithTheme(base, WithPluginLocales(chosen, active, Required(base, chosen)), active, locale)

FromPacks(themes, plugins, selection, locale, order) ==
    IF ~themes.ok \/ ~plugins.ok \/ ~Unique(plugins.packs) \/ Place(themes.packs, DefaultId) = 0
    THEN NoCatalog
    ELSE WithPlugins(Named(themes.packs, DefaultId),
                     IF selection.enabled /\ Place(themes.packs, selection.id) # 0
                     THEN Named(themes.packs, selection.id)
                     ELSE Named(themes.packs, DefaultId),
                     Ordered(plugins.packs, order), locale)

LoadCatalog(files, selection, locale, order) ==
    IF WellPlaced(files)
    THEN FromPacks(Themes(files), Plugins(files), selection, locale, order)
    ELSE NoCatalog

-----------------------------------------------------------------------------
(* The property.                                                           *)

(* The places a text may come from, the first first.                       *)
Layers(c) ==
    LET from(pack, l) == TextsIn(pack, l)
    IN [i \in DOMAIN c.plugins |-> from(c.plugins[i], c.locale)]
       \o <<from(c.theme, c.locale), from(c.theme, c.theme.default),
            from(c.base, c.locale), from(c.base, c.base.default)>>

FirstText(layers, k) ==
    LET n == SelectInSeq(layers, LAMBDA l : k \in DOMAIN l /\ l[k] # Blank)
    IN IF n = 0 THEN Blank ELSE layers[n][k]

OnePerId(packs) ==
    \A i, j \in DOMAIN packs : i < j /\ packs[i].id = packs[j].id =>
        /\ packs[i].source = packs[j].source
        /\ (packs[i].bundle = None) # (packs[j].bundle = None)

(* A scan fails only for packs of one id that no rule decides between, a   *)
(* pack in the wrong place or a missing default theme. When it succeeds,   *)
(* every message has the text of the first of plugins, theme and default   *)
(* theme that gives one; a language the theme itself does not know gives   *)
(* every text the theme needs in that language; and the selection, the     *)
(* language and the order that the program writes back to the settings     *)
(* lead to the same catalog again.                                         *)
Undecided(files, themes, plugins) ==
    \/ ~WellPlaced(files)
    \/ ~OnePerId(themes) \/ ~OnePerId(plugins)
    \/ \E i \in DOMAIN files.texts :
          \/ \E p \in ToSet(plugins) : p.id = files.texts[i].id
          \/ \E j \in 1..i - 1 : files.texts[j].id = files.texts[i].id
    \/ \A p \in ToSet(themes) : p.id # DefaultId

TextsRight(c, layers) ==
    /\ \A k \in DOMAIN c.messages : c.messages[k] = FirstText(layers, k)
    /\ \A i \in DOMAIN layers : \A k \in DOMAIN layers[i] :
          layers[i][k] # Blank => k \in DOMAIN c.messages
    /\ c.locale \notin DOMAIN c.theme.texts =>
          \A k \in Required(c.base, c.theme) :
             \E i \in DOMAIN c.plugins : /\ k \in DOMAIN TextsIn(c.plugins[i], c.locale)
                                         /\ c.messages[k] = c.plugins[i].texts[c.locale][k]

RightCatalog(c, files, themes, plugins) ==
    /\ c.ok <=> ~Undecided(files, themes, plugins)
    /\ c.ok => /\ TextsRight(c, Layers(c))
               /\ LoadCatalog(files, c.selection, c.locale, c.order) = c

TextsLayered(files, selection, locale, order) ==
    RightCatalog(LoadCatalog(files, selection, locale, order), files,
                 Alone(files.themes) \o Bundled(files, "theme"),
                 Alone(files.plugins) \o Bundled(files, "plugin"))
=============================================================================
