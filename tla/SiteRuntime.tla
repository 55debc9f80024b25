----------------------------- MODULE SiteRuntime -----------------------------
(***************************************************************************)
(* The settings, the resource packs and the snapshot the site is served    *)
(* from: settings.json and content/bundles on disk, and the three pointers *)
(* Server.store, Server.appearance and Server.templates, which             *)
(* reloadRuntime replaces together and a page reads one after the other.   *)
(*                                                                         *)
(* Every settings handler of internal/http/server.go takes the settings    *)
(* out of the store, changes its own part, writes settings.json and        *)
(* reloads, with no lock held across these steps.                          *)
(*                                                                         *)
(* EditedFromDefaults, ServedAnyway and PublishesNoTemplates are not the   *)
(* code: they are mutants the properties must catch.                       *)
(***************************************************************************)
EXTENDS Naturals, FiniteSets

CONSTANTS
    Fields,    \* parts of the settings with a handler of their own
    Values,    \* what a part is set to
    Initial,   \* its default
    Bundles,   \* ids of user bundles
    Themes,    \* ids of the theme packs they contain
    Plugins,   \* ids of the plugin packs they contain
    Default,   \* the built-in theme
    Kinds,     \* requests made: "edit", "apply", "install", "delete"
    Admins,    \* goroutines of admin requests
    Viewers,   \* goroutines that render a page
    Empty,     \* settings.json truncated and not yet written
    Garbled,   \* settings.json holding the remains of two writes
    Contested, \* a field that two requests change at once
    None

ASSUME InitialAssumption == Initial \in Values
ASSUME KindsAssumption == Kinds \subseteq {"edit", "apply", "install", "delete"}

VARIABLES
    file,      \* settings.json
    bundles,   \* content/bundles: the packs of each installed bundle
    store, catalog, templates,       \* what is served
    pc, req, rset, rcat,             \* the locals of an admin request
    vpc, vset, vcat, vtemplates,     \* the locals of a page being rendered
    kept       \* the last value acknowledged for a field; None while it is
               \* being changed, Contested if by two requests at once

disk   == <<file, bundles>>
served == <<store, catalog, templates>>
locals == <<pc, req, rset, rcat>>
page   == <<vpc, vset, vcat, vtemplates>>
vars   == <<file, bundles, store, catalog, templates, pc, req, rset, rcat,
            vpc, vset, vcat, vtemplates, kept>>

Packs    == Themes \cup Plugins
Settings == [fields : [Fields -> Values], theme : Themes \cup {Default},
             plugins : SUBSET Plugins]
Installed == [Bundles -> (SUBSET Packs \ {{}}) \cup {None}]
Catalogs == [bundles : Installed, theme : Themes \cup {Default},
             plugins : SUBSET Plugins]

Reqs == [kind : {"edit"}, field : Fields, value : Values]
        \cup [kind : {"apply"}, theme : Themes \cup {Default},
              plugins : SUBSET Plugins]
        \cup [kind : {"install"}, bundle : Bundles,
              packs : SUBSET Packs \ {{}}]
        \cup [kind : {"delete"}, bundle : Bundles]

ASSUME NoneAssumption ==
    /\ None \notin Reqs
    /\ {Empty, Garbled} \cap Settings = {}
    /\ {None, Contested} \cap Values = {}

-----------------------------------------------------------------------------
(* LoadCatalog.                                                            *)

PacksOf(bs) == UNION {bs[b] : b \in {c \in Bundles : bs[c] # None}}

(* "duplicate pack id": two bundles with a pack in common.                 *)
Duplicates(bs) ==
    \E b, c \in Bundles : b # c /\ bs[b] # None /\ bs[c] # None
                          /\ bs[b] \cap bs[c] # {}

ServedAnyway(s, bs) == s.theme
ActiveTheme(s, bs) == IF s.theme \in PacksOf(bs) THEN s.theme ELSE Default

CatalogOf(s, bs) ==
    [bundles |-> bs, theme |-> ActiveTheme(s, bs),
     plugins |-> s.plugins \cap PacksOf(bs)]

Loadable == file \notin {Empty, Garbled} /\ ~Duplicates(bundles)

-----------------------------------------------------------------------------
Defaults == [fields |-> [f \in Fields |-> Initial], theme |-> Default,
             plugins |-> {}]

NoBundles == [b \in Bundles |-> None]

Init ==
    /\ file = Defaults
    /\ bundles = NoBundles
    /\ store = Defaults
    /\ catalog = CatalogOf(Defaults, NoBundles)
    /\ templates = Default
    /\ pc = [a \in Admins |-> "idle"]
    /\ req = [a \in Admins |-> None]
    /\ rset = [a \in Admins |-> Defaults]
    /\ rcat = [a \in Admins |-> CatalogOf(Defaults, NoBundles)]
    /\ vpc = [v \in Viewers |-> "store"]
    /\ vset = [v \in Viewers |-> Defaults]
    /\ vcat = [v \in Viewers |-> CatalogOf(Defaults, NoBundles)]
    /\ vtemplates = [v \in Viewers |-> Default]
    /\ kept = [f \in Fields |-> None]

PCs == {"idle", "look", "edit", "truncate", "write", "remove", "clear",
        "activate", "settings", "catalog", "publish"}

TypeOK ==
    /\ file \in Settings \cup {Empty, Garbled}
    /\ bundles \in Installed
    /\ store \in Settings
    /\ catalog \in Catalogs
    /\ templates \in Themes \cup {Default}
    /\ pc \in [Admins -> PCs]
    /\ req \in [Admins -> Reqs \cup {None}]
    /\ rset \in [Admins -> Settings]
    /\ rcat \in [Admins -> Catalogs]
    /\ vpc \in [Viewers -> {"store", "catalog", "templates", "shown"}]
    /\ vset \in [Viewers -> Settings]
    /\ vcat \in [Viewers -> Catalogs]
    /\ vtemplates \in [Viewers -> Themes \cup {Default}]
    /\ kept \in [Fields -> Values \cup {Contested, None}]
    /\ \A a \in Admins :
          /\ pc[a] = "idle" <=> req[a] = None
          /\ pc[a] \in {"clear", "activate"} => req[a].kind = "install"
          /\ pc[a] \in {"look", "edit"} => req[a].kind # "install"
          /\ pc[a] = "remove" => req[a].kind = "delete"

-----------------------------------------------------------------------------
Goto(a, place) == pc' = [pc EXCEPT ![a] = place]

(* Locals are reset when the handler returns, so that they tell no two     *)
(* states apart.                                                           *)
Return(a) ==
    /\ pc' = [pc EXCEPT ![a] = "idle"]
    /\ req' = [req EXCEPT ![a] = None]
    /\ rset' = [rset EXCEPT ![a] = Defaults]
    /\ rcat' = [rcat EXCEPT ![a] = CatalogOf(Defaults, NoBundles)]

FirstStep(kind) == CASE kind = "edit" -> "edit"
                     [] kind \in {"apply", "delete"} -> "look"
                     [] kind = "install" -> "clear"

Contender(a, f) ==
    \E b \in Admins \ {a} : pc[b] # "idle" /\ req[b].kind = "edit"
                            /\ req[b].field = f

Start(a, r) ==
    /\ pc[a] = "idle"
    /\ r.kind \in Kinds
    /\ req' = [req EXCEPT ![a] = r]
    /\ Goto(a, FirstStep(r.kind))
    /\ kept' = IF r.kind = "edit"
               THEN [kept EXCEPT ![r.field] =
                        IF Contender(a, r.field) THEN Contested ELSE None]
               ELSE kept
    /\ UNCHANGED <<disk, served, rset, rcat, page>>

(* An error is answered: the body does not parse, a file operation fails,  *)
(* the content, the catalog or the templates do not load.                  *)
Fails(a) ==
    /\ pc[a] # "idle"
    /\ Return(a)
    /\ UNCHANGED <<disk, served, page, kept>>

-----------------------------------------------------------------------------
(* Settings handlers, applyResourcePacks and deleteResourcePack.           *)

(* currentAppearance, before the settings are looked at; deleting finds    *)
(* the bundle in that catalog or answers 404.                              *)
Look(a) ==
    /\ pc[a] = "look"
    /\ req[a].kind = "delete" => catalog.bundles[req[a].bundle] # None
    /\ rcat' = [rcat EXCEPT ![a] = catalog]
    /\ Goto(a, "edit")
    /\ UNCHANGED <<disk, served, req, rset, page, kept>>

NotFound(a) ==
    /\ pc[a] = "look"
    /\ req[a].kind = "delete"
    /\ catalog.bundles[req[a].bundle] = None
    /\ Return(a)
    /\ UNCHANGED <<disk, served, page, kept>>

(* resolvedPackSelection and resolvedPluginOrder.                          *)
Applied(s, r, bs) ==
    [s EXCEPT !.theme = IF r.theme \in PacksOf(bs) THEN r.theme ELSE Default,
              !.plugins = r.plugins \cap PacksOf(bs)]

(* settingsAfterDeletingPack, for a bundle.                                *)
AfterDeleting(s, packs) ==
    [s EXCEPT !.theme = IF s.theme \in packs THEN Default ELSE s.theme,
              !.plugins = s.plugins \ packs]

EditedFromDefaults(a) ==
    [Defaults EXCEPT !.fields[req[a].field] = req[a].value]
Edited(a) == [store EXCEPT !.fields[req[a].field] = req[a].value]

NewSettings(a) ==
    CASE req[a].kind = "edit" -> Edited(a)
      [] req[a].kind = "apply" -> Applied(store, req[a], rcat[a].bundles)
      [] req[a].kind = "delete" ->
            AfterDeleting(store, rcat[a].bundles[req[a].bundle])

(* A deletion that changes no settings writes none.                        *)
Edit(a) ==
    /\ pc[a] = "edit"
    /\ rset' = [rset EXCEPT ![a] = NewSettings(a)]
    /\ Goto(a, IF req[a].kind = "delete" /\ NewSettings(a) = store
               THEN "remove" ELSE "truncate")
    /\ UNCHANGED <<disk, served, req, rcat, page, kept>>

(* SaveSettings: os.WriteFile opens with O_TRUNC, then writes.             *)
Truncate(a) ==
    /\ pc[a] = "truncate"
    /\ file' = Empty
    /\ Goto(a, "write")
    /\ UNCHANGED <<bundles, served, req, rset, rcat, page, kept>>

(* Written over somebody else's text, a shorter one leaves the rest of it. *)
Write(a) ==
    /\ pc[a] = "write"
    /\ \/ file' = rset[a]
       \/ file # Empty /\ file' = Garbled
    /\ Goto(a, IF req[a].kind = "delete" THEN "remove" ELSE "settings")
    /\ UNCHANGED <<bundles, served, req, rset, rcat, page, kept>>

(* DeleteUserPack.                                                         *)
RemoveBundle(a) ==
    /\ pc[a] = "remove"
    /\ bundles[req[a].bundle] # None
    /\ bundles' = [bundles EXCEPT ![req[a].bundle] = None]
    /\ Goto(a, "settings")
    /\ UNCHANGED <<file, served, req, rset, rcat, page, kept>>

-----------------------------------------------------------------------------
(* InstallPackZIPWithCompatibility, once the bundle is unpacked in a       *)
(* staging directory: the old directory is removed, the new one renamed    *)
(* into its place.  Only the bundle itself is looked at for duplicates.    *)

ClearTarget(a) ==
    /\ pc[a] = "clear"
    /\ bundles' = [bundles EXCEPT ![req[a].bundle] = None]
    /\ Goto(a, "activate")
    /\ UNCHANGED <<file, served, req, rset, rcat, page, kept>>

Activate(a) ==
    /\ pc[a] = "activate"
    /\ bundles[req[a].bundle] = None
    /\ bundles' = [bundles EXCEPT ![req[a].bundle] = req[a].packs]
    /\ Goto(a, "settings")
    /\ UNCHANGED <<file, served, req, rset, rcat, page, kept>>

-----------------------------------------------------------------------------
(* reloadRuntime.                                                          *)

LoadSettings(a) ==
    /\ pc[a] = "settings"
    /\ file \notin {Empty, Garbled}
    /\ rset' = [rset EXCEPT ![a] = file]
    /\ Goto(a, "catalog")
    /\ UNCHANGED <<disk, served, req, rcat, page, kept>>

(* The scans for themes, bundles and plugins are one step.                 *)
LoadCatalog(a) ==
    /\ pc[a] = "catalog"
    /\ ~Duplicates(bundles)
    /\ rcat' = [rcat EXCEPT ![a] = CatalogOf(rset[a], bundles)]
    /\ Goto(a, "publish")
    /\ UNCHANGED <<disk, served, req, rset, page, kept>>

(* loadTemplates and replaceRuntime; the request is answered.              *)
PublishesNoTemplates(a) ==
    store' = rset[a] /\ catalog' = rcat[a] /\ UNCHANGED templates
ReplaceRuntime(a) ==
    store' = rset[a] /\ catalog' = rcat[a] /\ templates' = rcat[a].theme

Publish(a) ==
    /\ pc[a] = "publish"
    /\ ReplaceRuntime(a)
    /\ kept' = IF req[a].kind = "edit"
               THEN [kept EXCEPT ![req[a].field] =
                        IF @ = Contested THEN Contested ELSE req[a].value]
               ELSE kept
    /\ Return(a)
    /\ UNCHANGED <<disk, page>>

(* The process dies and starts again: New loads what is there.  If that    *)
(* does not load, the program does not start.                              *)
Restart ==
    /\ \E a \in Admins : pc[a] # "idle"
    /\ Loadable
    /\ store' = file
    /\ catalog' = CatalogOf(file, bundles)
    /\ templates' = ActiveTheme(file, bundles)
    /\ pc' = [a \in Admins |-> "idle"]
    /\ req' = [a \in Admins |-> None]
    /\ rset' = [a \in Admins |-> Defaults]
    /\ rcat' = [a \in Admins |-> CatalogOf(Defaults, NoBundles)]
    /\ vpc' = [v \in Viewers |-> "store"]
    /\ vset' = [v \in Viewers |-> Defaults]
    /\ vcat' = [v \in Viewers |-> CatalogOf(Defaults, NoBundles)]
    /\ vtemplates' = [v \in Viewers |-> Default]
    /\ UNCHANGED <<disk, kept>>

(* What fails by what is on disk: a bundle deleted meanwhile, a target that *)
(* came back, settings.json that does not parse, a duplicate pack.         *)
Refused(a) ==
    /\ \/ pc[a] = "remove" /\ bundles[req[a].bundle] = None
       \/ pc[a] = "activate" /\ bundles[req[a].bundle] # None
       \/ pc[a] = "settings" /\ file \in {Empty, Garbled}
       \/ pc[a] = "catalog" /\ Duplicates(bundles)
    /\ Return(a)
    /\ UNCHANGED <<disk, served, page, kept>>

-----------------------------------------------------------------------------
(* A page: the handler takes the store, render takes the appearance and    *)
(* then the templates.                                                     *)

TakeStore(v) ==
    /\ vpc[v] = "store"
    /\ vset' = [vset EXCEPT ![v] = store]
    /\ vpc' = [vpc EXCEPT ![v] = "catalog"]
    /\ UNCHANGED <<disk, served, locals, vcat, vtemplates, kept>>

TakeCatalog(v) ==
    /\ vpc[v] = "catalog"
    /\ vcat' = [vcat EXCEPT ![v] = catalog]
    /\ vpc' = [vpc EXCEPT ![v] = "templates"]
    /\ UNCHANGED <<disk, served, locals, vset, vtemplates, kept>>

TakeTemplates(v) ==
    /\ vpc[v] = "templates"
    /\ vtemplates' = [vtemplates EXCEPT ![v] = templates]
    /\ vpc' = [vpc EXCEPT ![v] = "shown"]
    /\ UNCHANGED <<disk, served, locals, vset, vcat, kept>>

Shown(v) ==
    /\ vpc[v] = "shown"
    /\ vpc' = [vpc EXCEPT ![v] = "store"]
    /\ vset' = [vset EXCEPT ![v] = Defaults]
    /\ vcat' = [vcat EXCEPT ![v] = CatalogOf(Defaults, NoBundles)]
    /\ vtemplates' = [vtemplates EXCEPT ![v] = Default]
    /\ UNCHANGED <<disk, served, locals, kept>>

-----------------------------------------------------------------------------
Step(a) ==
    \/ Look(a) \/ NotFound(a) \/ Edit(a) \/ Truncate(a) \/ Write(a)
    \/ RemoveBundle(a) \/ ClearTarget(a) \/ Activate(a)
    \/ LoadSettings(a) \/ LoadCatalog(a) \/ Publish(a) \/ Refused(a)

Next ==
    \/ \E a \in Admins : Step(a)
    \/ \E a \in Admins, r \in Reqs : Start(a, r)
    \/ \E v \in Viewers :
          TakeStore(v) \/ TakeCatalog(v) \/ TakeTemplates(v) \/ Shown(v)

Faults == Restart \/ \E a \in Admins : Fails(a)

Spec      == Init /\ [][Next]_vars
FaultSpec == Init /\ [][Next \/ Faults]_vars

-----------------------------------------------------------------------------
AtRest == \A a \in Admins : pc[a] = "idle"

(* What is served is one snapshot: the theme and the plugins of the        *)
(* catalog are those its store selects, and the templates are the theme's. *)
ServedTogether ==
    /\ catalog = CatalogOf(store, catalog.bundles)
    /\ templates = catalog.theme

(* The theme served is installed, whatever the settings say: a bundle that *)
(* was upgraded to one without it is not looked for.                       *)
ThemeInstalled == catalog.theme \in PacksOf(catalog.bundles) \cup {Default}

(* "should keep the current configuration": a change that was acknowledged *)
(* is still in settings.json after later changes of other parts, and after *)
(* later requests that failed.                                             *)
EditsKept ==
    AtRest /\ file \notin {Empty, Garbled} =>
        \A f \in Fields : kept[f] \in Values => file.fields[f] = kept[f]

(* A page is rendered from one snapshot, not a "half-refreshed" one.       *)
WholePage(v) ==
    /\ vcat[v] = CatalogOf(vset[v], vcat[v].bundles)
    /\ vtemplates[v] = vcat[v].theme
=============================================================================
