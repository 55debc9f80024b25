-------------------------- MODULE SiteRuntimeProofs --------------------------
(***************************************************************************)
(* What is served is one snapshot, for any number of admin requests and    *)
(* pages, whatever fails and whenever the program restarts; and the        *)
(* settings it is made from survive being written and read again.          *)
(***************************************************************************)
EXTENDS MCSiteRuntime, PureFunctions, Lists, FiniteSetTheorems, SequenceTheorems, TLAPS

(* The catalog a reload is about to publish was built for the settings it  *)
(* is about to publish.                                                    *)
Matched ==
    \A a \in Admins : pc[a] = "publish" =>
        rcat[a] = CatalogOf(rset[a], rcat[a].bundles)

IInv == TypeOK /\ Matched /\ ServedTogether

-----------------------------------------------------------------------------
(* LoadCatalog returns a catalog whatever the settings select.             *)
LEMMA CatalogType ==
    ASSUME NEW s \in Settings, NEW bs \in Installed
    PROVE  /\ CatalogOf(s, bs) \in Catalogs
           /\ CatalogOf(s, bs).bundles = bs
           /\ CatalogOf(s, bs).theme = ActiveTheme(s, bs)
BY DEF CatalogOf, ActiveTheme, Catalogs, Settings

(* The theme a catalog activates is installed or the built-in one.         *)
LEMMA ThemeFound ==
    ASSUME NEW s, NEW bs
    PROVE  CatalogOf(s, bs).theme \in PacksOf(bs) \cup {Default}
BY DEF CatalogOf, ActiveTheme

(* defaultSettings, and an empty content/bundles.                          *)
LEMMA DefaultsType == Defaults \in Settings /\ NoBundles \in Installed
BY InitialAssumption DEF Defaults, Settings, NoBundles, Installed

(* Every handler writes settings.                                          *)
LEMMA NewSettingsType ==
    ASSUME TypeOK, NEW a \in Admins, req[a] # None, req[a].kind # "install"
    PROVE  NewSettings(a) \in Settings
<1>1. req[a] \in Reqs
  BY DEF TypeOK
<1>2. CASE req[a].kind = "edit"
  BY <1>1, <1>2 DEF TypeOK, Reqs, Settings, NewSettings, Edited
<1>3. CASE req[a].kind = "apply"
  BY <1>1, <1>3 DEF TypeOK, Reqs, Settings, NewSettings, Applied
<1>4. CASE req[a].kind = "delete"
  BY <1>1, <1>4 DEF TypeOK, Reqs, Settings, NewSettings, AfterDeleting
<1> QED
  BY <1>1, <1>2, <1>3, <1>4 DEF Reqs

-----------------------------------------------------------------------------
USE DEF PCs, Catalogs, Packs

(* New starts with the defaults.                                           *)
LEMMA InitIInv == Init => IInv
<1> SUFFICES ASSUME Init PROVE IInv
  OBVIOUS
<1>1. CatalogOf(Defaults, NoBundles) \in Catalogs
  BY DefaultsType, CatalogType
<1>2. CatalogOf(Defaults, NoBundles).theme = Default
  BY DEF CatalogOf, ActiveTheme, PacksOf, Defaults, NoBundles
<1>3. TypeOK
  BY <1>1, DefaultsType DEF Init, TypeOK
<1>4. ServedTogether
  BY <1>2, DefaultsType, CatalogType DEF Init, ServedTogether
<1> QED
  BY <1>3, <1>4 DEF Init, IInv, Matched

(* The steps of a handler keep the types.                                  *)
LEMMA TypeStep == TypeOK /\ [Next \/ Faults]_vars => TypeOK'
<1> SUFFICES ASSUME TypeOK, [Next \/ Faults]_vars PROVE TypeOK'
  OBVIOUS
<1>0. /\ CatalogOf(Defaults, NoBundles) \in Catalogs
      /\ Defaults \in Settings
  BY DefaultsType, CatalogType
<1> USE <1>0, NoneAssumption, KindsAssumption
    DEF TypeOK, disk, served, locals, page, Goto, Return
<1>1. ASSUME NEW a \in Admins, NEW r \in Reqs, Start(a, r) PROVE TypeOK'
  <2>1. /\ r # None /\ r.kind \in {"edit", "apply", "install", "delete"}
        /\ r.kind = "edit" => r.field \in Fields
    BY <1>1 DEF Start, Reqs
  <2>2. /\ FirstStep(r.kind) \in {"look", "edit", "clear"}
        /\ FirstStep(r.kind) = "clear" <=> r.kind = "install"
    BY <2>1 DEF FirstStep
  <2>3. kept' \in [Fields -> Values \cup {Contested, None}]
    BY <1>1 DEF Start
  <2>5. /\ req' = [req EXCEPT ![a] = r]
        /\ pc' = [pc EXCEPT ![a] = FirstStep(r.kind)]
        /\ UNCHANGED <<disk, served, rset, rcat, page>>
    BY <1>1 DEF Start
  <2> QED
    BY <2>1, <2>2, <2>3, <2>5
<1>2. ASSUME NEW a \in Admins, Fails(a) \/ NotFound(a) \/ Refused(a)
      PROVE TypeOK'
  <2>1. Return(a) /\ UNCHANGED <<disk, served, page, kept>>
    BY <1>2 DEF Fails, NotFound, Refused
  <2> QED
    BY <2>1
<1>3. ASSUME NEW a \in Admins, Look(a) PROVE TypeOK'
  BY <1>3 DEF Look
<1>4. ASSUME NEW a \in Admins, Edit(a) PROVE TypeOK'
  <2>1. req[a] \in Reqs /\ req[a] # None
    BY <1>4 DEF Edit
  <2>2. CASE req[a].kind = "install"
    BY <1>4, <2>1, <2>2 DEF Edit
  <2>3. CASE req[a].kind # "install"
    <3>1. NewSettings(a) \in Settings
      BY <2>1, <2>3, NewSettingsType
    <3> QED
      BY <1>4, <3>1 DEF Edit
  <2> QED
    BY <2>2, <2>3
<1>5. ASSUME NEW a \in Admins, Truncate(a) \/ Write(a) PROVE TypeOK'
  <2>1. file' \in Settings \cup {Empty, Garbled}
    BY <1>5 DEF Truncate, Write
  <2>2. \/ pc[a] = "truncate" /\ pc' = [pc EXCEPT ![a] = "write"]
        \/ /\ pc[a] = "write"
           /\ pc' = [pc EXCEPT ![a] = IF req[a].kind = "delete"
                                      THEN "remove" ELSE "settings"]
    BY <1>5 DEF Truncate, Write
  <2>3. UNCHANGED <<bundles, served, req, rset, rcat, page, kept>>
    BY <1>5 DEF Truncate, Write
  <2>4. CASE pc[a] = "truncate" /\ pc' = [pc EXCEPT ![a] = "write"]
    BY <2>1, <2>3, <2>4
  <2>5. CASE pc[a] = "write" /\ req[a].kind = "delete"
             /\ pc' = [pc EXCEPT ![a] = "remove"]
    BY <2>1, <2>3, <2>5
  <2>6. CASE pc[a] = "write" /\ req[a].kind # "delete"
             /\ pc' = [pc EXCEPT ![a] = "settings"]
    BY <2>1, <2>3, <2>6
  <2> QED
    BY <2>2, <2>4, <2>5, <2>6
<1>6. ASSUME NEW a \in Admins, RemoveBundle(a) \/ ClearTarget(a)
      PROVE TypeOK'
  <2>1. bundles' = [bundles EXCEPT ![req[a].bundle] = None]
    BY <1>6 DEF RemoveBundle, ClearTarget
  <2>2. bundles' \in Installed
    BY <2>1 DEF Installed
  <2>3. UNCHANGED <<file, served, req, rset, rcat, page, kept>>
    BY <1>6 DEF RemoveBundle, ClearTarget
  <2>4. CASE RemoveBundle(a)
    <3>1. pc[a] = "remove" /\ pc' = [pc EXCEPT ![a] = "settings"]
      BY <2>4 DEF RemoveBundle
    <3> QED
      BY <2>2, <2>3, <3>1
  <2>5. CASE ClearTarget(a)
    <3>1. pc[a] = "clear" /\ pc' = [pc EXCEPT ![a] = "activate"]
      BY <2>5 DEF ClearTarget
    <3> QED
      BY <2>2, <2>3, <3>1
  <2> QED
    BY <1>6, <2>4, <2>5
<1>7. ASSUME NEW a \in Admins, Activate(a) PROVE TypeOK'
  <2>1. req[a] \in Reqs /\ req[a].kind = "install"
    BY <1>7 DEF Activate
  <2>2. req[a].packs \in SUBSET Packs \ {{}}
    BY <2>1 DEF Reqs
  <2>3. bundles' \in Installed
    BY <1>7, <2>2 DEF Activate, Installed
  <2>4. /\ pc[a] = "activate"
        /\ pc' = [pc EXCEPT ![a] = "settings"]
        /\ UNCHANGED <<file, served, req, rset, rcat, page, kept>>
    BY <1>7 DEF Activate
  <2> QED
    BY <2>3, <2>4
<1>8. ASSUME NEW a \in Admins, LoadSettings(a) PROVE TypeOK'
  BY <1>8 DEF LoadSettings
<1>9. ASSUME NEW a \in Admins, LoadCatalog(a) PROVE TypeOK'
  <2>1. CatalogOf(rset[a], bundles) \in Catalogs
    BY CatalogType
  <2> QED
    BY <1>9, <2>1 DEF LoadCatalog
<1>10. ASSUME NEW a \in Admins, Publish(a) PROVE TypeOK'
  <2>1. req[a] \in Reqs
    BY <1>10 DEF Publish
  <2>2. kept' \in [Fields -> Values \cup {Contested, None}]
    BY <1>10, <2>1 DEF Publish, Reqs
  <2> QED
    BY <1>10, <2>2 DEF Publish, ReplaceRuntime
<1>11. ASSUME Restart PROVE TypeOK'
  <2>1. file \in Settings
    BY <1>11 DEF Restart, Loadable
  <2>2. /\ CatalogOf(file, bundles) \in Catalogs
        /\ ActiveTheme(file, bundles) \in Themes \cup {Default}
    BY <2>1, CatalogType DEF ActiveTheme, Settings
  <2>3. /\ store' = file
        /\ catalog' = CatalogOf(file, bundles)
        /\ templates' = ActiveTheme(file, bundles)
        /\ pc' = [a \in Admins |-> "idle"]
        /\ req' = [a \in Admins |-> None]
        /\ rset' = [a \in Admins |-> Defaults]
        /\ rcat' = [a \in Admins |-> CatalogOf(Defaults, NoBundles)]
        /\ vpc' = [v \in Viewers |-> "store"]
        /\ vset' = [v \in Viewers |-> Defaults]
        /\ vcat' = [v \in Viewers |-> CatalogOf(Defaults, NoBundles)]
        /\ vtemplates' = [v \in Viewers |-> Default]
        /\ UNCHANGED <<disk, kept>>
    BY <1>11 DEF Restart
  <2> QED
    BY <2>1, <2>2, <2>3
<1>12. ASSUME NEW v \in Viewers,
              \/ TakeStore(v) \/ TakeCatalog(v) \/ TakeTemplates(v) \/ Shown(v)
       PROVE TypeOK'
  <2>1. UNCHANGED <<disk, served, locals, kept>>
    BY <1>12 DEF TakeStore, TakeCatalog, TakeTemplates, Shown
  <2>2. \E place \in {"store", "catalog", "templates", "shown"} :
            vpc' = [vpc EXCEPT ![v] = place]
    BY <1>12 DEF TakeStore, TakeCatalog, TakeTemplates, Shown
  <2>3. \E s \in {store, vset[v], Defaults} : vset' = [vset EXCEPT ![v] = s]
    BY <1>12 DEF TakeStore, TakeCatalog, TakeTemplates, Shown
  <2>4. \E c \in {catalog, vcat[v], CatalogOf(Defaults, NoBundles)} :
            vcat' = [vcat EXCEPT ![v] = c]
    BY <1>12 DEF TakeStore, TakeCatalog, TakeTemplates, Shown
  <2>5. \E t \in {templates, vtemplates[v], Default} :
            vtemplates' = [vtemplates EXCEPT ![v] = t]
    BY <1>12 DEF TakeStore, TakeCatalog, TakeTemplates, Shown
  <2>6. vpc' \in [Viewers -> {"store", "catalog", "templates", "shown"}]
    BY <2>2
  <2>7. vset' \in [Viewers -> Settings]
    BY <2>3
  <2>8. vcat' \in [Viewers -> Catalogs]
    BY <2>4
  <2>9. vtemplates' \in [Viewers -> Themes \cup {Default}]
    BY <2>5
  <2> QED
    BY <2>1, <2>6, <2>7, <2>8, <2>9
<1>13. CASE UNCHANGED vars
  BY <1>13 DEF vars
<1> QED
  BY <1>1, <1>2, <1>3, <1>4, <1>5, <1>6, <1>7, <1>8, <1>9, <1>10, <1>11,
     <1>12, <1>13 DEF Next, Step, Faults
-----------------------------------------------------------------------------
(* A reload publishes what it built, and nothing else touches what is      *)
(* served.                                                                 *)
LEMMA ServedStep ==
    TypeOK /\ Matched /\ ServedTogether /\ [Next \/ Faults]_vars
        => Matched' /\ ServedTogether'
<1> SUFFICES ASSUME TypeOK, Matched, ServedTogether, [Next \/ Faults]_vars
             PROVE  Matched' /\ ServedTogether'
  OBVIOUS
<1> USE DEF TypeOK, Matched, ServedTogether, disk, served, locals, Goto, Return
<1>1. ASSUME NEW a \in Admins, NEW r \in Reqs, Start(a, r)
      PROVE  Matched' /\ ServedTogether'
  <2>1. FirstStep(r.kind) # "publish"
    BY <1>1, KindsAssumption DEF Start, FirstStep
  <2>2. /\ pc' = [pc EXCEPT ![a] = FirstStep(r.kind)]
        /\ UNCHANGED <<disk, served, rset, rcat, page>>
    BY <1>1 DEF Start
  <2> QED
    BY <2>1, <2>2
<1>2. ASSUME NEW a \in Admins, Fails(a) \/ NotFound(a) \/ Refused(a)
      PROVE  Matched' /\ ServedTogether'
  <2>1. Return(a) /\ UNCHANGED <<disk, served, page, kept>>
    BY <1>2 DEF Fails, NotFound, Refused
  <2> QED
    BY <2>1
<1>3. ASSUME NEW a \in Admins, \/ Look(a) \/ Edit(a) \/ Truncate(a)
                               \/ Write(a) \/ RemoveBundle(a)
                               \/ ClearTarget(a) \/ Activate(a)
                               \/ LoadSettings(a)
      PROVE  Matched' /\ ServedTogether'
  <2>1. \E place \in PCs \ {"publish"} : pc' = [pc EXCEPT ![a] = place]
    BY <1>3 DEF Look, Edit, Truncate, Write, RemoveBundle, ClearTarget,
                Activate, LoadSettings
  <2>2. /\ UNCHANGED served
        /\ \A b \in Admins \ {a} : rset'[b] = rset[b] /\ rcat'[b] = rcat[b]
    BY <1>3 DEF Look, Edit, Truncate, Write, RemoveBundle, ClearTarget,
                Activate, LoadSettings
  <2> QED
    BY <2>1, <2>2
<1>4. ASSUME NEW a \in Admins, LoadCatalog(a)
      PROVE  Matched' /\ ServedTogether'
  <2>1. rcat'[a].bundles = bundles /\ rset'[a] = rset[a]
    BY <1>4, CatalogType DEF LoadCatalog
  <2>2. rcat'[a] = CatalogOf(rset'[a], rcat'[a].bundles)
    BY <1>4, <2>1 DEF LoadCatalog
  <2> QED
    BY <1>4, <2>2 DEF LoadCatalog
<1>5. ASSUME NEW a \in Admins, Publish(a)
      PROVE  Matched' /\ ServedTogether'
  <2>1. /\ pc[a] = "publish" /\ Return(a) /\ UNCHANGED <<disk, page>>
        /\ store' = rset[a] /\ catalog' = rcat[a]
        /\ templates' = rcat[a].theme
    BY <1>5 DEF Publish, ReplaceRuntime
  <2> QED
    BY <2>1
<1>6. ASSUME Restart
      PROVE  Matched' /\ ServedTogether'
  <2>1. file \in Settings
    BY <1>6 DEF Restart, Loadable
  <2>2. /\ CatalogOf(file, bundles).bundles = bundles
        /\ CatalogOf(file, bundles).theme = ActiveTheme(file, bundles)
    BY <2>1, CatalogType
  <2>3. /\ store' = file
        /\ catalog' = CatalogOf(file, bundles)
        /\ templates' = ActiveTheme(file, bundles)
        /\ pc' = [a \in Admins |-> "idle"]
    BY <1>6 DEF Restart
  <2> QED
    BY <2>2, <2>3
<1>7. ASSUME NEW v \in Viewers,
             \/ TakeStore(v) \/ TakeCatalog(v) \/ TakeTemplates(v) \/ Shown(v)
      PROVE  Matched' /\ ServedTogether'
  <2>1. UNCHANGED <<served, locals>>
    BY <1>7 DEF TakeStore, TakeCatalog, TakeTemplates, Shown
  <2> QED
    BY <2>1
<1>8. CASE UNCHANGED vars
  BY <1>8 DEF vars
<1> QED
  BY <1>1, <1>2, <1>3, <1>4, <1>5, <1>6, <1>7, <1>8 DEF Next, Step, Faults

(* Types and what is served, in one step.                                  *)
LEMMA IInvStep == IInv /\ [Next \/ Faults]_vars => IInv'
BY TypeStep, ServedStep DEF IInv

(* The type invariant, with failing requests and restarts: which request   *)
(* is at which step of its handler.                                        *)
THEOREM TypeCorrect == FaultSpec => []TypeOK
<1>1. FaultSpec => []IInv
  BY InitIInv, IInvStep, PTL DEF FaultSpec
<1> QED
  BY <1>1, PTL DEF IInv

(* reloadRuntime's snapshot: the store, the catalog and the templates that *)
(* are served at any time were made for each other.                        *)
THEOREM Together == FaultSpec => []ServedTogether
<1>1. FaultSpec => []IInv
  BY InitIInv, IInvStep, PTL DEF FaultSpec
<1> QED
  BY <1>1, PTL DEF IInv

(* The theme served comes from a bundle of the catalog served with it, or  *)
(* is the built-in one.                                                    *)
THEOREM ServedThemeInstalled == FaultSpec => []ThemeInstalled
<1>1. ServedTogether => ThemeInstalled
  BY ThemeFound DEF ServedTogether, ThemeInstalled
<1> QED
  BY <1>1, Together, PTL

-----------------------------------------------------------------------------
(* Settings that have what was acknowledged.                               *)
Keeps(s) == \A f \in Fields : kept[f] \in Values => s.fields[f] = kept[f]

Readable == file \notin {Empty, Garbled}

(* With one request at a time, what it holds has what was acknowledged,    *)
(* and from its edit on, what it holds, and then the file, has the value   *)
(* it was sent; which is not acknowledged before it is served.             *)
OneEditor(a) ==
    /\ pc[a] # "idle" /\ req[a].kind = "edit" => kept[req[a].field] \notin Values
    /\ pc[a] \in {"truncate", "write", "catalog", "publish"} =>
          /\ Keeps(rset[a])
          /\ req[a].kind = "edit" => rset[a].fields[req[a].field] = req[a].value
    /\ pc[a] \in {"settings", "catalog", "publish"} /\ req[a].kind = "edit" =>
          (Readable => file.fields[req[a].field] = req[a].value)

EditInv ==
    /\ Keeps(store)
    /\ Readable => Keeps(file)
    /\ \A a \in Admins : OneEditor(a)

(* A new value is put into the settings that are served; everything else   *)
(* stays as it is there.                                                   *)
LEMMA NewFields ==
    ASSUME TypeOK, NEW a \in Admins, req[a] # None, req[a].kind # "install"
    PROVE  /\ \A f \in Fields : \/ req[a].kind = "edit" /\ f = req[a].field
                               \/ NewSettings(a).fields[f] = store.fields[f]
           /\ req[a].kind = "edit" =>
                 NewSettings(a).fields[req[a].field] = req[a].value
<1>1. req[a] \in Reqs /\ store \in Settings
  BY DEF TypeOK
<1>2. CASE req[a].kind = "edit"
  BY <1>1, <1>2 DEF Reqs, Settings, NewSettings, Edited
<1>3. CASE req[a].kind = "apply"
  BY <1>1, <1>3 DEF Reqs, Settings, NewSettings, Applied
<1>4. CASE req[a].kind = "delete"
  BY <1>1, <1>4 DEF Reqs, Settings, NewSettings, AfterDeleting
<1> QED
  BY <1>1, <1>2, <1>3, <1>4 DEF Reqs

(* With one administrator, nothing changes between the read of a request   *)
(* and its write.                                                          *)
LEMMA EditStep ==
    ASSUME \A a, b \in Admins : a = b, TypeOK, EditInv, [Next \/ Faults]_vars
    PROVE  EditInv'
<1> USE NoneAssumption DEF EditInv, Keeps, Readable, OneEditor
<1>1. ASSUME NEW a \in Admins, NEW r \in Reqs, Start(a, r) PROVE EditInv'
  <2>1. /\ pc' = [pc EXCEPT ![a] = FirstStep(r.kind)]
        /\ req' = [req EXCEPT ![a] = r]
        /\ UNCHANGED <<file, store, rset>>
    BY <1>1 DEF Start, Goto, disk, served
  <2>2. FirstStep(r.kind) \in {"edit", "look", "clear"}
    BY DEF FirstStep, Reqs
  <2>3. kept' = IF r.kind = "edit" THEN [kept EXCEPT ![r.field] = None] ELSE kept
    BY <1>1 DEF Start, Contender
  <2>4. r.kind = "edit" => r.field \in Fields
    BY DEF Reqs
  <2>5. \A f \in Fields : kept'[f] \in Values => kept'[f] = kept[f]
    BY <2>3, <2>4 DEF TypeOK
  <2>6. r.kind = "edit" => kept'[r.field] \notin Values
    BY <2>3, <2>4 DEF TypeOK
  <2>7. pc'[a] = FirstStep(r.kind) /\ req'[a] = r
    BY <2>1 DEF TypeOK
  <2> QED
    BY <2>1, <2>2, <2>5, <2>6, <2>7
<1>2. ASSUME NEW a \in Admins, Fails(a) \/ NotFound(a) \/ Refused(a)
      PROVE  EditInv'
  <2>1. pc' = [pc EXCEPT ![a] = "idle"] /\ UNCHANGED <<file, store, kept>>
    BY <1>2 DEF Fails, NotFound, Refused, Return, disk, served
  <2>2. \A b \in Admins : pc'[b] = "idle"
    BY <2>1 DEF TypeOK
  <2> QED
    BY <2>1, <2>2
<1>3. ASSUME NEW a \in Admins, Look(a) \/ RemoveBundle(a) \/ ClearTarget(a) \/ Activate(a)
      PROVE  EditInv'
  <2>1. /\ UNCHANGED <<file, store, kept, req, rset>>
        /\ pc' \in {[pc EXCEPT ![a] = "edit"], [pc EXCEPT ![a] = "settings"],
                    [pc EXCEPT ![a] = "activate"]}
        /\ pc[a] # "idle"
        /\ pc'[a] = "settings" => req[a].kind # "edit"
    BY <1>3 DEF Look, RemoveBundle, ClearTarget, Activate, Goto, disk, served, TypeOK
  <2>2. pc'[a] \in {"edit", "settings", "activate"}
    BY <2>1 DEF TypeOK
  <2> QED
    BY <2>1, <2>2
<1>4. ASSUME NEW a \in Admins, Edit(a) PROVE EditInv'
  <2>1. /\ UNCHANGED <<file, store, kept, req>> /\ pc[a] = "edit"
        /\ rset' = [rset EXCEPT ![a] = NewSettings(a)]
        /\ pc' \in {[pc EXCEPT ![a] = "remove"], [pc EXCEPT ![a] = "truncate"]}
    BY <1>4 DEF Edit, Goto, disk, served
  <2>2. req[a] # None /\ req[a].kind # "install"
    BY <2>1 DEF TypeOK
  <2>3. pc'[a] \in {"remove", "truncate"} /\ rset'[a] = NewSettings(a)
    BY <2>1 DEF TypeOK
  <2>4. \A f \in Fields : kept[f] \in Values => NewSettings(a).fields[f] = kept[f]
    BY <2>1, <2>2, NewFields
  <2> QED
    BY <2>1, <2>2, <2>3, <2>4, NewFields
<1>5. ASSUME NEW a \in Admins, Truncate(a) PROVE EditInv'
  <2>1. /\ UNCHANGED <<store, kept, req, rset>> /\ file' = Empty
        /\ pc[a] = "truncate" /\ pc'[a] = "write"
    BY <1>5 DEF Truncate, Goto, served, TypeOK
  <2> QED
    BY <2>1
<1>6. ASSUME NEW a \in Admins, Write(a) PROVE EditInv'
  <2>1. /\ UNCHANGED <<store, kept, req, rset>> /\ file' \in {rset[a], Garbled}
        /\ pc[a] = "write" /\ pc'[a] \in {"remove", "settings"}
    BY <1>6 DEF Write, Goto, served, TypeOK
  <2> QED
    BY <2>1
<1>7. ASSUME NEW a \in Admins, LoadSettings(a) PROVE EditInv'
  <2>1. /\ UNCHANGED <<file, store, kept, req>> /\ Readable /\ rset'[a] = file
        /\ pc[a] = "settings" /\ pc'[a] = "catalog"
    BY <1>7 DEF LoadSettings, Goto, disk, served, TypeOK
  <2> QED
    BY <2>1
<1>8. ASSUME NEW a \in Admins, LoadCatalog(a) PROVE EditInv'
  <2>1. /\ UNCHANGED <<file, store, kept, req, rset>>
        /\ pc[a] = "catalog" /\ pc'[a] = "publish"
    BY <1>8 DEF LoadCatalog, Goto, disk, served, TypeOK
  <2> QED
    BY <2>1
<1>9. ASSUME NEW a \in Admins, Publish(a) PROVE EditInv'
  <2>1. /\ pc[a] = "publish" /\ store' = rset[a] /\ file' = file
        /\ pc' = [pc EXCEPT ![a] = "idle"]
    BY <1>9 DEF Publish, ReplaceRuntime, Return, disk
  <2>2. \A b \in Admins : pc'[b] = "idle"
    BY <2>1 DEF TypeOK
  <2>3. \A f \in Fields : kept'[f] \in Values =>
           kept'[f] = kept[f] \/ (req[a].kind = "edit" /\ f = req[a].field
                                 /\ kept'[f] = req[a].value)
    BY <1>9 DEF Publish, TypeOK
  <2> QED
    BY <2>1, <2>2, <2>3
<1>10. CASE Restart
  <2>1. /\ store' = file /\ Readable /\ UNCHANGED <<file, kept>>
        /\ \A a \in Admins : pc'[a] = "idle"
    BY <1>10 DEF Restart, Loadable, disk
  <2> QED
    BY <2>1
<1>11. ASSUME NEW v \in Viewers,
              \/ TakeStore(v) \/ TakeCatalog(v) \/ TakeTemplates(v) \/ Shown(v)
       PROVE  EditInv'
  <2>1. UNCHANGED <<file, store, kept, pc, req, rset>>
    BY <1>11 DEF TakeStore, TakeCatalog, TakeTemplates, Shown, disk, served, locals
  <2> QED
    BY <2>1
<1>12. CASE UNCHANGED vars
  BY <1>12 DEF vars
<1> QED
  BY <1>1, <1>2, <1>3, <1>4, <1>5, <1>6, <1>7, <1>8, <1>9, <1>10, <1>11, <1>12
     DEF Next, Step, Faults

(* While requests come one at a time, a change that was acknowledged is in *)
(* settings.json after later changes of other parts, failures and restarts. *)
THEOREM EditsStay ==
    ASSUME \A a, b \in Admins : a = b
    PROVE  FaultSpec => []EditsKept
<1>1. Init => EditInv
  BY NoneAssumption DEF Init, EditInv, Keeps, Readable, OneEditor
<1>2. EditInv => EditsKept
  BY DEF EditInv, Keeps, Readable, EditsKept
<1>3. TypeOK /\ EditInv /\ [Next \/ Faults]_vars => EditInv'
  BY EditStep
<1> QED
  BY <1>1, <1>2, <1>3, TypeCorrect, PTL DEF FaultSpec

-----------------------------------------------------------------------------
(* While no reload is published, what a page has taken so far is what is   *)
(* served.                                                                 *)
Current(v) ==
    /\ vpc[v] # "store" => vset[v] = store
    /\ vpc[v] \in {"templates", "shown"} => vcat[v] = catalog
    /\ vpc[v] = "shown" => vtemplates[v] = templates

CalmInv == \A v \in Viewers : calm[v] => Current(v)

(* Requests do not touch the pages that are being rendered.                *)
LEMMA PageStep ==
    ASSUME [Next \/ Faults]_vars
    PROVE  \/ UNCHANGED page
           \/ \A v \in Viewers : TypeOK => vpc'[v] = "store"
           \/ \E v \in Viewers :
                 TakeStore(v) \/ TakeCatalog(v) \/ TakeTemplates(v) \/ Shown(v)
<1>1. CASE \E a \in Admins : Step(a) \/ Fails(a)
  BY <1>1 DEF Step, Look, NotFound, Edit, Truncate, Write, RemoveBundle, ClearTarget,
              Activate, LoadSettings, LoadCatalog, Publish, Refused, Fails
<1>2. CASE \E a \in Admins, r \in Reqs : Start(a, r)
  BY <1>2 DEF Start
<1>3. CASE Restart
  BY <1>3 DEF Restart
<1>4. CASE UNCHANGED vars
  BY <1>4 DEF vars, page
<1> QED
  BY <1>1, <1>2, <1>3, <1>4 DEF Next, Faults

(* While a page is calm no reload has been published, and what it has read *)
(* is what is served.                                                      *)
LEMMA CalmStep ==
    ASSUME TypeOK, CalmInv, [MCNext]_<<vars, calm>>
    PROVE  CalmInv'
<1> SUFFICES ASSUME NEW v \in Viewers, calm'[v] PROVE Current(v)'
  BY DEF CalmInv
<1>1. CASE UNCHANGED <<vars, calm>>
  BY <1>1 DEF vars, CalmInv, Current
<1>2. CASE MCNext /\ vpc'[v] = "store"
  BY <1>2 DEF Current
<1>3. CASE MCNext /\ vpc'[v] # "store"
  <2>1. calm[v] /\ store' = store /\ catalog' = catalog /\ templates' = templates
    BY <1>3 DEF MCNext, served
  <2>2. Current(v)
    BY <2>1 DEF CalmInv
  <2>3. CASE UNCHANGED page
    BY <2>1, <2>2, <2>3 DEF page, Current
  <2>4. ASSUME NEW w \in Viewers, TakeStore(w) PROVE Current(v)'
    BY <2>1, <2>2, <2>4 DEF TakeStore, Current, TypeOK
  <2>5. ASSUME NEW w \in Viewers, TakeCatalog(w) PROVE Current(v)'
    BY <2>1, <2>2, <2>5 DEF TakeCatalog, Current, TypeOK
  <2>6. ASSUME NEW w \in Viewers, TakeTemplates(w) PROVE Current(v)'
    BY <2>1, <2>2, <2>6 DEF TakeTemplates, Current, TypeOK
  <2>7. ASSUME NEW w \in Viewers, Shown(w) PROVE Current(v)'
    BY <1>3, <2>1, <2>2, <2>7 DEF Shown, Current, TypeOK
  <2>8. [Next \/ Faults]_vars
    BY <1>3 DEF MCNext
  <2> QED
    BY <1>3, <2>3, <2>4, <2>5, <2>6, <2>7, <2>8, PageStep
<1> QED
  BY <1>1, <1>2, <1>3

(* A page during whose rendering no reload was published is made of one    *)
(* load: its settings, the packs they select, and those packs' templates.  *)
THEOREM CalmPagesWhole == MCSpec => []PagesWhole
<1>1. MCInit => IInv /\ CalmInv
  BY InitIInv DEF MCInit, Init, CalmInv, Current
<1>2. IInv /\ CalmInv /\ [MCNext]_<<vars, calm>> => (IInv /\ CalmInv)'
  <2>1. [MCNext]_<<vars, calm>> => [Next \/ Faults]_vars
    BY DEF MCNext
  <2> QED
    BY <2>1, IInvStep, CalmStep DEF IInv
<1>3. IInv /\ CalmInv => PagesWhole
  BY DEF IInv, CalmInv, Current, ServedTogether, PagesWhole, WholePage
<1> QED
  BY <1>1, <1>2, <1>3, PTL DEF MCSpec


(* Where, for sequences of any length. The library's induction theorems    *)
(* cannot be cited, so induction is over a set of numbers that has a least *)
(* one of those it lacks.                                                  *)
LEMMA LeastNumber ==
    ASSUME NEW numbers, numbers \in SUBSET Nat, numbers # {}
    PROVE  \E num \in numbers : \A m \in numbers : num <= m
<1>1. PICK k \in numbers : TRUE
  OBVIOUS
<1> DEFINE S == 0..k
           T == {0..num : num \in {num \in numbers : num <= k}}
<1>2. IsFiniteSet(S)
  BY FS_Interval
<1>3. T \subseteq FiniteSubsetsOf(S) /\ T # {}
  <2>1. ASSUME NEW num \in numbers, num <= k PROVE 0..num \in SUBSET S /\ IsFiniteSet(0..num)
    BY <2>1, FS_Interval
  <2>2. 0..k \in T
    OBVIOUS
  <2> QED BY <2>1, <2>2 DEF FiniteSubsetsOf
<1>4. PICK x \in T : \A y \in T : <<y, x>> \notin StrictSubsetOrdering(S)
  <2> HIDE DEF S, T
  <2> QED BY <1>2, <1>3, FS_StrictSubsetOrderingWellFounded, WFMin
<1>5. PICK num \in numbers : num <= k /\ x = 0..num
  BY <1>4
<1>6. ASSUME NEW m \in numbers PROVE num <= m
  <2> SUFFICES ASSUME m < num PROVE FALSE
    OBVIOUS
  <2>1. 0..m \in T /\ 0..m \in SUBSET S /\ 0..num \in SUBSET S
    BY <1>5
  <2>2. 0..m \subseteq 0..num /\ num \in 0..num /\ num \notin 0..m
    OBVIOUS
  <2>3. <<0..m, 0..num>> \in StrictSubsetOrdering(S)
    BY <2>1, <2>2 DEF StrictSubsetOrdering
  <2> QED BY <2>1, <2>3, <1>4, <1>5
<1> QED BY <1>6

(* Induction: a set of numbers with 0 and every successor has them all.    *)
LEMMA Counting ==
    ASSUME NEW ns, 0 \in ns, \A k \in Nat : k \in ns => k + 1 \in ns
    PROVE  Nat \subseteq ns
<1> SUFFICES ASSUME Nat \ ns # {} PROVE FALSE
  OBVIOUS
<1>1. PICK num \in Nat \ ns : \A m \in Nat \ ns : num <= m
  <2>1. Nat \ ns \in SUBSET Nat
    OBVIOUS
  <2> QED BY <2>1, LeastNumber
<1>2. num # 0 /\ num - 1 \in Nat
  BY <1>1
<1>3. num - 1 \in ns
  BY <1>1, <1>2
<1> QED BY <1>1, <1>2, <1>3

(* What r becomes, turn by turn.                                           *)
Turned(r, num, base, steps) == r[0] = base /\ \A k \in 1..num : r[k] = steps[k][r[k - 1]]

(* A recursive function is there: made for one index after the other.      *)
LEMMA RecursionExists ==
    ASSUME NEW num \in Nat, NEW D, NEW base \in D, NEW steps \in [1..num -> [D -> D]]
    PROVE  \E r \in [0..num -> D] : Turned(r, num, base, steps)
<1> DEFINE Made(r, m) == \A k \in 0..m : r[k] = IF k = 0 THEN base ELSE steps[k][r[k - 1]]
           ns == {m \in Nat : m <= num => \E r \in [0..m -> D] : Made(r, m)}
<1>1. 0 \in ns
  <2> DEFINE r == [k \in 0..0 |-> base]
  <2>1. r \in [0..0 -> D] /\ Made(r, 0)
    OBVIOUS
  <2> QED BY <2>1
<1>2. ASSUME NEW m \in Nat, m \in ns PROVE m + 1 \in ns
  <2> SUFFICES ASSUME m + 1 <= num PROVE \E r \in [0..m + 1 -> D] : Made(r, m + 1)
    OBVIOUS
  <2>1. PICK g \in [0..m -> D] : Made(g, m)
    BY <1>2
  <2> DEFINE r == [k \in 0..m + 1 |-> IF k = m + 1 THEN steps[m + 1][g[m]] ELSE g[k]]
  <2>2. steps[m + 1] \in [D -> D] /\ g[m] \in D
    OBVIOUS
  <2>3. r \in [0..m + 1 -> D]
    BY <2>2
  <2>4. ASSUME NEW k \in 0..m + 1
        PROVE  r[k] = IF k = 0 THEN base ELSE steps[k][r[k - 1]]
    <3>1. CASE k = m + 1
      BY <3>1
    <3>2. CASE k # m + 1
      <4>1. k \in 0..m /\ r[k] = g[k] /\ (k # 0 => k - 1 \in 0..m /\ r[k - 1] = g[k - 1])
        BY <3>2
      <4> HIDE DEF r
      <4> QED BY <2>1, <4>1
    <3> QED BY <3>1, <3>2
  <2> QED BY <2>3, <2>4
<1>3. Nat \subseteq ns
  <2> HIDE DEF ns
  <2> QED BY <1>1, <1>2, Counting
<1>4. num \in ns
  <2> HIDE DEF ns
  <2> QED BY <1>3
<1>5. PICK r \in [0..num -> D] : Made(r, num)
  BY <1>4
<1>6. r[0] = base /\ \A k \in 1..num : r[k] = steps[k][r[k - 1]]
  <2>1. 0 \in 0..num /\ \A k \in 1..num : k \in 0..num /\ k # 0
    OBVIOUS
  <2> QED BY <1>5, <2>1
<1> QED BY <1>6 DEF Turned

(* Where goes through a sequence from the first element to the last.       *)
TakesEach(r, s, num, S) ==
    /\ r[0] = <<>>
    /\ \A k \in 1..num : r[k] = IF s[k] \in S THEN Append(r[k - 1], s[k]) ELSE r[k - 1]
    /\ Where(s, S) = r[num]

LEMMA WhereTurns ==
    ASSUME NEW X, NEW s \in Seq(X), NEW S
    PROVE  \E r \in [0..Len(s) -> Seq(X)] : TakesEach(r, s, Len(s), S)
<1> DEFINE num == Len(s)
           D == Seq(X)
           steps == [i \in 1..num |-> [t \in D |-> IF s[i] \in S THEN Append(t, s[i]) ELSE t]]
           f == CHOOSE h : h = [k \in 0..num |-> IF k = 0 THEN <<>>
                                               ELSE IF s[k] \in S THEN Append(h[k - 1], s[k])
                                               ELSE h[k - 1]]
<1>1. num \in Nat /\ \A i \in 1..num : s[i] \in X
  OBVIOUS
<1>2. steps \in [1..num -> [D -> D]] /\ <<>> \in D
  <2>1. \A i \in 1..num : \A t \in D : Append(t, s[i]) \in D
    BY <1>1, AppendProperties
  <2>2. <<>> \in D
    OBVIOUS
  <2> HIDE DEF num, D
  <2> QED BY <2>1, <2>2
<1>3. PICK r \in [0..num -> D] : Turned(r, num, <<>>, steps)
  <2> HIDE DEF num, D, steps
  <2> QED BY <1>1, <1>2, RecursionExists
<1>4. \A k \in 1..num : r[k] = IF s[k] \in S THEN Append(r[k - 1], s[k]) ELSE r[k - 1]
  <2> HIDE DEF D, num, f
  <2>1. \A k \in 1..num : k - 1 \in 0..num
    BY <1>1
  <2>2. \A k \in 1..num : r[k - 1] \in D
    BY <2>1
  <2> QED BY <1>3, <2>2 DEF Turned
<1>5. \E h : h = [k \in 0..num |-> IF k = 0 THEN <<>>
                                ELSE IF s[k] \in S THEN Append(h[k - 1], s[k]) ELSE h[k - 1]]
  <2>1. DOMAIN r = 0..num /\ \A k \in 0..num : k # 0 => k \in 1..num
    BY <1>1
  <2>2. r = [k \in 0..num |-> IF k = 0 THEN <<>>
                            ELSE IF s[k] \in S THEN Append(r[k - 1], s[k]) ELSE r[k - 1]]
    <3> HIDE DEF D, num, steps
    <3> QED BY <1>3, <1>4, <2>1 DEF Turned
  <2> QED BY <2>2, Zenon
<1>6. f = [k \in 0..num |-> IF k = 0 THEN <<>>
                          ELSE IF s[k] \in S THEN Append(f[k - 1], s[k]) ELSE f[k - 1]]
  <2> HIDE DEF num
  <2> QED BY <1>5
<1>7. Where(s, S) = f[num]
  BY DEF Where
<1> HIDE DEF f
<1>8. f[0] = <<>> /\ \A k \in 1..num : f[k] = IF s[k] \in S THEN Append(f[k - 1], s[k]) ELSE f[k - 1]
  <2>1. 0 \in 0..num /\ \A k \in 1..num : k \in 0..num /\ k # 0
    BY <1>1
  <2> HIDE DEF num
  <2> QED BY <1>6, <2>1
<1> HIDE DEF num, D, steps
<1> DEFINE ns == {k \in Nat : k <= num => f[k] = r[k]}
<1>9. 0 \in ns
  BY <1>3, <1>8 DEF Turned
<1>10. ASSUME NEW k \in Nat, k \in ns PROVE k + 1 \in ns
  <2> SUFFICES ASSUME k + 1 <= num PROVE f[k + 1] = r[k + 1]
    OBVIOUS
  <2>1. k + 1 \in 1..num /\ (k + 1) - 1 = k /\ f[k] = r[k]
    BY <1>1, <1>10
  <2> QED BY <1>4, <1>8, <2>1
<1>11. f[num] = r[num]
  <2>1. Nat \subseteq ns
    <3> HIDE DEF ns
    <3> QED BY <1>9, <1>10, Counting
  <2> QED BY <1>1, <2>1
<1> QED
  BY <1>3, <1>4, <1>7, <1>11 DEF num, D, Turned, TakesEach

(* Induction over sequences: a set with <<>> and every longer sequence.    *)
LEMMA Lengthening ==
    ASSUME NEW X, NEW T, <<>> \in T,
           \A s \in Seq(X) : \A x \in X : s \in T => Append(s, x) \in T
    PROVE  Seq(X) \subseteq T
<1> DEFINE ns == {num \in Nat : \A s \in Seq(X) : Len(s) = num => s \in T}
<1>1. 0 \in ns
  <2>1. \A s \in Seq(X) : Len(s) = 0 => s = <<>>
    OBVIOUS
  <2> QED BY <2>1
<1>2. ASSUME NEW num \in Nat, num \in ns PROVE num + 1 \in ns
  <2> SUFFICES ASSUME NEW s \in Seq(X), Len(s) = num + 1 PROVE s \in T
    OBVIOUS
  <2> DEFINE front == SubSeq(s, 1, num)
  <2>1. front \in Seq(X) /\ Len(front) = num /\ \A i \in 1..num : front[i] = s[i]
    BY SubSeqProperties
  <2>2. s[num + 1] \in X
    OBVIOUS
  <2>3. s = Append(front, s[num + 1])
    <3> DEFINE t == Append(front, s[num + 1])
    <3>1. t \in Seq(X) /\ Len(t) = num + 1 /\ t[num + 1] = s[num + 1] /\ \A i \in 1..num : t[i] = front[i]
      <4> HIDE DEF front
      <4> QED BY <2>1, <2>2, AppendProperties
    <3>2. \A i \in 1..num + 1 : i \in 1..num \/ i = num + 1
      OBVIOUS
    <3>3. \A i \in 1..Len(s) : s[i] = t[i]
      <4> HIDE DEF t, front
      <4> QED BY <2>1, <3>1, <3>2
    <3> HIDE DEF t
    <3> QED BY <3>1, <3>3, SeqEqual
  <2>4. front \in T
    <3> HIDE DEF front
    <3> QED BY <1>2, <2>1
  <2> HIDE DEF front
  <2> QED BY <2>1, <2>2, <2>3, <2>4
<1>3. Nat \subseteq ns
  <2> HIDE DEF ns
  <2> QED BY <1>1, <1>2, Counting
<1>4. \A s \in Seq(X) : Len(s) \in Nat
  OBVIOUS
<1> QED BY <1>3, <1>4

(* Where, from one element to the next.                                    *)
LEMMA WhereNothing ==
    ASSUME NEW S PROVE Where(<<>>, S) = <<>>
<1>1. <<>> \in Seq({}) /\ Len(<<>>) = 0
  OBVIOUS
<1>2. PICK r \in [0..Len(<<>>) -> Seq({})] : TakesEach(r, <<>>, Len(<<>>), S)
  BY <1>1, WhereTurns
<1> QED BY <1>1, <1>2 DEF TakesEach

LEMMA WhereTyped ==
    ASSUME NEW X, NEW s \in Seq(X), NEW S PROVE Where(s, S) \in Seq(X)
<1>1. PICK r \in [0..Len(s) -> Seq(X)] : TakesEach(r, s, Len(s), S)
  BY WhereTurns
<1>2. Len(s) \in 0..Len(s)
  OBVIOUS
<1> QED BY <1>1, <1>2 DEF TakesEach

LEMMA WhereNext ==
    ASSUME NEW X, NEW s \in Seq(X), NEW x \in X, NEW S
    PROVE  Where(Append(s, x), S) =
              IF x \in S THEN Append(Where(s, S), x) ELSE Where(s, S)
<1> DEFINE num == Len(s)
           t == Append(s, x)
<1>1. /\ num \in Nat /\ t \in Seq(X) /\ Len(t) = num + 1
      /\ \A i \in 1..num : t[i] = s[i]
      /\ t[num + 1] = x
  BY AppendProperties
<1>2. PICK r \in [0..num -> Seq(X)] : TakesEach(r, s, num, S)
  BY WhereTurns
<1> HIDE DEF t, num
<1>3. PICK q \in [0..num + 1 -> Seq(X)] : TakesEach(q, t, num + 1, S)
  <2>1. PICK q \in [0..Len(t) -> Seq(X)] : TakesEach(q, t, Len(t), S)
    BY <1>1, WhereTurns
  <2> QED BY <1>1, <2>1
<1> DEFINE ns == {k \in Nat : k <= num => q[k] = r[k]}
<1>4. 0 \in ns
  BY <1>2, <1>3 DEF TakesEach
<1>5. ASSUME NEW k \in Nat, k \in ns PROVE k + 1 \in ns
  <2> SUFFICES ASSUME k + 1 <= num PROVE q[k + 1] = r[k + 1]
    OBVIOUS
  <2>1. k + 1 \in 1..num /\ k + 1 \in 1..num + 1 /\ (k + 1) - 1 = k /\ q[k] = r[k]
    BY <1>1, <1>5
  <2>2. t[k + 1] = s[k + 1]
    BY <1>1, <2>1
  <2>3. r[k + 1] = IF s[k + 1] \in S THEN Append(r[k], s[k + 1]) ELSE r[k]
    BY <1>2, <2>1 DEF TakesEach
  <2>4. q[k + 1] = IF t[k + 1] \in S THEN Append(q[k], t[k + 1]) ELSE q[k]
    BY <1>3, <2>1 DEF TakesEach
  <2> QED BY <2>1, <2>2, <2>3, <2>4
<1>6. q[num] = r[num]
  <2>1. Nat \subseteq ns
    <3> HIDE DEF ns
    <3> QED BY <1>4, <1>5, Counting
  <2> QED BY <1>1, <2>1
<1>7. num + 1 \in 1..num + 1 /\ (num + 1) - 1 = num /\ num \in 0..num
  BY <1>1
<1>8. Where(t, S) = IF x \in S THEN Append(Where(s, S), x) ELSE Where(s, S)
  BY <1>1, <1>2, <1>3, <1>6, <1>7 DEF TakesEach
<1> QED BY <1>8 DEF t

(* What w has of s: what belongs there, all of it, and s if that is all.   *)
TakesAll(w, s, X, S) ==
    /\ w \in Seq(X \cap S)
    /\ \A i \in 1..Len(s) : s[i] \in S => \E j \in 1..Len(w) : w[j] = s[i]
    /\ (\A i \in 1..Len(s) : s[i] \in S) => w = s

LEMMA WhereTakes ==
    ASSUME NEW X, NEW s \in Seq(X), NEW S
    PROVE  TakesAll(Where(s, S), s, X, S)
<1> DEFINE T == {t \in Seq(X) : TakesAll(Where(t, S), t, X, S)}
<1>1. <<>> \in T
  <2>1. Where(<<>>, S) = <<>>
    BY WhereNothing
  <2>2. <<>> \in Seq(X) /\ <<>> \in Seq(X \cap S) /\ 1..Len(<<>>) = {}
    OBVIOUS
  <2> QED BY <2>1, <2>2 DEF TakesAll
<1>2. ASSUME NEW t \in Seq(X), NEW x \in X, t \in T PROVE Append(t, x) \in T
  <2> DEFINE u == Append(t, x)
             w == Where(t, S)
  <2>1. /\ u \in Seq(X) /\ Len(t) \in Nat /\ Len(u) = Len(t) + 1
        /\ \A i \in 1..Len(t) : u[i] = t[i]
        /\ u[Len(t) + 1] = x
        /\ \A i \in 1..Len(u) : i \in 1..Len(t) \/ i = Len(t) + 1
    BY AppendProperties
  <2>2. Where(u, S) = IF x \in S THEN Append(w, x) ELSE w
    BY WhereNext
  <2>3. /\ w \in Seq(X \cap S)
        /\ \A i \in 1..Len(t) : t[i] \in S => \E j \in 1..Len(w) : w[j] = t[i]
        /\ (\A i \in 1..Len(t) : t[i] \in S) => w = t
    BY <1>2 DEF TakesAll
  <2> HIDE DEF u, w
  <2>4. ASSUME x \in S PROVE TakesAll(Where(u, S), u, X, S)
    <3>1. /\ Append(w, x) \in Seq(X \cap S) /\ Len(Append(w, x)) = Len(w) + 1 /\ Len(w) \in Nat
          /\ \A j \in 1..Len(w) : Append(w, x)[j] = w[j]
          /\ Append(w, x)[Len(w) + 1] = x
          /\ \A j \in 1..Len(w) : j \in 1..Len(w) + 1
          /\ Len(w) + 1 \in 1..Len(w) + 1
      BY <2>3, <2>4, AppendProperties
    <3>2. ASSUME NEW i \in 1..Len(u), u[i] \in S
          PROVE  \E j \in 1..Len(w) + 1 : Append(w, x)[j] = u[i]
      <4>1. CASE i \in 1..Len(t)
        <5>1. PICK j \in 1..Len(w) : w[j] = t[i]
          BY <2>1, <2>3, <3>2, <4>1
        <5> QED BY <2>1, <3>1, <4>1, <5>1
      <4>2. CASE i = Len(t) + 1
        BY <2>1, <3>1, <4>2
      <4> QED BY <2>1, <4>1, <4>2
    <3>3. ASSUME \A i \in 1..Len(u) : u[i] \in S PROVE Append(w, x) = u
      <4>1. \A i \in 1..Len(t) : i \in 1..Len(u)
        BY <2>1
      <4>2. w = t
        BY <2>1, <2>3, <3>3, <4>1
      <4> QED BY <4>2 DEF u
    <3>4. Where(u, S) = Append(w, x)
      BY <2>2, <2>4
    <3> QED BY <2>1, <3>1, <3>2, <3>3, <3>4 DEF TakesAll
  <2>5. ASSUME x \notin S PROVE TakesAll(Where(u, S), u, X, S)
    <3>1. ASSUME NEW i \in 1..Len(u), u[i] \in S
          PROVE  \E j \in 1..Len(w) : w[j] = u[i]
      <4>1. i \in 1..Len(t) /\ u[i] = t[i]
        BY <2>1, <2>5, <3>1
      <4> QED BY <2>3, <3>1, <4>1
    <3>2. Len(t) + 1 \in 1..Len(u) /\ u[Len(t) + 1] \notin S
      BY <2>1, <2>5
    <3>3. Where(u, S) = w
      BY <2>2, <2>5
    <3> QED BY <2>1, <2>3, <3>1, <3>2, <3>3 DEF TakesAll
  <2>6. u \in T
    BY <2>1, <2>4, <2>5
  <2> QED BY <2>6 DEF u
<1>3. Seq(X) \subseteq T
  <2> HIDE DEF T
  <2> QED BY <1>1, <1>2, Lengthening
<1> QED BY <1>3

(* What is taken was there,                                                *)
LEMMA WhereFrom ==
    ASSUME NEW X, NEW s \in Seq(X), NEW S
    PROVE  \A j \in 1..Len(Where(s, S)) :
              /\ Where(s, S)[j] \in S
              /\ \E i \in 1..Len(s) : Where(s, S)[j] = s[i]
<1> DEFINE Y == {s[i] : i \in 1..Len(s)}
           w == Where(s, S)
<1>1. s \in Seq(Y)
  <2>1. \A i \in 1..Len(s) : s[i] \in Y
    OBVIOUS
  <2> HIDE DEF Y
  <2> QED BY <2>1, SeqDef
<1>2. w \in Seq(Y \cap S)
  <2> HIDE DEF Y
  <2>1. TakesAll(w, s, Y, S)
    BY <1>1, WhereTakes
  <2> QED BY <2>1 DEF TakesAll
<1>3. \A j \in 1..Len(w) : w[j] \in Y \cap S
  <2> HIDE DEF Y, w
  <2> QED BY <1>2, ElementOfSeq
<1> HIDE DEF w
<1> QED BY <1>3 DEF w

(* as often as it was there.                                               *)
Unlike(s) == \A i, j \in 1..Len(s) : s[i] = s[j] => i = j

LEMMA UnlikeNext ==
    ASSUME NEW X, NEW s \in Seq(X), NEW x \in X
    PROVE  Unlike(Append(s, x)) <=> Unlike(s) /\ \A i \in 1..Len(s) : s[i] # x
<1> DEFINE t == Append(s, x)
<1>1. /\ Len(s) \in Nat /\ Len(t) = Len(s) + 1
      /\ \A i \in 1..Len(s) : t[i] = s[i]
      /\ t[Len(s) + 1] = x
  BY AppendProperties
<1> HIDE DEF t
<1>2. /\ \A i \in 1..Len(s) : i \in 1..Len(t) /\ i # Len(s) + 1
      /\ Len(s) + 1 \in 1..Len(t)
      /\ \A i \in 1..Len(t) : i \in 1..Len(s) \/ i = Len(s) + 1
  BY <1>1
<1>3. ASSUME Unlike(t) PROVE Unlike(s) /\ \A i \in 1..Len(s) : s[i] # x
  BY <1>1, <1>2, <1>3 DEF Unlike
<1>4. ASSUME Unlike(s), \A i \in 1..Len(s) : s[i] # x PROVE Unlike(t)
  <2> SUFFICES ASSUME NEW i \in 1..Len(t), NEW j \in 1..Len(t), t[i] = t[j] PROVE i = j
    BY DEF Unlike
  <2>1. CASE i \in 1..Len(s) /\ j \in 1..Len(s)
    BY <1>1, <1>4, <2>1 DEF Unlike
  <2>2. CASE i \in 1..Len(s) /\ j = Len(s) + 1
    BY <1>1, <1>4, <2>2
  <2>3. CASE i = Len(s) + 1 /\ j \in 1..Len(s)
    BY <1>1, <1>4, <2>3
  <2> QED BY <1>2, <2>1, <2>2, <2>3
<1> QED BY <1>3, <1>4 DEF t

LEMMA WhereUnlike ==
    ASSUME NEW X, NEW s \in Seq(X), NEW S, Unlike(s)
    PROVE  Unlike(Where(s, S))
<1> DEFINE T == {u \in Seq(X) : Unlike(u) => Unlike(Where(u, S))}
<1>1. <<>> \in T
  <2>1. Where(<<>>, S) = <<>> /\ <<>> \in Seq(X)
    BY WhereNothing
  <2> QED BY <2>1
<1>2. ASSUME NEW u \in Seq(X), NEW x \in X, u \in T PROVE Append(u, x) \in T
  <2>1. Append(u, x) \in Seq(X) /\ Where(u, S) \in Seq(X)
    BY WhereTyped, AppendProperties
  <2>2. Where(Append(u, x), S) = IF x \in S THEN Append(Where(u, S), x) ELSE Where(u, S)
    BY WhereNext
  <2>3. Unlike(u) => Unlike(Where(u, S))
    BY <1>2
  <2> HIDE DEF T
  <2>4. Unlike(Append(u, x)) <=> Unlike(u) /\ \A i \in 1..Len(u) : u[i] # x
    BY UnlikeNext
  <2>5. Unlike(Append(Where(u, S), x)) <=>
           Unlike(Where(u, S)) /\ \A i \in 1..Len(Where(u, S)) : Where(u, S)[i] # x
    BY <2>1, UnlikeNext
  <2>6. \A j \in 1..Len(Where(u, S)) : \E i \in 1..Len(u) : Where(u, S)[j] = u[i]
    BY WhereFrom
  <2>7. Unlike(Append(u, x)) => Unlike(Where(Append(u, x), S))
    BY <2>2, <2>3, <2>4, <2>5, <2>6
  <2> QED BY <2>1, <2>7 DEF T
<1>3. Seq(X) \subseteq T
  <2> HIDE DEF T
  <2> QED BY <1>1, <1>2, Lengthening
<1> QED BY <1>3

-----------------------------------------------------------------------------
(* settings.json, for menus and sidebars of any length. The functions of   *)
(* SettingsFile go through their lists as Where does.                      *)
LEMMA StoredWhere == \A s, S : Stored!Where(s, S) = Where(s, S)
BY DEF Stored!Where, Where

LEMMA StoredToSet ==
    \A X : \A s \in Seq(X) : /\ Stored!ToSet(s) = {s[i] : i \in 1..Len(s)}
                             /\ s \in Seq(Stored!ToSet(s))
<1> SUFFICES ASSUME NEW X, NEW s \in Seq(X)
             PROVE  /\ Stored!ToSet(s) = {s[i] : i \in 1..Len(s)}
                    /\ s \in Seq(Stored!ToSet(s))
  OBVIOUS
<1>1. DOMAIN s = 1..Len(s) /\ Len(s) \in Nat /\ s \in [1..Len(s) -> X]
  BY LenProperties
<1>2. Stored!ToSet(s) = {s[i] : i \in 1..Len(s)}
  BY <1>1 DEF Stored!ToSet
<1> DEFINE T == {s[i] : i \in 1..Len(s)}
<1>3. \A i \in 1..Len(s) : s[i] \in T
  OBVIOUS
<1> HIDE DEF T
<1>4. s \in Seq(T)
  BY <1>1, <1>3, SeqDef
<1> QED BY <1>2, <1>4 DEF T

(* A list made of another, element by element.                             *)
LEMMA MadeOf ==
    ASSUME NEW X, NEW s \in Seq(X), NEW Y, NEW t, t \in [DOMAIN s -> Y]
    PROVE  /\ t \in Seq(Y) /\ Len(t) = Len(s) /\ DOMAIN s = 1..Len(s)
           /\ DOMAIN t = 1..Len(s) /\ Len(s) \in Nat
<1>1. DOMAIN s = 1..Len(s) /\ Len(s) \in Nat
  BY LenProperties
<1>2. t \in [1..Len(s) -> Y]
  BY <1>1
<1>3. t \in Seq(Y)
  BY <1>1, <1>2, SeqDef
<1>4. DOMAIN t = 1..Len(t) /\ Len(t) \in Nat
  BY <1>3, LenProperties
<1> QED BY <1>1, <1>2, <1>3, <1>4

LEMMA LargerSeq ==
    ASSUME NEW X, NEW Y, X \subseteq Y PROVE Seq(X) \subseteq Seq(Y)
<1> SUFFICES ASSUME NEW s \in Seq(X) PROVE s \in Seq(Y)
  OBVIOUS
<1>1. Len(s) \in Nat /\ s \in [1..Len(s) -> X]
  BY LenProperties
<1>2. s \in [1..Len(s) -> Y]
  BY <1>1
<1> QED BY <1>1, <1>2, SeqDef

-----------------------------------------------------------------------------
(* A link is normal if reading it again changes nothing.                   *)
LinksClean ==
    "" \notin SafeLinks /\ \A u \in DOMAIN HttpsLinks : HttpsLinks[u] \in SafeLinks

NormalLink(x)  == Stored!GoodLink(x) /\ Stored!CleanLink(x) = x
NormalLinks(s) == \E Y : s \in Seq(Y) /\ \A y \in Y : NormalLink(y)

LEMMA CleanTwice ==
    ASSUME LinksClean, NEW u
    PROVE  Stored!CleanURL(u) # "" => Stored!CleanURL(Stored!CleanURL(u)) = Stored!CleanURL(u)
BY DEF LinksClean, Stored!CleanURL

LEMMA LinkCleaned ==
    ASSUME LinksClean, NEW x, Stored!GoodLink(x)
    PROVE  /\ NormalLink(Stored!CleanLink(x))
           /\ Stored!CleanLink(x).type = Stored!LinkType(x.type)
<1> DEFINE y == Stored!CleanLink(x)
<1>1. /\ y.type = Stored!LinkType(x.type) /\ y.label = x.label /\ y.items = <<>>
      /\ y.target = IF x.type \in {"", "page", "post", "tag"} THEN x.target ELSE ""
      /\ y.url = IF x.type = "url" THEN Stored!CleanURL(x.url) ELSE ""
      /\ y = [type |-> y.type, label |-> y.label, target |-> y.target, url |-> y.url,
              items |-> y.items]
  BY DEF Stored!CleanLink
<1> HIDE DEF y
<1>2. x.type \in {"", "page", "post", "tag", "url"} \cup Stored!SiteLinks \cup {"tagindex"}
  BY DEF Stored!GoodLink, Stored!LinkType
<1>3. /\ x.type # "tagindex" => y.type = x.type
      /\ x.type = "tagindex" => y.type = "tags"
      /\ y.type # "tagindex" /\ Stored!LinkType(y.type) = y.type
  BY <1>1 DEF Stored!LinkType
<1>4. x.type = "url" => Stored!CleanURL(x.url) # ""
  BY DEF Stored!GoodLink, Stored!LinkType, Stored!SiteLinks
<1>5. x.type = "url" => Stored!CleanURL(y.url) = y.url /\ y.url # ""
  BY <1>1, <1>4, CleanTwice
<1>6. Stored!GoodLink(y)
  <2>1. CASE x.type = ""
    BY <1>1, <1>3, <2>1 DEF Stored!GoodLink, Stored!LinkType, Stored!SiteLinks
  <2>2. CASE x.type \in {"page", "post", "tag"}
    BY <1>1, <1>3, <2>2 DEF Stored!GoodLink, Stored!LinkType, Stored!SiteLinks
  <2>3. CASE x.type = "url"
    BY <1>3, <1>5, <2>3 DEF Stored!GoodLink
  <2>4. CASE x.type \in Stored!SiteLinks \cup {"tagindex"}
    BY <1>3, <2>4 DEF Stored!GoodLink, Stored!SiteLinks
  <2> QED BY <1>2, <2>1, <2>2, <2>3, <2>4
<1>7. /\ (IF y.type \in {"", "page", "post", "tag"} THEN y.target ELSE "") = y.target
      /\ (IF y.type = "url" THEN Stored!CleanURL(y.url) ELSE "") = y.url
  BY <1>1, <1>2, <1>3, <1>5 DEF Stored!SiteLinks
<1>8. Stored!CleanLink(y) = y
  BY <1>1, <1>3, <1>7 DEF Stored!CleanLink
<1> QED BY <1>1, <1>6, <1>8 DEF NormalLink, y

(* The types a normal link can have.                                       *)
LEMMA NormalTypes ==
    ASSUME NEW x, NormalLink(x)
    PROVE  x.type \in {"", "page", "post", "tag", "url"} \cup Stored!SiteLinks
<1>1. x.type \in {"", "page", "post", "tag", "url"} \cup Stored!SiteLinks \cup {"tagindex"}
  BY DEF NormalLink, Stored!GoodLink, Stored!LinkType
<1>2. x.type = Stored!LinkType(x.type)
  <2>1. Stored!CleanLink(x).type = Stored!LinkType(x.type)
    BY DEF Stored!CleanLink
  <2> QED BY <2>1 DEF NormalLink
<1> QED BY <1>1, <1>2 DEF Stored!LinkType

(* normalizeMenuItems leaves normal links, and leaves them alone.          *)
LEMMA LinksMade ==
    ASSUME LinksClean, NEW X, NEW s \in Seq(X)
    PROVE  LET Y == {Stored!CleanLink(x) : x \in {x \in X : Stored!GoodLink(x)}}
           IN Stored!Links(s) \in Seq(Y) /\ \A y \in Y : NormalLink(y)
<1> DEFINE G == {x \in X : Stored!GoodLink(x)}
           Y == {Stored!CleanLink(x) : x \in G}
           S == {x \in Stored!ToSet(s) : Stored!GoodLink(x)}
           w == Where(s, S)
           l == [i \in DOMAIN w |-> Stored!CleanLink(w[i])]
<1>1. Stored!Links(s) = l
  BY StoredWhere DEF Stored!Links, Stored!EachClean
<1>2. w \in Seq(X \cap S)
  <2> HIDE DEF S
  <2> QED BY WhereTakes DEF TakesAll
<1>3. X \cap S \subseteq G
  OBVIOUS
<1>4. w \in Seq(G)
  BY <1>2, <1>3, LargerSeq
<1> HIDE DEF w
<1>5. \A i \in DOMAIN w : w[i] \in G
  BY <1>4, LenProperties, ElementOfSeq
<1>6. l \in [DOMAIN w -> Y]
  <2> HIDE DEF G
  <2> QED BY <1>5
<1>7. l \in Seq(Y)
  <2> HIDE DEF l, Y, G
  <2> QED BY <1>4, <1>6, MadeOf
<1>8. \A x \in G : NormalLink(Stored!CleanLink(x))
  BY LinkCleaned
<1>9. \A y \in Y : NormalLink(y)
  BY <1>8
<1> QED BY <1>1, <1>7, <1>9

LEMMA LinksKept ==
    ASSUME NEW s, NormalLinks(s)
    PROVE  Stored!Links(s) = s
<1>1. PICK Y : s \in Seq(Y) /\ \A y \in Y : NormalLink(y)
  BY DEF NormalLinks
<1> DEFINE S == {x \in Stored!ToSet(s) : Stored!GoodLink(x)}
           w == Where(s, S)
           l == [i \in DOMAIN w |-> Stored!CleanLink(w[i])]
<1>2. Stored!Links(s) = l
  BY StoredWhere DEF Stored!Links, Stored!EachClean
<1>3. DOMAIN s = 1..Len(s) /\ Len(s) \in Nat /\ s \in [1..Len(s) -> Y]
  BY <1>1, LenProperties
<1>4. \A i \in 1..Len(s) : NormalLink(s[i])
  BY <1>1, <1>3
<1>5. \A i \in 1..Len(s) : s[i] \in S
  BY <1>3, <1>4 DEF NormalLink, Stored!ToSet
<1>6. w = s
  <2> HIDE DEF S
  <2>1. TakesAll(w, s, Y, S)
    BY <1>1, WhereTakes
  <2> QED BY <1>5, <2>1 DEF TakesAll
<1>7. l = [i \in 1..Len(s) |-> s[i]]
  <2> HIDE DEF w
  <2> QED BY <1>3, <1>4, <1>6 DEF NormalLink
<1>8. s = [i \in 1..Len(s) |-> s[i]]
  BY <1>3
<1> QED BY <1>2, <1>7, <1>8

(* Items with items of their own: records of a JSON file.                  *)
Branches(X, Z) ==
    \A x \in X : /\ x = [type |-> x.type, label |-> x.label, target |-> x.target,
                         url |-> x.url, items |-> x.items]
                 /\ x.items \in Seq(Z)

LEMMA MigratedType ==
    ASSUME NEW x, x = [type |-> x.type, label |-> x.label, target |-> x.target,
                       url |-> x.url, items |-> x.items]
    PROVE  Stored!Migrated(x).type = IF x.type = "custom" THEN "url" ELSE x.type
<1>1. CASE x.type = "custom"
  <2>1. Stored!Migrated(x) = [x EXCEPT !.type = "url"]
    BY <1>1 DEF Stored!Migrated
  <2> QED BY <1>1, <2>1
<1>2. CASE x.type # "custom"
  BY <1>2 DEF Stored!Migrated
<1> QED BY <1>1, <1>2

(* The same of links of older releases; a link from a list of them has a   *)
(* type.                                                                   *)
TypedLinks(s) == \E Y : s \in Seq(Y) /\ \A y \in Y : NormalLink(y) /\ y.type # ""

LEMMA OldLinksMade ==
    ASSUME LinksClean, NEW X, NEW s \in Seq(X)
    PROVE  LET M == {Stored!Migrated(x) : x \in X}
               Y == {Stored!CleanLink(x) : x \in {x \in M : Stored!GoodLink(x)}}
           IN Stored!OldLinks(s) \in Seq(Y) /\ \A y \in Y : NormalLink(y)
<1> DEFINE M == {Stored!Migrated(x) : x \in X}
           t == [i \in DOMAIN s |-> Stored!Migrated(s[i])]
<1>1. \A i \in DOMAIN s : s[i] \in X
  BY LenProperties, ElementOfSeq
<1>2. t \in [DOMAIN s -> M]
  BY <1>1
<1>3. t \in Seq(M)
  <2> HIDE DEF t, M
  <2> QED BY <1>2, MadeOf
<1>4. Stored!OldLinks(s) = Stored!Links(t)
  BY DEF Stored!OldLinks
<1> HIDE DEF M, t
<1> DEFINE Y == {Stored!CleanLink(x) : x \in {x \in M : Stored!GoodLink(x)}}
<1>5. Stored!Links(t) \in Seq(Y) /\ \A y \in Y : NormalLink(y)
  BY <1>3, LinksMade
<1> QED BY <1>4, <1>5 DEF M

LEMMA OldLinksNormal ==
    ASSUME LinksClean, NEW X, NEW s \in Seq(X)
    PROVE  NormalLinks(Stored!OldLinks(s))
<1> DEFINE M == {Stored!Migrated(x) : x \in X}
           Y == {Stored!CleanLink(x) : x \in {x \in M : Stored!GoodLink(x)}}
<1>1. Stored!OldLinks(s) \in Seq(Y) /\ \A y \in Y : NormalLink(y)
  BY OldLinksMade
<1> HIDE DEF Y
<1> QED BY <1>1 DEF NormalLinks

LEMMA OldListNormal ==
    ASSUME LinksClean, NEW X, NEW Z, Branches(X, Z), NEW s \in Seq(X),
           Stored!IsOldList(s)
    PROVE  TypedLinks(Stored!OldLinks(s))
<1> DEFINE T == {x \in X : Stored!IsOldLink(x)}
           M == {Stored!Migrated(x) : x \in T}
           Y == {Stored!CleanLink(x) : x \in {x \in M : Stored!GoodLink(x)}}
<1>1. DOMAIN s = 1..Len(s) /\ Len(s) \in Nat /\ s \in [1..Len(s) -> X]
  BY LenProperties
<1>2. s \in [1..Len(s) -> T]
  BY <1>1 DEF Stored!IsOldList
<1>3. s \in Seq(T)
  <2> HIDE DEF T
  <2> QED BY <1>1, <1>2, SeqDef
<1>4. Stored!OldLinks(s) \in Seq(Y) /\ \A y \in Y : NormalLink(y)
  <2> HIDE DEF T
  <2> QED BY <1>3, OldLinksMade
<1>5. ASSUME NEW x \in T, Stored!GoodLink(Stored!Migrated(x))
      PROVE  Stored!CleanLink(Stored!Migrated(x)).type # ""
  <2>1. Stored!Migrated(x).type = IF x.type = "custom" THEN "url" ELSE x.type
    BY MigratedType DEF Branches
  <2>2. x.type # ""
    BY DEF Stored!IsOldLink, Stored!SiteLinks
  <2>3. Stored!Migrated(x).type # ""
    BY <2>1, <2>2
  <2>4. Stored!CleanLink(Stored!Migrated(x)).type = Stored!LinkType(Stored!Migrated(x).type)
    BY <1>5, LinkCleaned
  <2> QED BY <2>3, <2>4 DEF Stored!LinkType
<1>6. \A y \in Y : y.type # ""
  BY <1>5
<1> HIDE DEF Y
<1> QED BY <1>4, <1>6 DEF TypedLinks

LEMMA OldLinksKept ==
    ASSUME NEW s, NormalLinks(s)
    PROVE  Stored!OldLinks(s) = s
<1>1. PICK Y : s \in Seq(Y) /\ \A y \in Y : NormalLink(y)
  BY DEF NormalLinks
<1>2. DOMAIN s = 1..Len(s) /\ Len(s) \in Nat /\ s \in [1..Len(s) -> Y]
  BY <1>1, LenProperties
<1>3. \A i \in 1..Len(s) : Stored!Migrated(s[i]) = s[i]
  <2> SUFFICES ASSUME NEW i \in 1..Len(s) PROVE Stored!Migrated(s[i]) = s[i]
    OBVIOUS
  <2>1. NormalLink(s[i])
    BY <1>1, <1>2
  <2>2. s[i].type # "custom"
    BY <2>1, NormalTypes DEF Stored!SiteLinks
  <2> QED BY <2>2 DEF Stored!Migrated
<1>4. [i \in DOMAIN s |-> Stored!Migrated(s[i])] = s
  <2>1. [i \in DOMAIN s |-> Stored!Migrated(s[i])] = [i \in 1..Len(s) |-> s[i]]
    BY <1>2, <1>3
  <2>2. s = [i \in 1..Len(s) |-> s[i]]
    BY <1>2
  <2> QED BY <2>1, <2>2
<1>5. Stored!OldLinks(s) = Stored!Links(s)
  BY <1>4 DEF Stored!OldLinks
<1> QED BY <1>5, LinksKept

-----------------------------------------------------------------------------
(* A section is normal if reading it again changes nothing.                *)
NormalSection(y) ==
    /\ y = Stored!Item(y.type, y.label, y.items)
    /\ y.type \in Stored!Sections
    /\ NormalLinks(y.items)
    /\ y.type # "custom" => y.items = <<>>
    /\ y # Stored!Item("custom", <<>>, <<>>)
NormalSections(s) == \E Y : s \in Seq(Y) /\ \A y \in Y : NormalSection(y)

LEMMA ItemFields ==
    ASSUME NEW y, NEW t, NEW lab, NEW l, y = Stored!Item(t, lab, l)
    PROVE  /\ y.type = t /\ y.label = lab /\ y.items = l /\ y.target = "" /\ y.url = ""
           /\ y = Stored!Item(y.type, y.label, y.items)
BY DEF Stored!Item

LEMMA NothingNormal ==
    /\ NormalLinks(<<>>) /\ TypedLinks(<<>>) /\ NormalSections(<<>>)
    /\ Stored!OldLinks(<<>>) = <<>>
<1> DEFINE N == {}
<1>1. <<>> \in Seq(N) /\ \A y \in N : NormalLink(y) /\ NormalSection(y) /\ y.type # ""
  OBVIOUS
<1> HIDE DEF N
<1>2. NormalLinks(<<>>)
  BY <1>1 DEF NormalLinks
<1>3. TypedLinks(<<>>)
  BY <1>1 DEF TypedLinks
<1>4. NormalSections(<<>>)
  BY <1>1 DEF NormalSections
<1> QED BY <1>2, <1>3, <1>4, OldLinksKept

LEMMA SectionTypes ==
    ASSUME NEW t
    PROVE  /\ Stored!SectionType(t) \in Stored!Sections
           /\ t \in Stored!Sections => Stored!SectionType(t) = t
<1>1. CASE t \in Stored!Sections
  <2>1. t # "feed" /\ t # "subscriptions" /\ t # "recent" /\ t # "recent_posts"
    BY <1>1 DEF Stored!Sections
  <2>2. Stored!SectionType(t) = t
    <3>1. t \notin {"feed", "subscriptions"} /\ t \notin {"recent", "recent_posts"}
      BY <2>1
    <3> QED BY <1>1, <3>1 DEF Stored!SectionType
  <2> QED BY <1>1, <2>2
<1>2. CASE t \notin Stored!Sections /\ t \in {"feed", "subscriptions"}
  <2>1. t \notin {"recent", "recent_posts"}
    BY <1>2
  <2>2. Stored!SectionType(t) = "feeds"
    BY <1>2, <2>1 DEF Stored!SectionType
  <2> QED BY <1>2, <2>2 DEF Stored!Sections
<1>3. CASE t \notin Stored!Sections /\ t \in {"recent", "recent_posts"}
  <2>1. t \notin {"feed", "subscriptions"}
    BY <1>3
  <2>2. Stored!SectionType(t) = "recent-posts"
    BY <1>3, <2>1 DEF Stored!SectionType
  <2> QED BY <1>3, <2>2 DEF Stored!Sections
<1>4. CASE /\ t \notin Stored!Sections /\ t \notin {"feed", "subscriptions"}
           /\ t \notin {"recent", "recent_posts"}
  <2>1. Stored!SectionType(t) = "custom"
    BY <1>4 DEF Stored!SectionType
  <2> QED BY <1>4, <2>1 DEF Stored!Sections
<1> QED BY <1>1, <1>2, <1>3, <1>4

(* normalizeSidebarSectionItems: a normal section, or none.                *)
LEMMA SectionMade ==
    ASSUME LinksClean, NEW Z, NEW x, x.items \in Seq(Z)
    PROVE  LET c == Stored!Clean(Stored!SectionType(x.type), x)
               Y == {Stored!CleanLink(z) : z \in {z \in Z : Stored!GoodLink(z)}}
           IN /\ c.label = x.label /\ c.items \in Seq(Y)
              /\ \/ NormalSection(c) /\ Stored!Section(x) = <<c>>
                 \/ Stored!Section(x) = <<>>
<1> DEFINE t == Stored!SectionType(x.type)
           c == Stored!Clean(t, x)
           Y == {Stored!CleanLink(z) : z \in {z \in Z : Stored!GoodLink(z)}}
           l == IF t = "custom" THEN Stored!Links(x.items) ELSE <<>>
<1>1. /\ c.type = t /\ c.label = x.label /\ c.items = l
      /\ c = Stored!Item(c.type, c.label, c.items)
  <2>1. c = Stored!Item(t, x.label, l)
    BY DEF Stored!Clean
  <2> HIDE DEF c, t, l
  <2> QED BY <2>1 DEF Stored!Item
<1>2. t \in Stored!Sections
  BY SectionTypes
<1>3. l \in Seq(Y) /\ NormalLinks(l)
  <2>1. CASE t = "custom"
    <3>1. Stored!Links(x.items) \in Seq(Y) /\ \A y \in Y : NormalLink(y)
      BY LinksMade
    <3> HIDE DEF Y
    <3> QED BY <2>1, <3>1 DEF NormalLinks
  <2>2. CASE t # "custom"
    BY <2>2, NothingNormal
  <2> QED BY <2>1, <2>2
<1>4. Stored!Section(x) = IF c = Stored!Item("custom", <<>>, <<>>) THEN <<>> ELSE <<c>>
  BY DEF Stored!Section, Stored!Unless
<1> HIDE DEF c
<1>5. c # Stored!Item("custom", <<>>, <<>>) => NormalSection(c)
  <2> HIDE DEF t
  <2> QED BY <1>1, <1>2, <1>3 DEF NormalSection
<1> QED BY <1>1, <1>3, <1>4, <1>5 DEF c

LEMMA SectionKept ==
    ASSUME NEW y, NormalSection(y)
    PROVE  ~Stored!IsOldLink(y) /\ Stored!Section(y) = <<y>>
<1>1. /\ y = Stored!Item(y.type, y.label, y.items) /\ y.type \in Stored!Sections
      /\ NormalLinks(y.items) /\ (y.type # "custom" => y.items = <<>>)
      /\ y # Stored!Item("custom", <<>>, <<>>)
  BY DEF NormalSection
<1>2. y.url = "" /\ y.target = ""
  BY <1>1, ItemFields
<1>3. ~Stored!IsOldLink(y)
  BY <1>1, <1>2 DEF Stored!IsOldLink, Stored!Sections, Stored!SiteLinks
<1>4. Stored!SectionType(y.type) = y.type
  BY <1>1, SectionTypes
<1>5. (IF y.type = "custom" THEN Stored!Links(y.items) ELSE <<>>) = y.items
  BY <1>1, LinksKept
<1>6. Stored!Clean(y.type, y) = y
  BY <1>1, <1>5 DEF Stored!Clean
<1> QED BY <1>1, <1>3, <1>4, <1>6 DEF Stored!Section, Stored!Unless

(* normalizeSidebarCollectionItems goes from one item to the next.         *)
SortStep(r, k, s) == r[k] = Stored!WithItem(r[k - 1], s[k])
SortBase == [done |-> <<>>, links |-> <<>>]

LEMMA SortedTurns ==
    ASSUME NEW X, NEW s \in Seq(X), NEW D, SortBase \in D,
           \A d \in D, x \in X : Stored!WithItem(d, x) \in D
    PROVE  \E r \in [0..Len(s) -> D] :
              /\ r[0] = SortBase /\ \A k \in 1..Len(s) : SortStep(r, k, s)
              /\ Stored!Sorted(s) = Stored!Flushed(r[Len(s)])
<1> DEFINE num == Len(s)
           steps == [i \in 1..num |-> [d \in D |-> Stored!WithItem(d, s[i])]]
           f == CHOOSE h : h = [k \in 0..num |-> IF k = 0 THEN [done |-> <<>>, links |-> <<>>]
                                                 ELSE Stored!WithItem(h[k - 1], s[k])]
<1>1. num \in Nat /\ \A i \in 1..num : s[i] \in X
  OBVIOUS
<1>2. steps \in [1..num -> [D -> D]]
  <2>1. \A i \in 1..num : \A d \in D : Stored!WithItem(d, s[i]) \in D
    BY <1>1
  <2> HIDE DEF num
  <2> QED BY <2>1
<1>3. PICK r \in [0..num -> D] : Turned(r, num, SortBase, steps)
  <2> HIDE DEF num, steps
  <2> QED BY <1>1, <1>2, RecursionExists
<1>4. \A k \in 1..num : r[k] = Stored!WithItem(r[k - 1], s[k])
  <2> HIDE DEF num, f
  <2>1. \A k \in 1..num : k - 1 \in 0..num
    BY <1>1
  <2>2. \A k \in 1..num : r[k - 1] \in D
    BY <2>1
  <2> QED BY <1>3, <2>2 DEF Turned
<1>5. \E h : h = [k \in 0..num |-> IF k = 0 THEN [done |-> <<>>, links |-> <<>>]
                                   ELSE Stored!WithItem(h[k - 1], s[k])]
  <2>1. DOMAIN r = 0..num /\ \A k \in 0..num : k # 0 => k \in 1..num
    BY <1>1
  <2>2. r = [k \in 0..num |-> IF k = 0 THEN [done |-> <<>>, links |-> <<>>]
                              ELSE Stored!WithItem(r[k - 1], s[k])]
    <3> HIDE DEF num, steps
    <3> QED BY <1>3, <1>4, <2>1 DEF Turned, SortBase
  <2> QED BY <2>2, Zenon
<1>6. f = [k \in 0..num |-> IF k = 0 THEN [done |-> <<>>, links |-> <<>>]
                            ELSE Stored!WithItem(f[k - 1], s[k])]
  <2> HIDE DEF num
  <2> QED BY <1>5
<1>7. Stored!Sorted(s) = Stored!Flushed(f[num])
  BY DEF Stored!Sorted
<1> HIDE DEF f
<1>8. f[0] = SortBase /\ \A k \in 1..num : f[k] = Stored!WithItem(f[k - 1], s[k])
  <2>1. 0 \in 0..num /\ \A k \in 1..num : k \in 0..num /\ k # 0
    BY <1>1
  <2> HIDE DEF num
  <2> QED BY <1>6, <2>1 DEF SortBase
<1> HIDE DEF num, steps
<1> DEFINE ns == {k \in Nat : k <= num => f[k] = r[k]}
<1>9. 0 \in ns
  BY <1>3, <1>8 DEF Turned
<1>10. ASSUME NEW k \in Nat, k \in ns PROVE k + 1 \in ns
  <2> SUFFICES ASSUME k + 1 <= num PROVE f[k + 1] = r[k + 1]
    OBVIOUS
  <2>1. k + 1 \in 1..num /\ (k + 1) - 1 = k /\ f[k] = r[k]
    BY <1>1, <1>10
  <2> QED BY <1>4, <1>8, <2>1
<1>11. f[num] = r[num]
  <2>1. Nat \subseteq ns
    <3> HIDE DEF ns
    <3> QED BY <1>9, <1>10, Counting
  <2> QED BY <1>1, <2>1
<1> QED BY <1>3, <1>4, <1>7, <1>11 DEF num, Turned, SortStep

LEMMA SortedNormal ==
    ASSUME LinksClean, NEW X, NEW Z, Branches(X, Z), NEW s \in Seq(X)
    PROVE  NormalSections(Stored!Sorted(s))
<1> DEFINE M == {Stored!Migrated(x) : x \in X}
           Y1 == {Stored!CleanLink(z) : z \in {z \in Z : Stored!GoodLink(z)}}
           Y2 == {Stored!CleanLink(x) : x \in {x \in M : Stored!GoodLink(x)}}
           L == Y1 \cup Y2
           Labels == {x.label : x \in X} \cup {<<>>}
           R == {Stored!Item(t, lab, l) : t \in Stored!Sections, lab \in Labels, l \in Seq(L)}
           Q == {y \in R : NormalSection(y)}
           D == [done : Seq(Q), links : Seq(X)]
<1>1. Seq(Y1) \subseteq Seq(L) /\ Seq(Y2) \subseteq Seq(L)
  <2> HIDE DEF Y1, Y2
  <2> QED BY LargerSeq
<1>2. ASSUME NEW y, NormalSection(y), y.label \in Labels, y.items \in Seq(L)
      PROVE  <<y>> \in Seq(Q)
  <2>1. y = Stored!Item(y.type, y.label, y.items) /\ y.type \in Stored!Sections
    BY <1>2 DEF NormalSection
  <2> HIDE DEF L, Labels
  <2>2. y \in Q
    BY <1>2, <2>1
  <2> HIDE DEF Q
  <2> QED BY <2>2
<1>3. ASSUME NEW x \in X PROVE Stored!Section(x) \in Seq(Q)
  <2> DEFINE c == Stored!Clean(Stored!SectionType(x.type), x)
  <2>1. x.items \in Seq(Z)
    BY DEF Branches
  <2>2. /\ c.label = x.label /\ c.items \in Seq(Y1)
        /\ \/ NormalSection(c) /\ Stored!Section(x) = <<c>>
           \/ Stored!Section(x) = <<>>
    BY <2>1, SectionMade
  <2>3. c.label \in Labels /\ c.items \in Seq(L)
    <3> HIDE DEF c, L, Y1
    <3> QED BY <1>1, <2>2
  <2>4. <<>> \in Seq(Q)
    OBVIOUS
  <2> HIDE DEF c, Q, L, Labels, Y1
  <2> QED BY <1>2, <2>2, <2>3, <2>4
<1>4. ASSUME NEW t \in Seq(X) PROVE Stored!Gathered(Stored!OldLinks(t)) \in Seq(Q)
  <2> DEFINE l == Stored!OldLinks(t)
             g == Stored!Item("custom", <<>>, l)
  <2>1. l \in Seq(Y2) /\ NormalLinks(l)
    <3>1. l \in Seq(Y2)
      BY OldLinksMade
    <3>2. NormalLinks(l)
      BY OldLinksNormal
    <3> QED BY <3>1, <3>2
  <2>2. <<>> \in Seq(Q)
    OBVIOUS
  <2>3. ASSUME l # <<>> PROVE <<g>> \in Seq(Q)
    <3> HIDE DEF l
    <3>1. /\ g.type = "custom" /\ g.label = <<>> /\ g.items = l
          /\ g = Stored!Item(g.type, g.label, g.items)
      BY DEF Stored!Item
    <3>2. g # Stored!Item("custom", <<>>, <<>>)
      BY <2>3 DEF Stored!Item
    <3> HIDE DEF g
    <3>3. NormalSection(g)
      BY <2>1, <3>1, <3>2 DEF NormalSection, Stored!Sections
    <3>4. g.label \in Labels /\ g.items \in Seq(L)
      <4> HIDE DEF L, Y2
      <4> QED BY <1>1, <2>1, <3>1
    <3> HIDE DEF Q, L, Labels
    <3> QED BY <1>2, <3>3, <3>4
  <2>4. Stored!Gathered(Stored!OldLinks(t)) = IF l = <<>> THEN <<>> ELSE <<g>>
    BY DEF Stored!Gathered
  <2> HIDE DEF Q, l, g
  <2> QED BY <2>2, <2>3, <2>4
<1> HIDE DEF Q
<1>5. ASSUME NEW d \in D PROVE Stored!Flushed(d) \in Seq(Q)
  <2>1. d.done \in Seq(Q) /\ d.links \in Seq(X)
    OBVIOUS
  <2>2. Stored!Gathered(Stored!OldLinks(d.links)) \in Seq(Q)
    BY <1>4, <2>1
  <2> QED BY <2>1, <2>2, ConcatProperties DEF Stored!Flushed
<1>6. ASSUME NEW d \in D, NEW x \in X PROVE Stored!WithItem(d, x) \in D
  <2>1. d.done \in Seq(Q) /\ d.links \in Seq(X) /\ d = [done |-> d.done, links |-> d.links]
    OBVIOUS
  <2>2. CASE Stored!IsOldLink(x)
    <3>1. Append(d.links, x) \in Seq(X)
      BY <2>1, AppendProperties
    <3>2. Stored!WithItem(d, x) = [d EXCEPT !.links = Append(d.links, x)]
      BY <2>2 DEF Stored!WithItem
    <3> QED BY <2>1, <3>1, <3>2
  <2>3. CASE ~Stored!IsOldLink(x)
    <3>1. Stored!Flushed(d) \o Stored!Section(x) \in Seq(Q)
      BY <1>3, <1>5, ConcatProperties
    <3>2. Stored!WithItem(d, x) = [done |-> Stored!Flushed(d) \o Stored!Section(x), links |-> <<>>]
      BY <2>3 DEF Stored!WithItem
    <3>3. <<>> \in Seq(X)
      OBVIOUS
    <3> QED BY <3>1, <3>2, <3>3
  <2> QED BY <2>2, <2>3
<1>7. SortBase \in D
  BY DEF SortBase
<1>8. PICK r \in [0..Len(s) -> D] : Stored!Sorted(s) = Stored!Flushed(r[Len(s)])
  <2> HIDE DEF D
  <2> QED BY <1>6, <1>7, SortedTurns
<1>9. Stored!Sorted(s) \in Seq(Q)
  <2>1. Len(s) \in 0..Len(s)
    OBVIOUS
  <2> HIDE DEF D
  <2> QED BY <1>5, <1>8, <2>1
<1>10. \A y \in Q : NormalSection(y)
  BY DEF Q
<1> QED BY <1>9, <1>10 DEF NormalSections

LEMMA SortedKept ==
    ASSUME NEW s, NormalSections(s)
    PROVE  Stored!Sorted(s) = s
<1>1. PICK Y : s \in Seq(Y) /\ \A y \in Y : NormalSection(y)
  BY DEF NormalSections
<1> DEFINE D == [done : Seq(Y), links : {<<>>}]
<1>2. ASSUME NEW d \in D
      PROVE  /\ d.done \in Seq(Y) /\ d = [done |-> d.done, links |-> <<>>]
             /\ Stored!Flushed(d) = d.done
  <2>1. d.done \in Seq(Y) /\ d.links = <<>> /\ d = [done |-> d.done, links |-> <<>>]
    OBVIOUS
  <2>2. Stored!Gathered(Stored!OldLinks(d.links)) = <<>>
    BY <2>1, NothingNormal DEF Stored!Gathered
  <2> HIDE DEF D
  <2>3. Stored!Flushed(d) = d.done
    BY <2>1, <2>2, ConcatEmptySeq DEF Stored!Flushed
  <2> QED BY <2>1, <2>3
<1>3. ASSUME NEW d \in D, NEW x \in Y
      PROVE  Stored!WithItem(d, x) = [done |-> Append(d.done, x), links |-> <<>>]
  <2>1. ~Stored!IsOldLink(x) /\ Stored!Section(x) = <<x>>
    BY <1>1, SectionKept
  <2>2. d.done \in Seq(Y) /\ Stored!Flushed(d) = d.done
    BY <1>2
  <2>3. Append(d.done, x) = d.done \o <<x>>
    <3> HIDE DEF D
    <3> QED BY <2>2, AppendIsConcat
  <2> HIDE DEF D
  <2> QED BY <2>1, <2>2, <2>3 DEF Stored!WithItem
<1>4. ASSUME NEW d \in D, NEW x \in Y PROVE Stored!WithItem(d, x) \in D
  <2>1. Append(d.done, x) \in Seq(Y)
    BY <1>2, AppendProperties
  <2>2. [done |-> Append(d.done, x), links |-> <<>>] \in D
    BY <2>1
  <2> HIDE DEF D
  <2> QED BY <1>3, <2>2
<1>5. SortBase \in D
  BY DEF SortBase
<1>6. PICK r \in [0..Len(s) -> D] :
         /\ r[0] = SortBase /\ \A k \in 1..Len(s) : SortStep(r, k, s)
         /\ Stored!Sorted(s) = Stored!Flushed(r[Len(s)])
  <2> HIDE DEF D
  <2> QED BY <1>1, <1>4, <1>5, SortedTurns
<1>7. Len(s) \in Nat /\ \A i \in 1..Len(s) : s[i] \in Y
  BY <1>1
<1> DEFINE Taken(k) == Len(r[k].done) = k /\ \A i \in 1..k : r[k].done[i] = s[i]
           ns == {k \in Nat : k <= Len(s) => Taken(k)}
<1>8. 0 \in ns
  BY <1>6 DEF SortBase
<1>9. ASSUME NEW k \in Nat, k \in ns PROVE k + 1 \in ns
  <2> SUFFICES ASSUME k + 1 <= Len(s) PROVE Taken(k + 1)
    OBVIOUS
  <2>1. k \in 0..Len(s) /\ k + 1 \in 1..Len(s) /\ (k + 1) - 1 = k
    BY <1>7
  <2>2. r[k] \in D /\ s[k + 1] \in Y
    BY <1>7, <2>1
  <2>3. Len(r[k].done) = k /\ \A i \in 1..k : r[k].done[i] = s[i]
    BY <1>9, <2>1
  <2>4. r[k].done \in Seq(Y)
    BY <1>2, <2>2
  <2>5. r[k + 1] = Stored!WithItem(r[k], s[k + 1])
    <3> HIDE DEF D
    <3> QED BY <1>6, <2>1 DEF SortStep
  <2>6. r[k + 1].done = Append(r[k].done, s[k + 1])
    <3>1. r[k + 1] = [done |-> Append(r[k].done, s[k + 1]), links |-> <<>>]
      <4> HIDE DEF D
      <4> QED BY <1>3, <2>2, <2>5
    <3> QED BY <3>1
  <2>7. /\ Len(r[k + 1].done) = k + 1 /\ r[k + 1].done[k + 1] = s[k + 1]
        /\ \A i \in 1..k : r[k + 1].done[i] = r[k].done[i]
    <3> HIDE DEF D
    <3> QED BY <2>2, <2>3, <2>4, <2>6, AppendProperties
  <2>8. \A i \in 1..k + 1 : i \in 1..k \/ i = k + 1
    OBVIOUS
  <2> QED BY <2>3, <2>7, <2>8
<1>10. Taken(Len(s))
  <2>1. Nat \subseteq ns
    <3> HIDE DEF ns
    <3> QED BY <1>8, <1>9, Counting
  <2> QED BY <1>7, <2>1
<1>11. r[Len(s)] \in D
  BY <1>7
<1>12. r[Len(s)].done \in Seq(Y) /\ Stored!Flushed(r[Len(s)]) = r[Len(s)].done
  BY <1>2, <1>11
<1>13. r[Len(s)].done = s
  <2> HIDE DEF D, ns
  <2> QED BY <1>1, <1>10, <1>12, SeqEqual
<1> QED BY <1>6, <1>12, <1>13

(* normalizeSidebarItems: what a sidebar has after it was read.            *)
SideNormal(s) == NormalSections(s) \/ TypedLinks(s)

LEMMA SidebarMade ==
    ASSUME LinksClean, NEW X, NEW Z, Branches(X, Z), NEW s \in Seq(X)
    PROVE  SideNormal(Stored!SidebarItems(s))
BY SortedNormal, OldListNormal DEF SideNormal, Stored!SidebarItems

(* A list of links is not one of sections.                                 *)
LEMMA TwoKinds ==
    ASSUME NEW s, SideNormal(s), s # <<>>
    PROVE  \/ NormalSections(s) /\ ~Stored!IsOldList(s) /\ Stored!HasBlocks(s)
           \/ TypedLinks(s) /\ NormalLinks(s) /\ Stored!IsOldList(s) /\ ~Stored!HasBlocks(s)
<1>1. CASE NormalSections(s)
  <2>1. PICK Y : s \in Seq(Y) /\ \A y \in Y : NormalSection(y)
    BY <1>1 DEF NormalSections
  <2>2. DOMAIN s = 1..Len(s) /\ 1 \in DOMAIN s /\ s[1] \in Y
    <3>1. DOMAIN s = 1..Len(s) /\ Len(s) \in Nat \ {0}
      BY <2>1, EmptySeq, LenProperties
    <3> QED BY <2>1, <3>1, ElementOfSeq
  <2>3. ~Stored!IsOldLink(s[1]) /\ s[1].type \in Stored!Sections
    BY <2>1, <2>2, SectionKept DEF NormalSection
  <2> QED BY <1>1, <2>2, <2>3 DEF Stored!IsOldList, Stored!HasBlocks
<1>2. CASE TypedLinks(s)
  <2>1. PICK Y : s \in Seq(Y) /\ \A y \in Y : NormalLink(y) /\ y.type # ""
    BY <1>2 DEF TypedLinks
  <2>2. NormalLinks(s)
    BY <2>1 DEF NormalLinks
  <2>3. \A i \in DOMAIN s : s[i] \in Y
    <3>1. DOMAIN s = 1..Len(s)
      BY <2>1, LenProperties
    <3> QED BY <2>1, <3>1, ElementOfSeq
  <2>4. \A y \in Y : y.type \in {"page", "post", "tag", "url"} \cup Stored!SiteLinks
    BY <2>1, NormalTypes
  <2>5. \A y \in Y : Stored!IsOldLink(y) /\ y.type \notin Stored!Sections
    BY <2>4 DEF Stored!IsOldLink, Stored!SiteLinks, Stored!Sections
  <2> QED BY <1>2, <2>2, <2>3, <2>5 DEF Stored!IsOldList, Stored!HasBlocks
<1> QED BY <1>1, <1>2 DEF SideNormal

LEMMA SidebarKept ==
    ASSUME NEW s, SideNormal(s)
    PROVE  Stored!SidebarItems(s) = s
<1>1. CASE s = <<>>
  <2>1. Stored!Sorted(s) = s /\ ~Stored!IsOldList(s)
    BY <1>1, NothingNormal, SortedKept DEF Stored!IsOldList
  <2> QED BY <2>1 DEF Stored!SidebarItems
<1>2. CASE s # <<>>
  BY <1>2, TwoKinds, SortedKept, OldLinksKept DEF Stored!SidebarItems
<1> QED BY <1>1, <1>2

-----------------------------------------------------------------------------
(* The words an id can have: some of every number.                         *)
IdsMade ==
    /\ "menu" \in IdWords /\ "sidebar" \in IdWords
    /\ \A n \in Nat : Numeral[n] \in IdWords
    /\ \A m, n \in Nat : Numeral[m] = Numeral[n] => m = n

LEMMA IdKept == \A t \in Seq(IdWords) : Stored!IdOf(t) = t
<1> SUFFICES ASSUME NEW t \in Seq(IdWords) PROVE Stored!IdOf(t) = t
  OBVIOUS
<1>1. TakesAll(Where(t, IdWords), t, IdWords, IdWords)
  BY WhereTakes
<1>2. \A i \in 1..Len(t) : t[i] \in IdWords
  OBVIOUS
<1>3. Where(t, IdWords) = t
  BY <1>1, <1>2 DEF TakesAll
<1> QED BY <1>3, StoredWhere DEF Stored!IdOf

LEMMA IdTyped ==
    ASSUME NEW W, NEW t \in Seq(W)
    PROVE  Stored!IdOf(t) \in Seq(IdWords) /\ Stored!IdOf(Stored!IdOf(t)) = Stored!IdOf(t)
<1>1. Where(t, IdWords) \in Seq(W \cap IdWords)
  BY WhereTakes DEF TakesAll
<1>2. Seq(W \cap IdWords) \subseteq Seq(IdWords)
  BY LargerSeq
<1>3. Stored!IdOf(t) \in Seq(IdWords)
  BY <1>1, <1>2, StoredWhere DEF Stored!IdOf
<1> QED BY <1>3, IdKept

LEMMA StoredCardinality == \A S : Stored!Cardinality(S) = Cardinality(S)
BY DEF Stored!Cardinality, Cardinality

(* Some number up to one more than there are ids is free.                  *)
LEMMA FreeId ==
    ASSUME IdsMade, NEW id \in Seq(IdWords) \ {<<>>}, NEW taken, IsFiniteSet(taken)
    PROVE  /\ Stored!Free(id, taken) \in Seq(IdWords) \ {<<>>}
           /\ Stored!Free(id, taken) \notin taken
           /\ id \notin taken => Stored!Free(id, taken) = id
<1> DEFINE num == Stored!Cardinality(taken)
           N == 2..num + 2
           f == [n \in N |-> Stored!Numbered(id, n)]
<1>1. num = Cardinality(taken) /\ num \in Nat
  BY FS_CardinalityType, StoredCardinality
<1>2. IsFiniteSet(N) /\ Cardinality(N) = num + 1
  <2> HIDE DEF num
  <2>1. num \in Nat /\ num + 2 \in Int /\ ~(2 > num + 2) /\ (num + 2) - 2 + 1 = num + 1
    BY <1>1
  <2>2. IsFiniteSet(2..num + 2) /\ Cardinality(2..num + 2) = (num + 2) - 2 + 1
    BY <2>1, FS_Interval
  <2> QED BY <2>1, <2>2
<1>3. \A n \in Nat : /\ Stored!Numbered(id, n) = Append(id, Numeral[n])
                     /\ Stored!Numbered(id, n) \in Seq(IdWords) \ {<<>>}
  <2> SUFFICES ASSUME NEW n \in Nat
               PROVE  /\ Stored!Numbered(id, n) = Append(id, Numeral[n])
                      /\ Append(id, Numeral[n]) \in Seq(IdWords) \ {<<>>}
    OBVIOUS
  <2>1. Numeral[n] \in IdWords
    BY DEF IdsMade
  <2>2. Stored!Numbered(id, n) = id \o <<Numeral[n]>>
    BY DEF Stored!Numbered
  <2> QED BY <2>1, <2>2, AppendIsConcat, AppendProperties
<1>4. ASSUME NEW m \in Nat, NEW n \in Nat, Stored!Numbered(id, m) = Stored!Numbered(id, n)
      PROVE  m = n
  <2>1. Numeral[m] \in IdWords /\ Numeral[n] \in IdWords
    BY DEF IdsMade
  <2>2. Numeral[m] = Numeral[n]
    <3>1. Append(id, Numeral[m]) = Append(id, Numeral[n])
      BY <1>3, <1>4
    <3> QED BY <2>1, <3>1, AppendInjective
  <2> QED BY <2>2 DEF IdsMade
<1>5. PICK k \in N : Stored!Numbered(id, k) \notin taken
  <2> SUFFICES ASSUME \A n \in N : Stored!Numbered(id, n) \in taken PROVE FALSE
    OBVIOUS
  <2>1. f \in [N -> taken]
    <3> HIDE DEF N
    <3> QED OBVIOUS
  <2>2. PICK m \in N, n \in N : m # n /\ f[m] = f[n]
    <3> HIDE DEF f, N
    <3> num < num + 1
      BY <1>1
    <3> HIDE DEF num
    <3>1. Cardinality(taken) < Cardinality(N)
      BY <1>1, <1>2
    <3> QED BY <1>2, <2>1, <3>1, FS_PigeonHole
  <2>3. m \in Nat /\ n \in Nat
    BY <1>1
  <2>4. Stored!Numbered(id, m) = Stored!Numbered(id, n)
    <3> HIDE DEF N
    <3> QED BY <2>2
  <2> QED BY <1>4, <2>2, <2>3, <2>4
<1> HIDE DEF num
<1>6. PICK n \in N : /\ Stored!Numbered(id, n) \notin taken
                     /\ \A m \in 2..n - 1 : Stored!Numbered(id, m) \in taken
  <2> DEFINE open == {m \in N : Stored!Numbered(id, m) \notin taken}
  <2>1. open \in SUBSET Nat /\ open # {}
    BY <1>1, <1>5
  <2>2. PICK n \in open : \A m \in open : n <= m
    <3> HIDE DEF open
    <3> QED BY <2>1, LeastNumber
  <2>3. \A m \in 2..n - 1 : m \in N /\ ~(n <= m)
    BY <1>1, <2>2
  <2>4. \A m \in 2..n - 1 : Stored!Numbered(id, m) \in taken
    BY <2>2, <2>3
  <2> QED BY <2>2, <2>4
<1> DEFINE Right(m) == /\ Stored!Numbered(id, m) \notin taken
                       /\ \A k1 \in 2..m - 1 : Stored!Numbered(id, k1) \in taken
           c == CHOOSE m \in N : Right(m)
<1>7. c \in N /\ Right(c)
  <2> HIDE DEF N
  <2> QED BY <1>6
<1>8. c \in Nat
  <2> HIDE DEF c
  <2> QED BY <1>1, <1>7
<1>9. Stored!Free(id, taken) = IF id \notin taken THEN id ELSE Stored!Numbered(id, c)
  BY DEF Stored!Free, num
<1> HIDE DEF c
<1> QED BY <1>3, <1>7, <1>8, <1>9

(* A list of a collection is normal if its names stay, and a collection if *)
(* no two of its lists have one id.                                        *)
NormalList(b) ==
    /\ b = [id |-> b.id, name |-> b.name, items |-> b.items]
    /\ b.id \in Seq(IdWords) \ {<<>>} /\ b.name # <<>>
OneEach(d) == \A i, j \in 1..Len(d) : d[i].id = d[j].id => i = j

CollectStep(r, k, s, prefix) ==
    r[k] = Append(r[k - 1],
                  Stored!Entry(Stored!Free(Stored!GivenId(s[k], k, prefix), Stored!IdsIn(r[k - 1])),
                               s[k]))

(* normalizeMenuCollection goes from one list to the next.                 *)
LEMMA CollectionTurns ==
    ASSUME NEW X, NEW s \in Seq(X), NEW prefix, NEW D, <<>> \in D,
           \A d \in D : \A k \in 1..Len(s) :
              Append(d, Stored!Entry(Stored!Free(Stored!GivenId(s[k], k, prefix),
                                                 Stored!IdsIn(d)), s[k])) \in D
    PROVE  \E r \in [0..Len(s) -> D] :
              /\ r[0] = <<>> /\ \A k \in 1..Len(s) : CollectStep(r, k, s, prefix)
              /\ Stored!Collection(s, prefix) = r[Len(s)]
<1> DEFINE num == Len(s)
           Plus(d, k) == Append(d, Stored!Entry(Stored!Free(Stored!GivenId(s[k], k, prefix),
                                                            Stored!IdsIn(d)), s[k]))
           steps == [i \in 1..num |-> [d \in D |-> Plus(d, i)]]
           f == CHOOSE h : h = [k \in 0..num |-> IF k = 0 THEN <<>> ELSE Plus(h[k - 1], k)]
<1>1. num \in Nat
  OBVIOUS
<1>2. steps \in [1..num -> [D -> D]]
  <2>1. \A i \in 1..num : \A d \in D : Plus(d, i) \in D
    OBVIOUS
  <2> HIDE DEF num, Plus
  <2> QED BY <2>1
<1>3. PICK r \in [0..num -> D] : Turned(r, num, <<>>, steps)
  <2> HIDE DEF num, steps
  <2> QED BY <1>1, <1>2, RecursionExists
<1>4. \A k \in 1..num : r[k] = Plus(r[k - 1], k)
  <2> HIDE DEF num, f, Plus
  <2>1. \A k \in 1..num : k - 1 \in 0..num
    BY <1>1
  <2>2. \A k \in 1..num : r[k - 1] \in D
    BY <2>1
  <2> QED BY <1>3, <2>2 DEF Turned
<1>5. \E h : h = [k \in 0..num |-> IF k = 0 THEN <<>> ELSE Plus(h[k - 1], k)]
  <2>1. DOMAIN r = 0..num /\ \A k \in 0..num : k # 0 => k \in 1..num
    BY <1>1
  <2>2. r = [k \in 0..num |-> IF k = 0 THEN <<>> ELSE Plus(r[k - 1], k)]
    <3> HIDE DEF num, steps, Plus
    <3> QED BY <1>3, <1>4, <2>1 DEF Turned
  <2> HIDE DEF num, Plus
  <2> QED BY <2>2, Zenon
<1>6. f = [k \in 0..num |-> IF k = 0 THEN <<>> ELSE Plus(f[k - 1], k)]
  <2> HIDE DEF num, Plus
  <2> QED BY <1>5
<1>7. Stored!Collection(s, prefix) = f[num]
  BY DEF Stored!Collection
<1> HIDE DEF f
<1>8. f[0] = <<>> /\ \A k \in 1..num : f[k] = Plus(f[k - 1], k)
  <2>1. 0 \in 0..num /\ \A k \in 1..num : k \in 0..num /\ k # 0
    BY <1>1
  <2> HIDE DEF num, Plus
  <2> QED BY <1>6, <2>1
<1> HIDE DEF num, steps, Plus
<1> DEFINE ns == {k \in Nat : k <= num => f[k] = r[k]}
<1>9. 0 \in ns
  BY <1>3, <1>8 DEF Turned
<1>10. ASSUME NEW k \in Nat, k \in ns PROVE k + 1 \in ns
  <2> SUFFICES ASSUME k + 1 <= num PROVE f[k + 1] = r[k + 1]
    OBVIOUS
  <2>1. k + 1 \in 1..num /\ (k + 1) - 1 = k /\ f[k] = r[k]
    BY <1>1, <1>10
  <2> QED BY <1>4, <1>8, <2>1
<1>11. f[num] = r[num]
  <2>1. Nat \subseteq ns
    <3> HIDE DEF ns
    <3> QED BY <1>9, <1>10, Counting
  <2> QED BY <1>1, <2>1
<1>12. \A k \in 1..num : CollectStep(r, k, s, prefix)
  BY <1>4 DEF CollectStep, Plus
<1> QED BY <1>3, <1>7, <1>11, <1>12 DEF num, Turned

LEMMA IdsInFinite ==
    ASSUME NEW Y, NEW d \in Seq(Y)
    PROVE  /\ Stored!IdsIn(d) = {d[i].id : i \in 1..Len(d)}
           /\ IsFiniteSet(Stored!IdsIn(d))
<1> DEFINE T == {d[i].id : i \in 1..Len(d)}
           f == [i \in 1..Len(d) |-> d[i].id]
<1>1. DOMAIN d = 1..Len(d) /\ Len(d) \in Nat
  BY LenProperties
<1>2. Stored!IdsIn(d) = T
  BY <1>1 DEF Stored!IdsIn
<1>3. f \in Surjection(1..Len(d), T)
  BY DEF Surjection
<1>4. IsFiniteSet(1..Len(d))
  BY <1>1, FS_Interval
<1>5. IsFiniteSet(T)
  <2> HIDE DEF T, f
  <2> QED BY <1>3, <1>4, FS_Surjection
<1> QED BY <1>2, <1>5

LEMMA OneEachNext ==
    ASSUME NEW Y, NEW d \in Seq(Y), NEW y \in Y, OneEach(d), y.id \notin Stored!IdsIn(d)
    PROVE  OneEach(Append(d, y))
<1> DEFINE t == Append(d, y)
<1>1. /\ Len(d) \in Nat /\ Len(t) = Len(d) + 1
      /\ \A i \in 1..Len(d) : t[i] = d[i]
      /\ t[Len(d) + 1] = y
  BY AppendProperties
<1>2. \A i \in 1..Len(d) : d[i].id # y.id
  BY IdsInFinite
<1> HIDE DEF t
<1>3. \A i \in 1..Len(t) : i \in 1..Len(d) \/ i = Len(d) + 1
  BY <1>1
<1> SUFFICES ASSUME NEW i \in 1..Len(t), NEW j \in 1..Len(t), t[i].id = t[j].id PROVE i = j
  BY DEF OneEach, t
<1>4. CASE i \in 1..Len(d) /\ j \in 1..Len(d)
  BY <1>1, <1>4 DEF OneEach
<1>5. CASE i \in 1..Len(d) /\ j = Len(d) + 1
  BY <1>1, <1>2, <1>5
<1>6. CASE i = Len(d) + 1 /\ j \in 1..Len(d)
  BY <1>1, <1>2, <1>6
<1> QED BY <1>3, <1>4, <1>5, <1>6

(* Every list gets a name and an id, and no two get one id.                *)
LEMMA GivenIdType ==
    ASSUME IdsMade, NEW W, NEW x, x.id \in Seq(W), x.name \in Seq(W), NEW k \in Nat,
           NEW prefix \in IdWords
    PROVE  Stored!GivenId(x, k, prefix) \in Seq(IdWords) \ {<<>>}
<1>1. Stored!IdOf(x.id) \in Seq(IdWords) /\ Stored!IdOf(x.name) \in Seq(IdWords)
  BY IdTyped
<1>2. Numeral[k] \in IdWords
  BY DEF IdsMade
<1>3. <<prefix, Numeral[k]>> \in Seq(IdWords) \ {<<>>}
  BY <1>2
<1> QED BY <1>1, <1>3 DEF Stored!GivenId

LEMMA CollectionMade ==
    ASSUME IdsMade, NEW X, NEW W, \A x \in X : x.id \in Seq(W) /\ x.name \in Seq(W),
           NEW s \in Seq(X), NEW prefix \in IdWords
    PROVE  LET Y == [id : Seq(IdWords) \ {<<>>}, name : (Seq(W) \cup Seq(IdWords)) \ {<<>>},
                     items : {x.items : x \in X}]
           IN /\ Stored!Collection(s, prefix) \in Seq(Y)
              /\ OneEach(Stored!Collection(s, prefix))
              /\ \A y \in Y : NormalList(y)
<1> DEFINE Y == [id : Seq(IdWords) \ {<<>>}, name : (Seq(W) \cup Seq(IdWords)) \ {<<>>},
                 items : {x.items : x \in X}]
           D == {d \in Seq(Y) : OneEach(d)}
<1>1. Len(s) \in Nat /\ \A k \in 1..Len(s) : s[k] \in X
  OBVIOUS
<1>2. ASSUME NEW d \in D, NEW k \in 1..Len(s)
      PROVE  Append(d, Stored!Entry(Stored!Free(Stored!GivenId(s[k], k, prefix),
                                                Stored!IdsIn(d)), s[k])) \in D
  <2> DEFINE g == Stored!GivenId(s[k], k, prefix)
             id == Stored!Free(g, Stored!IdsIn(d))
             y == Stored!Entry(id, s[k])
  <2>1. s[k] \in X /\ s[k].id \in Seq(W) /\ s[k].name \in Seq(W) /\ k \in Nat
    BY <1>1
  <2>2. d \in Seq(Y) /\ OneEach(d)
    OBVIOUS
  <2>3. g \in Seq(IdWords) \ {<<>>}
    BY <2>1, GivenIdType
  <2>4. IsFiniteSet(Stored!IdsIn(d))
    <3> HIDE DEF Y, D
    <3> QED BY <2>2, IdsInFinite
  <2> HIDE DEF g
  <2>5. id \in Seq(IdWords) \ {<<>>} /\ id \notin Stored!IdsIn(d)
    BY <2>3, <2>4, FreeId
  <2> HIDE DEF id
  <2>6. /\ y.id = id /\ y = [id |-> id, name |-> IF s[k].name = <<>> THEN id ELSE s[k].name,
                             items |-> s[k].items]
    BY DEF Stored!Entry
  <2>7. y \in Y
    <3>1. s[k].items \in {x.items : x \in X}
      BY <2>1
    <3>2. (IF s[k].name = <<>> THEN id ELSE s[k].name) \in (Seq(W) \cup Seq(IdWords)) \ {<<>>}
      BY <2>1, <2>5
    <3> HIDE DEF y
    <3> QED BY <2>5, <2>6, <3>1, <3>2
  <2> HIDE DEF y, Y
  <2>8. Append(d, y) \in Seq(Y)
    BY <2>2, <2>7, AppendProperties
  <2>9. OneEach(Append(d, y))
    BY <2>2, <2>5, <2>6, <2>7, OneEachNext
  <2>10. Append(d, y) \in D
    BY <2>8, <2>9
  <2> QED BY <2>10 DEF y, id, g
<1>3. <<>> \in D
  BY DEF OneEach
<1>4. PICK r \in [0..Len(s) -> D] : Stored!Collection(s, prefix) = r[Len(s)]
  <2> HIDE DEF D
  <2> QED BY <1>2, <1>3, CollectionTurns
<1>5. Stored!Collection(s, prefix) \in D
  <2>1. Len(s) \in 0..Len(s)
    BY <1>1
  <2> HIDE DEF D
  <2> QED BY <1>4, <2>1
<1>6. \A y \in Y : NormalList(y)
  BY DEF NormalList
<1> QED BY <1>5, <1>6

(* A normal collection stays as it is.                                     *)
LEMMA CollectionKept ==
    ASSUME IdsMade, NEW Y, NEW s \in Seq(Y), \A y \in Y : NormalList(y), OneEach(s), NEW prefix
    PROVE  Stored!Collection(s, prefix) = s
<1> DEFINE Z == [id : Seq(IdWords) \ {<<>>}, name : {y.name : y \in Y}, items : {y.items : y \in Y}]
           D == Seq(Z)
<1>1. Len(s) \in Nat /\ \A k \in 1..Len(s) : s[k] \in Y
  OBVIOUS
<1>2. ASSUME NEW k \in 1..Len(s)
      PROVE  /\ Stored!GivenId(s[k], k, prefix) = s[k].id
             /\ s[k].id \in Seq(IdWords) \ {<<>>}
             /\ \A id : Stored!Entry(id, s[k]) = [id |-> id, name |-> s[k].name,
                                                  items |-> s[k].items]
             /\ Stored!Entry(s[k].id, s[k]) = s[k]
             /\ s[k].name \in {y.name : y \in Y} /\ s[k].items \in {y.items : y \in Y}
  <2> DEFINE y == s[k]
  <2>1. y \in Y /\ y = [id |-> y.id, name |-> y.name, items |-> y.items]
        /\ y.id \in Seq(IdWords) \ {<<>>} /\ y.name # <<>>
    BY <1>1 DEF NormalList
  <2> HIDE DEF y
  <2>2. Stored!IdOf(y.id) = y.id
    BY <2>1, IdKept
  <2>3. Stored!GivenId(y, k, prefix) = y.id
    BY <2>1, <2>2 DEF Stored!GivenId
  <2>4. \A id : Stored!Entry(id, y) = [id |-> id, name |-> y.name, items |-> y.items]
    BY <2>1 DEF Stored!Entry
  <2>5. Stored!Entry(y.id, y) = y
    BY <2>1, <2>4
  <2>6. y.name \in {y1.name : y1 \in Y} /\ y.items \in {y1.items : y1 \in Y}
    BY <2>1
  <2> QED BY <2>1, <2>3, <2>4, <2>5, <2>6 DEF y
<1>3. ASSUME NEW d \in D, NEW k \in 1..Len(s)
      PROVE  Append(d, Stored!Entry(Stored!Free(Stored!GivenId(s[k], k, prefix),
                                                Stored!IdsIn(d)), s[k])) \in D
  <2> DEFINE id == Stored!Free(Stored!GivenId(s[k], k, prefix), Stored!IdsIn(d))
             y == Stored!Entry(id, s[k])
  <2>1. IsFiniteSet(Stored!IdsIn(d))
    <3> HIDE DEF Z
    <3> QED BY IdsInFinite
  <2>2. id \in Seq(IdWords) \ {<<>>}
    BY <1>2, <2>1, FreeId
  <2> HIDE DEF id
  <2>3. y \in Z
    <3>1. y = [id |-> id, name |-> s[k].name, items |-> s[k].items]
      BY <1>2
    <3>2. s[k].name \in {x.name : x \in Y} /\ s[k].items \in {x.items : x \in Y}
      BY <1>2
    <3> HIDE DEF y
    <3> QED BY <2>2, <3>1, <3>2
  <2> HIDE DEF y, Z
  <2>4. Append(d, y) \in Seq(Z)
    BY <2>3, AppendProperties
  <2> QED BY <2>4 DEF y, id
<1>4. <<>> \in D
  OBVIOUS
<1>5. PICK r \in [0..Len(s) -> D] :
        /\ r[0] = <<>> /\ \A k \in 1..Len(s) : CollectStep(r, k, s, prefix)
        /\ Stored!Collection(s, prefix) = r[Len(s)]
  <2> HIDE DEF D
  <2> QED BY <1>3, <1>4, CollectionTurns
<1> HIDE DEF Z
<1> DEFINE Taken(k) == Len(r[k]) = k /\ \A i \in 1..k : r[k][i] = s[i]
           ns == {k \in Nat : k <= Len(s) => Taken(k)}
<1>6. 0 \in ns
  BY <1>5
<1>7. ASSUME NEW k \in Nat, k \in ns PROVE k + 1 \in ns
  <2> SUFFICES ASSUME k + 1 <= Len(s) PROVE Taken(k + 1)
    OBVIOUS
  <2>1. k \in 0..Len(s) /\ k + 1 \in 1..Len(s) /\ (k + 1) - 1 = k
    BY <1>1
  <2>2. r[k] \in Seq(Z)
    BY <2>1
  <2>3. Len(r[k]) = k /\ \A i \in 1..k : r[k][i] = s[i]
    BY <1>7, <2>1
  <2> DEFINE y == s[k + 1]
  <2>4. \A i \in 1..k : s[i].id # y.id
    <3>1. \A i \in 1..k : i \in 1..Len(s) /\ i # k + 1
      BY <1>1, <2>1
    <3> QED BY <2>1, <3>1 DEF OneEach
  <2>5. y.id \notin Stored!IdsIn(r[k])
    <3> HIDE DEF y
    <3>1. Stored!IdsIn(r[k]) = {r[k][i].id : i \in 1..Len(r[k])}
      BY <2>2, IdsInFinite
    <3> QED BY <2>3, <2>4, <3>1
  <2>6. IsFiniteSet(Stored!IdsIn(r[k]))
    BY <2>2, IdsInFinite
  <2>7. /\ Stored!GivenId(y, k + 1, prefix) = y.id /\ y.id \in Seq(IdWords) \ {<<>>}
        /\ Stored!Entry(y.id, y) = y
    BY <1>2, <2>1
  <2>8. Stored!Free(y.id, Stored!IdsIn(r[k])) = y.id
    <3> HIDE DEF y
    <3> QED BY <2>5, <2>6, <2>7, FreeId
  <2>9. r[k + 1] = Append(r[k], y)
    <3>1. CollectStep(r, k + 1, s, prefix)
      BY <1>5, <2>1
    <3>2. r[k + 1] = Append(r[k], Stored!Entry(Stored!Free(Stored!GivenId(y, k + 1, prefix),
                                                           Stored!IdsIn(r[k])), y))
      BY <2>1, <3>1 DEF CollectStep
    <3> HIDE DEF y
    <3> QED BY <2>7, <2>8, <3>2
  <2>10. y \in Z
    <3>1. y = [id |-> y.id, name |-> y.name, items |-> y.items]
      BY <1>1, <2>1 DEF NormalList
    <3>2. y.name \in {x.name : x \in Y} /\ y.items \in {x.items : x \in Y}
      BY <1>2, <2>1
    <3> HIDE DEF y
    <3> QED BY <2>7, <3>1, <3>2 DEF Z
  <2>11. /\ Len(r[k + 1]) = k + 1 /\ r[k + 1][k + 1] = y
         /\ \A i \in 1..k : r[k + 1][i] = r[k][i]
    <3> HIDE DEF y
    <3> QED BY <2>2, <2>3, <2>9, <2>10, AppendProperties
  <2>12. \A i \in 1..k + 1 : i \in 1..k \/ i = k + 1
    OBVIOUS
  <2> QED BY <2>3, <2>11, <2>12
<1>8. Taken(Len(s))
  <2>1. Nat \subseteq ns
    <3> HIDE DEF ns
    <3> QED BY <1>6, <1>7, Counting
  <2> QED BY <1>1, <2>1
<1>9. r[Len(s)] \in Seq(Z)
  BY <1>1
<1>10. r[Len(s)] = s
  <2>1. DOMAIN r[Len(s)] = 1..Len(s) /\ DOMAIN s = 1..Len(s)
    BY <1>8, <1>9, LenProperties
  <2>2. r[Len(s)] = [i \in 1..Len(s) |-> r[Len(s)][i]] /\ s = [i \in 1..Len(s) |-> s[i]]
    <3> HIDE DEF ns, Taken, D
    <3> QED BY <1>9, <2>1, LenProperties
  <2> HIDE DEF ns, D
  <2> QED BY <1>8, <2>2
<1> QED BY <1>5, <1>10

-----------------------------------------------------------------------------
(* Menus and sidebars that reading again leaves alone.                     *)
NormalMenus(m) ==
    OneEach(m) /\ \E Y : m \in Seq(Y) /\ \A y \in Y : NormalList(y) /\ NormalLinks(y.items)
NormalSidebars(b) ==
    OneEach(b) /\ \E Y : b \in Seq(Y) /\ \A y \in Y : NormalList(y) /\ SideNormal(y.items)

(* What a file may have for menus and sidebars.                            *)
GivenLists(W, X) == [id : Seq(W), name : Seq(W), items : Seq(X)]

LEMMA MenusMade ==
    ASSUME LinksClean, IdsMade, NEW W, NEW X, NEW m \in Seq(GivenLists(W, X))
    PROVE  NormalMenus(Stored!Menus(m))
<1> DEFINE G == GivenLists(W, X)
           Z == {[l EXCEPT !.items = Stored!OldLinks(l.items)] : l \in G}
           t == [i \in DOMAIN m |-> [m[i] EXCEPT !.items = Stored!OldLinks(@)]]
           Y == [id : Seq(IdWords) \ {<<>>}, name : (Seq(W) \cup Seq(IdWords)) \ {<<>>},
                 items : {z.items : z \in Z}]
<1>1. \A z \in Z : z.id \in Seq(W) /\ z.name \in Seq(W) /\ NormalLinks(z.items)
  <2> SUFFICES ASSUME NEW l \in G
               PROVE  LET z == [l EXCEPT !.items = Stored!OldLinks(l.items)]
                      IN z.id \in Seq(W) /\ z.name \in Seq(W) /\ NormalLinks(z.items)
    OBVIOUS
  <2>1. l.id \in Seq(W) /\ l.name \in Seq(W) /\ l.items \in Seq(X)
        /\ l = [id |-> l.id, name |-> l.name, items |-> l.items]
    BY DEF GivenLists
  <2>2. NormalLinks(Stored!OldLinks(l.items))
    BY <2>1, OldLinksNormal
  <2> DEFINE z == [l EXCEPT !.items = Stored!OldLinks(l.items)]
  <2>3. z.id = l.id /\ z.name = l.name /\ z.items = Stored!OldLinks(l.items)
    BY <2>1
  <2> QED BY <2>1, <2>2, <2>3
<1>2. t \in [DOMAIN m -> Z]
  <2>1. \A i \in DOMAIN m : m[i] \in G
    BY LenProperties, ElementOfSeq
  <2> HIDE DEF G
  <2> QED BY <2>1
<1>3. t \in Seq(Z)
  <2> HIDE DEF t, Z
  <2> QED BY <1>2, MadeOf
<1>4. Stored!Menus(m) = Stored!Collection(t, "menu")
  BY DEF Stored!Menus
<1> HIDE DEF t, Z
<1>5. /\ Stored!Collection(t, "menu") \in Seq(Y) /\ OneEach(Stored!Collection(t, "menu"))
      /\ \A y \in Y : NormalList(y)
  <2>1. "menu" \in IdWords
    BY DEF IdsMade
  <2> QED BY <1>1, <1>3, <2>1, CollectionMade
<1>6. \A y \in Y : NormalLinks(y.items)
  BY <1>1
<1> HIDE DEF Y
<1> QED BY <1>4, <1>5, <1>6 DEF NormalMenus

LEMMA MenusStay ==
    ASSUME IdsMade, NEW m, NormalMenus(m)
    PROVE  Stored!Menus(m) = m
<1>1. PICK Y : m \in Seq(Y) /\ \A y \in Y : NormalList(y) /\ NormalLinks(y.items)
  BY DEF NormalMenus
<1>2. \A y \in Y : [y EXCEPT !.items = Stored!OldLinks(@)] = y
  <2> SUFFICES ASSUME NEW y \in Y PROVE [y EXCEPT !.items = Stored!OldLinks(@)] = y
    OBVIOUS
  <2>1. y = [id |-> y.id, name |-> y.name, items |-> y.items] /\ Stored!OldLinks(y.items) = y.items
    BY <1>1, OldLinksKept DEF NormalList
  <2> QED BY <2>1
<1>3. DOMAIN m = 1..Len(m) /\ \A i \in 1..Len(m) : m[i] \in Y
  BY <1>1, LenProperties, ElementOfSeq
<1>4. m = [i \in DOMAIN m |-> m[i]]
  BY <1>1, LenProperties
<1>5. [i \in DOMAIN m |-> [m[i] EXCEPT !.items = Stored!OldLinks(@)]] = m
  BY <1>2, <1>3, <1>4
<1>6. Stored!Collection(m, "menu") = m
  BY <1>1, CollectionKept DEF NormalMenus
<1> QED BY <1>5, <1>6 DEF Stored!Menus

LEMMA SidebarsMade ==
    ASSUME LinksClean, IdsMade, NEW W, NEW X, NEW V, Branches(X, V),
           NEW b \in Seq(GivenLists(W, X))
    PROVE  NormalSidebars(Stored!Sidebars(b))
<1> DEFINE G == GivenLists(W, X)
           Z == {[l EXCEPT !.items = Stored!SidebarItems(l.items)] : l \in G}
           t == [i \in DOMAIN b |-> [b[i] EXCEPT !.items = Stored!SidebarItems(@)]]
           Y == [id : Seq(IdWords) \ {<<>>}, name : (Seq(W) \cup Seq(IdWords)) \ {<<>>},
                 items : {z.items : z \in Z}]
<1>1. \A z \in Z : z.id \in Seq(W) /\ z.name \in Seq(W) /\ SideNormal(z.items)
  <2> SUFFICES ASSUME NEW l \in G
               PROVE  LET z == [l EXCEPT !.items = Stored!SidebarItems(l.items)]
                      IN z.id \in Seq(W) /\ z.name \in Seq(W) /\ SideNormal(z.items)
    OBVIOUS
  <2>1. l.id \in Seq(W) /\ l.name \in Seq(W) /\ l.items \in Seq(X)
        /\ l = [id |-> l.id, name |-> l.name, items |-> l.items]
    BY DEF GivenLists
  <2>2. SideNormal(Stored!SidebarItems(l.items))
    BY <2>1, SidebarMade
  <2> DEFINE z == [l EXCEPT !.items = Stored!SidebarItems(l.items)]
  <2>3. z.id = l.id /\ z.name = l.name /\ z.items = Stored!SidebarItems(l.items)
    BY <2>1
  <2> QED BY <2>1, <2>2, <2>3
<1>2. t \in [DOMAIN b -> Z]
  <2>1. \A i \in DOMAIN b : b[i] \in G
    BY LenProperties, ElementOfSeq
  <2> HIDE DEF G
  <2> QED BY <2>1
<1>3. t \in Seq(Z)
  <2> HIDE DEF t, Z
  <2> QED BY <1>2, MadeOf
<1>4. Stored!Sidebars(b) = Stored!Collection(t, "sidebar")
  BY DEF Stored!Sidebars
<1> HIDE DEF t, Z
<1>5. /\ Stored!Collection(t, "sidebar") \in Seq(Y) /\ OneEach(Stored!Collection(t, "sidebar"))
      /\ \A y \in Y : NormalList(y)
  <2>1. "sidebar" \in IdWords
    BY DEF IdsMade
  <2> QED BY <1>1, <1>3, <2>1, CollectionMade
<1>6. \A y \in Y : SideNormal(y.items)
  BY <1>1
<1> HIDE DEF Y
<1> QED BY <1>4, <1>5, <1>6 DEF NormalSidebars

LEMMA SidebarsStay ==
    ASSUME IdsMade, NEW b, NormalSidebars(b)
    PROVE  Stored!Sidebars(b) = b
<1>1. PICK Y : b \in Seq(Y) /\ \A y \in Y : NormalList(y) /\ SideNormal(y.items)
  BY DEF NormalSidebars
<1>2. \A y \in Y : [y EXCEPT !.items = Stored!SidebarItems(@)] = y
  <2> SUFFICES ASSUME NEW y \in Y PROVE [y EXCEPT !.items = Stored!SidebarItems(@)] = y
    OBVIOUS
  <2>1. /\ y = [id |-> y.id, name |-> y.name, items |-> y.items]
        /\ Stored!SidebarItems(y.items) = y.items
    BY <1>1, SidebarKept DEF NormalList
  <2> QED BY <2>1
<1>3. DOMAIN b = 1..Len(b) /\ \A i \in 1..Len(b) : b[i] \in Y
  BY <1>1, LenProperties, ElementOfSeq
<1>4. b = [i \in DOMAIN b |-> b[i]]
  BY <1>1, LenProperties
<1>5. [i \in DOMAIN b |-> [b[i] EXCEPT !.items = Stored!SidebarItems(@)]] = b
  BY <1>2, <1>3, <1>4
<1>6. Stored!Collection(b, "sidebar") = b
  BY <1>1, CollectionKept DEF NormalSidebars
<1> QED BY <1>5, <1>6 DEF Stored!Sidebars

-----------------------------------------------------------------------------
(* Locations, the chosen sidebar and the version.                          *)
NormalPlaces(g, m) ==
    /\ g = [l \in DOMAIN g |-> g[l]]
    /\ \A l \in DOMAIN g : /\ l \in Seq(IdWords) /\ l \notin {<<>>, HeroPlace}
                           /\ g[l] \in Seq(IdWords)
                           /\ g[l] \in Stored!IdsIn(m) \cup {<<>>, Stored!DefaultMenu}
NormalChoice(x, b) ==
    x = Unchosen \/ (x \in Seq(IdWords) /\ x \in Stored!IdsIn(b) \cup {<<>>})

LEMMA PlacesMade ==
    ASSUME NEW W, NEW g, \A l \in DOMAIN g : l \in Seq(W) /\ g[l] \in Seq(W), NEW m
    PROVE  NormalPlaces(Stored!Locations(g, m), m)
<1> DEFINE P == Stored!Placed(g, m)
           N == {Stored!IdOf(l) : l \in P}
           At(n) == CHOOSE l \in P : Stored!IdOf(l) = n
           h == [n \in N |-> Stored!IdOf(g[At(n)])]
<1>1. Stored!Locations(g, m) = h
  BY DEF Stored!Locations
<1>2. ASSUME NEW l \in P
      PROVE  /\ Stored!IdOf(l) \in Seq(IdWords) /\ Stored!IdOf(l) \notin {<<>>, HeroPlace}
             /\ Stored!IdOf(g[l]) \in Seq(IdWords)
             /\ Stored!IdOf(g[l]) \in Stored!IdsIn(m) \cup {<<>>, Stored!DefaultMenu}
  <2>1. l \in DOMAIN g /\ Stored!IdOf(l) \notin {<<>>, HeroPlace}
        /\ Stored!IdOf(g[l]) \in Stored!IdsIn(m) \cup {<<>>, Stored!DefaultMenu}
    BY DEF Stored!Placed
  <2> QED BY <2>1, IdTyped
<1> HIDE DEF P
<1>3. \A n \in N : At(n) \in P /\ Stored!IdOf(At(n)) = n
  OBVIOUS
<1> HIDE DEF At, N
<1>4. \A n \in N : /\ n \in Seq(IdWords) /\ n \notin {<<>>, HeroPlace}
                   /\ h[n] \in Seq(IdWords)
                   /\ h[n] \in Stored!IdsIn(m) \cup {<<>>, Stored!DefaultMenu}
  <2> SUFFICES ASSUME NEW n \in N
               PROVE  /\ n \in Seq(IdWords) /\ n \notin {<<>>, HeroPlace}
                      /\ h[n] \in Seq(IdWords)
                      /\ h[n] \in Stored!IdsIn(m) \cup {<<>>, Stored!DefaultMenu}
    OBVIOUS
  <2>1. At(n) \in P /\ Stored!IdOf(At(n)) = n /\ h[n] = Stored!IdOf(g[At(n)])
    BY <1>3
  <2> HIDE DEF h
  <2> QED BY <1>2, <2>1
<1>5. DOMAIN h = N /\ h = [n \in DOMAIN h |-> h[n]]
  OBVIOUS
<1> HIDE DEF h
<1> QED BY <1>1, <1>4, <1>5 DEF NormalPlaces

LEMMA PlacesStay ==
    ASSUME NEW g, NEW m, NormalPlaces(g, m)
    PROVE  Stored!Locations(g, m) = g
<1> DEFINE P == Stored!Placed(g, m)
           N == {Stored!IdOf(l) : l \in P}
           At(n) == CHOOSE l \in P : Stored!IdOf(l) = n
<1>1. \A l \in DOMAIN g : Stored!IdOf(l) = l /\ Stored!IdOf(g[l]) = g[l]
  BY IdKept DEF NormalPlaces
<1>2. P = DOMAIN g
  BY <1>1 DEF Stored!Placed, NormalPlaces
<1>3. N = DOMAIN g
  <2> HIDE DEF P
  <2> QED BY <1>1, <1>2
<1>4. \A n \in DOMAIN g : At(n) = n
  <2> HIDE DEF P
  <2>1. \A n \in DOMAIN g : At(n) \in P /\ Stored!IdOf(At(n)) = n
    BY <1>1, <1>2
  <2> HIDE DEF At
  <2> QED BY <1>1, <1>2, <2>1
<1>5. Stored!Locations(g, m) = [n \in N |-> Stored!IdOf(g[At(n)])]
  BY DEF Stored!Locations
<1>6. [n \in N |-> Stored!IdOf(g[At(n)])] = [n \in DOMAIN g |-> g[n]]
  <2> HIDE DEF At, N
  <2> QED BY <1>1, <1>3, <1>4
<1>7. g = [n \in DOMAIN g |-> g[n]]
  BY DEF NormalPlaces
<1> QED BY <1>5, <1>6, <1>7

LEMMA ChoiceMade ==
    ASSUME NEW W, NEW x, x = Unchosen \/ x \in Seq(W), NEW b
    PROVE  NormalChoice(Stored!SidebarOf(x, b), b)
<1>1. x # Unchosen => Stored!IdOf(x) \in Seq(IdWords)
  BY IdTyped
<1> QED BY <1>1 DEF NormalChoice, Stored!SidebarOf

LEMMA ChoiceStays ==
    ASSUME NEW x, NEW b, NormalChoice(x, b)
    PROVE  Stored!SidebarOf(x, b) = x
<1>1. x # Unchosen => Stored!IdOf(x) = x
  BY IdKept DEF NormalChoice
<1> QED BY <1>1 DEF NormalChoice, Stored!SidebarOf

LEMMA VersionStays ==
    ASSUME NEW v PROVE Stored!VersionOf(Stored!VersionOf(v)) = Stored!VersionOf(v)
<1> DEFINE Ahead(u) == Len(u) = 3 /\ Stored!Newer(u, Release)
<1>1. \A u : Stored!VersionOf(u) = IF Ahead(u) THEN u ELSE Release
  BY DEF Stored!VersionOf
<1> HIDE DEF Ahead
<1> QED BY <1>1

-----------------------------------------------------------------------------
(* settings.json as a whole.                                               *)
IsRecord(s) ==
    s = [pack |-> s.pack, theme |-> s.theme, locale |-> s.locale, order |-> s.order,
         text |-> s.text, version |-> s.version, menus |-> s.menus, sidebars |-> s.sidebars,
         locations |-> s.locations, sidebar |-> s.sidebar, title |-> s.title]

LEMMA NormalFields ==
    ASSUME NEW s, IsRecord(s)
    PROVE  LET n == Stored!Normal(s)
           IN /\ IsRecord(n) /\ n.text = s.text
              /\ n.pack = Stored!ThemeOf(s) /\ n.locale = Stored!LocaleOf(s)
              /\ n.order = Stored!OrderOf(s) /\ n.version = Stored!VersionOf(s.version)
              /\ n.menus = Stored!Menus(s.menus) /\ n.sidebars = Stored!Sidebars(s.sidebars)
              /\ n.locations = Stored!Locations(s.locations, n.menus)
              /\ n.sidebar = Stored!SidebarOf(s.sidebar, n.sidebars)
              /\ n.title = Stored!TitleOf(s)
<1> DEFINE p == Stored!ThemeOf(s)
           l == Stored!LocaleOf(s)
           o == Stored!OrderOf(s)
           v == Stored!VersionOf(s.version)
           m == Stored!Menus(s.menus)
           b == Stored!Sidebars(s.sidebars)
           g == Stored!Locations(s.locations, m)
           c == Stored!SidebarOf(s.sidebar, b)
           t == Stored!TitleOf(s)
           n == Stored!Normal(s)
<1>1. n = [s EXCEPT !.pack = p, !.locale = l, !.order = o, !.version = v, !.menus = m,
                    !.sidebars = b, !.locations = g, !.sidebar = c, !.title = t]
  BY DEF Stored!Normal, Stored!WithLists
<1> HIDE DEF n, p, l, o, v, m, b, g, c, t
<1>2. n = [pack |-> p, theme |-> s.theme, locale |-> l, order |-> o, text |-> s.text,
           version |-> v, menus |-> m, sidebars |-> b, locations |-> g, sidebar |-> c,
           title |-> t]
  BY <1>1 DEF IsRecord
<1>3. /\ IsRecord(n) /\ n.text = s.text /\ n.pack = p /\ n.locale = l /\ n.order = o
      /\ n.version = v /\ n.menus = m /\ n.sidebars = b /\ n.locations = g /\ n.sidebar = c
      /\ n.title = t
  BY <1>2 DEF IsRecord
<1>4. g = Stored!Locations(s.locations, n.menus) /\ c = Stored!SidebarOf(s.sidebar, n.sidebars)
  BY <1>3 DEF g, c
<1> QED BY <1>3, <1>4 DEF n, p, l, o, v, m, b, t

(* SaveSettings writes the settings without the fields of older releases.  *)
Off == [enabled |-> FALSE, id |-> ""]

LEMMA SavedFields ==
    ASSUME NEW s, IsRecord(s)
    PROVE  LET n == Stored!Normal(s)
               w == Stored!SaveSettings(s)
           IN /\ IsRecord(w) /\ w.text = Off /\ w.theme = ""
              /\ w.pack = n.pack /\ w.locale = n.locale /\ w.order = n.order
              /\ w.version = n.version /\ w.menus = n.menus /\ w.sidebars = n.sidebars
              /\ w.locations = n.locations /\ w.sidebar = n.sidebar /\ w.title = n.title
<1> DEFINE n == Stored!Normal(s)
           w == Stored!SaveSettings(s)
<1>1. w = [n EXCEPT !.theme = "", !.text = Off]
  BY DEF Stored!SaveSettings, Off
<1>2. IsRecord(n)
  BY NormalFields
<1> HIDE DEF n, w
<1>3. w = [pack |-> n.pack, theme |-> "", locale |-> n.locale, order |-> n.order, text |-> Off,
           version |-> n.version, menus |-> n.menus, sidebars |-> n.sidebars,
           locations |-> n.locations, sidebar |-> n.sidebar, title |-> n.title]
  BY <1>1, <1>2 DEF IsRecord
<1>4. /\ IsRecord(w) /\ w.text = Off /\ w.theme = ""
      /\ w.pack = n.pack /\ w.locale = n.locale /\ w.order = n.order
      /\ w.version = n.version /\ w.menus = n.menus /\ w.sidebars = n.sidebars
      /\ w.locations = n.locations /\ w.sidebar = n.sidebar /\ w.title = n.title
  BY <1>3 DEF IsRecord
<1> QED BY <1>4 DEF n, w

(* What reading again leaves alone. The chosen sidebar and the title are   *)
(* apart: the editor may take the sidebar away.                            *)
ListsNormal(s) ==
    /\ IsRecord(s) /\ NormalMenus(s.menus) /\ NormalSidebars(s.sidebars)
    /\ NormalPlaces(s.locations, s.menus)
    /\ Stored!VersionOf(s.version) = s.version

(* What a file may have.                                                   *)
GivenFile(s, W, X) ==
    /\ IsRecord(s)
    /\ s.menus \in Seq(GivenLists(W, X)) /\ s.sidebars \in Seq(GivenLists(W, X))
    /\ \A l \in DOMAIN s.locations : l \in Seq(W) /\ s.locations[l] \in Seq(W)
    /\ s.sidebar = Unchosen \/ s.sidebar \in Seq(W)

LEMMA LoadedNormal ==
    ASSUME LinksClean, IdsMade, NEW W, NEW X, NEW V, Branches(X, V), NEW s, GivenFile(s, W, X)
    PROVE  LET n == Stored!Normal(s) IN ListsNormal(n) /\ NormalChoice(n.sidebar, n.sidebars)
<1> DEFINE n == Stored!Normal(s)
<1>1. /\ IsRecord(n) /\ n.version = Stored!VersionOf(s.version)
      /\ n.menus = Stored!Menus(s.menus) /\ n.sidebars = Stored!Sidebars(s.sidebars)
      /\ n.locations = Stored!Locations(s.locations, n.menus)
      /\ n.sidebar = Stored!SidebarOf(s.sidebar, n.sidebars)
  BY NormalFields DEF GivenFile
<1> HIDE DEF n
<1>2. /\ s.menus \in Seq(GivenLists(W, X)) /\ s.sidebars \in Seq(GivenLists(W, X))
      /\ \A l \in DOMAIN s.locations : l \in Seq(W) /\ s.locations[l] \in Seq(W)
      /\ s.sidebar = Unchosen \/ s.sidebar \in Seq(W)
  BY DEF GivenFile
<1>3. NormalMenus(n.menus) /\ NormalSidebars(n.sidebars)
  BY <1>1, <1>2, MenusMade, SidebarsMade
<1>4. NormalPlaces(n.locations, n.menus)
  BY <1>1, <1>2, PlacesMade
<1>5. NormalChoice(n.sidebar, n.sidebars)
  BY <1>1, <1>2, ChoiceMade
<1>6. Stored!VersionOf(n.version) = n.version
  BY <1>1, VersionStays
<1> QED BY <1>1, <1>3, <1>4, <1>5, <1>6 DEF ListsNormal, n

LEMMA NormalStays ==
    ASSUME IdsMade, NEW s, ListsNormal(s)
    PROVE  LET n == Stored!Normal(s)
           IN /\ ListsNormal(n)
              /\ n.menus = s.menus /\ n.sidebars = s.sidebars /\ n.locations = s.locations
              /\ n.version = s.version /\ n.title = s.title
              /\ NormalChoice(s.sidebar, s.sidebars) => n.sidebar = s.sidebar
<1> DEFINE n == Stored!Normal(s)
<1>1. /\ IsRecord(n) /\ n.version = Stored!VersionOf(s.version)
      /\ n.menus = Stored!Menus(s.menus) /\ n.sidebars = Stored!Sidebars(s.sidebars)
      /\ n.locations = Stored!Locations(s.locations, n.menus)
      /\ n.sidebar = Stored!SidebarOf(s.sidebar, n.sidebars)
      /\ n.title = Stored!TitleOf(s)
  BY NormalFields DEF ListsNormal
<1> HIDE DEF n
<1>2. n.menus = s.menus /\ n.sidebars = s.sidebars
  BY <1>1, MenusStay, SidebarsStay DEF ListsNormal
<1>3. n.locations = s.locations
  BY <1>1, <1>2, PlacesStay DEF ListsNormal
<1>4. n.version = s.version
  BY <1>1 DEF ListsNormal
<1>5. NormalChoice(s.sidebar, s.sidebars) => n.sidebar = s.sidebar
  BY <1>1, <1>2, ChoiceStays
<1>6. n.title = s.title
  <2>1. \A l \in DOMAIN s.locations : Stored!IdOf(l) = l /\ l # HeroPlace
    BY IdKept DEF ListsNormal, NormalPlaces
  <2> QED BY <1>1, <2>1 DEF Stored!TitleOf
<1>7. ListsNormal(n)
  BY <1>1, <1>2, <1>3, <1>4 DEF ListsNormal
<1> QED BY <1>2, <1>3, <1>4, <1>5, <1>6, <1>7 DEF n

LEMMA ReloadedStays ==
    ASSUME IdsMade, NEW s, ListsNormal(s)
    PROVE  LET t == Stored!Reloaded(s)
           IN /\ t.menus = s.menus /\ t.sidebars = s.sidebars /\ t.locations = s.locations
              /\ t.version = s.version /\ t.title = s.title
              /\ NormalChoice(s.sidebar, s.sidebars) => t.sidebar = s.sidebar
<1> DEFINE n == Stored!Normal(s)
           w == Stored!SaveSettings(s)
           t == Stored!Normal(w)
<1>1. /\ ListsNormal(n)
      /\ n.menus = s.menus /\ n.sidebars = s.sidebars /\ n.locations = s.locations
      /\ n.version = s.version /\ n.title = s.title
      /\ NormalChoice(s.sidebar, s.sidebars) => n.sidebar = s.sidebar
  BY NormalStays
<1>2. /\ IsRecord(w) /\ w.version = n.version /\ w.menus = n.menus /\ w.sidebars = n.sidebars
      /\ w.locations = n.locations /\ w.sidebar = n.sidebar /\ w.title = n.title
  BY SavedFields DEF ListsNormal
<1>3. Stored!Reloaded(s) = t
  BY DEF Stored!Reloaded, Stored!LoadSettings
<1> HIDE DEF n, w
<1>4. ListsNormal(w)
  BY <1>1, <1>2 DEF ListsNormal
<1>5. /\ t.menus = w.menus /\ t.sidebars = w.sidebars /\ t.locations = w.locations
      /\ t.version = w.version /\ t.title = w.title
      /\ NormalChoice(w.sidebar, w.sidebars) => t.sidebar = w.sidebar
  BY <1>4, NormalStays
<1> HIDE DEF t
<1> QED BY <1>1, <1>2, <1>3, <1>5

-----------------------------------------------------------------------------
(* What the editors leave of menus and sidebars.                           *)
LEMMA WithoutKeeps ==
    ASSUME NEW Y, NEW d \in Seq(Y), OneEach(d), NEW gone
    PROVE  LET w == Stored!Without(d, gone)
           IN /\ w \in Seq(Y) /\ OneEach(w)
              /\ Stored!ToSet(w) = {l \in Stored!ToSet(d) : l.id # gone}
<1> DEFINE S == {l \in Stored!ToSet(d) : l.id # gone}
           w == Where(d, S)
<1>1. Stored!Without(d, gone) = w
  BY StoredWhere DEF Stored!Without
<1>2. Stored!ToSet(d) = {d[i] : i \in 1..Len(d)}
  BY StoredToSet
<1>3. \A l \in S : \E i \in 1..Len(d) : l = d[i]
  BY <1>2
<1>4. \A i \in 1..Len(d) : d[i].id # gone => d[i] \in S
  BY <1>2
<1> HIDE DEF S
<1>5. w \in Seq(Y)
  BY WhereTyped
<1>6. \A j \in 1..Len(w) : w[j] \in S /\ \E i \in 1..Len(d) : w[j] = d[i]
  BY WhereFrom
<1>7. \A i \in 1..Len(d) : d[i] \in S => \E j \in 1..Len(w) : w[j] = d[i]
  BY WhereTakes DEF TakesAll
<1>8. Unlike(w)
  <2>1. Unlike(d)
    BY DEF Unlike, OneEach
  <2> QED BY <2>1, WhereUnlike
<1> HIDE DEF w
<1>9. OneEach(w)
  <2> SUFFICES ASSUME NEW i \in 1..Len(w), NEW j \in 1..Len(w), w[i].id = w[j].id PROVE i = j
    BY DEF OneEach
  <2>1. PICK k \in 1..Len(d) : w[i] = d[k]
    BY <1>6
  <2>2. PICK m \in 1..Len(d) : w[j] = d[m]
    BY <1>6
  <2>3. k = m
    BY <2>1, <2>2 DEF OneEach
  <2> QED BY <1>8, <2>1, <2>2, <2>3 DEF Unlike
<1>10. Stored!ToSet(w) = S
  <2>1. Stored!ToSet(w) = {w[j] : j \in 1..Len(w)}
    BY <1>5, StoredToSet
  <2> QED BY <1>3, <1>6, <1>7, <2>1
<1> QED BY <1>1, <1>5, <1>9, <1>10 DEF S

LEMMA IdsListed ==
    ASSUME NEW Y, NEW d \in Seq(Y)
    PROVE  Stored!IdsIn(d) = {l.id : l \in Stored!ToSet(d)}
<1>1. Stored!ToSet(d) = {d[i] : i \in 1..Len(d)}
  BY StoredToSet
<1>2. Stored!IdsIn(d) = {d[i].id : i \in 1..Len(d)}
  BY IdsInFinite
<1> QED BY <1>1, <1>2

LEMMA EditedMenus ==
    ASSUME NEW m, NormalMenus(m), NEW gone
    PROVE  LET w == Stored!Without(m, gone)
           IN /\ NormalMenus(w)
              /\ Stored!IdsIn(w) = Stored!IdsIn(m) \ {gone}
              /\ \A id : id # gone => Stored!Listed(w, id) = Stored!Listed(m, id)
<1>1. PICK Y : m \in Seq(Y) /\ \A y \in Y : NormalList(y) /\ NormalLinks(y.items)
  BY DEF NormalMenus
<1> DEFINE w == Stored!Without(m, gone)
<1>2. /\ w \in Seq(Y) /\ OneEach(w)
      /\ Stored!ToSet(w) = {l \in Stored!ToSet(m) : l.id # gone}
  BY <1>1, WithoutKeeps DEF NormalMenus
<1> HIDE DEF w
<1>3. NormalMenus(w)
  BY <1>1, <1>2 DEF NormalMenus
<1>4. /\ Stored!IdsIn(w) = {l.id : l \in Stored!ToSet(w)}
      /\ Stored!IdsIn(m) = {l.id : l \in Stored!ToSet(m)}
  BY <1>1, <1>2, IdsListed
<1>5. Stored!IdsIn(w) = Stored!IdsIn(m) \ {gone}
  BY <1>2, <1>4
<1>6. \A id : id # gone => Stored!Listed(w, id) = Stored!Listed(m, id)
  BY <1>2 DEF Stored!Listed
<1> QED BY <1>3, <1>5, <1>6 DEF w

(* sidebarAdminMenus puts links into a section of the name of the sidebar: *)
(* the page does that too.                                                 *)
LEMMA SidebarEdited ==
    ASSUME NewName # <<>>, NEW b, NormalList(b), SideNormal(b.items)
    PROVE  LET e == Stored!EditedSidebar(b)
           IN /\ NormalList(e) /\ SideNormal(e.items) /\ e.id = b.id
              /\ Stored!Blocks(e) = Stored!Blocks(b)
<1> DEFINE e == Stored!EditedSidebar(b)
           name == IF b.name \in OldNames THEN NewName ELSE b.name
           section == Stored!Item("custom", b.name, b.items)
<1>1. /\ b = [id |-> b.id, name |-> b.name, items |-> b.items]
      /\ b.id \in Seq(IdWords) \ {<<>>} /\ b.name # <<>>
  BY DEF NormalList
<1>2. CASE b.items = <<>>
  <2>1. e = [b EXCEPT !.name = name]
    BY <1>2 DEF Stored!EditedSidebar
  <2> HIDE DEF e
  <2>2. name # <<>>
    BY <1>1
  <2> HIDE DEF name
  <2>3. /\ e = [id |-> e.id, name |-> e.name, items |-> e.items] /\ e.id = b.id /\ e.name = name
        /\ e.items = <<>>
    BY <1>1, <1>2, <2>1
  <2>4. NormalList(e)
    BY <1>1, <2>2, <2>3 DEF NormalList
  <2>5. ~Stored!IsOldList(<<>>)
    BY DEF Stored!IsOldList
  <2>6. Stored!Blocks(e) = Stored!Blocks(b)
    BY <1>2, <2>3, <2>5 DEF Stored!Blocks
  <2> QED BY <1>2, <2>3, <2>4, <2>6 DEF e
<1>3. CASE b.items # <<>> /\ Stored!HasBlocks(b.items)
  <2>1. e = b
    BY <1>3 DEF Stored!EditedSidebar
  <2> QED BY <2>1
<1>4. CASE b.items # <<>> /\ ~Stored!HasBlocks(b.items)
  <2>1. e = [b EXCEPT !.items = <<section>>]
    BY <1>4 DEF Stored!EditedSidebar
  <2>2. NormalLinks(b.items) /\ Stored!IsOldList(b.items)
    BY <1>4, TwoKinds
  <2>3. NormalSection(section)
    <3>1. /\ section.type = "custom" /\ section.label = b.name /\ section.items = b.items
          /\ section = Stored!Item(section.type, section.label, section.items)
      BY DEF Stored!Item
    <3>2. section # Stored!Item("custom", <<>>, <<>>)
      BY <1>4 DEF Stored!Item
    <3> HIDE DEF section
    <3> QED BY <2>2, <3>1, <3>2 DEF NormalSection, Stored!Sections
  <2>4. Stored!Blocks(b) = <<section>>
    <3>1. Stored!OldLinks(b.items) = b.items
      BY <2>2, OldLinksKept
    <3> QED BY <2>2, <3>1 DEF Stored!Blocks
  <2> HIDE DEF e, section
  <2>5. /\ e = [id |-> e.id, name |-> e.name, items |-> e.items] /\ e.id = b.id /\ e.name = b.name
        /\ e.items = <<section>>
    BY <1>1, <2>1
  <2>6. NormalList(e)
    BY <1>1, <2>5 DEF NormalList
  <2>7. NormalSections(<<section>>)
    <3> DEFINE N == {section}
    <3>1. <<section>> \in Seq(N) /\ \A y \in N : NormalSection(y)
      BY <2>3
    <3> HIDE DEF N
    <3> QED BY <3>1 DEF NormalSections
  <2>8. SideNormal(<<section>>) /\ ~Stored!IsOldList(<<section>>)
    <3>1. ~Stored!IsOldLink(section)
      BY <2>3, SectionKept
    <3>2. 1 \in DOMAIN <<section>> /\ <<section>>[1] = section
      OBVIOUS
    <3> QED BY <2>7, <3>1, <3>2 DEF SideNormal, Stored!IsOldList
  <2>9. Stored!Blocks(e) = <<section>>
    <3>1. Stored!SidebarItems(<<section>>) = <<section>>
      BY <2>8, SidebarKept
    <3> QED BY <2>5, <2>8, <3>1 DEF Stored!Blocks
  <2> QED BY <2>4, <2>5, <2>6, <2>8, <2>9 DEF e
<1> QED BY <1>2, <1>3, <1>4

LEMMA EditedSidebars ==
    ASSUME NewName # <<>>, NEW b, NormalSidebars(b), NEW gone
    PROVE  LET rest == Stored!Without(b, gone)
               w    == [i \in DOMAIN rest |-> Stored!EditedSidebar(rest[i])]
           IN /\ NormalSidebars(w)
              /\ Stored!IdsIn(w) = Stored!IdsIn(b) \ {gone}
              /\ \A id : id # gone =>
                    {Stored!SectionsOf(l) : l \in Stored!Listed(w, id)}
                       = {Stored!SectionsOf(l) : l \in Stored!Listed(b, id)}
<1>1. PICK Y : b \in Seq(Y) /\ \A y \in Y : NormalList(y) /\ SideNormal(y.items)
  BY DEF NormalSidebars
<1> DEFINE rest == Stored!Without(b, gone)
           Z == {Stored!EditedSidebar(y) : y \in Y}
           w == [i \in DOMAIN rest |-> Stored!EditedSidebar(rest[i])]
<1>2. /\ rest \in Seq(Y) /\ OneEach(rest)
      /\ Stored!ToSet(rest) = {l \in Stored!ToSet(b) : l.id # gone}
  BY <1>1, WithoutKeeps DEF NormalSidebars
<1> HIDE DEF rest
<1>3. \A y \in Y : /\ NormalList(Stored!EditedSidebar(y))
                   /\ SideNormal(Stored!EditedSidebar(y).items)
                   /\ Stored!EditedSidebar(y).id = y.id
                   /\ Stored!Blocks(Stored!EditedSidebar(y)) = Stored!Blocks(y)
  BY <1>1, SidebarEdited
<1>4. DOMAIN rest = 1..Len(rest) /\ \A i \in 1..Len(rest) : rest[i] \in Y
  BY <1>2, LenProperties, ElementOfSeq
<1>5. w \in [DOMAIN rest -> Z]
  BY <1>4
<1>6. /\ w \in Seq(Z) /\ Len(w) = Len(rest)
      /\ \A i \in 1..Len(rest) : w[i] = Stored!EditedSidebar(rest[i])
  <2>1. \A i \in 1..Len(rest) : w[i] = Stored!EditedSidebar(rest[i])
    BY <1>4
  <2> HIDE DEF w, Z
  <2> QED BY <1>2, <1>5, <2>1, MadeOf
<1> HIDE DEF w
<1>7. \A z \in Z : NormalList(z) /\ SideNormal(z.items)
  BY <1>3
<1> HIDE DEF Z
<1>8. \A i \in 1..Len(rest) : w[i].id = rest[i].id
  BY <1>3, <1>4, <1>6
<1>9. OneEach(w)
  BY <1>2, <1>6, <1>8 DEF OneEach
<1>10. NormalSidebars(w)
  BY <1>6, <1>7, <1>9 DEF NormalSidebars
<1>11. /\ Stored!ToSet(w) = {w[i] : i \in 1..Len(rest)}
       /\ Stored!ToSet(rest) = {rest[i] : i \in 1..Len(rest)}
  <2>1. Stored!ToSet(w) = {w[i] : i \in 1..Len(w)}
    BY <1>6, StoredToSet
  <2>2. Stored!ToSet(rest) = {rest[i] : i \in 1..Len(rest)}
    BY <1>2, StoredToSet
  <2>3. Len(w) = Len(rest)
    BY <1>6
  <2> QED BY <2>1, <2>2, <2>3
<1>12. Stored!IdsIn(w) = Stored!IdsIn(b) \ {gone}
  <2>1. /\ Stored!IdsIn(w) = {l.id : l \in Stored!ToSet(w)}
        /\ Stored!IdsIn(rest) = {l.id : l \in Stored!ToSet(rest)}
        /\ Stored!IdsIn(b) = {l.id : l \in Stored!ToSet(b)}
    BY <1>1, <1>2, <1>6, IdsListed
  <2>2. Stored!IdsIn(w) = Stored!IdsIn(rest)
    BY <1>8, <1>11, <2>1
  <2>3. Stored!IdsIn(rest) = Stored!IdsIn(b) \ {gone}
    BY <1>2, <2>1
  <2> QED BY <2>2, <2>3
<1>13. \A y \in Y : Stored!SectionsOf(Stored!EditedSidebar(y)) = Stored!SectionsOf(y)
  BY <1>3 DEF Stored!SectionsOf
<1>14. ASSUME NEW id, id # gone
       PROVE  {Stored!SectionsOf(l) : l \in Stored!Listed(w, id)}
                 = {Stored!SectionsOf(l) : l \in Stored!Listed(b, id)}
  <2>1. Stored!Listed(b, id) = Stored!Listed(rest, id)
    BY <1>2, <1>14 DEF Stored!Listed
  <2>2. /\ Stored!Listed(rest, id) = {l \in {rest[i] : i \in 1..Len(rest)} : l.id = id}
        /\ Stored!Listed(w, id) = {l \in {w[i] : i \in 1..Len(rest)} : l.id = id}
    BY <1>11 DEF Stored!Listed
  <2>3. \A i \in 1..Len(rest) : /\ w[i].id = rest[i].id
                                /\ Stored!SectionsOf(w[i]) = Stored!SectionsOf(rest[i])
    BY <1>4, <1>6, <1>8, <1>13
  <2> QED BY <2>1, <2>2, <2>3
<1> QED BY <1>10, <1>12, <1>14 DEF w, rest

LEMMA EditedFields ==
    ASSUME NEW s, IsRecord(s)
    PROVE  LET e    == Stored!Edited(s)
               rest == Stored!Without(s.sidebars, Stored!DefaultSidebar)
           IN /\ IsRecord(e) /\ e.menus = Stored!Without(s.menus, Stored!DefaultMenu)
              /\ e.sidebars = [i \in DOMAIN rest |-> Stored!EditedSidebar(rest[i])]
              /\ e.locations = s.locations /\ e.sidebar = s.sidebar /\ e.version = s.version
<1> DEFINE e == Stored!Edited(s)
           rest == Stored!Without(s.sidebars, Stored!DefaultSidebar)
           m == Stored!Without(s.menus, Stored!DefaultMenu)
           b == [i \in DOMAIN rest |-> Stored!EditedSidebar(rest[i])]
<1>1. e = [s EXCEPT !.menus = m, !.sidebars = b]
  BY DEF Stored!Edited
<1> HIDE DEF e, m, b
<1>2. /\ IsRecord(e) /\ e.menus = m /\ e.sidebars = b
      /\ e.locations = s.locations /\ e.sidebar = s.sidebar /\ e.version = s.version
  BY <1>1 DEF IsRecord
<1> QED BY <1>2 DEF e, m, b

(* What the editors send back is normal, but a sidebar may be gone.        *)
LEMMA EditedNormal ==
    ASSUME NewName # <<>>, NEW s, ListsNormal(s)
    PROVE  LET e == Stored!Edited(s)
           IN /\ ListsNormal(e)
              /\ NormalChoice(s.sidebar, s.sidebars) /\ s.sidebar # Stored!DefaultSidebar
                    => NormalChoice(e.sidebar, e.sidebars)
<1> DEFINE e == Stored!Edited(s)
           rest == Stored!Without(s.sidebars, Stored!DefaultSidebar)
<1>1. /\ IsRecord(e) /\ e.menus = Stored!Without(s.menus, Stored!DefaultMenu)
      /\ e.sidebars = [i \in DOMAIN rest |-> Stored!EditedSidebar(rest[i])]
      /\ e.locations = s.locations /\ e.sidebar = s.sidebar /\ e.version = s.version
  BY EditedFields DEF ListsNormal
<1>2. NormalMenus(e.menus) /\ Stored!IdsIn(e.menus) = Stored!IdsIn(s.menus) \ {Stored!DefaultMenu}
  <2> HIDE DEF e
  <2> QED BY <1>1, EditedMenus DEF ListsNormal
<1>3. /\ NormalSidebars(e.sidebars)
      /\ Stored!IdsIn(e.sidebars) = Stored!IdsIn(s.sidebars) \ {Stored!DefaultSidebar}
  <2> HIDE DEF e
  <2>1. NormalSidebars(s.sidebars)
    BY DEF ListsNormal
  <2> QED BY <1>1, <2>1, EditedSidebars
<1> HIDE DEF e
<1>4. NormalPlaces(e.locations, e.menus)
  BY <1>1, <1>2 DEF NormalPlaces, ListsNormal
<1>5. Stored!VersionOf(e.version) = e.version
  BY <1>1 DEF ListsNormal
<1>6. NormalChoice(s.sidebar, s.sidebars) /\ s.sidebar # Stored!DefaultSidebar
         => NormalChoice(e.sidebar, e.sidebars)
  BY <1>1, <1>3 DEF NormalChoice
<1> QED BY <1>1, <1>2, <1>3, <1>4, <1>5, <1>6 DEF ListsNormal, e

(* The pages show the same as before the editors.                          *)
LEMMA LinksSurvive ==
    ASSUME IdsMade, NewName # <<>>, NEW s, ListsNormal(s), NormalChoice(s.sidebar, s.sidebars)
    PROVE  Stored!SameLinks(s, Stored!Reloaded(Stored!Edited(s)))
<1> DEFINE e == Stored!Edited(s)
           t == Stored!Reloaded(e)
           rest == Stored!Without(s.sidebars, Stored!DefaultSidebar)
<1>1. /\ e.menus = Stored!Without(s.menus, Stored!DefaultMenu)
      /\ e.sidebars = [i \in DOMAIN rest |-> Stored!EditedSidebar(rest[i])]
      /\ e.locations = s.locations /\ e.sidebar = s.sidebar
  BY EditedFields DEF ListsNormal
<1>2. ListsNormal(e) /\ (s.sidebar # Stored!DefaultSidebar => NormalChoice(e.sidebar, e.sidebars))
  BY EditedNormal
<1> HIDE DEF e
<1>3. /\ t.menus = e.menus /\ t.sidebars = e.sidebars /\ t.locations = e.locations
      /\ NormalChoice(e.sidebar, e.sidebars) => t.sidebar = e.sidebar
  BY <1>2, ReloadedStays
<1> HIDE DEF t
<1>4. \A id : id # Stored!DefaultMenu => Stored!Listed(t.menus, id) = Stored!Listed(s.menus, id)
  BY <1>1, <1>3, EditedMenus DEF ListsNormal
<1>5. \A l : Stored!MenuLinks(t, l) = Stored!MenuLinks(s, l)
  <2> SUFFICES ASSUME NEW l PROVE Stored!MenuLinks(t, l) = Stored!MenuLinks(s, l)
    OBVIOUS
  <2>1. t.locations = s.locations
    BY <1>1, <1>3
  <2>2. CASE l \notin DOMAIN s.locations
    BY <2>1, <2>2 DEF Stored!MenuLinks
  <2>3. CASE l \in DOMAIN s.locations /\ s.locations[l] = Stored!DefaultMenu
    BY <2>1, <2>3 DEF Stored!MenuLinks
  <2>4. CASE l \in DOMAIN s.locations /\ s.locations[l] # Stored!DefaultMenu
    <3>1. Stored!Listed(t.menus, s.locations[l]) = Stored!Listed(s.menus, s.locations[l])
      BY <1>4, <2>4
    <3> QED BY <2>1, <2>4, <3>1 DEF Stored!MenuLinks
  <2> QED BY <2>2, <2>3, <2>4
<1>6. ASSUME s.sidebar # Stored!DefaultSidebar
      PROVE  Stored!SidebarSections(t) = Stored!SidebarSections(s)
  <2>1. t.sidebar = s.sidebar
    BY <1>1, <1>2, <1>3, <1>6
  <2>2. {Stored!SectionsOf(l) : l \in Stored!Listed(t.sidebars, s.sidebar)}
           = {Stored!SectionsOf(l) : l \in Stored!Listed(s.sidebars, s.sidebar)}
    <3>1. /\ NormalSidebars(s.sidebars)
          /\ t.sidebars = [i \in DOMAIN rest |-> Stored!EditedSidebar(rest[i])]
      BY <1>1, <1>3 DEF ListsNormal
    <3> DEFINE w == [i \in DOMAIN rest |-> Stored!EditedSidebar(rest[i])]
    <3>2. \A id : id # Stored!DefaultSidebar =>
             {Stored!SectionsOf(l) : l \in Stored!Listed(w, id)}
                = {Stored!SectionsOf(l) : l \in Stored!Listed(s.sidebars, id)}
      BY <3>1, EditedSidebars
    <3>3. t.sidebars = w
      BY <3>1
    <3> HIDE DEF w
    <3> QED BY <1>6, <3>2, <3>3
  <2>3. Stored!SidebarSections(t) = IF t.sidebar = Unchosen THEN {Unchosen}
              ELSE {Stored!SectionsOf(l) : l \in Stored!Listed(t.sidebars, t.sidebar)}
    BY DEF Stored!SidebarSections
  <2>4. Stored!SidebarSections(s) = IF s.sidebar = Unchosen THEN {Unchosen}
              ELSE {Stored!SectionsOf(l) : l \in Stored!Listed(s.sidebars, s.sidebar)}
    BY DEF Stored!SidebarSections
  <2> QED BY <2>1, <2>2, <2>3, <2>4
<1> QED BY <1>5, <1>6 DEF Stored!SameLinks, t, e

LEMMA LoadedSurvives ==
    ASSUME LinksClean, IdsMade, NewName # <<>>, NEW W, NEW X, NEW V, Branches(X, V),
           NEW given, GivenFile(given, W, X)
    PROVE  Stored!MenusKept(given)
<1> DEFINE s == Stored!Normal(given)
<1>1. ListsNormal(s) /\ NormalChoice(s.sidebar, s.sidebars)
  BY LoadedNormal
<1> HIDE DEF s
<1>2. Stored!SameSettings(s, Stored!Reloaded(s))
  <2> DEFINE t == Stored!Reloaded(s)
  <2>1. /\ t.menus = s.menus /\ t.sidebars = s.sidebars /\ t.locations = s.locations
        /\ t.version = s.version /\ t.title = s.title /\ t.sidebar = s.sidebar
    BY <1>1, ReloadedStays
  <2> HIDE DEF t
  <2>2. Stored!SameSettings(s, t)
    BY <2>1 DEF Stored!SameSettings
  <2> QED BY <2>2 DEF t
<1>3. Stored!SameLinks(s, Stored!Reloaded(Stored!Edited(s)))
  BY <1>1, LinksSurvive
<1>4. Stored!LoadedKept(s)
  BY <1>2, <1>3 DEF Stored!LoadedKept
<1> QED BY <1>4 DEF Stored!MenusKept, Stored!LoadSettings, s

-----------------------------------------------------------------------------
(* A choice that the page of themes can send.                              *)
GoodPick(c) ==
    /\ c.pack # "" /\ c.locale # "" /\ Stored!Locale(c.locale) = c.locale
    /\ \E P : c.order \in Seq(P)
    /\ Unlike(c.order) /\ \A i \in 1..Len(c.order) : c.order[i] # ""

LEMMA Positions ==
    \A num \in Nat : \A i \in 1..num : i \in Nat /\ \A j \in 1..i - 1 : j \in 1..num /\ j # i
OBVIOUS

LEMMA DistinctStays ==
    ASSUME NEW P, NEW seq \in Seq(P), Unlike(seq), \A i \in 1..Len(seq) : seq[i] # ""
    PROVE  Stored!Distinct(seq) = seq
<1> DEFINE ids == [i \in DOMAIN seq |-> i]
           S == {i \in DOMAIN seq : seq[i] # "" /\ \A j \in 1..i - 1 : seq[j] # seq[i]}
<1>1. DOMAIN seq = 1..Len(seq) /\ Len(seq) \in Nat
  BY LenProperties
<1>2. ids \in Seq(Nat) /\ Len(ids) = Len(seq) /\ \A i \in 1..Len(seq) : ids[i] = i
  <2>1. ids \in [1..Len(seq) -> Nat] /\ \A i \in 1..Len(seq) : ids[i] = i
    <3>1. ids = [i \in 1..Len(seq) |-> i]
      BY <1>1
    <3>2. \A i \in 1..Len(seq) : i \in Nat
      BY <1>1, Positions, Zenon
    <3> HIDE DEF ids
    <3> QED BY <3>1, <3>2
  <2> HIDE DEF ids
  <2> QED BY <1>1, <2>1, MadeOf
<1>3. \A i \in 1..Len(seq) : i \in S
  <2> SUFFICES ASSUME NEW i \in 1..Len(seq) PROVE i \in S
    OBVIOUS
  <2>1. i \in Nat /\ \A j \in 1..i - 1 : j \in 1..Len(seq) /\ j # i
    BY <1>1, Positions, Zenon
  <2>2. \A j \in 1..i - 1 : seq[j] # seq[i]
    BY <2>1 DEF Unlike
  <2>3. i \in DOMAIN seq /\ seq[i] # ""
    BY <1>1, Zenon
  <2> QED BY <2>2, <2>3
<1> HIDE DEF S
<1>4. Where(ids, S) = ids
  <2> HIDE DEF ids
  <2>1. TakesAll(Where(ids, S), ids, Nat, S)
    BY <1>2, WhereTakes
  <2> QED BY <1>2, <1>3, <2>1 DEF TakesAll
<1>5. Stored!Distinct(seq) = [i \in DOMAIN Where(ids, S) |-> seq[Where(ids, S)[i]]]
  BY StoredWhere DEF Stored!Distinct, S
<1>6. DOMAIN ids = 1..Len(seq)
  BY <1>1
<1> HIDE DEF ids
<1>7. [i \in DOMAIN Where(ids, S) |-> seq[Where(ids, S)[i]]] = [i \in 1..Len(seq) |-> seq[i]]
  BY <1>2, <1>4, <1>6
<1>8. seq = [i \in 1..Len(seq) |-> seq[i]]
  BY <1>1, LenProperties
<1> QED BY <1>5, <1>7, <1>8

LEMMA OffIsOff == Off.id = ""
BY DEF Off

(* Without a text pack, a choice is what the next load finds.              *)
LEMMA ChoiceFound ==
    ASSUME NEW s, IsRecord(s), Stored!TextPack(s) = "", NEW c, GoodPick(c)
    PROVE  Stored!Found(Stored!Reloaded(Stored!Chosen(s, c)), c)
<1> DEFINE x == Stored!Chosen(s, c)
           n == Stored!Normal(x)
           w == Stored!SaveSettings(x)
           t == Stored!Normal(w)
<1>1. IsRecord(x) /\ x.pack = c.pack /\ x.locale = c.locale /\ x.order = c.order /\ x.text = s.text
  <2>1. x = [s EXCEPT !.pack = c.pack, !.locale = c.locale, !.order = c.order]
    BY DEF Stored!Chosen
  <2> HIDE DEF x
  <2> QED BY <2>1 DEF IsRecord
<1> HIDE DEF x
<1>2. Stored!Distinct(c.order) = c.order
  BY DistinctStays DEF GoodPick
<1>3. ASSUME NEW u, u.pack = c.pack, u.locale = c.locale, u.order = c.order,
             Stored!TextPack(u) = ""
      PROVE  /\ Stored!ThemeOf(u) = c.pack /\ Stored!LocaleOf(u) = c.locale
             /\ Stored!OrderOf(u) = c.order
  BY <1>2, <1>3 DEF GoodPick, Stored!ThemeOf, Stored!LocaleOf, Stored!OrderOf
<1>4. n.pack = c.pack /\ n.locale = c.locale /\ n.order = c.order
  <2>1. Stored!TextPack(x) = ""
    BY <1>1 DEF Stored!TextPack
  <2>2. n.pack = Stored!ThemeOf(x) /\ n.locale = Stored!LocaleOf(x) /\ n.order = Stored!OrderOf(x)
    BY <1>1, NormalFields
  <2> HIDE DEF n
  <2> QED BY <1>1, <1>3, <2>1, <2>2
<1>5. IsRecord(w) /\ w.text = Off /\ w.pack = n.pack /\ w.locale = n.locale /\ w.order = n.order
  BY <1>1, SavedFields
<1> HIDE DEF n, w
<1>6. t.pack = c.pack /\ t.locale = c.locale /\ t.order = c.order
  <2>1. Stored!TextPack(w) = ""
    BY <1>5, OffIsOff DEF Stored!TextPack
  <2>2. t.pack = Stored!ThemeOf(w) /\ t.locale = Stored!LocaleOf(w) /\ t.order = Stored!OrderOf(w)
    BY <1>5, NormalFields
  <2> HIDE DEF t
  <2> QED BY <1>3, <1>4, <1>5, <2>1, <2>2
<1>7. Stored!Reloaded(x) = t
  BY DEF Stored!Reloaded, Stored!LoadSettings, w
<1> QED BY <1>6, <1>7 DEF Stored!Found, x

(* The text pack of an older release is gone after one save.               *)
LEMMA TextPackGone ==
    ASSUME NEW s, IsRecord(s)
    PROVE  IsRecord(Stored!Reloaded(s)) /\ Stored!TextPack(Stored!Reloaded(s)) = ""
<1> DEFINE w == Stored!SaveSettings(s)
           t == Stored!Normal(w)
<1>1. IsRecord(w) /\ w.text = Off
  BY SavedFields
<1>2. Stored!Reloaded(s) = t
  BY DEF Stored!Reloaded, Stored!LoadSettings
<1> HIDE DEF w
<1>3. IsRecord(t) /\ t.text = w.text
  BY <1>1, NormalFields
<1> HIDE DEF t
<1> QED BY <1>1, <1>2, <1>3, OffIsOff DEF Stored!TextPack

LEMMA PicksStay ==
    ASSUME NEW given, IsRecord(given), NEW first, GoodPick(first), NEW second, GoodPick(second)
    PROVE  Stored!ChoicesStay(given, first, second)
<1> DEFINE s == Stored!Normal(given)
           x == Stored!Chosen(s, first)
           t == Stored!Reloaded(x)
<1>1. IsRecord(s) /\ s.text = given.text
  BY NormalFields
<1> HIDE DEF s
<1>2. Stored!TextPack(given) = "" => Stored!Found(t, first)
  <2> SUFFICES ASSUME Stored!TextPack(given) = "" PROVE Stored!Found(t, first)
    OBVIOUS
  <2>1. Stored!TextPack(s) = ""
    BY <1>1 DEF Stored!TextPack
  <2> QED BY <1>1, <2>1, ChoiceFound
<1>3. IsRecord(x)
  <2>1. x = [s EXCEPT !.pack = first.pack, !.locale = first.locale, !.order = first.order]
    BY DEF Stored!Chosen
  <2> HIDE DEF x
  <2> QED BY <1>1, <2>1 DEF IsRecord
<1> HIDE DEF x
<1>4. IsRecord(t) /\ Stored!TextPack(t) = ""
  BY <1>3, TextPackGone
<1> HIDE DEF t
<1>5. Stored!Found(Stored!Reloaded(Stored!Chosen(t, second)), second)
  BY <1>4, ChoiceFound
<1>6. Stored!Chooses(s, first, second, Stored!TextPack(given) # "")
  BY <1>2, <1>5 DEF Stored!Chooses, t, x
<1> QED BY <1>6 DEF Stored!ChoicesStay, Stored!LoadSettings, s

(* What settings.json and the page of themes may have: W are words, V what *)
(* is within a menu item, P the other texts.                               *)
MenuItems(W, V, P) == [type : P, label : Seq(W), target : P, url : P, items : Seq(V)]
SettingsFiles(W, V, P) ==
    [pack : P, theme : P, locale : P, order : Seq(P), text : [enabled : BOOLEAN, id : P],
     version : Seq(Nat), menus : Seq(GivenLists(W, MenuItems(W, V, P))),
     sidebars : Seq(GivenLists(W, MenuItems(W, V, P))),
     locations : UNION {[places -> Seq(W)] : places \in SUBSET Seq(W)},
     sidebar : Seq(W) \cup {Unchosen}, title : P]
ThemePicks(P) ==
    {c \in [pack : P \ {""}, locale : P \ {""}, order : Seq(P \ {""})] :
        Stored!Locale(c.locale) = c.locale /\ Unlike(c.order)}

(* LoadSettings, SaveSettings and the editors of menus and sidebars: what  *)
(* was read is written so that it reads the same again, what the editors   *)
(* send back shows the same, and a choice is what the next load finds, for *)
(* files of any size. It needs that an accepted link is accepted again,    *)
(* that numbers are words an id may have, and that the new name of a       *)
(* sidebar is a name.                                                      *)
THEOREM SettingsAlwaysSurvive ==
    ASSUME LinksClean, IdsMade, NewName # <<>>, NEW W, NEW V, NEW P,
           \/ input \in {"menus"} \X SettingsFiles(W, V, P)
           \/ input \in {"picks"} \X [file : SettingsFiles(W, V, P), first : ThemePicks(P),
                                      second : ThemePicks(P)]
    PROVE  SettingsSurvive
<1> DEFINE X == MenuItems(W, V, P)
<1>1. Branches(X, V)
  BY DEF Branches, MenuItems
<1> HIDE DEF X
<1>2. ASSUME NEW s \in SettingsFiles(W, V, P) PROVE IsRecord(s) /\ GivenFile(s, W, X)
  <2>1. /\ IsRecord(s)
        /\ s.menus \in Seq(GivenLists(W, X)) /\ s.sidebars \in Seq(GivenLists(W, X))
        /\ s.locations \in UNION {[places -> Seq(W)] : places \in SUBSET Seq(W)}
        /\ s.sidebar \in Seq(W) \cup {Unchosen}
    BY DEF SettingsFiles, IsRecord, X
  <2>2. \A l \in DOMAIN s.locations : l \in Seq(W) /\ s.locations[l] \in Seq(W)
    BY <2>1
  <2> QED BY <2>1, <2>2 DEF GivenFile
<1>3. ASSUME NEW c \in ThemePicks(P) PROVE GoodPick(c)
  <2> DEFINE Q == P \ {""}
  <2>1. /\ c.pack # "" /\ c.locale # "" /\ c.order \in Seq(Q)
        /\ Stored!Locale(c.locale) = c.locale /\ Unlike(c.order)
    BY DEF ThemePicks
  <2>2. \A x \in Q : x # ""
    OBVIOUS
  <2> HIDE DEF Q
  <2>3. \A i \in 1..Len(c.order) : c.order[i] # ""
    BY <2>1, <2>2, ElementOfSeq
  <2> QED BY <2>1, <2>3 DEF GoodPick
<1>4. CASE input \in {"menus"} \X SettingsFiles(W, V, P)
  <2>1. input[1] = "menus" /\ input[2] \in SettingsFiles(W, V, P)
    BY <1>4
  <2>2. Stored!MenusKept(input[2])
    BY <1>1, <1>2, <2>1, LoadedSurvives
  <2>3. input[1] # "picks"
    BY <2>1
  <2> QED BY <2>2, <2>3 DEF SettingsSurvive
<1>5. CASE input \in {"picks"} \X [file : SettingsFiles(W, V, P), first : ThemePicks(P),
                                   second : ThemePicks(P)]
  <2>1. /\ input[1] = "picks" /\ input[2].file \in SettingsFiles(W, V, P)
        /\ input[2].first \in ThemePicks(P) /\ input[2].second \in ThemePicks(P)
    BY <1>5
  <2>2. Stored!ChoicesStay(input[2].file, input[2].first, input[2].second)
    BY <1>2, <1>3, <2>1, PicksStay
  <2>3. input[1] # "menus"
    BY <2>1
  <2> QED BY <2>2, <2>3 DEF SettingsSurvive
<1> QED BY <1>4, <1>5
=============================================================================
