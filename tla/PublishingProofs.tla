-------------------------- MODULE PublishingProofs --------------------------
(***************************************************************************)
(* Theorems about Publishing, for any titles, texts and numbers of         *)
(* requests at once, with restarts; and about the functions that compute   *)
(* over lists, for lists of any length: the addresses of items and what    *)
(* they lead to (Permalinks), the pages and tags that readers see          *)
(* (Listing), the files of posts and pages (FrontMatter), the update check *)
(* and its log (Updates), and what the marketplace offers (Marketplace).   *)
(***************************************************************************)
EXTENDS MCPublishing, PureFunctions, Lists, FiniteSetTheorems, SequenceTheorems,
        TLAPS

(* A request under way is of the kind that takes its step.                 *)
AskedOf(a) ==
    /\ pc[a] \in {"probe", "truncate", "fill"} => op[a].kind \in {"save", "import"}
    /\ pc[a] \in {"remove", "move"} => op[a].kind = "save" /\ op[a].orig \in Slugs
    /\ pc[a] = "delete" => op[a].kind = "delete"

(* What the walk has not read yet is on the disk, and the rest as it is    *)
(* there.                                                                  *)
Reading(a) ==
    \A s \in Slugs : IF s \in todo[a] THEN seen[a][s] = None ELSE seen[a][s] = file[s]

(* A request that no other has overlapped is the only one there is, and    *)
(* what it knows of the disk stays true.                                   *)
LoneOf(a) ==
    /\ pc[a] # "idle"
    /\ \A b \in Admins : b # a => pc[b] = "idle"
    /\ pc[a] = "fill" => open[a]
    /\ pc[a] = "remove" => Whole(Target(a))
    /\ pc[a] \in {"probe", "delete"} /\ dirty = {} => store = file
    /\ pc[a] = "read" => Reading(a)

(* Any other is remembered as an overlap until it is over.                 *)
MarkedOf(a) == pc[a] # "idle" /\ a \notin alone => dirty # {}

UnreadOf(a) == pc[a] # "read" => seen[a] = NoFiles

IInv ==
    /\ TypeOK
    /\ \A a \in Admins : AskedOf(a) /\ MarkedOf(a) /\ UnreadOf(a)
    /\ \A a \in alone : LoneOf(a)
    /\ FreshAfterQuiet

Parts == \A a \in Admins : AskedOf(a) /\ MarkedOf(a) /\ UnreadOf(a)
Lone  == \A a \in alone : LoneOf(a)

-----------------------------------------------------------------------------
(* The requests are records; what they hold is of the right kind.          *)
LEMMA OpKinds ==
    ASSUME NEW o \in Ops
    PROVE  /\ o # None
           /\ o.kind \in {"save", "import", "delete", "reload"}
           /\ o.kind \in {"save", "import"} =>
                 o.base \in Bases /\ o.content \in Content /\ o.orig \in Slugs \cup {None}
           /\ o.kind = "delete" => o.orig \in Slugs
BY NoneAssumption DEF Ops

(* The name a save probes or writes is a slug.                             *)
LEMMA Targets ==
    ASSUME TypeOK, NEW a \in Admins, AskedOf(a),
           pc[a] \in {"probe", "truncate", "fill", "remove", "move"}
    PROVE  /\ Target(a) \in Slugs
           /\ op[a] \in Ops /\ op[a].content \in Content
           /\ op[a].orig \in Slugs \cup {None}
<1>1. op[a] \in Ops
  BY DEF TypeOK
<1>2. op[a].kind \in {"save", "import"}
  BY DEF AskedOf
<1>3. op[a].base \in Bases /\ n[a] \in 1..MaxSuffix
  BY <1>1, <1>2, OpKinds DEF TypeOK
<1>4. Target(a) \in Slugs
  BY <1>3 DEF Target, Slugs
<1> QED
  BY <1>1, <1>2, <1>4, OpKinds

(* What a file may hold, and a text is neither nothing nor empty.          *)
LEMMA Contents ==
    /\ \A c \in Content : c \in Content \cup {Empty, None} /\ c # None /\ c # Empty
    /\ Empty # None
    /\ NoFiles \in Files
    /\ None \notin Slugs
    /\ 1 \in 1..MaxSuffix
BY NoneAssumption, EmptyAssumption, BoundAssumption DEF NoFiles, Files

(* At the start index and files agree, and nobody is at work.              *)
LEMMA Initially == Init => IInv
<1> SUFFICES ASSUME Init PROVE IInv
  OBVIOUS
<1>1. TypeOK
  <2>1. PICK commented \in InitialComments, b \in Bases, t \in Texts :
          /\ file = IF commented
                    THEN [NoFiles EXCEPT ![<<b, 1>>] = [text |-> t, draft |-> FALSE]]
                    ELSE NoFiles
          /\ comments = [c \in CommentIds |-> IF commented THEN <<b, 1>> ELSE None]
    BY DEF Init
  <2>2. <<b, 1>> \in Slugs
    BY Contents DEF Slugs
  <2>3. [text |-> t, draft |-> FALSE] \in Content
    BY DraftsAssumption DEF Content
  <2>4. file \in Files /\ comments \in [CommentIds -> Slugs \cup {None}]
    BY <2>1, <2>2, <2>3, Contents DEF Files, NoFiles
  <2> QED
    BY <2>4, Contents DEF Init, TypeOK, PCs
<1>2. Parts
  BY DEF Init, Parts, AskedOf, MarkedOf, UnreadOf
<1> QED
  BY <1>1, <1>2 DEF Init, IInv, Parts, FreshAfterQuiet
-----------------------------------------------------------------------------
(* The steps of a request, one lemma each.                                 *)
LEMMA StartStep ==
    ASSUME IInv, NEW a \in Admins, NEW o \in Ops, Start(a, o)
    PROVE  IInv'
<1>1. TypeOK'
  <2>1. pc' = [pc EXCEPT ![a] = FirstStep(o.kind)] /\ FirstStep(o.kind) \in PCs
    BY OpKinds DEF Start, FirstStep, PCs
  <2>2. op' = [op EXCEPT ![a] = o] /\ o # None
    BY OpKinds DEF Start
  <2>3. UNCHANGED <<file, comments, store, n, open, todo, seen, visit>> /\ pc[a] = "idle"
    BY DEF Start
  <2>4. pc' \in [Admins -> PCs] /\ op' \in [Admins -> Ops \cup {None}]
    BY <2>1, <2>2 DEF IInv, TypeOK
  <2>5. alone' \subseteq Admins /\ dirty' \subseteq {"error", "overlap"}
    BY DEF IInv, TypeOK, Start
  <2>6. ASSUME NEW b \in Admins
        PROVE  /\ pc'[b] # "idle" => op'[b] # None
               /\ open'[b] => pc'[b] = "fill" /\ file'[Target(b)'] # None
    <3>1. CASE b = a
      BY <3>1, <2>2, <2>3 DEF IInv, TypeOK
    <3>2. CASE b # a
      BY <3>2, <2>1, <2>2, <2>3 DEF IInv, TypeOK, Target
    <3> QED
      BY <3>1, <3>2
  <2> QED
    BY <2>3, <2>4, <2>5, <2>6 DEF IInv, TypeOK
<1>2. Parts'
  <2>1. SUFFICES ASSUME NEW b \in Admins
               PROVE  AskedOf(b)' /\ MarkedOf(b)' /\ UnreadOf(b)'
    BY DEF Parts
  <2>2. AskedOf(b)'
    BY OpKinds DEF IInv, TypeOK, Parts, AskedOf, Start, FirstStep
  <2>3. MarkedOf(b)'
    BY OpKinds DEF IInv, TypeOK, Parts, MarkedOf, Start, FirstStep
  <2>4. UnreadOf(b)'
    BY OpKinds DEF IInv, TypeOK, Parts, UnreadOf, Start, FirstStep
  <2> QED
    BY <2>2, <2>3, <2>4
<1>3. Lone'
  <2> SUFFICES ASSUME NEW b \in alone' PROVE LoneOf(b)'
    BY DEF Lone
  <2>1. b = a /\ \A c \in Admins : pc[c] = "idle"
    BY DEF Start
  <2> QED
    BY <2>1, OpKinds DEF IInv, TypeOK, Start, FirstStep, LoneOf, FreshAfterQuiet, AtRest
<1>4. FreshAfterQuiet'
  BY OpKinds DEF IInv, TypeOK, Start, FirstStep, FreshAfterQuiet, AtRest
<1> QED
  BY <1>1, <1>2, <1>3, <1>4 DEF IInv, Parts, Lone

(* Looking for a free slug changes no file.                                *)
LEMMA ProbeStep ==
    ASSUME IInv, NEW a \in Admins, Probe(a)
    PROVE  IInv'
<1>1. TypeOK'
  <2>1. n' \in [Admins -> 1..MaxSuffix] /\ pc' \in [Admins -> PCs]
    BY BoundAssumption DEF IInv, TypeOK, Probe, Goto, PCs
  <2>2. \A b \in Admins : open[b] => b # a /\ pc'[b] = pc[b] /\ Target(b)' = Target(b)
    BY DEF IInv, TypeOK, Probe, Goto, Target
  <2> QED
    BY <2>1, <2>2 DEF IInv, TypeOK, Probe, Goto
<1>2. Parts'
  BY DEF IInv, TypeOK, Parts, AskedOf, MarkedOf, UnreadOf, Probe, Goto
<1>3. Lone'
  BY DEF IInv, TypeOK, Lone, LoneOf, Probe, Goto
<1>4. FreshAfterQuiet'
  BY DEF IInv, TypeOK, Probe, Goto, FreshAfterQuiet, AtRest
<1> QED
  BY <1>1, <1>2, <1>3, <1>4 DEF IInv, Parts, Lone

(* Truncating is the first step on disk: from here the request is at work. *)
LEMMA TruncateStep ==
    ASSUME IInv, NEW a \in Admins, Truncate(a)
    PROVE  IInv'
<1>t. Target(a) \in Slugs
  BY Targets DEF IInv, Truncate
<1>1. TypeOK'
  <2>1. file' \in Files /\ open' \in [Admins -> BOOLEAN] /\ pc' \in [Admins -> PCs]
    BY <1>t, Contents DEF IInv, TypeOK, Truncate, Goto, PCs, Files
  <2>2. \A b \in Admins : Target(b)' = Target(b)
    BY DEF Truncate, Target
  <2>3. \A b \in Admins : open'[b] => pc'[b] = "fill" /\ file'[Target(b)] # None
    BY <1>t, Contents DEF IInv, TypeOK, Truncate, Goto, Files
  <2> QED
    BY <2>1, <2>2, <2>3 DEF IInv, TypeOK, Truncate, Goto
<1>2. Parts'
  BY DEF IInv, TypeOK, Parts, AskedOf, MarkedOf, UnreadOf, Truncate, Goto
<1>3. Lone'
  BY DEF IInv, TypeOK, Lone, LoneOf, Truncate, Goto
<1>4. FreshAfterQuiet'
  BY DEF IInv, TypeOK, Truncate, Goto, FreshAfterQuiet, AtRest
<1> QED
  BY <1>1, <1>2, <1>3, <1>4 DEF IInv, Parts, Lone

(* The text is there; a rename goes on to the old file, any other save to  *)
(* the reload.                                                             *)
LEMMA FillStep ==
    ASSUME IInv, NEW a \in Admins, Fill(a)
    PROVE  IInv'
<1>t. Target(a) \in Slugs /\ op[a].content \in Content /\ op[a].orig \in Slugs \cup {None}
  BY Targets DEF IInv, Fill
<1>1. TypeOK'
  BY <1>t, Contents DEF IInv, TypeOK, Fill, Goto, Renames, PCs, Target, Files
<1>2. Parts'
  BY <1>t DEF IInv, TypeOK, Parts, AskedOf, MarkedOf, UnreadOf, Fill, Goto, Renames
<1>3. Lone'
  <2> SUFFICES ASSUME NEW b \in alone PROVE LoneOf(b)'
    BY DEF Lone, Fill
  <2>1. b = a /\ open[a]
    BY DEF IInv, LoneOf, Fill
  <2>2. file'[Target(a)] = op[a].content
    BY <1>t, <2>1 DEF IInv, TypeOK, Fill, Files
  <2>3. Whole(Target(a))'
    BY <1>t, <2>2, Contents DEF Whole, Target, Fill
  <2> QED
    BY <2>1, <2>3 DEF IInv, TypeOK, LoneOf, Fill, Goto
<1>4. FreshAfterQuiet'
  BY DEF IInv, TypeOK, Fill, Goto, FreshAfterQuiet, AtRest
<1> QED
  BY <1>1, <1>2, <1>3, <1>4 DEF IInv, Parts, Lone
(* A handler that returns leaves nothing behind; what it has done to the   *)
(* files keeps every file another one is writing.                          *)
LEMMA ReturnStep ==
    ASSUME IInv, NEW a \in Admins, pc[a] # "idle", Return(a),
           file' \in Files, comments' = comments, store' \in Files,
           dirty' \subseteq {"error", "overlap"},
           \A s \in Slugs : file'[s] = None => file[s] = None,
           visit' = visit,
           a \in alone /\ dirty' = {} => store' = file',
           a \notin alone => dirty' # {}
    PROVE  IInv'
<1>1. TypeOK'
  <2>1. n' \in [Admins -> 1..MaxSuffix] /\ seen' \in [Admins -> Files]
    BY Contents DEF IInv, TypeOK, Return
  <2>2. op' \in [Admins -> Ops \cup {None}] /\ pc' \in [Admins -> PCs]
    BY DEF IInv, TypeOK, Return, PCs
  <2>3. \A b \in Admins : b # a => /\ Target(b)' = Target(b) /\ pc'[b] = pc[b]
                                    /\ open'[b] = open[b] /\ op'[b] = op[b]
    BY DEF IInv, TypeOK, Return, Target
  <2>4. \A b \in Admins : b # a /\ open[b] => Target(b) \in Slugs
    BY Targets DEF IInv, TypeOK
  <2>5. \A b \in Admins : open'[b] => pc'[b] = "fill" /\ file'[Target(b)'] # None
    BY <2>3, <2>4 DEF IInv, TypeOK, Return
  <2>6. \A b \in Admins : pc'[b] # "idle" => op'[b] # None
    BY <2>3 DEF IInv, TypeOK, Return
  <2> QED
    BY <2>1, <2>2, <2>5, <2>6 DEF IInv, TypeOK, Return
<1>2. Parts'
  <2>1. \A b \in Admins : b # a /\ pc[b] # "idle" => a \notin alone
    BY DEF IInv, LoneOf
  <2> QED
    BY <2>1 DEF IInv, TypeOK, Parts, AskedOf, MarkedOf, UnreadOf, Return
<1>3. Lone'
  <2> SUFFICES ASSUME NEW b \in alone' PROVE FALSE
    BY DEF Lone
  <2>1. b \in alone /\ b # a /\ b \in Admins
    BY DEF IInv, TypeOK, Return
  <2>2. pc[a] = "idle"
    BY <2>1 DEF IInv, LoneOf
  <2> QED
    BY <2>2
<1>4. FreshAfterQuiet'
  BY DEF FreshAfterQuiet
<1> QED
  BY <1>1, <1>2, <1>3, <1>4 DEF IInv, Parts, Lone
(* An import ends without a reload: the caller makes it.                   *)
LEMMA FillImportedStep ==
    ASSUME IInv, NEW a \in Admins, FillImported(a)
    PROVE  IInv'
<1>1. Target(a) \in Slugs /\ op[a].content \in Content
  BY Targets DEF IInv, FillImported
<1>2. file' \in Files /\ \A s \in Slugs : file'[s] = None => file[s] = None
  BY <1>1, Contents DEF IInv, TypeOK, FillImported, Files
<1> QED
  BY <1>2, ReturnStep DEF IInv, TypeOK, FillImported

(* A request that fails leaves its mark.                                   *)
LEMMA FailsStep ==
    ASSUME IInv, NEW a \in Admins, Fails(a)
    PROVE  IInv'
BY ReturnStep DEF IInv, TypeOK, Fails

(* So does a reload that finds a file gone,                                *)
LEMMA VanishedStep ==
    ASSUME IInv, NEW a \in Admins, NEW s \in Slugs, ReadVanished(a, s)
    PROVE  IInv'
BY ReturnStep DEF IInv, TypeOK, ReadVanished

(* and a deletion that finds nothing.                                      *)
LEMMA MissingStep ==
    ASSUME IInv, NEW a \in Admins, DeleteMissing(a)
    PROVE  IInv'
BY ReturnStep DEF IInv, TypeOK, MarkedOf, LoneOf, DeleteMissing

(* The walk of a request that runs alone has read the disk as it is.       *)
LEMMA PublishStep ==
    ASSUME IInv, NEW a \in Admins, Publish(a)
    PROVE  IInv'
<1>1. CASE a \in alone
  <2>1. \A s \in Slugs : seen[a][s] = file[s]
    BY <1>1 DEF IInv, LoneOf, Reading, Publish
  <2>2. seen[a] = file
    BY <2>1 DEF IInv, TypeOK, Files
  <2> QED
    BY <1>1, <2>2, ReturnStep DEF IInv, TypeOK, Publish, Published
<1>2. CASE a \notin alone
  BY <1>2, ReturnStep DEF IInv, TypeOK, MarkedOf, Publish, Published
<1> QED
  BY <1>1, <1>2

(* The old file goes; of a rename, when the new one is whole.              *)
LEMMA RemoveStep ==
    ASSUME IInv, NEW a \in Admins, RemoveOld(a) \/ Delete(a)
    PROVE  IInv'
<1>1. op[a].orig \in Slugs
  BY OpKinds DEF IInv, TypeOK, AskedOf, RemoveOld, Delete
<1>2. TypeOK'
  <2>0. open' \in [Admins -> BOOLEAN]
    <3>1. open' = [b \in Admins |-> open[b] /\ Target(b) # op[a].orig]
      BY DEF RemoveOld, Delete, Remove
    <3> QED
      BY <3>1, Zenon
  <2>1. file' \in Files /\ pc' \in [Admins -> PCs]
    BY <1>1, Contents DEF IInv, TypeOK, RemoveOld, Delete, Remove, Goto, PCs, Files
  <2>2. \A b \in Admins : Target(b)' = Target(b)
    BY DEF RemoveOld, Delete, Target
  <2>3. \A b \in Admins : open'[b] =>
           open[b] /\ b # a /\ pc'[b] = pc[b] /\ Target(b) # op[a].orig
    BY DEF IInv, TypeOK, RemoveOld, Delete, Remove, Goto
  <2>4. \A b \in Admins : open[b] => Target(b) \in Slugs
    BY Targets DEF IInv, TypeOK
  <2>5. \A b \in Admins : open'[b] => pc'[b] = "fill" /\ file'[Target(b)'] # None
    BY <1>1, <2>2, <2>3, <2>4 DEF IInv, TypeOK, RemoveOld, Delete, Remove, Files
  <2> QED
    BY <2>0, <2>1, <2>5 DEF IInv, TypeOK, RemoveOld, Delete, Goto
<1>3. Parts'
  BY DEF IInv, TypeOK, Parts, AskedOf, MarkedOf, UnreadOf, RemoveOld, Delete, Goto
<1>4. Lone'
  BY DEF IInv, TypeOK, Lone, LoneOf, RemoveOld, Delete, Goto
<1>5. FreshAfterQuiet'
  BY DEF IInv, TypeOK, RemoveOld, Delete, Goto, FreshAfterQuiet, AtRest
<1> QED
  BY <1>2, <1>3, <1>4, <1>5 DEF IInv, Parts, Lone

(* Comments move, and no file does.                                        *)
LEMMA MoveStep ==
    ASSUME IInv, NEW a \in Admins, MoveComments(a)
    PROVE  IInv'
<1>1. Target(a) \in Slugs
  BY Targets DEF IInv, MoveComments
<1>2. TypeOK'
  BY <1>1 DEF IInv, TypeOK, MoveComments, Moved, Goto, PCs, Target
<1>3. Parts'
  BY DEF IInv, TypeOK, Parts, AskedOf, MarkedOf, UnreadOf, MoveComments, Goto
<1>4. Lone'
  BY DEF IInv, TypeOK, Lone, LoneOf, MoveComments, Goto
<1>5. FreshAfterQuiet'
  BY DEF IInv, TypeOK, MoveComments, Goto, FreshAfterQuiet, AtRest
<1> QED
  BY <1>2, <1>3, <1>4, <1>5 DEF IInv, Parts, Lone

(* A reload lists the files that there are.                                *)
LEMMA ListStep ==
    ASSUME IInv, NEW a \in Admins, List(a)
    PROVE  IInv'
<1>1. TypeOK'
  BY DEF IInv, TypeOK, List, Goto, PCs, Target
<1>2. Parts'
  BY DEF IInv, TypeOK, Parts, AskedOf, MarkedOf, UnreadOf, List, Goto
<1>3. Lone'
  <2> SUFFICES ASSUME NEW b \in alone PROVE LoneOf(b)'
    BY DEF Lone, List
  <2>1. b = a
    BY DEF IInv, LoneOf, List
  <2>2. Reading(a)'
    BY DEF IInv, TypeOK, UnreadOf, Reading, List, NoFiles
  <2> QED
    BY <2>1, <2>2 DEF IInv, TypeOK, LoneOf, List, Goto
<1>4. FreshAfterQuiet'
  BY DEF IInv, TypeOK, List, Goto, FreshAfterQuiet, AtRest
<1> QED
  BY <1>1, <1>2, <1>3, <1>4 DEF IInv, Parts, Lone

(* What a reload has read stays true while it is alone.                    *)
LEMMA ReadStep ==
    ASSUME IInv, NEW a \in Admins, NEW s \in Slugs, ReadFile(a, s)
    PROVE  IInv'
<1>1. TypeOK'
  <2>1. seen' \in [Admins -> Files] /\ todo' \in [Admins -> SUBSET Slugs]
    BY DEF IInv, TypeOK, ReadFile, Files
  <2> QED
    BY <2>1 DEF IInv, TypeOK, ReadFile, Target
<1>2. Parts'
  BY DEF IInv, TypeOK, Parts, AskedOf, MarkedOf, UnreadOf, ReadFile
<1>3. Lone'
  <2> SUFFICES ASSUME NEW b \in alone PROVE LoneOf(b)'
    BY DEF Lone, ReadFile
  <2>1. b = a /\ Reading(a)
    BY DEF IInv, LoneOf, ReadFile
  <2>2. Reading(a)'
    BY <2>1 DEF IInv, TypeOK, Reading, ReadFile, Files
  <2> QED
    BY <2>1, <2>2 DEF IInv, TypeOK, LoneOf, ReadFile
<1>4. FreshAfterQuiet'
  BY DEF IInv, TypeOK, ReadFile, FreshAfterQuiet, AtRest
<1> QED
  BY <1>1, <1>2, <1>3, <1>4 DEF IInv, Parts, Lone
-----------------------------------------------------------------------------
(* Visitors and restarts.                                                  *)
LEMMA VisitorSteps ==
    ASSUME IInv, NEW v \in Visitors,
           \/ \E s \in Slugs : Visit(v, s)
           \/ \E c \in CommentIds : Submit(v, c)
           \/ Leave(v)
    PROVE  IInv'
<1> USE DEF locals
<1>1. UNCHANGED <<file, store, dirty, alone, pc, op, n, open, todo, seen>>
  BY DEF Visit, Submit, Leave
<1>2. visit' \in [Visitors -> Slugs \cup {None}]
  BY DEF IInv, TypeOK, Visit, Submit, Leave
<1>3. comments' \in [CommentIds -> Slugs \cup {None}]
  BY DEF IInv, TypeOK, Visit, Submit, Leave
<1>4. TypeOK'
  BY <1>1, <1>2, <1>3 DEF IInv, TypeOK, Target
<1> QED
  BY <1>1, <1>4 DEF IInv, AskedOf, MarkedOf, UnreadOf, LoneOf, Whole, Target,
                    Reading, FreshAfterQuiet, AtRest

(* A start reads all files, and nobody is at work.                         *)
LEMMA RestartStep ==
    ASSUME IInv, Restart
    PROVE  IInv'
<1>1. TypeOK'
  BY Contents DEF IInv, TypeOK, Restart, PCs
<1> QED
  BY <1>1 DEF Restart, IInv, AskedOf, MarkedOf, UnreadOf, LoneOf, FreshAfterQuiet

(* Nothing moves.                                                          *)
LEMMA Unchanged == IInv /\ UNCHANGED vars => IInv'
BY DEF vars, IInv, TypeOK, AskedOf, MarkedOf, UnreadOf, LoneOf, Whole, Target, Reading,
       FreshAfterQuiet, AtRest

(* Every step of a request, of a visitor and of the process.               *)
LEMMA Inductive == IInv /\ [Next \/ Restart]_vars => IInv'
<1> SUFFICES ASSUME IInv, [Next \/ Restart]_vars PROVE IInv'
  OBVIOUS
<1>1. CASE \E a \in Admins : AdminStep(a)
  BY <1>1, ProbeStep, TruncateStep, FillStep, FillImportedStep, RemoveStep, MoveStep,
     MissingStep, ListStep, ReadStep, VanishedStep, PublishStep, FailsStep DEF AdminStep
<1>2. CASE \E a \in Admins, o \in Ops : Start(a, o)
  BY <1>2, StartStep
<1>3. CASE \/ \E v \in Visitors, s \in Slugs : Visit(v, s)
           \/ \E v \in Visitors, c \in CommentIds : Submit(v, c)
           \/ \E v \in Visitors : Leave(v)
  BY <1>3, VisitorSteps
<1>4. CASE Restart
  BY <1>4, RestartStep
<1>5. CASE UNCHANGED vars
  BY <1>5, Unchanged
<1> QED
  BY <1>1, <1>2, <1>3, <1>4, <1>5 DEF Next

-----------------------------------------------------------------------------
(* Files, comments, index and what each request knows stay what they are   *)
(* meant to be: in particular a file being written is one that exists.     *)
THEOREM TypeCorrect == RestartSpec => []TypeOK
<1>1. IInv => TypeOK
  BY DEF IInv
<1> QED
  BY Initially, Inductive, <1>1, PTL DEF RestartSpec

(* A request that ran alone and was answered without an error has left an  *)
(* index that is the disk, whatever overlapped, failed or died before it.  *)
THEOREM IndexFollows == RestartSpec => []FreshAfterQuiet
<1>1. IInv => FreshAfterQuiet
  BY DEF IInv
<1> QED
  BY Initially, Inductive, <1>1, PTL DEF RestartSpec

(* A rename that no other request overlaps has written the new file before *)
(* it removes the old one.                                                 *)
THEOREM CopyKept == RestartSpec => []RenameKeepsACopy
<1>1. IInv => RenameKeepsACopy
  BY DEF IInv, LoneOf, RenameKeepsACopy
<1> QED
  BY Initially, Inductive, <1>1, PTL DEF RestartSpec

-----------------------------------------------------------------------------
(* The comments of posts that one author saves and renames.                *)

(* A comment names a post that has a file, or one that is just being       *)
(* renamed; the file of the new name is there before the old one goes.     *)
Named(c) ==
    comments[c] # None =>
        \/ file[comments[c]] # None
        \/ \E a \in Admins : pc[a] = "move" /\ comments[c] = op[a].orig
ThereFirst(a) ==
    /\ pc[a] # "idle" => op[a].kind = "save"
    /\ pc[a] \in {"fill", "remove", "move"} => file[Target(a)] # None
    /\ pc[a] \in {"remove", "move"} => Target(a) # op[a].orig

TravelInv ==
    /\ \A a, b \in Admins : pc[a] # "idle" /\ pc[b] # "idle" => a = b
    /\ \A c \in CommentIds : Named(c)
    /\ \A a \in Admins : ThereFirst(a)

(* A save begins when no other is under way.                               *)
LEMMA BeginStep ==
    ASSUME IInv, TravelInv, AtRest, NEW a \in Admins, NEW o \in Ops, o.kind = "save",
           Start(a, o)
    PROVE  TravelInv'
<1>1. /\ pc'[a] = "probe" /\ op'[a] = o /\ UNCHANGED <<file, comments>>
      /\ \A b \in Admins : pc[b] = "idle" /\ (b # a => pc'[b] = "idle")
  BY DEF Start, FirstStep, IInv, TypeOK, AtRest
<1> QED
  BY <1>1 DEF TravelInv, Named, ThereFirst

(* The steps of a save that has no other beside it.                        *)
LEMMA TravelStep ==
    ASSUME IInv, TravelInv, NEW a \in Admins, AdminStep(a)
    PROVE  TravelInv'
<1> USE DEF TravelInv, Named, ThereFirst
<1>1. pc[a] # "idle" /\ \A b \in Admins : b # a => pc[b] = "idle" /\ pc'[b] = "idle"
  <2>1. pc[a] # "idle"
    BY DEF AdminStep, Probe, Truncate, Fill, FillImported, RemoveOld, MoveComments, Delete,
           DeleteMissing, List, ReadFile, ReadVanished, Publish, Fails
  <2>2. \A b \in Admins : b # a => pc'[b] = pc[b]
    BY DEF AdminStep, Probe, Truncate, Fill, FillImported, RemoveOld, MoveComments, Delete,
           DeleteMissing, List, ReadFile, ReadVanished, Publish, Fails, Goto, Return, IInv,
           TypeOK
  <2> QED
    BY <2>1, <2>2
<1>2. ASSUME Probe(a) \/ List(a) PROVE TravelInv'
  <2>1. /\ pc[a] \in {"probe", "list"} /\ pc'[a] \in {"probe", "truncate", "read"}
        /\ UNCHANGED <<file, comments, op>>
    BY <1>2 DEF Probe, List, Goto, IInv, TypeOK
  <2> QED
    BY <1>1, <2>1
<1>3. ASSUME Truncate(a) PROVE TravelInv'
  <2>1. /\ pc[a] = "truncate" /\ pc'[a] = "fill" /\ UNCHANGED <<comments, op, n>>
        /\ file' = [file EXCEPT ![Target(a)] = Empty]
    BY <1>3 DEF Truncate, Goto, IInv, TypeOK
  <2>2. Target(a) \in Slugs
    BY <2>1, Targets DEF IInv
  <2>3. /\ \A s \in Slugs : file[s] # None => file'[s] # None
        /\ file'[Target(a)] # None
    BY <2>1, <2>2, Contents DEF IInv, TypeOK, Files
  <2>4. Target(a)' = Target(a)
    BY <2>1 DEF Target
  <2> QED
    BY <1>1, <2>1, <2>3, <2>4 DEF IInv, TypeOK
<1>4. ASSUME Fill(a) PROVE TravelInv'
  <2>1. /\ pc[a] = "fill" /\ UNCHANGED <<comments, op, n>>
        /\ file' \in {file, [file EXCEPT ![Target(a)] = op[a].content]}
        /\ pc'[a] \in {"remove", "list"}
        /\ pc'[a] = "remove" => Target(a) # op[a].orig
    BY <1>4 DEF Fill, Goto, Renames, IInv, TypeOK
  <2>2. Target(a) \in Slugs /\ op[a].content \in Content
    BY <2>1, Targets DEF IInv
  <2>3. \A s \in Slugs : file[s] # None => file'[s] # None
    BY <2>1, <2>2, Contents DEF IInv, TypeOK, Files
  <2>4. Target(a)' = Target(a)
    BY <2>1 DEF Target
  <2> QED
    BY <1>1, <2>1, <2>2, <2>3, <2>4 DEF IInv, TypeOK
<1>5. ASSUME RemoveOld(a) PROVE TravelInv'
  <2>1. /\ pc[a] = "remove" /\ pc'[a] = "move" /\ UNCHANGED <<comments, op, n>>
        /\ file' = [file EXCEPT ![op[a].orig] = None]
    BY <1>5 DEF RemoveOld, Remove, Goto, IInv, TypeOK
  <2>2. Target(a) \in Slugs /\ op[a].orig \in Slugs
    BY <2>1, Targets DEF IInv, AskedOf
  <2>3. \A s \in Slugs : s # op[a].orig => file'[s] = file[s]
    BY <2>1 DEF IInv, TypeOK, Files
  <2>4. Target(a)' = Target(a)
    BY <2>1 DEF Target
  <2> QED
    BY <1>1, <2>1, <2>2, <2>3, <2>4 DEF IInv, TypeOK
<1>6. ASSUME MoveComments(a) PROVE TravelInv'
  <2>1. /\ pc[a] = "move" /\ pc'[a] = "list" /\ UNCHANGED <<file, op>>
        /\ \A c \in CommentIds : comments'[c] = IF comments[c] = op[a].orig
                                               THEN Target(a) ELSE comments[c]
    BY <1>6 DEF MoveComments, Moved, Goto, IInv, TypeOK
  <2> QED
    BY <1>1, <2>1
<1>7. ASSUME NEW s \in Slugs, ReadFile(a, s) PROVE TravelInv'
  BY <1>1, <1>7 DEF ReadFile
<1>8. ASSUME \/ Publish(a) \/ Fails(a) \/ \E s \in Slugs : ReadVanished(a, s)
      PROVE  TravelInv'
  <2>1. /\ pc[a] # "move" /\ pc'[a] = "idle" /\ UNCHANGED <<file, comments>>
    BY <1>8 DEF Publish, Fails, ReadVanished, Return, IInv, TypeOK
  <2> QED
    BY <1>1, <2>1
<1>9. ASSUME FillImported(a) \/ Delete(a) \/ DeleteMissing(a)
      PROVE  FALSE
  <2>1. op[a].kind \in {"import", "delete"} /\ pc[a] # "idle"
    BY <1>9 DEF FillImported, Delete, DeleteMissing, IInv, AskedOf
  <2> QED
    BY <1>1, <2>1
<1> QED
  BY <1>2, <1>3, <1>4, <1>5, <1>6, <1>7, <1>8, <1>9 DEF AdminStep

(* Saves one after the other.                                              *)
LEMMA TravelAlong ==
    ASSUME IInv, TravelInv, [Rename]_vars
    PROVE  TravelInv'
<1>1. CASE UNCHANGED vars
  BY <1>1 DEF vars, Target, TravelInv, Named, ThereFirst
<1> QED
  BY <1>1, BeginStep, TravelStep DEF Rename

(* What there is at the beginning.                                         *)
LEMMA TravelBegins == Init => TravelInv
<1> SUFFICES ASSUME Init PROVE TravelInv
  OBVIOUS
<1>1. PICK commented \in InitialComments, b \in Bases, t \in Texts :
        /\ file = IF commented
                  THEN [NoFiles EXCEPT ![<<b, 1>>] = [text |-> t, draft |-> FALSE]]
                  ELSE NoFiles
        /\ comments = [c \in CommentIds |-> IF commented THEN <<b, 1>> ELSE None]
  BY DEF Init
<1>2. <<b, 1>> \in Slugs /\ [text |-> t, draft |-> FALSE] \in Content
  BY Contents, DraftsAssumption DEF Slugs, Content
<1>3. \A c \in CommentIds : comments[c] # None => file[comments[c]] # None
  BY <1>1, <1>2, Contents DEF NoFiles
<1> QED
  BY <1>3 DEF Init, TravelInv, Named, ThereFirst

(* At rest no comment names a post that is being renamed.                  *)
LEMMA NamedPostsExist == IInv /\ TravelInv => CommentsReachable
BY DEF TravelInv, Named, CommentsReachable, AtRest

-----------------------------------------------------------------------------
(* One author, who only saves.                                             *)
OneAuthor == Kinds = {"save"} /\ Visitors = {} /\ \A a, b \in Admins : a = b

(* Comments go with the posts that one author renames, however saves fail: *)
(* CommentsReachable, without deletions, imports, visitors and restarts.   *)
THEOREM CommentsTravel ==
    ASSUME OneAuthor
    PROVE  Spec => []CommentsReachable
<1>1. [Next]_vars => [Rename]_vars
  BY DEF OneAuthor, Next, Rename, Start, AtRest
<1>2. IInv /\ TravelInv /\ [Next]_vars => (IInv /\ TravelInv)'
  BY <1>1, Inductive, TravelAlong
<1> QED
  BY Initially, TravelBegins, NamedPostsExist, <1>2, PTL DEF Spec

(* What holds in the scene of the renames.                                 *)
Scene == scene = "renames" => TravelInv

(* The same for any number of admins that save one after the other, in the *)
(* specification TLC checks, whose other scenes this says nothing about.   *)
THEOREM CommentsFollowRenames == MCSpec => []CommentsFollow
<1>1. MCInit => IInv /\ Scene
  BY Initially, TravelBegins DEF MCInit, Scene
<1>2. IInv /\ Scene /\ [MCNext]_<<vars, scene>> => (IInv /\ Scene)'
  <2> SUFFICES ASSUME IInv, Scene, [MCNext]_<<vars, scene>> PROVE (IInv /\ Scene)'
    OBVIOUS
  <2>1. [Next \/ Restart]_vars
    BY FirstAssumption DEF MCNext, Overlap, Comment, Rename, Next
  <2>2. scene' = scene /\ (scene = "renames" => [Rename]_vars)
    BY DEF MCNext
  <2> QED
    BY <2>1, <2>2, Inductive, TravelAlong DEF Scene
<1>3. IInv /\ Scene => CommentsFollow
  BY NamedPostsExist DEF Scene, CommentsFollow
<1> QED
  BY <1>1, <1>2, <1>3, PTL DEF MCSpec
-----------------------------------------------------------------------------
(* The lists of posts that readers page through: module Listing, for any   *)
(* list, page size and number of page links.                               *)

(* More pages have more items.                                             *)
LEMMA Monotone ==
    \A a, b \in Int, s \in Nat : a <= b => a * s <= b * s
<1> SUFFICES ASSUME NEW a \in Int, NEW b \in Int, NEW s \in Nat, a <= b
             PROVE  a * s <= b * s
  OBVIOUS
<1>1. b - a \in Nat
  OBVIOUS
<1>2. \A d, e \in Nat : d * e \in Nat
  OBVIOUS
<1>3. (b - a) * s \in Nat
  BY <1>1, <1>2
<1>4. (b - a) * s = b * s - a * s
  OBVIOUS
<1>5. a * s \in Int /\ b * s \in Int
  OBVIOUS
<1> QED BY <1>3, <1>4, <1>5

(* So many pages as are needed: the last one is not empty.                 *)
LEMMA EnoughPages ==
    ASSUME NEW many \in Nat, NEW size \in Nat \ {0}
    PROVE  /\ Listings!TotalPages(many, size) \in Nat
           /\ many <= Listings!TotalPages(many, size) * size
           /\ many # 0 => /\ Listings!TotalPages(many, size) # 0
                       /\ (Listings!TotalPages(many, size) - 1) * size < many
           /\ many = 0 => Listings!TotalPages(many, size) = 0
<1> DEFINE q == (many + size - 1) \div size
<1>1. q \in Int /\ q * size <= many + size - 1 /\ many + size - 1 < q * size + size
  <2>1. many + size - 1 \in Int /\ size \in Int /\ size > 0
    OBVIOUS
  <2>2. \A a \in Int : \A b \in Int : b > 0 =>
           a \div b \in Int /\ (a \div b) * b <= a /\ a < (a \div b) * b + b
    OBVIOUS
  <2> QED BY <2>1, <2>2
<1>2. Listings!TotalPages(many, size) = q
  BY DEF Listings!TotalPages
<1> HIDE DEF q
<1>3. q * size \in Int /\ (q - 1) * size = q * size - size
  BY <1>1
<1>4. many <= q * size /\ (q - 1) * size < many
  BY <1>1, <1>3
<1>5. q >= 0
  <2> SUFFICES ASSUME q <= -1 PROVE FALSE
    BY <1>1
  <2>1. q * size <= (-1) * size
    BY <1>1, Monotone
  <2>2. (-1) * size < 0
    OBVIOUS
  <2> QED BY <2>1, <2>2, <1>3, <1>4
<1>6. many # 0 => q # 0
  BY <1>4
<1>7. many = 0 => q = 0
  <2> SUFFICES ASSUME many = 0, q >= 1 PROVE FALSE
    BY <1>1, <1>5
  <2>1. q - 1 \in Int /\ 0 <= q - 1
    BY <1>1
  <2>2. 0 * size <= (q - 1) * size
    BY <2>1, Monotone
  <2> QED BY <2>2, <1>4, <1>3
<1> QED BY <1>1, <1>2, <1>4, <1>5, <1>6, <1>7

(* The numbers shown on page p of more than one.                           *)
LEMMA NumbersShown ==
    ASSUME Window \in Nat, Around \in Nat, 2 * Around < Window,
           NEW total \in Nat, NEW p \in 1..total
    PROVE  /\ Len(Listings!Visible(p, total)) \in Nat
           /\ DOMAIN Listings!Visible(p, total) = 1..Len(Listings!Visible(p, total))
           /\ p \in Listings!ToSet(Listings!Visible(p, total))
           /\ Listings!ToSet(Listings!Visible(p, total)) \subseteq 1..total
           /\ \A i \in 1..Len(Listings!Visible(p, total)) - 1 :
                 Listings!Visible(p, total)[i + 1] = Listings!Visible(p, total)[i] + 1
<1> DEFINE V == Listings!Visible(p, total)
<1>1. PICK m \in Nat, from \in Int :
         /\ V = [i \in 1..m |-> from + i]
         /\ 0 <= from /\ from + m <= total /\ from < p /\ p <= from + m
  <2>1. CASE total <= Window
    <3>1. V = [i \in 1..total |-> 0 + i]
      BY <2>1 DEF Listings!Visible
    <3>2. 0 <= 0 /\ 0 + total <= total /\ 0 < p /\ p <= 0 + total
      OBVIOUS
    <3> HIDE DEF V
    <3> QED BY <3>1, <3>2
  <2>2. CASE total > Window
    <3> DEFINE start == Listings!Larger(1, p - Around)
               end   == start + 2 * Around
               m     == 2 * Around + 1
    <3>1. start \in Int /\ start >= 1 /\ start <= p /\ p <= start + Around
      BY DEF Listings!Larger
    <3>2. V = IF end > total THEN [i \in 1..m |-> (total - 2 * Around - 1) + i]
              ELSE [i \in 1..m |-> (start - 1) + i]
      BY <2>2 DEF Listings!Visible
    <3> HIDE DEF start
    <3>3. CASE end > total
      <4>1. V = [i \in 1..m |-> (total - 2 * Around - 1) + i]
        BY <3>2, <3>3
      <4>2. 0 <= total - 2 * Around - 1 /\ (total - 2 * Around - 1) + m <= total
            /\ total - 2 * Around - 1 < p /\ p <= (total - 2 * Around - 1) + m
        BY <2>2, <3>1, <3>3
      <4> HIDE DEF V
      <4> QED BY <4>1, <4>2
    <3>4. CASE end <= total
      <4>1. V = [i \in 1..m |-> (start - 1) + i]
        BY <3>1, <3>2, <3>4
      <4>2. 0 <= start - 1 /\ (start - 1) + m <= total
            /\ start - 1 < p /\ p <= (start - 1) + m
        BY <3>1, <3>4
      <4> HIDE DEF V
      <4> QED BY <3>1, <4>1, <4>2
    <3> QED BY <3>1, <3>3, <3>4
  <2> QED BY <2>1, <2>2
<1> HIDE DEF V
<1>2. DOMAIN V = 1..m /\ V \in Seq(Int)
  <2>1. V \in [1..m -> Int]
    BY <1>1
  <2> QED BY <2>1
<1>3. Len(V) = m
  BY <1>2
<1>4. Listings!ToSet(V) = {from + i : i \in 1..m}
  BY <1>1 DEF Listings!ToSet
<1>5. p \in Listings!ToSet(V)
  <2>1. p - from \in 1..m /\ p = from + (p - from)
    BY <1>1
  <2> QED BY <1>4, <2>1
<1>6. Listings!ToSet(V) \subseteq 1..total
  BY <1>1, <1>4
<1>7. \A i \in 1..m - 1 : V[i + 1] = V[i] + 1
  BY <1>1
<1> QED BY <1>2, <1>3, <1>5, <1>6, <1>7 DEF V

(* What page p of the list has and leads to.                               *)
IsPage(items, size, p) ==
    LET total == Listings!TotalPages(Len(items), size)
        page  == Listings!Paginate(items, size, p)
    IN /\ page.page = p
       /\ (p - 1) * size \in Nat
       /\ Len(page.items) \in 1..size
       /\ p < total => Len(page.items) = size
       /\ p = total => (p - 1) * size + Len(page.items) = Len(items)
       /\ \A k \in 1..Len(page.items) :
             /\ (p - 1) * size + k \in 1..Len(items)
             /\ page.items[k] = items[(p - 1) * size + k]
       /\ page.prev = IF p > 1 THEN p - 1 ELSE 0
       /\ page.next = IF p < total THEN p + 1 ELSE 0
       /\ page.links = IF total > 1 THEN Listings!Visible(p, total) ELSE <<>>

(* Every page is.                                                          *)
LEMMA PageCut ==
    ASSUME NEW T, NEW items \in Seq(T), NEW size \in Nat \ {0},
           NEW p \in 1..Listings!TotalPages(Len(items), size)
    PROVE  IsPage(items, size, p)
<1> DEFINE many     == Len(items)
           total == Listings!TotalPages(many, size)
           page  == Listings!Paginate(items, size, p)
           first == (p - 1) * size
           last  == Listings!Smaller(first + size, many)
<1>1. many \in Nat /\ total \in Nat /\ total # 0 /\ many # 0 /\ items # <<>>
  <2>1. many \in Nat
    OBVIOUS
  <2>2. total \in Nat /\ (many = 0 => total = 0)
    BY <2>1, EnoughPages
  <2> QED BY <2>1, <2>2
<1>2. Listings!Smaller(Listings!Larger(p, 1), total) = p
  BY <1>1 DEF Listings!Smaller, Listings!Larger
<1>3. /\ page.page = p
      /\ page.items = SubSeq(items, first + 1, last)
      /\ page.prev = IF p > 1 THEN p - 1 ELSE 0
      /\ page.next = IF p < total THEN p + 1 ELSE 0
      /\ page.links = IF total > 1 THEN Listings!Visible(p, total) ELSE <<>>
  <2> HIDE DEF total
  <2>1. page = [page  |-> p,
                items |-> IF items = <<>> THEN <<>> ELSE SubSeq(items, first + 1, last),
                prev  |-> IF p > 1 THEN p - 1 ELSE 0,
                next  |-> IF total > 0 /\ p < total THEN p + 1 ELSE 0,
                links |-> IF total > 1 THEN Listings!Visible(p, total) ELSE <<>>]
    BY <1>1, <1>2 DEF Listings!Paginate, total
  <2>2. total > 0
    BY <1>1
  <2>3. /\ page.page = p
        /\ page.items = IF items = <<>> THEN <<>> ELSE SubSeq(items, first + 1, last)
        /\ page.prev = IF p > 1 THEN p - 1 ELSE 0
        /\ page.next = IF total > 0 /\ p < total THEN p + 1 ELSE 0
        /\ page.links = IF total > 1 THEN Listings!Visible(p, total) ELSE <<>>
    <3> HIDE DEF page, first, last
    <3> QED BY <2>1
  <2> HIDE DEF page, first, last
  <2> QED BY <1>1, <2>2, <2>3
<1>4. first \in Nat /\ first < many /\ (p < total => first + size <= many)
  <2>1. p - 1 \in Nat /\ \A d, e \in Nat : d * e \in Nat
    BY <1>1
  <2>2. first \in Nat
    BY <2>1
  <2>3. many # 0 => (total - 1) * size < many
    BY <1>1, EnoughPages
  <2>4. first <= (total - 1) * size
    <3>1. p - 1 \in Int /\ total - 1 \in Int /\ p - 1 <= total - 1
      BY <1>1
    <3> QED BY <3>1, Monotone
  <2>5. ASSUME p < total PROVE first + size <= many
    <3>1. p \in Int /\ total - 1 \in Int /\ p <= total - 1
      BY <1>1, <2>5
    <3>2. p * size <= (total - 1) * size
      BY <3>1, Monotone
    <3>3. p * size = first + size
      BY <1>1
    <3>4. (total - 1) * size \in Int /\ p * size \in Int
      BY <1>1
    <3> QED BY <3>2, <3>3, <3>4, <2>3, <1>1
  <2>6. (total - 1) * size \in Int
    BY <1>1
  <2> HIDE DEF first, total, many
  <2> QED BY <2>2, <2>3, <2>4, <2>5, <2>6, <1>1
<1>5. p = total => many <= first + size
  <2>1. many <= total * size
    BY <1>1, EnoughPages
  <2>2. total * size = (total - 1) * size + size
    BY <1>1
  <2> QED BY <2>1, <2>2
<1> HIDE DEF first, total, page
<1>6. last \in Nat /\ first < last /\ last <= many /\ last - first <= size
  BY <1>1, <1>4 DEF Listings!Smaller
<1>7. (p < total => last - first = size) /\ (p = total => last = many)
  BY <1>1, <1>4, <1>5 DEF Listings!Smaller
<1> HIDE DEF last, many
<1>8. /\ Len(page.items) = last - first
      /\ \A k \in 1..last - first : page.items[k] = items[first + k]
  <2>1. first + 1 \in 1..Len(items) + 1 /\ last \in first + 1 - 1..Len(items)
    BY <1>4, <1>6 DEF many
  <2>2. Len(SubSeq(items, first + 1, last)) = last - first
    BY <2>1, <1>4, <1>6, SubSeqProperties
  <2>3. \A k \in 1..last - first : SubSeq(items, first + 1, last)[k] = items[first + k]
    BY <2>1, <1>4, <1>6, SubSeqProperties
  <2> QED BY <1>3, <2>2, <2>3
<1>9. Len(page.items) \in 1..size /\ \A k \in 1..Len(page.items) : first + k \in 1..many
  BY <1>4, <1>6, <1>8, <1>1
<1>10. (p < total => Len(page.items) = size) /\ (p = total => first + Len(page.items) = many)
  BY <1>4, <1>6, <1>7, <1>8, <1>1
<1> QED BY <1>3, <1>4, <1>8, <1>9, <1>10 DEF IsPage, first, total, page, many

(* Item i of the list is on page p.                                        *)
OnPage(items, size, i, p) ==
    \E k \in DOMAIN Listings!Paginate(items, size, p).items :
       i = (p - 1) * size + k /\ Listings!Paginate(items, size, p).items[k] = items[i]

(* The page of an item: those before it are full.                          *)
LEMMA PageOfItem ==
    ASSUME NEW T, NEW items \in Seq(T), NEW size \in Nat \ {0}, NEW i \in 1..Len(items)
    PROVE  \E p \in 1..Listings!TotalPages(Len(items), size) :
              /\ OnPage(items, size, i, p)
              /\ \A q \in 1..Listings!TotalPages(Len(items), size) : OnPage(items, size, i, q) => q = p
<1> DEFINE many     == Len(items)
           total == Listings!TotalPages(many, size)
           d     == (i - 1) \div size
           p     == d + 1
           page(q) == Listings!Paginate(items, size, q)
<1>1. many \in Nat /\ i \in 1..many /\ total \in Nat /\ many <= total * size
  <2>1. many \in Nat
    OBVIOUS
  <2> QED BY <2>1, EnoughPages
<1>2. d \in Int /\ d * size <= i - 1 /\ i - 1 < d * size + size
  <2>1. i - 1 \in Int /\ size \in Int /\ size > 0
    BY <1>1
  <2>2. \A a \in Int : \A b \in Int : b > 0 =>
           a \div b \in Int /\ (a \div b) * b <= a /\ a < (a \div b) * b + b
    OBVIOUS
  <2> QED BY <2>1, <2>2
<1> HIDE DEF d, total, many
<1>3. d >= 0
  <2> SUFFICES ASSUME d <= -1 PROVE FALSE
    BY <1>2
  <2>1. d * size <= (-1) * size
    BY <1>2, Monotone
  <2>2. (-1) * size = -size /\ d * size \in Int
    BY <1>2
  <2> QED BY <2>1, <2>2, <1>1, <1>2
<1>4. d < total
  <2> SUFFICES ASSUME total <= d PROVE FALSE
    BY <1>1, <1>2
  <2>1. total * size <= d * size
    BY <1>1, <1>2, Monotone
  <2>2. total * size \in Int /\ d * size \in Int
    BY <1>1, <1>2
  <2> QED BY <2>1, <2>2, <1>1, <1>2
<1>5. p \in 1..total /\ p - 1 = d
  BY <1>1, <1>2, <1>3, <1>4
<1>6. ASSUME NEW q \in 1..total
      PROVE  OnPage(items, size, i, q) <=>
                i - (q - 1) * size \in 1..Len(page(q).items)
  <2> DEFINE b == (q - 1) * size
             s == page(q).items
  <2>0. IsPage(items, size, q)
    BY PageCut DEF total, many
  <2>1. b \in Nat /\ Len(s) \in 1..size
    BY <2>0 DEF IsPage
  <2>3. ASSUME NEW k \in 1..Len(s) PROVE s[k] = items[b + k]
    BY <2>0 DEF IsPage
  <2>2. DOMAIN s = 1..Len(s)
    <3>1. s = <<>> \/ \E x, y : s = SubSeq(items, x, y)
      BY DEF Listings!Paginate
    <3> QED BY <3>1
  <2>4. OnPage(items, size, i, q) <=> \E k \in 1..Len(s) : i = b + k /\ s[k] = items[i]
    BY <2>2 DEF OnPage
  <2> HIDE DEF b, s
  <2>5. \A k \in 1..Len(s) : i = b + k <=> k = i - b
    BY <1>1, <2>1
  <2>6. i - b \in 1..Len(s) => i = b + (i - b)
    BY <1>1, <2>1
  <2> QED BY <2>3, <2>4, <2>5, <2>6 DEF b, s
<1>7. OnPage(items, size, i, p)
  <2>1. /\ p < total => Len(page(p).items) = size
        /\ p = total => (p - 1) * size + Len(page(p).items) = many
        /\ Len(page(p).items) \in 1..size
    BY <1>5, PageCut DEF IsPage, total, many
  <2>2. i - (p - 1) * size \in 1..Len(page(p).items)
    <3>1. d * size \in Int
      BY <1>2
    <3>2. (p - 1) * size = d * size
      BY <1>5
    <3> DEFINE x == d * size
               m == Len(page(p).items)
    <3>3. (p < total => m = size) /\ (p = total => x + m = many) /\ m \in Nat
      BY <2>1, <3>2
    <3>4. x <= i - 1 /\ i - 1 < x + size /\ x \in Int
      BY <1>2, <3>1
    <3> HIDE DEF p, x, m
    <3>5. i - x \in 1..m
      BY <1>1, <1>5, <3>3, <3>4
    <3> QED BY <3>2, <3>5 DEF x, m
  <2> QED BY <1>5, <1>6, <2>2
<1>8. ASSUME NEW q \in 1..total, OnPage(items, size, i, q) PROVE q = p
  <2>1. i - (q - 1) * size \in 1..Len(page(q).items) /\ Len(page(q).items) \in 1..size
    BY <1>6, <1>8, PageCut DEF IsPage, total, many
  <2>2. q - 1 \in Int /\ (q - 1) * size \in Int /\ d * size \in Int
    BY <1>1, <1>2
  <2> DEFINE e == q - 1
  <2>3. e * size <= i - 1 /\ i - 1 < e * size + size
    <3> DEFINE x == (q - 1) * size
               m == Len(page(q).items)
    <3>1. i - x \in 1..m /\ m \in 1..size /\ x \in Int
      BY <2>1, <2>2
    <3> HIDE DEF x, m
    <3>2. x <= i - 1 /\ i - 1 < x + size
      BY <1>1, <3>1
    <3> QED BY <3>2 DEF x
  <2>4. ~(e < d)
    <3> SUFFICES ASSUME e + 1 <= d PROVE FALSE
      BY <1>2, <2>2
    <3>1. (e + 1) * size <= d * size
      BY <1>2, <2>2, Monotone
    <3>2. (e + 1) * size = e * size + size
      BY <2>2
    <3> QED BY <1>1, <1>2, <2>2, <2>3, <3>1, <3>2
  <2>5. ~(d < e)
    <3> SUFFICES ASSUME d + 1 <= e PROVE FALSE
      BY <1>2, <2>2
    <3>1. (d + 1) * size <= e * size
      BY <1>2, <2>2, Monotone
    <3>2. (d + 1) * size = d * size + size
      BY <1>2
    <3> QED BY <1>1, <1>2, <2>2, <2>3, <3>1, <3>2
  <2> QED BY <1>2, <2>2, <2>4, <2>5, <1>5
<1> QED BY <1>5, <1>7, <1>8 DEF total, many

(* Every item is on one page and no other; a page number out of range      *)
(* leads to a page that there is; next and previous are inverse; and the   *)
(* numbers shown contain the page, have no gaps and lead nowhere else.     *)
WellPaged(items, size, asked) ==
    LET total   == Listings!TotalPages(Len(items), size)
        page(p) == Listings!Paginate(items, size, p)
    IN /\ page(asked).page \in 1..Listings!Larger(1, total)
       /\ page(page(asked).page) = page(asked)
       /\ \A i \in 1..Len(items) : \E p \in 1..total :
             /\ OnPage(items, size, i, p)
             /\ \A q \in 1..total : OnPage(items, size, i, q) => q = p
       /\ \A p \in 1..total :
             /\ page(p).page = p
             /\ p < total <=> page(p).next = p + 1
             /\ page(p).next # 0 => page(page(p).next).prev = p
             /\ page(p).links # <<>> =>
                   /\ p \in Listings!ToSet(page(p).links)
                   /\ Listings!ToSet(page(p).links) \subseteq 1..total
                   /\ \A i \in 1..Len(page(p).links) - 1 :
                         page(p).links[i + 1] = page(p).links[i] + 1

(* paginateItems and visiblePageNumbers do so, for any list, page size and *)
(* page asked for.                                                         *)
THEOREM PagesWalk ==
    ASSUME Window \in Nat, Around \in Nat, 2 * Around < Window,
           NEW T, NEW items \in Seq(T), NEW size \in Nat \ {0}, NEW asked \in Int
    PROVE  WellPaged(items, size, asked)
<1> DEFINE many       == Len(items)
           total   == Listings!TotalPages(many, size)
           page(p) == Listings!Paginate(items, size, p)
<1>1. many \in Nat /\ total \in Nat
  <2>1. many \in Nat
    OBVIOUS
  <2> QED BY <2>1, EnoughPages
<1> HIDE DEF total, many
<1> DEFINE At(x) == IF total = 0 THEN 1 ELSE Listings!Smaller(Listings!Larger(x, 1), total)
<1>2. ASSUME NEW x \in Int
      PROVE  /\ At(x) \in 1..Listings!Larger(1, total)
             /\ At(At(x)) = At(x)
  BY <1>1 DEF Listings!Smaller, Listings!Larger
<1>3. ASSUME NEW x PROVE page(x).page = At(x)
  BY DEF Listings!Paginate, total, many
<1>4. ASSUME NEW x, NEW y, At(x) = At(y) PROVE page(x) = page(y)
  BY <1>4 DEF Listings!Paginate, total, many
<1>5. page(asked).page \in 1..Listings!Larger(1, total) /\ page(page(asked).page) = page(asked)
  <2> HIDE DEF page, At
  <2> QED BY <1>2, <1>3, <1>4
<1>6. \A i \in 1..many : \E p \in 1..total :
         /\ OnPage(items, size, i, p)
         /\ \A q \in 1..total : OnPage(items, size, i, q) => q = p
  BY PageOfItem DEF total, many
<1>7. ASSUME NEW p \in 1..total
      PROVE  /\ page(p).page = p
             /\ page(p).prev = IF p > 1 THEN p - 1 ELSE 0
             /\ page(p).next = IF p < total THEN p + 1 ELSE 0
             /\ page(p).links = IF total > 1 THEN Listings!Visible(p, total) ELSE <<>>
  <2>1. IsPage(items, size, p)
    BY PageCut DEF total, many
  <2> QED BY <2>1 DEF IsPage, total, many
<1> HIDE DEF page
<1>8. ASSUME NEW p \in 1..total
      PROVE  /\ p < total <=> page(p).next = p + 1
             /\ page(p).next # 0 => page(page(p).next).prev = p
  <2>1. p < total <=> page(p).next = p + 1
    BY <1>1, <1>7
  <2>2. ASSUME page(p).next # 0 PROVE page(page(p).next).prev = p
    <3>1. p < total /\ page(p).next = p + 1
      BY <1>7, <2>2
    <3>2. p + 1 \in 1..total /\ p + 1 > 1 /\ (p + 1) - 1 = p
      BY <1>1, <3>1
    <3>3. page(p + 1).prev = p
      BY <1>7, <3>2
    <3> QED BY <3>1, <3>3
  <2> QED BY <2>1, <2>2
<1>9. ASSUME NEW p \in 1..total, page(p).links # <<>>
      PROVE  /\ p \in Listings!ToSet(page(p).links)
             /\ Listings!ToSet(page(p).links) \subseteq 1..total
             /\ \A i \in 1..Len(page(p).links) - 1 :
                   page(p).links[i + 1] = page(p).links[i] + 1
  <2>1. page(p).links = Listings!Visible(p, total)
    BY <1>7, <1>9
  <2>2. /\ p \in Listings!ToSet(Listings!Visible(p, total))
        /\ Listings!ToSet(Listings!Visible(p, total)) \subseteq 1..total
        /\ \A i \in 1..Len(Listings!Visible(p, total)) - 1 :
              Listings!Visible(p, total)[i + 1] = Listings!Visible(p, total)[i] + 1
    BY <1>1, NumbersShown
  <2> QED BY <2>1, <2>2
<1> QED BY <1>5, <1>6, <1>7, <1>8, <1>9 DEF WellPaged, total, many, page

-----------------------------------------------------------------------------
(* Where, for sequences of any length. The library's induction theorems    *)
(* cannot be cited, so induction is over a set of numbers that has a least *)
(* one of those it lacks.                                                  *)
LEMMA LeastNumber ==
    ASSUME NEW numbers, numbers \in SUBSET Nat, numbers # {}
    PROVE  \E num \in numbers : \A m \in numbers : num <= m
<1>1. PICK k \in numbers : TRUE
  OBVIOUS
<1> DEFINE S == 0..k
           T == {0..num : num \in {num \in numbers : num <= k}}
<1>2. IsFiniteSet(S)
  BY FS_Interval
<1>3. T \subseteq FiniteSubsetsOf(S) /\ T # {}
  <2>1. ASSUME NEW num \in numbers, num <= k PROVE 0..num \in SUBSET S /\ IsFiniteSet(0..num)
    BY <2>1, FS_Interval
  <2>2. 0..k \in T
    OBVIOUS
  <2> QED BY <2>1, <2>2 DEF FiniteSubsetsOf
<1>4. PICK x \in T : \A y \in T : <<y, x>> \notin StrictSubsetOrdering(S)
  <2> HIDE DEF S, T
  <2> QED BY <1>2, <1>3, FS_StrictSubsetOrderingWellFounded, WFMin
<1>5. PICK num \in numbers : num <= k /\ x = 0..num
  BY <1>4
<1>6. ASSUME NEW m \in numbers PROVE num <= m
  <2> SUFFICES ASSUME m < num PROVE FALSE
    OBVIOUS
  <2>1. 0..m \in T /\ 0..m \in SUBSET S /\ 0..num \in SUBSET S
    BY <1>5
  <2>2. 0..m \subseteq 0..num /\ num \in 0..num /\ num \notin 0..m
    OBVIOUS
  <2>3. <<0..m, 0..num>> \in StrictSubsetOrdering(S)
    BY <2>1, <2>2 DEF StrictSubsetOrdering
  <2> QED BY <2>1, <2>3, <1>4, <1>5
<1> QED BY <1>6

(* Induction: a set of numbers with 0 and every successor has them all.    *)
LEMMA Counting ==
    ASSUME NEW ns, 0 \in ns, \A k \in Nat : k \in ns => k + 1 \in ns
    PROVE  Nat \subseteq ns
<1> SUFFICES ASSUME Nat \ ns # {} PROVE FALSE
  OBVIOUS
<1>1. PICK num \in Nat \ ns : \A m \in Nat \ ns : num <= m
  <2>1. Nat \ ns \in SUBSET Nat
    OBVIOUS
  <2> QED BY <2>1, LeastNumber
<1>2. num # 0 /\ num - 1 \in Nat
  BY <1>1
<1>3. num - 1 \in ns
  BY <1>1, <1>2
<1> QED BY <1>1, <1>2, <1>3

(* What r becomes, turn by turn.                                           *)
Turned(r, num, base, steps) == r[0] = base /\ \A k \in 1..num : r[k] = steps[k][r[k - 1]]

(* A recursive function is there: made for one index after the other.      *)
LEMMA RecursionExists ==
    ASSUME NEW num \in Nat, NEW D, NEW base \in D, NEW steps \in [1..num -> [D -> D]]
    PROVE  \E r \in [0..num -> D] : Turned(r, num, base, steps)
<1> DEFINE Made(r, m) == \A k \in 0..m : r[k] = IF k = 0 THEN base ELSE steps[k][r[k - 1]]
           ns == {m \in Nat : m <= num => \E r \in [0..m -> D] : Made(r, m)}
<1>1. 0 \in ns
  <2> DEFINE r == [k \in 0..0 |-> base]
  <2>1. r \in [0..0 -> D] /\ Made(r, 0)
    OBVIOUS
  <2> QED BY <2>1
<1>2. ASSUME NEW m \in Nat, m \in ns PROVE m + 1 \in ns
  <2> SUFFICES ASSUME m + 1 <= num PROVE \E r \in [0..m + 1 -> D] : Made(r, m + 1)
    OBVIOUS
  <2>1. PICK g \in [0..m -> D] : Made(g, m)
    BY <1>2
  <2> DEFINE r == [k \in 0..m + 1 |-> IF k = m + 1 THEN steps[m + 1][g[m]] ELSE g[k]]
  <2>2. steps[m + 1] \in [D -> D] /\ g[m] \in D
    OBVIOUS
  <2>3. r \in [0..m + 1 -> D]
    BY <2>2
  <2>4. ASSUME NEW k \in 0..m + 1
        PROVE  r[k] = IF k = 0 THEN base ELSE steps[k][r[k - 1]]
    <3>1. CASE k = m + 1
      BY <3>1
    <3>2. CASE k # m + 1
      <4>1. k \in 0..m /\ r[k] = g[k] /\ (k # 0 => k - 1 \in 0..m /\ r[k - 1] = g[k - 1])
        BY <3>2
      <4> HIDE DEF r
      <4> QED BY <2>1, <4>1
    <3> QED BY <3>1, <3>2
  <2> QED BY <2>3, <2>4
<1>3. Nat \subseteq ns
  <2> HIDE DEF ns
  <2> QED BY <1>1, <1>2, Counting
<1>4. num \in ns
  <2> HIDE DEF ns
  <2> QED BY <1>3
<1>5. PICK r \in [0..num -> D] : Made(r, num)
  BY <1>4
<1>6. r[0] = base /\ \A k \in 1..num : r[k] = steps[k][r[k - 1]]
  <2>1. 0 \in 0..num /\ \A k \in 1..num : k \in 0..num /\ k # 0
    OBVIOUS
  <2> QED BY <1>5, <2>1
<1> QED BY <1>6 DEF Turned

(* Where goes through a sequence from the first element to the last.       *)
TakesEach(r, s, num, S) ==
    /\ r[0] = <<>>
    /\ \A k \in 1..num : r[k] = IF s[k] \in S THEN Append(r[k - 1], s[k]) ELSE r[k - 1]
    /\ Where(s, S) = r[num]

LEMMA WhereTurns ==
    ASSUME NEW X, NEW s \in Seq(X), NEW S
    PROVE  \E r \in [0..Len(s) -> Seq(X)] : TakesEach(r, s, Len(s), S)
<1> DEFINE num == Len(s)
           D == Seq(X)
           steps == [i \in 1..num |-> [t \in D |-> IF s[i] \in S THEN Append(t, s[i]) ELSE t]]
           f == CHOOSE h : h = [k \in 0..num |-> IF k = 0 THEN <<>>
                                               ELSE IF s[k] \in S THEN Append(h[k - 1], s[k])
                                               ELSE h[k - 1]]
<1>1. num \in Nat /\ \A i \in 1..num : s[i] \in X
  OBVIOUS
<1>2. steps \in [1..num -> [D -> D]] /\ <<>> \in D
  <2>1. \A i \in 1..num : \A t \in D : Append(t, s[i]) \in D
    BY <1>1, AppendProperties
  <2>2. <<>> \in D
    OBVIOUS
  <2> HIDE DEF num, D
  <2> QED BY <2>1, <2>2
<1>3. PICK r \in [0..num -> D] : Turned(r, num, <<>>, steps)
  <2> HIDE DEF num, D, steps
  <2> QED BY <1>1, <1>2, RecursionExists
<1>4. \A k \in 1..num : r[k] = IF s[k] \in S THEN Append(r[k - 1], s[k]) ELSE r[k - 1]
  <2> HIDE DEF D, num, f
  <2>1. \A k \in 1..num : k - 1 \in 0..num
    BY <1>1
  <2>2. \A k \in 1..num : r[k - 1] \in D
    BY <2>1
  <2> QED BY <1>3, <2>2 DEF Turned
<1>5. \E h : h = [k \in 0..num |-> IF k = 0 THEN <<>>
                                ELSE IF s[k] \in S THEN Append(h[k - 1], s[k]) ELSE h[k - 1]]
  <2>1. DOMAIN r = 0..num /\ \A k \in 0..num : k # 0 => k \in 1..num
    BY <1>1
  <2>2. r = [k \in 0..num |-> IF k = 0 THEN <<>>
                            ELSE IF s[k] \in S THEN Append(r[k - 1], s[k]) ELSE r[k - 1]]
    <3> HIDE DEF D, num, steps
    <3> QED BY <1>3, <1>4, <2>1 DEF Turned
  <2> QED BY <2>2, Zenon
<1>6. f = [k \in 0..num |-> IF k = 0 THEN <<>>
                          ELSE IF s[k] \in S THEN Append(f[k - 1], s[k]) ELSE f[k - 1]]
  <2> HIDE DEF num
  <2> QED BY <1>5
<1>7. Where(s, S) = f[num]
  BY DEF Where
<1> HIDE DEF f
<1>8. f[0] = <<>> /\ \A k \in 1..num : f[k] = IF s[k] \in S THEN Append(f[k - 1], s[k]) ELSE f[k - 1]
  <2>1. 0 \in 0..num /\ \A k \in 1..num : k \in 0..num /\ k # 0
    BY <1>1
  <2> HIDE DEF num
  <2> QED BY <1>6, <2>1
<1> HIDE DEF num, D, steps
<1> DEFINE ns == {k \in Nat : k <= num => f[k] = r[k]}
<1>9. 0 \in ns
  BY <1>3, <1>8 DEF Turned
<1>10. ASSUME NEW k \in Nat, k \in ns PROVE k + 1 \in ns
  <2> SUFFICES ASSUME k + 1 <= num PROVE f[k + 1] = r[k + 1]
    OBVIOUS
  <2>1. k + 1 \in 1..num /\ (k + 1) - 1 = k /\ f[k] = r[k]
    BY <1>1, <1>10
  <2> QED BY <1>4, <1>8, <2>1
<1>11. f[num] = r[num]
  <2>1. Nat \subseteq ns
    <3> HIDE DEF ns
    <3> QED BY <1>9, <1>10, Counting
  <2> QED BY <1>1, <2>1
<1> QED
  BY <1>3, <1>4, <1>7, <1>11 DEF num, D, Turned, TakesEach

(* Induction over sequences: a set with <<>> and every longer sequence.    *)
LEMMA Lengthening ==
    ASSUME NEW X, NEW T, <<>> \in T,
           \A s \in Seq(X) : \A x \in X : s \in T => Append(s, x) \in T
    PROVE  Seq(X) \subseteq T
<1> DEFINE ns == {num \in Nat : \A s \in Seq(X) : Len(s) = num => s \in T}
<1>1. 0 \in ns
  <2>1. \A s \in Seq(X) : Len(s) = 0 => s = <<>>
    OBVIOUS
  <2> QED BY <2>1
<1>2. ASSUME NEW num \in Nat, num \in ns PROVE num + 1 \in ns
  <2> SUFFICES ASSUME NEW s \in Seq(X), Len(s) = num + 1 PROVE s \in T
    OBVIOUS
  <2> DEFINE front == SubSeq(s, 1, num)
  <2>1. front \in Seq(X) /\ Len(front) = num /\ \A i \in 1..num : front[i] = s[i]
    BY SubSeqProperties
  <2>2. s[num + 1] \in X
    OBVIOUS
  <2>3. s = Append(front, s[num + 1])
    <3> DEFINE t == Append(front, s[num + 1])
    <3>1. t \in Seq(X) /\ Len(t) = num + 1 /\ t[num + 1] = s[num + 1] /\ \A i \in 1..num : t[i] = front[i]
      <4> HIDE DEF front
      <4> QED BY <2>1, <2>2, AppendProperties
    <3>2. \A i \in 1..num + 1 : i \in 1..num \/ i = num + 1
      OBVIOUS
    <3>3. \A i \in 1..Len(s) : s[i] = t[i]
      <4> HIDE DEF t, front
      <4> QED BY <2>1, <3>1, <3>2
    <3> HIDE DEF t
    <3> QED BY <3>1, <3>3, SeqEqual
  <2>4. front \in T
    <3> HIDE DEF front
    <3> QED BY <1>2, <2>1
  <2> HIDE DEF front
  <2> QED BY <2>1, <2>2, <2>3, <2>4
<1>3. Nat \subseteq ns
  <2> HIDE DEF ns
  <2> QED BY <1>1, <1>2, Counting
<1>4. \A s \in Seq(X) : Len(s) \in Nat
  OBVIOUS
<1> QED BY <1>3, <1>4

(* Where, from one element to the next.                                    *)
LEMMA WhereNothing ==
    ASSUME NEW S PROVE Where(<<>>, S) = <<>>
<1>1. <<>> \in Seq({}) /\ Len(<<>>) = 0
  OBVIOUS
<1>2. PICK r \in [0..Len(<<>>) -> Seq({})] : TakesEach(r, <<>>, Len(<<>>), S)
  BY <1>1, WhereTurns
<1> QED BY <1>1, <1>2 DEF TakesEach

LEMMA WhereTyped ==
    ASSUME NEW X, NEW s \in Seq(X), NEW S PROVE Where(s, S) \in Seq(X)
<1>1. PICK r \in [0..Len(s) -> Seq(X)] : TakesEach(r, s, Len(s), S)
  BY WhereTurns
<1>2. Len(s) \in 0..Len(s)
  OBVIOUS
<1> QED BY <1>1, <1>2 DEF TakesEach

LEMMA WhereNext ==
    ASSUME NEW X, NEW s \in Seq(X), NEW x \in X, NEW S
    PROVE  Where(Append(s, x), S) =
              IF x \in S THEN Append(Where(s, S), x) ELSE Where(s, S)
<1> DEFINE num == Len(s)
           t == Append(s, x)
<1>1. /\ num \in Nat /\ t \in Seq(X) /\ Len(t) = num + 1
      /\ \A i \in 1..num : t[i] = s[i]
      /\ t[num + 1] = x
  BY AppendProperties
<1>2. PICK r \in [0..num -> Seq(X)] : TakesEach(r, s, num, S)
  BY WhereTurns
<1> HIDE DEF t, num
<1>3. PICK q \in [0..num + 1 -> Seq(X)] : TakesEach(q, t, num + 1, S)
  <2>1. PICK q \in [0..Len(t) -> Seq(X)] : TakesEach(q, t, Len(t), S)
    BY <1>1, WhereTurns
  <2> QED BY <1>1, <2>1
<1> DEFINE ns == {k \in Nat : k <= num => q[k] = r[k]}
<1>4. 0 \in ns
  BY <1>2, <1>3 DEF TakesEach
<1>5. ASSUME NEW k \in Nat, k \in ns PROVE k + 1 \in ns
  <2> SUFFICES ASSUME k + 1 <= num PROVE q[k + 1] = r[k + 1]
    OBVIOUS
  <2>1. k + 1 \in 1..num /\ k + 1 \in 1..num + 1 /\ (k + 1) - 1 = k /\ q[k] = r[k]
    BY <1>1, <1>5
  <2>2. t[k + 1] = s[k + 1]
    BY <1>1, <2>1
  <2>3. r[k + 1] = IF s[k + 1] \in S THEN Append(r[k], s[k + 1]) ELSE r[k]
    BY <1>2, <2>1 DEF TakesEach
  <2>4. q[k + 1] = IF t[k + 1] \in S THEN Append(q[k], t[k + 1]) ELSE q[k]
    BY <1>3, <2>1 DEF TakesEach
  <2> QED BY <2>1, <2>2, <2>3, <2>4
<1>6. q[num] = r[num]
  <2>1. Nat \subseteq ns
    <3> HIDE DEF ns
    <3> QED BY <1>4, <1>5, Counting
  <2> QED BY <1>1, <2>1
<1>7. num + 1 \in 1..num + 1 /\ (num + 1) - 1 = num /\ num \in 0..num
  BY <1>1
<1>8. Where(t, S) = IF x \in S THEN Append(Where(s, S), x) ELSE Where(s, S)
  BY <1>1, <1>2, <1>3, <1>6, <1>7 DEF TakesEach
<1> QED BY <1>8 DEF t

(* What w has of s: what belongs there, all of it, and s if that is all.   *)
TakesAll(w, s, X, S) ==
    /\ w \in Seq(X \cap S)
    /\ \A i \in 1..Len(s) : s[i] \in S => \E j \in 1..Len(w) : w[j] = s[i]
    /\ (\A i \in 1..Len(s) : s[i] \in S) => w = s

LEMMA WhereTakes ==
    ASSUME NEW X, NEW s \in Seq(X), NEW S
    PROVE  TakesAll(Where(s, S), s, X, S)
<1> DEFINE T == {t \in Seq(X) : TakesAll(Where(t, S), t, X, S)}
<1>1. <<>> \in T
  <2>1. Where(<<>>, S) = <<>>
    BY WhereNothing
  <2>2. <<>> \in Seq(X) /\ <<>> \in Seq(X \cap S) /\ 1..Len(<<>>) = {}
    OBVIOUS
  <2> QED BY <2>1, <2>2 DEF TakesAll
<1>2. ASSUME NEW t \in Seq(X), NEW x \in X, t \in T PROVE Append(t, x) \in T
  <2> DEFINE u == Append(t, x)
             w == Where(t, S)
  <2>1. /\ u \in Seq(X) /\ Len(t) \in Nat /\ Len(u) = Len(t) + 1
        /\ \A i \in 1..Len(t) : u[i] = t[i]
        /\ u[Len(t) + 1] = x
        /\ \A i \in 1..Len(u) : i \in 1..Len(t) \/ i = Len(t) + 1
    BY AppendProperties
  <2>2. Where(u, S) = IF x \in S THEN Append(w, x) ELSE w
    BY WhereNext
  <2>3. /\ w \in Seq(X \cap S)
        /\ \A i \in 1..Len(t) : t[i] \in S => \E j \in 1..Len(w) : w[j] = t[i]
        /\ (\A i \in 1..Len(t) : t[i] \in S) => w = t
    BY <1>2 DEF TakesAll
  <2> HIDE DEF u, w
  <2>4. ASSUME x \in S PROVE TakesAll(Where(u, S), u, X, S)
    <3>1. /\ Append(w, x) \in Seq(X \cap S) /\ Len(Append(w, x)) = Len(w) + 1 /\ Len(w) \in Nat
          /\ \A j \in 1..Len(w) : Append(w, x)[j] = w[j]
          /\ Append(w, x)[Len(w) + 1] = x
          /\ \A j \in 1..Len(w) : j \in 1..Len(w) + 1
          /\ Len(w) + 1 \in 1..Len(w) + 1
      BY <2>3, <2>4, AppendProperties
    <3>2. ASSUME NEW i \in 1..Len(u), u[i] \in S
          PROVE  \E j \in 1..Len(w) + 1 : Append(w, x)[j] = u[i]
      <4>1. CASE i \in 1..Len(t)
        <5>1. PICK j \in 1..Len(w) : w[j] = t[i]
          BY <2>1, <2>3, <3>2, <4>1
        <5> QED BY <2>1, <3>1, <4>1, <5>1
      <4>2. CASE i = Len(t) + 1
        BY <2>1, <3>1, <4>2
      <4> QED BY <2>1, <4>1, <4>2
    <3>3. ASSUME \A i \in 1..Len(u) : u[i] \in S PROVE Append(w, x) = u
      <4>1. \A i \in 1..Len(t) : i \in 1..Len(u)
        BY <2>1
      <4>2. w = t
        BY <2>1, <2>3, <3>3, <4>1
      <4> QED BY <4>2 DEF u
    <3>4. Where(u, S) = Append(w, x)
      BY <2>2, <2>4
    <3> QED BY <2>1, <3>1, <3>2, <3>3, <3>4 DEF TakesAll
  <2>5. ASSUME x \notin S PROVE TakesAll(Where(u, S), u, X, S)
    <3>1. ASSUME NEW i \in 1..Len(u), u[i] \in S
          PROVE  \E j \in 1..Len(w) : w[j] = u[i]
      <4>1. i \in 1..Len(t) /\ u[i] = t[i]
        BY <2>1, <2>5, <3>1
      <4> QED BY <2>3, <3>1, <4>1
    <3>2. Len(t) + 1 \in 1..Len(u) /\ u[Len(t) + 1] \notin S
      BY <2>1, <2>5
    <3>3. Where(u, S) = w
      BY <2>2, <2>5
    <3> QED BY <2>1, <2>3, <3>1, <3>2, <3>3 DEF TakesAll
  <2>6. u \in T
    BY <2>1, <2>4, <2>5
  <2> QED BY <2>6 DEF u
<1>3. Seq(X) \subseteq T
  <2> HIDE DEF T
  <2> QED BY <1>1, <1>2, Lengthening
<1> QED BY <1>3

(* What is appended to the second of two lists.                            *)
LEMMA AppendAfter ==
    ASSUME NEW X, NEW s \in Seq(X), NEW t \in Seq(X), NEW x \in X
    PROVE  s \o Append(t, x) = Append(s \o t, x)
<1>1. <<x>> \in Seq(X) /\ s \o t \in Seq(X)
  BY ConcatProperties
<1>2. Append(t, x) = t \o <<x>> /\ Append(s \o t, x) = (s \o t) \o <<x>>
  BY <1>1, AppendIsConcat
<1> QED BY <1>1, <1>2, ConcatAssociative

(* Taking from two lists one after the other,                              *)
LEMMA WhereJoined ==
    ASSUME NEW X, NEW s \in Seq(X), NEW t \in Seq(X), NEW S
    PROVE  Where(s \o t, S) = Where(s, S) \o Where(t, S)
<1> DEFINE T == {u \in Seq(X) : Where(s \o u, S) = Where(s, S) \o Where(u, S)}
<1>1. <<>> \in T
  <2>1. Where(s, S) \in Seq(X \cap S)
    BY WhereTakes DEF TakesAll
  <2>2. s \o <<>> = s /\ Where(s, S) \o <<>> = Where(s, S)
    BY <2>1, ConcatEmptySeq
  <2>3. Where(<<>>, S) = <<>>
    BY WhereNothing
  <2>4. <<>> \in Seq(X)
    OBVIOUS
  <2> QED BY <2>2, <2>3, <2>4
<1>2. ASSUME NEW u \in Seq(X), NEW x \in X, u \in T PROVE Append(u, x) \in T
  <2>1. s \o u \in Seq(X) /\ s \o Append(u, x) = Append(s \o u, x) /\ Append(u, x) \in Seq(X)
    BY AppendAfter, ConcatProperties, AppendProperties
  <2>2. Where(s, S) \in Seq(X) /\ Where(u, S) \in Seq(X)
    BY WhereTyped
  <2>3. Where(s \o Append(u, x), S) =
           IF x \in S THEN Append(Where(s \o u, S), x) ELSE Where(s \o u, S)
    <3> HIDE DEF T
    <3>1. ASSUME NEW v \in Seq(X)
          PROVE  Where(Append(v, x), S) = IF x \in S THEN Append(Where(v, S), x) ELSE Where(v, S)
      BY WhereNext
    <3> QED BY <2>1, <3>1
  <2>4. Where(Append(u, x), S) = IF x \in S THEN Append(Where(u, S), x) ELSE Where(u, S)
    BY WhereNext
  <2>5. Where(s, S) \o Append(Where(u, S), x) = Append(Where(s, S) \o Where(u, S), x)
    BY <2>2, AppendAfter
  <2>6. Where(s \o u, S) = Where(s, S) \o Where(u, S)
    BY <1>2
  <2> QED BY <2>1, <2>3, <2>4, <2>5, <2>6
<1>3. Seq(X) \subseteq T
  <2> HIDE DEF T
  <2> QED BY <1>1, <1>2, Lengthening
<1> QED BY <1>3

(* and from what was taken before.                                         *)
LEMMA WhereTwice ==
    ASSUME NEW X, NEW s \in Seq(X), NEW S, NEW R
    PROVE  Where(Where(s, S), R) = Where(s, S \cap R)
<1> DEFINE T == {u \in Seq(X) : Where(Where(u, S), R) = Where(u, S \cap R)}
<1>1. <<>> \in T
  BY WhereNothing
<1>2. ASSUME NEW u \in Seq(X), NEW x \in X, u \in T PROVE Append(u, x) \in T
  <2>1. Where(u, S) \in Seq(X) /\ Append(u, x) \in Seq(X)
    BY WhereTyped, AppendProperties
  <2>2. Where(Append(Where(u, S), x), R) =
           IF x \in R THEN Append(Where(Where(u, S), R), x) ELSE Where(Where(u, S), R)
    BY <2>1, WhereNext
  <2>3. Where(Append(u, x), S) = IF x \in S THEN Append(Where(u, S), x) ELSE Where(u, S)
    BY WhereNext
  <2> DEFINE B == S \cap R
  <2>4. x \in B <=> x \in S /\ x \in R
    OBVIOUS
  <2>5. Where(Where(u, S), R) = Where(u, B)
    BY <1>2
  <2> HIDE DEF B
  <2>6. Where(Append(u, x), B) = IF x \in B THEN Append(Where(u, B), x) ELSE Where(u, B)
    BY WhereNext
  <2>7. Where(Where(Append(u, x), S), R) = Where(Append(u, x), B)
    BY <2>2, <2>3, <2>4, <2>5, <2>6
  <2> QED BY <2>1, <2>7 DEF B
<1>3. Seq(X) \subseteq T
  <2> HIDE DEF T
  <2> QED BY <1>1, <1>2, Lengthening
<1> QED BY <1>3

(* Only what is in the list matters.                                       *)
LEMMA WhereSame ==
    ASSUME NEW X, NEW s \in Seq(X), NEW S, NEW R,
           \A i \in 1..Len(s) : s[i] \in S <=> s[i] \in R
    PROVE  Where(s, S) = Where(s, R)
<1> DEFINE T == {u \in Seq(X) : (\A i \in 1..Len(u) : u[i] \in S <=> u[i] \in R) =>
                                    Where(u, S) = Where(u, R)}
<1>1. <<>> \in T
  BY WhereNothing
<1>2. ASSUME NEW u \in Seq(X), NEW x \in X, u \in T PROVE Append(u, x) \in T
  <2> DEFINE v == Append(u, x)
  <2>1. /\ v \in Seq(X) /\ Len(u) \in Nat /\ Len(v) = Len(u) + 1 /\ v[Len(u) + 1] = x
        /\ \A i \in 1..Len(u) : v[i] = u[i] /\ i \in 1..Len(v)
        /\ Len(u) + 1 \in 1..Len(v)
    BY AppendProperties
  <2>2. Where(v, S) = IF x \in S THEN Append(Where(u, S), x) ELSE Where(u, S)
    BY WhereNext
  <2>4. Where(v, R) = IF x \in R THEN Append(Where(u, R), x) ELSE Where(u, R)
    BY WhereNext
  <2> HIDE DEF v
  <2>0. u \in Seq(X)
    OBVIOUS
  <2>3. ASSUME \A i \in 1..Len(v) : v[i] \in S <=> v[i] \in R PROVE Where(v, S) = Where(v, R)
    <3>1. x \in S <=> x \in R
      BY <2>1, <2>3
    <3>2. \A i \in 1..Len(u) : u[i] \in S <=> u[i] \in R
      BY <2>1, <2>3
    <3>3. Where(u, S) = Where(u, R)
      BY <1>2, <3>2
    <3> QED BY <2>2, <2>4, <3>1, <3>3
  <2>5. v \in T
    BY <2>1, <2>3
  <2> QED BY <2>5 DEF v
<1>3. Seq(X) \subseteq T
  <2> HIDE DEF T
  <2> QED BY <1>1, <1>2, Lengthening
<1> QED BY <1>3

(* What is taken was there,                                                *)
LEMMA WhereFrom ==
    ASSUME NEW X, NEW s \in Seq(X), NEW S
    PROVE  \A j \in 1..Len(Where(s, S)) :
              /\ Where(s, S)[j] \in S
              /\ \E i \in 1..Len(s) : Where(s, S)[j] = s[i]
<1> DEFINE Y == {s[i] : i \in 1..Len(s)}
           w == Where(s, S)
<1>1. s \in Seq(Y)
  <2>1. \A i \in 1..Len(s) : s[i] \in Y
    OBVIOUS
  <2> HIDE DEF Y
  <2> QED BY <2>1, SeqDef
<1>2. w \in Seq(Y \cap S)
  <2> HIDE DEF Y
  <2>1. TakesAll(w, s, Y, S)
    BY <1>1, WhereTakes
  <2> QED BY <2>1 DEF TakesAll
<1>3. \A j \in 1..Len(w) : w[j] \in Y \cap S
  <2> HIDE DEF Y, w
  <2> QED BY <1>2, ElementOfSeq
<1> HIDE DEF w
<1> QED BY <1>3 DEF w

(* as often as it was there.                                               *)
Unlike(s) == \A i, j \in 1..Len(s) : s[i] = s[j] => i = j

LEMMA UnlikeNext ==
    ASSUME NEW X, NEW s \in Seq(X), NEW x \in X
    PROVE  Unlike(Append(s, x)) <=> Unlike(s) /\ \A i \in 1..Len(s) : s[i] # x
<1> DEFINE t == Append(s, x)
<1>1. /\ Len(s) \in Nat /\ Len(t) = Len(s) + 1
      /\ \A i \in 1..Len(s) : t[i] = s[i]
      /\ t[Len(s) + 1] = x
  BY AppendProperties
<1> HIDE DEF t
<1>2. /\ \A i \in 1..Len(s) : i \in 1..Len(t) /\ i # Len(s) + 1
      /\ Len(s) + 1 \in 1..Len(t)
      /\ \A i \in 1..Len(t) : i \in 1..Len(s) \/ i = Len(s) + 1
  BY <1>1
<1>3. ASSUME Unlike(t) PROVE Unlike(s) /\ \A i \in 1..Len(s) : s[i] # x
  BY <1>1, <1>2, <1>3 DEF Unlike
<1>4. ASSUME Unlike(s), \A i \in 1..Len(s) : s[i] # x PROVE Unlike(t)
  <2> SUFFICES ASSUME NEW i \in 1..Len(t), NEW j \in 1..Len(t), t[i] = t[j] PROVE i = j
    BY DEF Unlike
  <2>1. CASE i \in 1..Len(s) /\ j \in 1..Len(s)
    BY <1>1, <1>4, <2>1 DEF Unlike
  <2>2. CASE i \in 1..Len(s) /\ j = Len(s) + 1
    BY <1>1, <1>4, <2>2
  <2>3. CASE i = Len(s) + 1 /\ j \in 1..Len(s)
    BY <1>1, <1>4, <2>3
  <2> QED BY <1>2, <2>1, <2>2, <2>3
<1> QED BY <1>3, <1>4 DEF t

LEMMA WhereUnlike ==
    ASSUME NEW X, NEW s \in Seq(X), NEW S, Unlike(s)
    PROVE  Unlike(Where(s, S))
<1> DEFINE T == {u \in Seq(X) : Unlike(u) => Unlike(Where(u, S))}
<1>1. <<>> \in T
  <2>1. Where(<<>>, S) = <<>> /\ <<>> \in Seq(X)
    BY WhereNothing
  <2> QED BY <2>1
<1>2. ASSUME NEW u \in Seq(X), NEW x \in X, u \in T PROVE Append(u, x) \in T
  <2>1. Append(u, x) \in Seq(X) /\ Where(u, S) \in Seq(X)
    BY WhereTyped, AppendProperties
  <2>2. Where(Append(u, x), S) = IF x \in S THEN Append(Where(u, S), x) ELSE Where(u, S)
    BY WhereNext
  <2>3. Unlike(u) => Unlike(Where(u, S))
    BY <1>2
  <2> HIDE DEF T
  <2>4. Unlike(Append(u, x)) <=> Unlike(u) /\ \A i \in 1..Len(u) : u[i] # x
    BY UnlikeNext
  <2>5. Unlike(Append(Where(u, S), x)) <=>
           Unlike(Where(u, S)) /\ \A i \in 1..Len(Where(u, S)) : Where(u, S)[i] # x
    BY <2>1, UnlikeNext
  <2>6. \A j \in 1..Len(Where(u, S)) : \E i \in 1..Len(u) : Where(u, S)[j] = u[i]
    BY WhereFrom
  <2>7. Unlike(Append(u, x)) => Unlike(Where(Append(u, x), S))
    BY <2>2, <2>3, <2>4, <2>5, <2>6
  <2> QED BY <2>1, <2>7 DEF T
<1>3. Seq(X) \subseteq T
  <2> HIDE DEF T
  <2> QED BY <1>1, <1>2, Lengthening
<1> QED BY <1>3

-----------------------------------------------------------------------------
(* The update page, for any versions and any output of the script.         *)

Versions == Seq(Nat)
LinesOf(X) == [event : X, version : Versions]
UpdateInputs(X) ==
    [token : BOOLEAN, answer : [status : Int, tag : Versions],
     anonymous : [status : Int, tag : Versions],
     before : Seq(LinesOf(X)), output : Seq(LinesOf(X)), exit : Int]

(* Two versions of three numbers are not both newer than the other.        *)
LEMMA NewerOne ==
    ASSUME NEW a \in Versions, NEW b \in Versions, Len(a) = 3, Len(b) = 3, Log!Newer(a, b)
    PROVE  a # b /\ ~Log!Newer(b, a)
<1>1. \A i \in 1..3 : a[i] \in Nat /\ b[i] \in Nat
  <2>1. a \in [1..3 -> Nat] /\ b \in [1..3 -> Nat]
    BY LenProperties DEF Versions
  <2> QED BY <2>1
<1>2. PICK i \in 1..3 : a[i] > b[i] /\ \A j \in 1..i - 1 : a[j] = b[j]
  BY DEF Log!Newer
<1>3. a # b
  BY <1>1, <1>2
<1>4. ASSUME NEW k \in 1..3, b[k] > a[k], \A j \in 1..k - 1 : b[j] = a[j] PROVE FALSE
  <2>1. CASE i = k
    BY <1>1, <1>2, <1>4, <2>1
  <2>2. CASE i < k
    <3>1. i \in 1..k - 1
      BY <2>2
    <3> QED BY <1>1, <1>2, <1>4, <3>1
  <2>3. CASE k < i
    <3>1. k \in 1..i - 1
      BY <2>3
    <3> QED BY <1>1, <1>2, <1>4, <3>1
  <2> QED BY <2>1, <2>2, <2>3
<1> QED BY <1>3, <1>4 DEF Log!Newer

(* The lists of module Updates are those of the lemmas.                    *)
LEMMA LogWhere == \A s, S : Log!Where(s, S) = Where(s, S)
BY DEF Log!Where, Where

(* How often an event is told, in one list and in one after another.       *)
LEMMA TimesCounted ==
    ASSUME NEW X, NEW s \in Seq(LinesOf(X)), NEW event
    PROVE  LET S == {x \in LinesOf(X) : x.event = event}
           IN Log!Times(s, event) = Len(Where(s, S)) /\ Where(s, S) \in Seq(LinesOf(X))
<1> DEFINE S == {x \in LinesOf(X) : x.event = event}
           R == {x \in Log!ToSet(s) : x.event = event}
           Y == LinesOf(X)
<1>1. \A i \in 1..Len(s) : s[i] \in S <=> s[i] \in R
  BY DEF Log!ToSet
<1>2. Log!Times(s, event) = Len(Where(s, R))
  BY LogWhere DEF Log!Times
<1>3. s \in Seq(Y)
  OBVIOUS
<1> HIDE DEF R, S, Y
<1>4. Where(s, S) = Where(s, R)
  BY <1>1, <1>3, WhereSame
<1>5. Where(s, S) \in Seq(Y)
  BY <1>3, WhereTyped
<1> QED BY <1>2, <1>4, <1>5 DEF S, Y

LEMMA TimesJoined ==
    ASSUME NEW X, NEW s \in Seq(LinesOf(X)), NEW t \in Seq(LinesOf(X)), NEW event
    PROVE  /\ Log!Times(s, event) \in Nat
           /\ Log!Times(s \o t, event) = Log!Times(s, event) + Log!Times(t, event)
<1> DEFINE S == {x \in LinesOf(X) : x.event = event}
           Y == LinesOf(X)
<1>1. ASSUME NEW u \in Seq(Y) PROVE Log!Times(u, event) = Len(Where(u, S)) /\ Where(u, S) \in Seq(Y)
  BY TimesCounted
<1>2. s \o t \in Seq(Y) /\ s \in Seq(Y) /\ t \in Seq(Y)
  BY ConcatProperties
<1> HIDE DEF S, Y
<1>3. Where(s \o t, S) = Where(s, S) \o Where(t, S)
  BY <1>2, WhereJoined
<1>4. Len(Where(s, S) \o Where(t, S)) = Len(Where(s, S)) + Len(Where(t, S))
  BY <1>1, <1>2, ConcatProperties
<1>5. Len(Where(s, S)) \in Nat
  BY <1>1, <1>2
<1> QED BY <1>1, <1>2, <1>3, <1>4, <1>5

(* The events of an output are entries, each as often as it was told.      *)
LEMMA EntriesTell ==
    ASSUME NEW X, NEW output \in Seq(LinesOf(X))
    PROVE  /\ Log!Entries(output) \in Seq(LinesOf(X))
           /\ \A i \in 1..Len(Log!Entries(output)) : Log!Entries(output)[i].event \in Log!Events
           /\ \A e \in Log!Events : Log!Times(Log!Entries(output), e) = Log!Times(output, e)
<1> DEFINE Y == LinesOf(X)
           E == Log!Events
           S == {line \in Y : line.event \in E}
           R == {line \in Log!ToSet(output) : line.event \in E}
<1>1. \A i \in 1..Len(output) : output[i] \in S <=> output[i] \in R
  BY DEF Log!ToSet
<1>2. Log!Entries(output) = Where(output, R)
  BY LogWhere DEF Log!Entries
<1>3. Where(output, R) = Where(output, S)
  <2> HIDE DEF S, R
  <2> QED BY <1>1, WhereSame
<1>4. Where(output, S) \in Seq(Y \cap S)
  <2> HIDE DEF S
  <2> QED BY WhereTakes DEF TakesAll
<1>5. Where(output, S) \in Seq(Y)
  <2> HIDE DEF S
  <2> QED BY <1>4
<1>6. ASSUME NEW i \in 1..Len(Where(output, S)) PROVE Where(output, S)[i].event \in E
  <2>1. Where(output, S)[i] \in Y \cap S
    BY <1>4, ElementOfSeq
  <2> QED BY <2>1
<1>7. ASSUME NEW e \in E PROVE Log!Times(Where(output, S), e) = Log!Times(output, e)
  <2> DEFINE T == {x \in Y : x.event = e}
  <2>1. Log!Times(Where(output, S), e) = Len(Where(Where(output, S), T))
    BY <1>5, TimesCounted
  <2>2. Log!Times(output, e) = Len(Where(output, T))
    BY TimesCounted
  <2>3. S \cap T = T
    OBVIOUS
  <2>4. Where(Where(output, S), T) = Where(output, T)
    <3> HIDE DEF S, T
    <3> QED BY <2>3, WhereTwice
  <2> QED BY <2>1, <2>2, <2>4
<1> QED
  <2> HIDE DEF S, R
  <2> QED BY <1>2, <1>3, <1>5, <1>6, <1>7

(* An event that no entry has is told no time.                             *)
LEMMA NotTold ==
    ASSUME NEW X, NEW s \in Seq(LinesOf(X)), NEW e
    PROVE  Log!HasEvent(s, e) <=> Log!Times(s, e) # 0
<1> DEFINE Y == LinesOf(X)
           S == {x \in Y : x.event = e}
           w == Where(s, S)
<1>1. Log!Times(s, e) = Len(w)
  BY TimesCounted
<1>2. /\ w \in Seq(Y \cap S)
      /\ \A i \in 1..Len(s) : s[i] \in S => \E j \in 1..Len(w) : w[j] = s[i]
  <2> HIDE DEF S
  <2> QED BY WhereTakes DEF TakesAll
<1>3. ASSUME Log!HasEvent(s, e) PROVE Len(w) # 0
  <2>1. PICK i \in 1..Len(s) : s[i].event = e
    BY <1>3 DEF Log!HasEvent
  <2>2. s[i] \in S
    BY <2>1
  <2> HIDE DEF S, w
  <2> QED BY <1>2, <2>2
<1>4. ASSUME Len(w) # 0 PROVE Log!HasEvent(s, e)
  <2>1. w[1] \in S
    <3> HIDE DEF S, w
    <3> QED BY <1>2, <1>4
  <2>3. ASSUME \A i \in 1..Len(s) : s[i] \notin S PROVE FALSE
    <3>1. \A i \in 1..Len(s) : s[i] \in S <=> s[i] \in {}
      BY <2>3
    <3>2. w = Where(s, {})
      <4> HIDE DEF S
      <4> QED BY <3>1, WhereSame
    <3>3. Where(s, {}) \in Seq(Y \cap {})
      BY WhereTakes DEF TakesAll
    <3>4. Len(Where(s, {})) = 0
      <4>1. Len(Where(s, {})) \in Nat /\ \A j \in 1..Len(Where(s, {})) : Where(s, {})[j] \in {}
        <5> HIDE DEF Y
        <5> QED BY <3>3, ElementOfSeq, LenProperties
      <4> QED BY <4>1
    <3> QED BY <1>4, <3>2, <3>4
  <2>4. PICK i \in 1..Len(s) : s[i] \in S
    BY <2>3
  <2> QED BY <2>4 DEF Log!HasEvent
<1> QED BY <1>1, <1>3, <1>4

(* The version of an entry is one.                                         *)
LEMMA VersionTyped ==
    ASSUME NEW X, NEW s \in Seq(LinesOf(X)) PROVE Log!VersionOf(s) \in Versions
<1> DEFINE ns == {i \in 1..Len(s) : s[i].version # <<>>}
           num == IF ns # {} THEN Log!Min(ns) ELSE 0
<1>1. Log!VersionOf(s) = IF num = 0 THEN <<>> ELSE s[num].version
  BY DEF Log!VersionOf, Log!SelectInSeq
<1>2. ASSUME ns # {} PROVE Log!Min(ns) \in ns
  <2>1. ns \in SUBSET Nat
    OBVIOUS
  <2>2. \E k \in ns : \A m \in ns : k <= m
    <3> HIDE DEF ns
    <3> QED BY <1>2, <2>1, LeastNumber
  <2> QED BY <2>2 DEF Log!Min
<1>3. CASE num = 0
  BY <1>1, <1>3 DEF Versions
<1>4. CASE num # 0
  <2>1. num \in 1..Len(s)
    BY <1>2, <1>4
  <2>2. s[num] \in LinesOf(X)
    BY <2>1, ElementOfSeq
  <2> QED BY <1>1, <1>4, <2>2 DEF LinesOf
<1> QED BY <1>3, <1>4

(* What a run adds to its events is the one that is missing.               *)
LEMMA MissingLogged ==
    ASSUME NEW X, NEW s \in Seq(LinesOf(X)), NEW e \in X
    PROVE  /\ Log!LogsMissing(s, e) \in Seq(LinesOf(X))
           /\ \A i \in 1..Len(Log!LogsMissing(s, e)) : Log!LogsMissing(s, e)[i].event = e
           /\ Log!Times(s, e) + Log!Times(Log!LogsMissing(s, e), e) =
                 IF Log!Times(s, e) = 0 THEN 1 ELSE Log!Times(s, e)
           /\ \A d : d # e => Log!Times(Log!LogsMissing(s, e), d) = 0
<1> DEFINE entry == [event |-> e, version |-> Log!VersionOf(s)]
           Y == LinesOf(X)
           m == Log!LogsMissing(s, e)
<1>1. entry \in Y
  BY VersionTyped DEF LinesOf
<1>2. m = IF Log!HasEvent(s, e) THEN <<>> ELSE << entry >>
  BY DEF Log!LogsMissing
<1>3. Log!Times(s, e) \in Nat /\ (Log!HasEvent(s, e) <=> Log!Times(s, e) # 0)
  BY TimesJoined, NotTold
<1>4. entry.event = e
  OBVIOUS
<1>5. m \in Seq(Y) /\ \A i \in 1..Len(m) : m[i].event = e
  <2> HIDE DEF entry, Y, m
  <2> QED BY <1>1, <1>2, <1>4
<1>6. ASSUME NEW d PROVE Log!Times(m, d) = IF ~Log!HasEvent(s, e) /\ d = e THEN 1 ELSE 0
  <2> DEFINE S == {x \in Y : x.event = d}
  <2>1. Log!Times(m, d) = Len(Where(m, S))
    <3> HIDE DEF m
    <3> QED BY <1>5, TimesCounted
  <2>2. Where(<<>>, S) = <<>>
    BY WhereNothing
  <2>3. << entry >> = Append(<<>>, entry)
    OBVIOUS
  <2>4. Where(Append(<<>>, entry), S) =
           IF entry \in S THEN Append(<<>>, entry) ELSE <<>>
    <3> HIDE DEF entry, S, Y, m
    <3>1. ASSUME NEW u \in Seq(Y), NEW x \in Y
          PROVE  Where(Append(u, x), S) = IF x \in S THEN Append(Where(u, S), x) ELSE Where(u, S)
      BY WhereNext
    <3>2. <<>> \in Seq(Y)
      OBVIOUS
    <3> QED BY <1>1, <2>2, <3>1, <3>2
  <2>5. entry \in S <=> d = e
    BY <1>1
  <2>6. Len(<<>>) = 0 /\ Len(Append(<<>>, entry)) = 1
    <3> HIDE DEF entry
    <3> QED OBVIOUS
  <2> HIDE DEF entry, S, Y, m
  <2> QED BY <1>2, <2>1, <2>2, <2>3, <2>4, <2>5, <2>6
<1> HIDE DEF entry, Y, m
<1> QED BY <1>3, <1>5, <1>6 DEF Y, m

(* What a run of the script leaves in the log.                             *)
LEMMA RunTells ==
    ASSUME NEW X, Log!Events \subseteq X, NEW output \in Seq(LinesOf(X)), NEW exit \in Int
    PROVE  LET run == Log!RunLog(output, exit)
           IN /\ run \in Seq(LinesOf(X))
              /\ \A i \in 1..Len(run) : run[i].event \in Log!Events
              /\ ~Log!Twice(output) =>
                   /\ exit = 42 => /\ Log!Times(run, "detected") = 1
                                   /\ Log!Times(run, "completed") = 1
                   /\ exit \notin {0, 42} => Log!Times(run, "failed") = 1
<1> DEFINE Y == LinesOf(X)
           old == Log!Entries(output)
           E == Log!Events
           run == Log!RunLog(output, exit)
<1>1. /\ old \in Seq(Y)
      /\ \A i \in 1..Len(old) : old[i].event \in E
      /\ \A e \in E : Log!Times(old, e) = Log!Times(output, e)
  BY EntriesTell
<1>2. /\ "detected" \in X /\ "completed" \in X /\ "failed" \in X
      /\ "detected" \in E /\ "completed" \in E /\ "failed" \in E
  BY DEF Log!Events
<1>3. \A e : Log!Times(output, e) \in Nat
  BY TimesJoined
<1>4. ~Log!Twice(output) => \A e \in E : Log!Times(old, e) \in {0, 1}
  <2> SUFFICES ASSUME ~Log!Twice(output), NEW e \in E PROVE Log!Times(old, e) \in {0, 1}
    OBVIOUS
  <2>1. ~(Log!Times(output, e) > 1)
    BY DEF Log!Twice
  <2> HIDE DEF E, old
  <2> QED BY <1>1, <1>3, <2>1
<1> HIDE DEF old, E, Y
<1>0. ASSUME NEW u \in Seq(Y), NEW v \in Seq(Y), NEW e
      PROVE  /\ Log!Times(u, e) \in Nat
             /\ Log!Times(u \o v, e) = Log!Times(u, e) + Log!Times(v, e)
  BY TimesJoined DEF Y
<1>8. ASSUME NEW e \in X
      PROVE  /\ Log!LogsMissing(old, e) \in Seq(Y)
             /\ \A i \in 1..Len(Log!LogsMissing(old, e)) : Log!LogsMissing(old, e)[i].event = e
             /\ Log!Times(old, e) + Log!Times(Log!LogsMissing(old, e), e) =
                   IF Log!Times(old, e) = 0 THEN 1 ELSE Log!Times(old, e)
             /\ \A d : d # e => Log!Times(Log!LogsMissing(old, e), d) = 0
  BY <1>1, MissingLogged DEF Y
<1>5. CASE exit = 0
  <2>1. run = old \o <<>>
    BY <1>5 DEF Log!RunLog, old
  <2>2. run = old
    BY <1>1, <2>1
  <2> QED BY <1>1, <1>5, <2>2 DEF run, E, Y
<1>6. CASE exit = 42
  <2> DEFINE d == Log!LogsMissing(old, "detected")
             c == Log!LogsMissing(old, "completed")
  <2>1. run = old \o (d \o c)
    BY <1>6 DEF Log!RunLog, old
  <2>2. /\ d \in Seq(Y) /\ c \in Seq(Y)
        /\ \A i \in 1..Len(d) : d[i].event = "detected"
        /\ \A i \in 1..Len(c) : c[i].event = "completed"
        /\ Log!Times(old, "detected") + Log!Times(d, "detected") =
              IF Log!Times(old, "detected") = 0 THEN 1 ELSE Log!Times(old, "detected")
        /\ Log!Times(old, "completed") + Log!Times(c, "completed") =
              IF Log!Times(old, "completed") = 0 THEN 1 ELSE Log!Times(old, "completed")
        /\ Log!Times(d, "completed") = 0 /\ Log!Times(c, "detected") = 0
    BY <1>2, <1>8
  <2> HIDE DEF d, c, run
  <2>3. d \o c \in Seq(Y) /\ run \in Seq(Y)
    BY <1>1, <2>1, <2>2, ConcatProperties
  <2>4. \A e : /\ Log!Times(d \o c, e) = Log!Times(d, e) + Log!Times(c, e)
               /\ Log!Times(run, e) = Log!Times(old, e) + Log!Times(d \o c, e)
               /\ Log!Times(d, e) \in Nat /\ Log!Times(c, e) \in Nat /\ Log!Times(old, e) \in Nat
    BY <1>0, <1>1, <2>1, <2>2, <2>3
  <2>5. ASSUME NEW i \in 1..Len(run) PROVE run[i].event \in E
    <3>1. Len(run) = Len(old) + (Len(d) + Len(c)) /\ Len(old) \in Nat /\ Len(d) \in Nat /\ Len(c) \in Nat
      BY <1>1, <2>1, <2>2, <2>3, ConcatProperties
    <3>2. CASE i <= Len(old)
      BY <1>1, <2>1, <2>2, <2>3, <3>1, <3>2, ConcatProperties
    <3>3. CASE i > Len(old) /\ i <= Len(old) + Len(d)
      <4>1. run[i] = d[i - Len(old)] /\ i - Len(old) \in 1..Len(d)
        BY <1>1, <2>1, <2>2, <2>3, <3>1, <3>3, ConcatProperties
      <4> QED BY <1>2, <2>2, <4>1
    <3>4. CASE i > Len(old) + Len(d)
      <4> DEFINE j == i - Len(old) - Len(d)
      <4>1. run[i] = (d \o c)[i - Len(old)] /\ i - Len(old) \in 1..Len(d \o c)
        BY <1>1, <2>1, <2>2, <2>3, <3>1, <3>4, ConcatProperties
      <4>2. (d \o c)[i - Len(old)] = c[j] /\ j \in 1..Len(c)
        BY <2>2, <3>1, <3>4, ConcatProperties
      <4> QED BY <1>2, <2>2, <4>1, <4>2
    <3> QED BY <3>1, <3>2, <3>3, <3>4
  <2>6. ~Log!Twice(output) => Log!Times(run, "detected") = 1 /\ Log!Times(run, "completed") = 1
    BY <1>2, <1>4, <2>2, <2>4
  <2> QED BY <1>6, <2>3, <2>5, <2>6 DEF run, E, Y
<1>7. CASE exit \notin {0, 42}
  <2> DEFINE f == Log!LogsMissing(old, "failed")
  <2>1. run = old \o f
    BY <1>7 DEF Log!RunLog, old
  <2>2. /\ f \in Seq(Y)
        /\ \A i \in 1..Len(f) : f[i].event = "failed"
        /\ Log!Times(old, "failed") + Log!Times(f, "failed") =
              IF Log!Times(old, "failed") = 0 THEN 1 ELSE Log!Times(old, "failed")
    BY <1>2, <1>8
  <2> HIDE DEF f, run
  <2>3. run \in Seq(Y)
    BY <1>1, <2>1, <2>2, ConcatProperties
  <2>4. Log!Times(run, "failed") = Log!Times(old, "failed") + Log!Times(f, "failed")
    BY <1>0, <1>1, <2>1, <2>2
  <2>5. ASSUME NEW i \in 1..Len(run) PROVE run[i].event \in E
    <3>1. Len(run) = Len(old) + Len(f) /\ Len(old) \in Nat /\ Len(f) \in Nat
      BY <1>1, <2>1, <2>2, ConcatProperties
    <3>2. CASE i <= Len(old)
      BY <1>1, <2>1, <2>2, <3>1, <3>2, ConcatProperties
    <3>3. CASE i > Len(old)
      <4>1. run[i] = f[i - Len(old)] /\ i - Len(old) \in 1..Len(f)
        BY <1>1, <2>1, <2>2, <3>1, <3>3, ConcatProperties
      <4> QED BY <1>2, <2>2, <4>1
    <3> QED BY <3>1, <3>2, <3>3
  <2>6. ~Log!Twice(output) => Log!Times(run, "failed") = 1
    BY <1>2, <1>4, <2>2, <2>4
  <2> QED BY <1>7, <2>3, <2>5, <2>6 DEF run, E, Y
<1> QED BY <1>5, <1>6, <1>7 DEF run

(* The page shows the entries of the log that can be read, the newest      *)
(* first, so those of a run before those of the runs before it.            *)
LEMMA RunOnTop ==
    ASSUME NEW X, NEW before \in Seq(LinesOf(X)), NEW run \in Seq(LinesOf(X)), Limit \in Nat,
           \A i \in 1..Len(run) : run[i].event \in Log!Events
    PROVE  LET page == Log!Shown(before \o run)
           IN /\ Len(run) > 0 /\ Limit > 0 => page[1] = run[Len(run)]
              /\ \A i \in DOMAIN page : i > Len(run) \/ page[i] = run[Len(run) + 1 - i]
<1> DEFINE Y == LinesOf(X)
           log == before \o run
           S == {x \in Y : x.event \in Log!Events}
           R == {e \in Log!ToSet(log) : e.event \in Log!Events}
           older == Where(before, S)
           good == Where(log, S)
           shown == IF Len(good) < Limit THEN Len(good) ELSE Limit
           back == [i \in 1..Len(good) |-> good[(Len(good) - i) + 1]]
           page == SubSeq(back, 1, shown)
<1>1. log \in Seq(Y) /\ before \in Seq(Y) /\ run \in Seq(Y)
  BY ConcatProperties
<1>2. Where(log, R) = good
  <2>1. \A i \in 1..Len(log) : log[i] \in S <=> log[i] \in R
    <3> HIDE DEF log, Y
    <3> QED BY <1>1, ElementOfSeq DEF Log!ToSet
  <2> HIDE DEF S, R, log, Y
  <2> QED BY <1>1, <2>1, WhereSame
<1>3. good = older \o run
  <2>1. \A i \in 1..Len(run) : run[i] \in S
    BY ElementOfSeq
  <2> HIDE DEF S, R, Y
  <2>2. Where(run, S) = run
    BY <1>1, <2>1, WhereTakes DEF TakesAll
  <2>3. Where(before \o run, S) = Where(before, S) \o Where(run, S)
    BY <1>1, WhereJoined
  <2> QED BY <2>2, <2>3
<1>4. older \in Seq(Y)
  <2>1. ASSUME NEW s \in Seq(Y), NEW Q PROVE Where(s, Q) \in Seq(Y)
    <3> HIDE DEF S, R, Y
    <3>1. TakesAll(Where(s, Q), s, Y, Q)
      BY WhereTakes
    <3> QED BY <3>1 DEF TakesAll
  <2> HIDE DEF S, R, Y
  <2> QED BY <1>1, <2>1
<1>5. Log!Shown(log) = page
  <2> HIDE DEF log
  <2> QED BY <1>2, LogWhere DEF Log!Shown, Log!Reverse
<1> DEFINE num == Len(older)
           m == Len(run)
<1>6. /\ Len(good) = num + m /\ num \in Nat /\ m \in Nat
      /\ \A i \in 1..m : good[num + i] = run[i]
  <2> HIDE DEF S
  <2>1. \A i \in 1..m : num + i \in num + 1..num + m /\ num + i - num = i
    BY <1>4
  <2> HIDE DEF older, good, Y, R
  <2> QED BY <1>1, <1>3, <1>4, <2>1, ConcatProperties
<1>7. shown \in 0..Len(good) /\ (m > 0 /\ Limit > 0 => shown > 0)
  <2> HIDE DEF good, num, m
  <2> QED BY <1>6
<1> HIDE DEF good, older, num, m, S, R, log, shown
<1>8. \A i \in 1..m : i <= num + m => back[i] = run[m + 1 - i]
  <2> SUFFICES ASSUME NEW i \in 1..m PROVE back[i] = run[m + 1 - i]
    OBVIOUS
  <2>1. ASSUME NEW a \in Nat, NEW b \in Nat, NEW k \in 1..b
        PROVE  k \in 1..a + b /\ ((a + b) - k) + 1 = a + (b + 1 - k) /\ b + 1 - k \in 1..b
    OBVIOUS
  <2>2. i \in 1..Len(good) /\ (Len(good) - i) + 1 = num + (m + 1 - i) /\ m + 1 - i \in 1..m
    BY <1>6, <2>1
  <2>3. good[num + (m + 1 - i)] = run[m + 1 - i]
    BY <1>6, <2>2
  <2> QED BY <2>2, <2>3
<1>9. /\ DOMAIN page = 1..shown
      /\ \A i \in 1..shown : page[i] = back[i]
  <2>1. \A i \in 1..shown : i \in 1..Len(good)
    BY <1>6, <1>7
  <2> DEFINE B == {back[j] : j \in 1..Len(good)}
  <2>2. \A i \in 1..shown : back[i] \in B
    BY <2>1
  <2> HIDE DEF back, B
  <2>0. shown \in Int /\ 1 \in Int
    BY <1>6, <1>7
  <2>3. /\ SubSeq(back, 1, shown) \in Seq(B)
        /\ Len(SubSeq(back, 1, shown)) = IF 1 <= shown THEN shown - 1 + 1 ELSE 0
        /\ \A i \in 1..shown - 1 + 1 : SubSeq(back, 1, shown)[i] = back[1 + i - 1]
    <3> HIDE DEF Y
    <3> QED BY <2>0, <2>2, SubSeqProperties
  <2>4. page = SubSeq(back, 1, shown)
    OBVIOUS
  <2> HIDE DEF page
  <2>5. DOMAIN page = 1..Len(page) /\ Len(page) = shown
    BY <1>6, <1>7, <2>3, <2>4, LenProperties
  <2>6. shown - 1 + 1 = shown /\ \A i \in 1..shown : 1 + i - 1 = i
    BY <2>0
  <2> QED BY <2>3, <2>4, <2>5, <2>6
<1> HIDE DEF back, page
<1>10. ASSUME NEW i \in DOMAIN page PROVE i > m \/ page[i] = run[m + 1 - i]
  <2>0. i \in 1..shown
    BY <1>9
  <2>1. i \in 1..shown /\ i \in Nat /\ i >= 1 /\ i <= num + m
    BY <1>6, <1>7, <2>0
  <2>2. page[i] = back[i]
    BY <1>9, <2>1
  <2>3. i > m \/ i \in 1..m
    BY <1>6, <2>1
  <2> QED BY <1>8, <2>1, <2>2, <2>3
<1>11. ASSUME m > 0, Limit > 0 PROVE page[1] = run[m]
  <2>1. 1 \in 1..shown /\ 1 \in 1..m /\ 1 <= num + m /\ m + 1 - 1 = m
    BY <1>6, <1>7, <1>11
  <2> QED BY <1>8, <1>9, <2>1
<1> QED BY <1>5, <1>10, <1>11 DEF log, m

(* UpdatesTold holds for any program version, any answers of GitHub, any   *)
(* log and any output of the script.                                       *)
THEOREM EveryUpdateTold ==
    ASSUME App \in Versions, Limit \in Nat, NEW X, Log!Events \subseteq X,
           input \in {"update"} \X UpdateInputs(X)
    PROVE  UpdatesTold
<1> DEFINE r == input[2]
           run == Log!RunLog(r.output, r.exit)
           latest == Log!Latest(r.token, r.answer, r.anonymous)
<1>1. /\ r.before \in Seq(LinesOf(X)) /\ r.output \in Seq(LinesOf(X)) /\ r.exit \in Int
      /\ r.answer \in [status : Int, tag : Versions]
      /\ r.anonymous \in [status : Int, tag : Versions]
  BY DEF UpdateInputs
<1>2. latest \in Versions
  BY <1>1 DEF Log!Latest, Versions
<1>3. Log!Offered(latest) => Log!Accepted(latest)
  <2> HIDE DEF latest
  <2> SUFFICES ASSUME Log!Offered(latest) PROVE Log!Accepted(latest)
    OBVIOUS
  <2>1. Len(latest) = 3 /\ Len(App) = 3 /\ Log!Newer(latest, App)
    BY DEF Log!Offered, Log!Comparable, Log!IsVersion
  <2>2. latest # App /\ ~Log!Newer(App, latest)
    BY <1>2, <2>1, NewerOne
  <2> QED BY <2>1, <2>2 DEF Log!Accepted, Log!Comparable, Log!IsVersion
<1>4. r.answer.status = 401 /\ Log!Good(r.anonymous) /\ r.token => latest = r.anonymous.tag
  BY DEF Log!Latest, Log!Good, Log!AsksAgain
<1>5. /\ run \in Seq(LinesOf(X))
      /\ \A i \in 1..Len(run) : run[i].event \in Log!Events
      /\ ~Log!Twice(r.output) =>
           /\ r.exit = 42 => Log!Times(run, "detected") = 1 /\ Log!Times(run, "completed") = 1
           /\ r.exit \notin {0, 42} => Log!Times(run, "failed") = 1
  <2> HIDE DEF r
  <2> QED BY <1>1, RunTells
<1>6. LET page == Log!Shown(r.before \o run)
      IN /\ Len(run) > 0 /\ Limit > 0 => page[1] = run[Len(run)]
         /\ \A i \in DOMAIN page : i > Len(run) \/ page[i] = run[Len(run) + 1 - i]
  <2> HIDE DEF r, run
  <2> QED BY <1>1, <1>5, RunOnTop
<1> HIDE DEF r, run, latest
<1>7. Log!UpdatesTold(r.token, r.answer, r.anonymous, r.before, r.output, r.exit)
  BY <1>3, <1>4, <1>5, <1>6 DEF Log!UpdatesTold, run, latest
<1> QED BY <1>7 DEF UpdatesTold, r
-----------------------------------------------------------------------------
(* What was installed is what the marketplace offered: module Marketplace, *)
(* for any sources, releases and answers.                                  *)

(* Answers of the three requests, with names, lists and digests of X.      *)
MarketItems(X) ==
    [id : X, tags : Seq(X), themes : Seq(X), plugins : Seq(X), repo : X,
     release : Versions, min : Versions]
Answers(X) == {Failed} \cup [items : Seq(MarketItems(X))]
ArchivesOf(X) == {Failed} \cup [digest : X, type : X, id : X, repo : X, version : Versions]
SumFiles(X)   == {Failed} \cup Seq([name : X, digest : X])

(* The first index at which a sequence passes a test, or 0.                *)
LEMMA FirstFound ==
    ASSUME NEW num \in Nat, NEW I \in SUBSET (1..num)
    PROVE  I # {} => Market!Min(I) \in I
<1>1. ASSUME I # {} PROVE \E x \in I : \A y \in I : x =< y
  <2>1. I \in SUBSET Nat
    OBVIOUS
  <2> QED BY <1>1, <2>1, LeastNumber
<1>2. Market!Min(I) = CHOOSE x \in I : \A y \in I : x =< y
  BY DEF Market!Min
<1> QED
  BY <1>1, <1>2

(* The lists of module Marketplace are those of the lemmas.                *)
LEMMA MarketWhere == \A s, S : Market!Where(s, S) = Where(s, S)
BY DEF Market!Where, Where

(* normalizePackMembers: those without a name go.                          *)
Members(s) == Where(s, Market!ToSet(s) \ {""})

LEMMA MembersKept ==
    ASSUME NEW X, NEW s \in Seq(X)
    PROVE  /\ Members(s) \in Seq(X)
           /\ \A i \in 1..Len(Members(s)) : Members(s)[i] # ""
           /\ (\A i \in 1..Len(s) : s[i] # "") => Members(s) = s
<1> DEFINE S == Market!ToSet(s) \ {""}
<1>0. DOMAIN s = 1..Len(s)
  OBVIOUS
<1>1. \A i \in 1..Len(s) : s[i] # "" => s[i] \in S
  BY <1>0 DEF Market!ToSet
<1>2. "" \notin S
  OBVIOUS
<1>3. Members(s) = Where(s, S)
  BY DEF Members
<1> HIDE DEF S
<1>4. \A i \in 1..Len(Where(s, S)) : Where(s, S)[i] \in S
  BY WhereFrom
<1>5. Where(s, S) \in Seq(X) /\ ((\A i \in 1..Len(s) : s[i] \in S) => Where(s, S) = s)
  BY WhereTyped, WhereTakes DEF TakesAll
<1> QED BY <1>1, <1>2, <1>3, <1>4, <1>5

(* normalizePackItem changes tags, themes and plugins of an item.          *)
LEMMA ItemKept ==
    ASSUME NEW X, NEW item \in MarketItems(X)
    PROVE  LET normal == Market!NormalItem(item)
           IN /\ normal.id = item.id /\ normal.release = item.release
              /\ normal.themes = Members(item.themes)
              /\ normal.plugins = Members(item.plugins)
              /\ normal.tags = Market!WithPlugin(
                                  Market!WithTheme(Market!Distinct(item.tags), normal), normal)
              /\ normal = [item EXCEPT !.themes = normal.themes, !.plugins = normal.plugins,
                                       !.tags = normal.tags]
<1> DEFINE themes  == Members(item.themes)
           plugins == Members(item.plugins)
           given == [item EXCEPT !.themes = themes, !.plugins = plugins]
           tags == Market!Tags(given)
           normal == Market!NormalItem(item)
<1>1. item = [id |-> item.id, tags |-> item.tags, themes |-> item.themes,
              plugins |-> item.plugins, repo |-> item.repo, release |-> item.release,
              min |-> item.min]
  BY DEF MarketItems
<1>2. normal = [given EXCEPT !.tags = tags]
  BY MarketWhere DEF Market!NormalItem, Market!Tagged, Members
<1> HIDE DEF themes, plugins, tags, normal
<1>3. normal = [id |-> item.id, tags |-> tags, themes |-> themes,
                plugins |-> plugins, repo |-> item.repo, release |-> item.release,
                min |-> item.min]
  BY <1>1, <1>2
<1>4. given.tags = item.tags /\ given.themes = themes /\ given.plugins = plugins
  BY <1>1
<1>5. /\ normal.themes = themes /\ normal.plugins = plugins /\ normal.tags = tags
      /\ normal.id = item.id /\ normal.release = item.release
  BY <1>3
<1>6. tags = Market!WithPlugin(Market!WithTheme(Market!Distinct(item.tags), normal), normal)
  <2> HIDE DEF given
  <2> QED BY <1>4, <1>5 DEF tags, Market!Tags, Market!WithTheme, Market!WithPlugin
<1>7. normal = [item EXCEPT !.themes = themes, !.plugins = plugins, !.tags = tags]
  <2>1. [given EXCEPT !.tags = tags] =
           [item EXCEPT !.themes = themes, !.plugins = plugins, !.tags = tags]
    OBVIOUS
  <2> QED BY <1>2, <2>1
<1> QED
  BY <1>5, <1>6, <1>7 DEF themes, plugins, normal

(* The tags without blank ones and repetitions.                            *)
LEMMA DistinctTags ==
    ASSUME NEW X, NEW s \in Seq(X)
    PROVE  LET d == Market!Distinct(s)
           IN /\ d \in Seq(X) /\ Unlike(d)
              /\ \A i \in 1..Len(d) : d[i] # ""
              /\ Unlike(s) /\ (\A i \in 1..Len(s) : s[i] # "") => d = s
<1> DEFINE N == 1..Len(s)
           S == {i \in N : s[i] # "" /\ \A j \in 1..i - 1 : s[j] # s[i]}
           all == [i \in N |-> i]
           first == Where(all, S)
           d == [i \in DOMAIN first |-> s[first[i]]]
<1>1. DOMAIN s = N /\ Len(s) \in Nat /\ \A i \in N : s[i] \in X
  OBVIOUS
<1>2. Market!Distinct(s) = d
  BY <1>1, MarketWhere DEF Market!Distinct
<1>3. all \in Seq(N) /\ Len(all) = Len(s)
  <2> HIDE DEF N
  <2>1. all \in [1..Len(s) -> N]
    BY DEF N
  <2> HIDE DEF all
  <2> QED BY <1>1, <2>1, SeqDef, LenProperties
<1>4. Unlike(all)
  <2>1. \A i \in N : all[i] = i
    OBVIOUS
  <2> HIDE DEF all
  <2> QED BY <1>3, <2>1 DEF Unlike, N
<1> HIDE DEF S, all
<1>5. first \in Seq(N) /\ Unlike(first) /\ \A j \in 1..Len(first) : first[j] \in S
  <2> HIDE DEF N
  <2> QED BY <1>3, <1>4, WhereTyped, WhereUnlike, WhereFrom
<1>6. (\A i \in N : i \in S) => first = all
  <2>1. TakesAll(first, all, N, S)
    <3> HIDE DEF N
    <3> QED BY <1>3, WhereTakes
  <2>2. \A i \in N : all[i] = i
    BY DEF all
  <2> QED BY <1>3, <2>1, <2>2 DEF TakesAll
<1> HIDE DEF first
<1>7. DOMAIN first = 1..Len(first) /\ Len(first) \in Nat
      /\ \A j \in 1..Len(first) : first[j] \in N /\ s[first[j]] \in X
  <2> HIDE DEF N
  <2> QED BY <1>1, <1>5, ElementOfSeq, LenProperties
<1>8. d \in Seq(X) /\ Len(d) = Len(first) /\ \A i \in 1..Len(first) : d[i] = s[first[i]]
  <2>1. d \in [1..Len(first) -> X] /\ \A i \in 1..Len(first) : d[i] = s[first[i]]
    BY <1>7
  <2> HIDE DEF d
  <2> QED BY <1>7, <2>1, SeqDef, LenProperties
<1>9. \A i \in 1..Len(d) : d[i] # ""
  <2> HIDE DEF d
  <2> QED BY <1>5, <1>8 DEF S
<1>10. Unlike(d)
  <2> HIDE DEF d
  <2> SUFFICES ASSUME NEW i \in 1..Len(d), NEW j \in 1..Len(d), d[i] = d[j] PROVE i = j
    BY DEF Unlike
  <2>1. /\ first[i] \in 1..Len(s) /\ first[j] \in 1..Len(s)
        /\ \A k \in 1..first[i] - 1 : s[k] # s[first[i]]
        /\ \A k \in 1..first[j] - 1 : s[k] # s[first[j]]
    BY <1>5, <1>7, <1>8 DEF S
  <2>2. s[first[i]] = s[first[j]]
    BY <1>8
  <2>3. ~(first[i] < first[j]) /\ ~(first[j] < first[i])
    BY <1>1, <2>1, <2>2
  <2>4. first[i] = first[j]
    BY <1>1, <2>1, <2>3
  <2> QED BY <1>5, <1>8, <2>4 DEF Unlike
<1>11. ASSUME Unlike(s), \A i \in 1..Len(s) : s[i] # "" PROVE d = s
  <2>1. \A i \in N : i \in S
    <3> SUFFICES ASSUME NEW i \in N, NEW j \in 1..i - 1 PROVE s[j] # s[i]
      BY <1>11 DEF S
    <3>1. j \in 1..Len(s) /\ j # i
      BY <1>1
    <3> QED BY <1>11, <3>1 DEF Unlike
  <2>2. first = all
    BY <1>6, <2>1
  <2>3. Len(first) = Len(s) /\ \A i \in N : first[i] = i
    BY <1>3, <2>2 DEF all
  <2>4. \A i \in 1..Len(s) : d[i] = s[i]
    <3> HIDE DEF d
    <3> SUFFICES ASSUME NEW i \in 1..Len(s) PROVE d[i] = s[i]
      OBVIOUS
    <3>1. first[i] = i /\ i \in 1..Len(first)
      BY <2>3
    <3>2. \A j \in 1..Len(first) : d[j] = s[first[j]]
      BY <1>8, Zenon
    <3>3. d[i] = s[first[i]]
      BY <3>1, <3>2, Zenon
    <3> QED BY <3>1, <3>3, Zenon
  <2>5. Len(d) = Len(s)
    BY <1>8, <2>3
  <2> HIDE DEF d, N
  <2> QED BY <1>8, <2>4, <2>5, SeqEqual
<1> HIDE DEF d
<1> QED BY <1>2, <1>8, <1>9, <1>10, <1>11

(* A tag more, at the beginning or behind the first one.                   *)
WithTag(t, s, k, x) ==
    /\ Len(t) = Len(s) + 1 /\ t[k] = x
    /\ \A i \in 1..Len(s) : IF i < k THEN t[i] = s[i] ELSE t[i + 1] = s[i]

LEMMA OneMore ==
    ASSUME NEW X, NEW s \in Seq(X), NEW t \in Seq(X), NEW x, NEW k \in 1..Len(s) + 1,
           WithTag(t, s, k, x), Unlike(s), \A i \in 1..Len(s) : s[i] # x
    PROVE  Unlike(t) /\ Market!ToSet(t) = Market!ToSet(s) \cup {x}
<1>0. Len(s) \in Nat /\ Len(t) = Len(s) + 1 /\ DOMAIN s = 1..Len(s) /\ DOMAIN t = 1..Len(t)
  BY DEF WithTag
<1> DEFINE Old(i) == IF i < k THEN i ELSE i - 1
<1>1. ASSUME NEW i \in 1..Len(t), i # k
      PROVE  Old(i) \in 1..Len(s) /\ t[i] = s[Old(i)]
  <2>1. CASE i < k
    <3>1. i \in 1..Len(s)
      BY <1>0, <2>1
    <3> QED BY <2>1, <3>1 DEF WithTag
  <2>2. CASE i > k
    <3>1. i - 1 \in 1..Len(s) /\ ~(i - 1 < k) /\ (i - 1) + 1 = i /\ ~(i < k)
      BY <1>0, <2>2
    <3> QED BY <3>1 DEF WithTag
  <2> QED BY <1>0, <1>1, <2>1, <2>2
<1>2. ASSUME NEW i \in 1..Len(t), NEW j \in 1..Len(t), i # k, j # k, Old(i) = Old(j)
      PROVE  i = j
  BY <1>0, <1>2
<1>3. t[k] = x /\ k \in 1..Len(t)
  BY <1>0 DEF WithTag
<1> HIDE DEF Old
<1>4. Unlike(t)
  <2> SUFFICES ASSUME NEW i \in 1..Len(t), NEW j \in 1..Len(t), t[i] = t[j] PROVE i = j
    BY DEF Unlike
  <2>1. CASE i # k /\ j # k
    BY <1>1, <1>2, <2>1 DEF Unlike
  <2>2. CASE i = k /\ j # k
    BY <1>1, <1>3, <2>2
  <2>3. CASE i # k /\ j = k
    BY <1>1, <1>3, <2>3
  <2> QED BY <2>1, <2>2, <2>3
<1>5. ASSUME NEW y \in Market!ToSet(t) PROVE y \in Market!ToSet(s) \cup {x}
  BY <1>0, <1>1, <1>3 DEF Market!ToSet
<1>6. ASSUME NEW i \in 1..Len(s) PROVE s[i] \in Market!ToSet(t)
  <2>1. i \in 1..Len(t) /\ i + 1 \in 1..Len(t)
    BY <1>0
  <2>2. t[i] = s[i] \/ t[i + 1] = s[i]
    BY DEF WithTag
  <2> QED BY <1>0, <2>1, <2>2 DEF Market!ToSet
<1>7. x \in Market!ToSet(t)
  BY <1>0, <1>3 DEF Market!ToSet
<1> QED BY <1>0, <1>4, <1>5, <1>6, <1>7 DEF Market!ToSet

LEMMA InFront ==
    ASSUME NEW X, NEW s \in Seq(X), NEW x \in X
    PROVE  << x >> \o s \in Seq(X) /\ WithTag(<< x >> \o s, s, 1, x) /\ 1 \in 1..Len(s) + 1
<1>1. /\ << x >> \in Seq(X) /\ Len(<< x >>) = 1 /\ << x >>[1] = x /\ Len(s) \in Nat
  OBVIOUS
<1>2. /\ << x >> \o s \in Seq(X) /\ Len(<< x >> \o s) = 1 + Len(s)
      /\ (<< x >> \o s)[1] = << x >>[1]
      /\ \A i \in 1..Len(s) : (<< x >> \o s)[i + 1] = s[i]
  OBVIOUS
<1> DEFINE t == << x >> \o s
<1> HIDE DEF t
<1>3. Len(t) = Len(s) + 1 /\ t[1] = x /\ t \in Seq(X) /\ \A i \in 1..Len(s) : t[i + 1] = s[i]
  BY <1>1, <1>2 DEF t
<1>4. WithTag(t, s, 1, x)
  BY <1>1, <1>3 DEF WithTag
<1> QED BY <1>1, <1>3, <1>4 DEF t

LEMMA SecondPlace ==
    ASSUME NEW X, NEW s \in Seq(X), NEW x \in X, s # <<>>
    PROVE  LET t == <<s[1], x>> \o Tail(s)
           IN t \in Seq(X) /\ WithTag(t, s, 2, x) /\ 2 \in 1..Len(s) + 1
<1> DEFINE r == Tail(s)
           a == <<s[1], x>>
           t == a \o r
<1>1. /\ Len(s) \in Nat /\ Len(s) >= 1 /\ s[1] \in X
      /\ r \in Seq(X) /\ Len(r) = Len(s) - 1
      /\ \A i \in 1..Len(r) : r[i] = s[i + 1]
  OBVIOUS
<1>2. a \in Seq(X) /\ Len(a) = 2 /\ a[1] = s[1] /\ a[2] = x
  BY <1>1
<1> HIDE DEF a, r
<1>3. /\ t \in Seq(X) /\ Len(t) = Len(s) + 1
      /\ t[1] = a[1] /\ t[2] = a[2]
      /\ \A i \in 1..Len(r) : t[i + 2] = r[i]
  <2>1. /\ t \in Seq(X) /\ Len(t) = Len(a) + Len(r)
        /\ \A i \in 1..Len(a) : t[i] = a[i]
        /\ \A i \in Len(a) + 1..Len(a) + Len(r) : t[i] = r[i - Len(a)]
    <3>1. ASSUME NEW p \in Seq(X), NEW q \in Seq(X)
          PROVE  /\ p \o q \in Seq(X) /\ Len(p \o q) = Len(p) + Len(q)
                 /\ \A i \in 1..Len(p) : (p \o q)[i] = p[i]
                 /\ \A i \in Len(p) + 1..Len(p) + Len(q) : (p \o q)[i] = q[i - Len(p)]
      BY ConcatProperties
    <3> QED BY <1>1, <1>2, <3>1
  <2>2. \A i \in 1..Len(r) : i + 2 \in Len(a) + 1..Len(a) + Len(r) /\ (i + 2) - Len(a) = i
    BY <1>1, <1>2
  <2> HIDE DEF t
  <2> QED BY <1>1, <1>2, <2>1, <2>2
<1> HIDE DEF t
<1>4. ASSUME NEW i \in 1..Len(s) PROVE IF i < 2 THEN t[i] = s[i] ELSE t[i + 1] = s[i]
  <2>1. CASE i = 1
    BY <1>2, <1>3, <2>1
  <2>2. CASE i >= 2
    <3>1. i - 1 \in 1..Len(r) /\ (i - 1) + 2 = i + 1 /\ (i - 1) + 1 = i
      BY <1>1, <2>2
    <3>2. t[i + 1] = r[i - 1] /\ r[i - 1] = s[i]
      BY <1>1, <1>3, <3>1
    <3> QED BY <2>2, <3>2
  <2> QED BY <1>1, <2>1, <2>2
<1>5. WithTag(t, s, 2, x)
  BY <1>2, <1>3, <1>4 DEF WithTag
<1> QED BY <1>1, <1>3, <1>5 DEF t, a, r

(* The tags of a normal item: those it had, and what it contains.          *)
LEMMA TagsFit ==
    ASSUME NEW X, "theme" \in X, "plugin" \in X, NEW tags \in Seq(X), Unlike(tags), NEW item,
           Len(item.themes) \in Nat, Len(item.plugins) \in Nat
    PROVE  LET t == Market!WithPlugin(Market!WithTheme(tags, item), item)
           IN /\ t \in Seq(X) /\ Unlike(t)
              /\ Len(item.themes) > 0 => "theme" \in Market!ToSet(t)
              /\ Len(item.plugins) > 0 => "plugin" \in Market!ToSet(t)
              /\ Market!ToSet(t) \subseteq Market!ToSet(tags) \cup {"theme", "plugin"}
<1> DEFINE u == Market!WithTheme(tags, item)
           t == Market!WithPlugin(u, item)
<1>0. \A s \in Seq(X) : Market!ToSet(s) = {s[i] : i \in 1..Len(s)}
  BY DEF Market!ToSet
<1>1. /\ u \in Seq(X) /\ Unlike(u)
      /\ Len(item.themes) > 0 => "theme" \in Market!ToSet(u)
      /\ Market!ToSet(u) \subseteq Market!ToSet(tags) \cup {"theme"}
      /\ Market!ToSet(tags) \subseteq Market!ToSet(u)
  <2>1. CASE Len(item.themes) > 0 /\ "theme" \notin Market!ToSet(tags)
    <3>1. u = << "theme" >> \o tags
      BY <2>1 DEF Market!WithTheme
    <3>2. \A i \in 1..Len(tags) : tags[i] # "theme"
      BY <1>0, <2>1
    <3>3. u \in Seq(X) /\ WithTag(u, tags, 1, "theme") /\ 1 \in 1..Len(tags) + 1
      BY <3>1, InFront
    <3> HIDE DEF u
    <3>4. Unlike(u) /\ Market!ToSet(u) = Market!ToSet(tags) \cup {"theme"}
      BY <3>2, <3>3, OneMore
    <3> QED BY <3>3, <3>4
  <2>2. CASE ~(Len(item.themes) > 0 /\ "theme" \notin Market!ToSet(tags))
    <3>1. u = tags
      BY <2>2 DEF Market!WithTheme
    <3> HIDE DEF u
    <3> QED BY <2>2, <3>1
  <2> QED BY <2>1, <2>2
<1> HIDE DEF u
<1>2. CASE Len(item.plugins) = 0 \/ "plugin" \in Market!ToSet(u)
  <2>1. t = u
    BY <1>2 DEF Market!WithPlugin
  <2> HIDE DEF t
  <2> QED BY <1>1, <1>2, <2>1 DEF t, u
<1>3. CASE ~(Len(item.plugins) = 0 \/ "plugin" \in Market!ToSet(u))
  <2>1. \A i \in 1..Len(u) : u[i] # "plugin"
    BY <1>0, <1>1, <1>3
  <2>2. \E k \in 1..Len(u) + 1 : t \in Seq(X) /\ WithTag(t, u, k, "plugin")
    <3>1. CASE "theme" \in Market!ToSet(u)
      <4>1. t = <<u[1], "plugin">> \o Tail(u)
        BY <1>3, <3>1 DEF Market!WithPlugin
      <4>2. u # <<>>
        BY <1>0, <1>1, <3>1
      <4> HIDE DEF t
      <4> QED BY <1>1, <4>1, <4>2, SecondPlace
    <3>2. CASE "theme" \notin Market!ToSet(u)
      <4>1. t = << "plugin" >> \o u
        BY <1>3, <3>2 DEF Market!WithPlugin
      <4> HIDE DEF t
      <4> QED BY <1>1, <4>1, InFront
    <3> QED BY <3>1, <3>2
  <2> HIDE DEF t
  <2>3. Unlike(t) /\ Market!ToSet(t) = Market!ToSet(u) \cup {"plugin"} /\ t \in Seq(X)
    BY <1>1, <2>1, <2>2, OneMore
  <2> QED BY <1>1, <2>3 DEF t, u
<1> QED BY <1>2, <1>3

(* An item that passes validateIndex is listed under what it contains, and *)
(* normalizePackItem would change nothing of it.                           *)
LEMMA ItemListed ==
    ASSUME NEW X, NEW given \in MarketItems(X), Market!ValidItem(Market!NormalItem(given))
    PROVE  LET item == Market!NormalItem(given)
           IN /\ "theme" \in Market!ToSet(item.tags) <=> item.themes # <<>>
              /\ "plugin" \in Market!ToSet(item.tags) <=> item.plugins # <<>>
              /\ Market!IsInjective(item.tags)
              /\ Market!NormalItem(item) = item
<1> DEFINE item == Market!NormalItem(given)
           again == Market!NormalItem(item)
           Y == X \cup {"theme", "plugin"}
           d == Market!Distinct(given.tags)
<1>1. /\ given.tags \in Seq(X) /\ given.themes \in Seq(X) /\ given.plugins \in Seq(X)
      /\ given = [id |-> given.id, tags |-> given.tags, themes |-> given.themes,
                  plugins |-> given.plugins, repo |-> given.repo, release |-> given.release,
                  min |-> given.min]
      /\ given.id \in X /\ given.repo \in X /\ given.release \in Versions /\ given.min \in Versions
  BY DEF MarketItems
<1>2. /\ item.themes = Members(given.themes)
      /\ item.plugins = Members(given.plugins)
      /\ item.tags = Market!WithPlugin(Market!WithTheme(d, item), item)
      /\ item = [given EXCEPT !.themes = item.themes, !.plugins = item.plugins,
                              !.tags = item.tags]
  BY ItemKept
<1>3. d \in Seq(X) /\ Unlike(d) /\ \A i \in 1..Len(d) : d[i] # ""
  BY <1>1, DistinctTags
<1> HIDE DEF item, d
<1>4. /\ item.themes \in Seq(X) /\ \A i \in 1..Len(item.themes) : item.themes[i] # ""
      /\ item.plugins \in Seq(X) /\ \A i \in 1..Len(item.plugins) : item.plugins[i] # ""
  <2>1. ASSUME NEW s \in Seq(X), NEW w, w = Members(s)
        PROVE  w \in Seq(X) /\ \A i \in 1..Len(w) : w[i] # ""
    BY <2>1, MembersKept
  <2> QED BY <1>1, <1>2, <2>1
<1>5. /\ Len(item.themes) \in Nat /\ Len(item.plugins) \in Nat
      /\ Len(item.themes) > 0 <=> item.themes # <<>>
      /\ Len(item.plugins) > 0 <=> item.plugins # <<>>
  <2>1. \A s \in Seq(X) : Len(s) \in Nat /\ (Len(s) > 0 <=> s # <<>>)
    BY EmptySeq, LenProperties
  <2> QED BY <1>4, <2>1
<1>6. d \in Seq(Y)
  BY <1>3, SeqMonotonic
<1>7. /\ item.tags \in Seq(Y) /\ Unlike(item.tags)
      /\ Len(item.themes) > 0 => "theme" \in Market!ToSet(item.tags)
      /\ Len(item.plugins) > 0 => "plugin" \in Market!ToSet(item.tags)
      /\ Market!ToSet(item.tags) \subseteq Market!ToSet(d) \cup {"theme", "plugin"}
  <2>1. "theme" \in Y /\ "plugin" \in Y
    OBVIOUS
  <2> HIDE DEF Y
  <2>2. ASSUME NEW s \in Seq(Y), Unlike(s), NEW i,
               Len(i.themes) \in Nat, Len(i.plugins) \in Nat,
               NEW t, t = Market!WithPlugin(Market!WithTheme(s, i), i)
        PROVE  /\ t \in Seq(Y) /\ Unlike(t)
               /\ Len(i.themes) > 0 => "theme" \in Market!ToSet(t)
               /\ Len(i.plugins) > 0 => "plugin" \in Market!ToSet(t)
               /\ Market!ToSet(t) \subseteq Market!ToSet(s) \cup {"theme", "plugin"}
    BY <2>1, <2>2, TagsFit
  <2> QED BY <1>2, <1>3, <1>5, <1>6, <2>2
<1>8. \A i \in 1..Len(item.tags) : item.tags[i] # ""
  <2> HIDE DEF Y
  <2>0. \A s \in Seq(Y) : Market!ToSet(s) = {s[i] : i \in 1..Len(s)}
    BY DEF Market!ToSet
  <2>1. "" \notin Market!ToSet(d)
    BY <1>3, <1>6, <2>0
  <2>2. "" \notin Market!ToSet(item.tags)
    BY <1>7, <2>1
  <2> QED BY <1>7, <2>0, <2>2
<1>9. /\ "theme" \in Market!ToSet(item.tags) <=> item.themes # <<>>
      /\ "plugin" \in Market!ToSet(item.tags) <=> item.plugins # <<>>
  BY <1>5, <1>7 DEF Market!ValidItem, item
<1>10. Market!IsInjective(item.tags)
  <2>1. DOMAIN item.tags = 1..Len(item.tags)
    BY <1>7
  <2> QED BY <1>7, <2>1 DEF Unlike, Market!IsInjective
<1>11. item \in MarketItems(Y)
  <2>1. item.themes \in Seq(Y) /\ item.plugins \in Seq(Y)
    BY <1>4, SeqMonotonic
  <2>2. item = [id |-> given.id, tags |-> item.tags, themes |-> item.themes,
                plugins |-> item.plugins, repo |-> given.repo, release |-> given.release,
                min |-> given.min]
    BY <1>1, <1>2
  <2>3. given.id \in Y /\ given.repo \in Y
    BY <1>1
  <2> HIDE DEF Y
  <2> QED BY <1>1, <1>7, <2>1, <2>2, <2>3 DEF MarketItems
<1>12. /\ again.themes = item.themes /\ again.plugins = item.plugins
       /\ again.tags = Market!WithPlugin(Market!WithTheme(item.tags, again), again)
       /\ again = [item EXCEPT !.themes = again.themes, !.plugins = again.plugins,
                               !.tags = again.tags]
  <2>1. /\ again.themes = Members(item.themes)
        /\ again.plugins = Members(item.plugins)
        /\ again.tags = Market!WithPlugin(
                           Market!WithTheme(Market!Distinct(item.tags), again), again)
        /\ again = [item EXCEPT !.themes = again.themes, !.plugins = again.plugins,
                                !.tags = again.tags]
    <3> HIDE DEF Y
    <3> QED BY <1>11, ItemKept
  <2> HIDE DEF again
  <2>2. again.themes = item.themes /\ again.plugins = item.plugins
    BY <1>4, <2>1, MembersKept
  <2>3. Market!Distinct(item.tags) = item.tags
    <3> HIDE DEF Y
    <3> QED BY <1>7, <1>8, DistinctTags
  <2> QED BY <2>1, <2>2, <2>3
<1> HIDE DEF again
<1>13. again.tags = item.tags
  <2>1. /\ Len(again.themes) > 0 => "theme" \in Market!ToSet(item.tags)
        /\ Len(again.plugins) = 0 \/ "plugin" \in Market!ToSet(item.tags)
    BY <1>5, <1>7, <1>12
  <2>2. Market!WithTheme(item.tags, again) = item.tags
    BY <2>1 DEF Market!WithTheme
  <2>3. Market!WithPlugin(item.tags, again) = item.tags
    BY <2>1 DEF Market!WithPlugin
  <2> QED BY <1>12, <2>2, <2>3
<1>14. again = item
  <2>1. again = [item EXCEPT !.themes = item.themes, !.plugins = item.plugins,
                              !.tags = item.tags]
    BY <1>12, <1>13
  <2>2. ASSUME NEW i \in MarketItems(Y)
        PROVE  [i EXCEPT !.themes = i.themes, !.plugins = i.plugins, !.tags = i.tags] = i
    BY DEF MarketItems
  <2> HIDE DEF Y
  <2> QED BY <1>11, <2>1, <2>2
<1> QED BY <1>9, <1>10, <1>14 DEF item, again
(* The items of an index that loads: those of some answer, each id once,   *)
(* every one in normal form and valid.                                     *)
LEMMA IndexLoads ==
    ASSUME NEW X, NEW answers \in Seq(Answers(X)), Market!LoadIndex(answers) # Failed
    PROVE  LET items == Market!LoadIndex(answers).items
           IN /\ Len(items) \in Nat /\ DOMAIN items = 1..Len(items)
              /\ \A i \in DOMAIN items : /\ items[i].release \in Versions
                                        /\ Market!ValidItem(items[i])
                                        /\ \E given \in MarketItems(X) :
                                              items[i] = Market!NormalItem(given)
              /\ \A i, j \in DOMAIN items : items[i].id = items[j].id => i = j
<1> DEFINE num == Market!SelectInSeq(answers, Market!Loads)
           I == {k \in 1..Len(answers) : Market!Loads(answers[k])}
           from == answers[num].items
           items == Market!LoadIndex(answers).items
<1>1. num = IF I # {} THEN Market!Min(I) ELSE 0
  BY DEF Market!SelectInSeq
<1>2. Market!LoadIndex(answers) = IF num = 0 THEN Failed ELSE [items |-> Market!Normals(from)]
  BY DEF Market!LoadIndex, Market!IndexAt
<1>3. Len(answers) \in Nat /\ I \in SUBSET (1..Len(answers))
  OBVIOUS
<1>4. I # {} => Market!Min(I) \in I
  <2> HIDE DEF I
  <2> QED BY <1>3, FirstFound
<1>5. num \in 1..Len(answers) /\ Market!Loads(answers[num])
  <2> HIDE DEF num
  <2> QED BY <1>1, <1>2, <1>4
<1> HIDE DEF num, I
<1>6. items = Market!Normals(from)
  BY <1>2, <1>5
<1>7. from \in Seq(MarketItems(X))
  <2>1. answers[num] \in Answers(X)
    BY <1>5
  <2> QED BY <2>1, <1>5 DEF Answers, Market!Loads
<1>8. Len(from) \in Nat /\ DOMAIN from = 1..Len(from)
      /\ \A i \in DOMAIN from : from[i] \in MarketItems(X)
  <2> HIDE DEF from
  <2> QED BY <1>7
<1>9. /\ \A i, j \in DOMAIN from : from[i].id = from[j].id => i = j
      /\ \A i \in DOMAIN from : Market!ValidItem(items[i])
  BY <1>5, <1>6 DEF Market!Loads
<1> HIDE DEF from
<1>10. DOMAIN items = DOMAIN from /\ \A i \in DOMAIN from : items[i] = Market!NormalItem(from[i])
  BY <1>6 DEF Market!Normals
<1> HIDE DEF items
<1>11. ASSUME NEW i \in DOMAIN from
       PROVE  items[i].id = from[i].id /\ items[i].release = from[i].release
  <2>1. ASSUME NEW given \in MarketItems(X), NEW item, item = Market!NormalItem(given)
        PROVE  item.id = given.id /\ item.release = given.release
    BY <2>1, ItemKept
  <2> QED BY <1>8, <1>10, <2>1
<1>12. \A i \in DOMAIN from : items[i].release \in Versions
  BY <1>8, <1>11 DEF MarketItems
<1>13. Len(items) = Len(from)
  <2>1. items = [i \in 1..Len(from) |-> Market!NormalItem(from[i])]
    BY <1>6, <1>8 DEF Market!Normals, items
  <2> QED BY <2>1, <1>8
<1>14. \A i, j \in DOMAIN items : items[i].id = items[j].id => i = j
  BY <1>9, <1>10, <1>11
<1>15. Len(items) \in Nat /\ DOMAIN items = 1..Len(items)
  BY <1>8, <1>10, <1>13
<1>16. \A i \in DOMAIN items : /\ items[i].release \in Versions
                              /\ Market!ValidItem(items[i])
                              /\ \E given \in MarketItems(X) :
                                    items[i] = Market!NormalItem(given)
  BY <1>8, <1>9, <1>10, <1>12
<1> QED
  BY <1>14, <1>15, <1>16 DEF items

(* FindPack finds an item with the id, if there is one.                    *)
LEMMA PackFound ==
    ASSUME NEW index, NEW id,
           Len(index.items) \in Nat, DOMAIN index.items = 1..Len(index.items)
    PROVE  \/ /\ Market!FindPack(index, id) = 0
              /\ \A i \in DOMAIN index.items : index.items[i].id # id
           \/ /\ Market!FindPack(index, id) \in DOMAIN index.items
              /\ index.items[Market!FindPack(index, id)].id = id
<1> DEFINE I == {i \in 1..Len(index.items) : index.items[i].id = id}
<1>1. Market!FindPack(index, id) = IF I # {} THEN Market!Min(I) ELSE 0
  BY DEF Market!FindPack, Market!SelectInSeq
<1>2. I # {} => Market!Min(I) \in I
  <2>1. I \in SUBSET (1..Len(index.items))
    OBVIOUS
  <2> HIDE DEF I
  <2> QED BY <2>1, FirstFound
<1> QED
  BY <1>1, <1>2

(* Compared the other way round, a newer version is an older one.          *)
LEMMA ComparedBack ==
    ASSUME NEW a \in Versions, NEW b \in Versions, Market!CompareVersions(a, b) = << 1 >>
    PROVE  Market!CompareVersions(b, a) = <<-1>>
<1> DEFINE P(i) == a[i] # b[i] /\ \A j \in 1..i - 1 : a[j] = b[j]
           Q(i) == b[i] # a[i] /\ \A j \in 1..i - 1 : b[j] = a[j]
           i == CHOOSE i \in 1..3 : P(i)
<1>1. Len(a) = 3 /\ Len(b) = 3 /\ a # b
  BY DEF Market!CompareVersions, Market!IsVersion
<1>2. a \in [1..3 -> Nat] /\ b \in [1..3 -> Nat]
  <2>1. a \in [1..Len(a) -> Nat] /\ b \in [1..Len(b) -> Nat]
    BY DEF Versions
  <2> QED
    BY <1>1, <2>1
<1>3. a[1] # b[1] \/ a[2] # b[2] \/ a[3] # b[3]
  <2> SUFFICES ASSUME a[1] = b[1], a[2] = b[2], a[3] = b[3] PROVE FALSE
    OBVIOUS
  <2>1. \A k \in 1..3 : a[k] = b[k]
    OBVIOUS
  <2> QED
    BY <1>1, <1>2, <2>1
<1>4. \E k \in 1..3 : P(k)
  <2>1. CASE a[1] # b[1]
    BY <2>1
  <2>2. CASE a[1] = b[1] /\ a[2] # b[2]
    BY <2>2
  <2>3. CASE a[1] = b[1] /\ a[2] = b[2] /\ a[3] # b[3]
    BY <2>3
  <2> QED BY <1>3, <2>1, <2>2, <2>3
<1>5. i \in 1..3
  BY <1>4
<1>6. (CHOOSE k \in 1..3 : Q(k)) = i
  OBVIOUS
<1>7. Market!CompareVersions(a, b) = IF a[i] > b[i] THEN <<1>> ELSE <<-1>>
  BY <1>1 DEF Market!CompareVersions, Market!IsVersion
<1>8. Market!CompareVersions(b, a) = IF b[i] > a[i] THEN <<1>> ELSE <<-1>>
  BY <1>1, <1>6 DEF Market!CompareVersions, Market!IsVersion
<1> HIDE DEF i
<1>9. a[i] > b[i]
  BY <1>7
<1>10. a[i] \in Nat /\ b[i] \in Nat
  BY <1>2, <1>5
<1> QED BY <1>8, <1>9, <1>10

(* The index on the page: every item once and under what it contains.      *)
LEMMA IndexListed ==
    ASSUME NEW X, NEW answers \in Seq(Answers(X)), Market!LoadIndex(answers) # Failed
    PROVE  Market!ListedRight(Market!LoadIndex(answers))
<1> DEFINE index == Market!LoadIndex(answers)
<1>1. /\ Len(index.items) \in Nat /\ DOMAIN index.items = 1..Len(index.items)
      /\ \A i \in DOMAIN index.items :
            /\ Market!ValidItem(index.items[i])
            /\ \E given \in MarketItems(X) : index.items[i] = Market!NormalItem(given)
      /\ \A i, j \in DOMAIN index.items : index.items[i].id = index.items[j].id => i = j
  BY IndexLoads
<1> HIDE DEF index
<1>2. ASSUME NEW given \in MarketItems(X), NEW item, item = Market!NormalItem(given),
             Market!ValidItem(item)
      PROVE  /\ "theme" \in Market!ToSet(item.tags) <=> item.themes # <<>>
             /\ "plugin" \in Market!ToSet(item.tags) <=> item.plugins # <<>>
             /\ Market!IsInjective(item.tags)
             /\ Market!NormalItem(item) = item
  BY <1>2, ItemListed
<1>3. ASSUME NEW i \in DOMAIN index.items, NEW item, item = index.items[i]
      PROVE  /\ "theme" \in Market!ToSet(item.tags) <=> item.themes # <<>>
             /\ "plugin" \in Market!ToSet(item.tags) <=> item.plugins # <<>>
             /\ Market!IsInjective(item.tags)
             /\ Market!NormalItem(item) = item
  BY <1>1, <1>2, <1>3
<1>4. ASSUME NEW i \in DOMAIN index.items
      PROVE  Market!FindPack(index, index.items[i].id) = i
  BY <1>1, PackFound
<1> QED
  BY <1>3, <1>4 DEF Market!ListedRight, index

(* LoadIndex and installResourceMarketplaceItem, whatever the sources, the *)
(* publisher and GitHub answer: an installation touches no other bundle,   *)
(* takes no archive that the checksums contest, and ends the offer of the  *)
(* release, unless the archive is older than the index says.               *)
LEMMA MarketRight ==
    ASSUME NEW X, NEW answers \in Seq(Answers(X)), NEW id,
           NEW archive \in ArchivesOf(X), NEW sums \in SumFiles(X), NEW installed,
           Market!LoadIndex(answers) # Failed
    PROVE  LET index == Market!LoadIndex(answers)
           IN Market!InstalledRight(index, installed,
                               Market!AfterInstall(installed, index, id, archive, sums),
                               id, archive, sums)
<1> DEFINE index == Market!LoadIndex(answers)
           after == Market!AfterInstall(installed, index, id, archive, sums)
           at    == Market!FindPack(index, id)
           item  == index.items[at]
<1>1. /\ Len(index.items) \in Nat /\ DOMAIN index.items = 1..Len(index.items)
      /\ \A i \in DOMAIN index.items : index.items[i].release \in Versions
  BY IndexLoads
<1> HIDE DEF index
<1>2. \A b \in DOMAIN installed : b # id => after[b] = installed[b]
  BY DEF Market!AfterInstall
<1>3. ASSUME after # installed
      PROVE  /\ at \in DOMAIN index.items
             /\ Market!MayInstall(item, archive, sums)
             /\ after = [b \in DOMAIN installed \cup {id} |->
                           IF b = id THEN archive.version ELSE installed[b]]
  BY <1>3 DEF Market!AfterInstall
<1> HIDE DEF after
<1>4. ASSUME after # installed PROVE item.id = id
  <2>1. at # 0
    BY <1>1, <1>3, <1>4
  <2> QED BY <1>1, <2>1, PackFound
<1>5. ASSUME after # installed PROVE Market!Uncontested(sums, archive.digest)
  <2>1. Market!Verified(sums, archive.digest) /\ sums # Failed
    BY <1>3, <1>5 DEF Market!MayInstall
  <2>2. DOMAIN sums = 1..Len(sums) /\ Len(sums) \in Nat
    BY <2>1 DEF SumFiles
  <2>3. PICK i \in DOMAIN sums :
           /\ sums[i].name = "archive" /\ sums[i].digest = archive.digest
           /\ \A j \in 1..i - 1 : sums[j].name = "other"
    BY <2>1 DEF Market!Verified
  <2>4. ASSUME NEW k \in DOMAIN sums,
               sums[k].name = "archive", sums[k].digest # archive.digest
        PROVE  i \in 1..k - 1
    <3>1. k # i
      BY <2>3, <2>4
    <3>2. ~(k < i)
      <4>1. ASSUME k < i PROVE k \in 1..i - 1
        BY <2>2, <4>1
      <4>2. "archive" # "other"
        OBVIOUS
      <4> QED BY <2>3, <2>4, <4>1, <4>2
    <3> QED BY <2>2, <3>1, <3>2
  <2> QED BY <2>3, <2>4 DEF Market!Uncontested
<1>6. ASSUME after # installed, Market!UpdateAvailable(item, after)
      PROVE  Market!CompareVersions(archive.version, item.release) = <<-1>>
  <2>1. after[id] = archive.version
    BY <1>3, <1>6
  <2>2. Market!CompareVersions(item.release, archive.version) = <<1>>
    BY <1>4, <1>6, <2>1 DEF Market!UpdateAvailable
  <2>3. item.release \in Versions
    BY <1>1, <1>3, <1>6
  <2>4. archive.version \in Versions
    BY <1>3, <1>6 DEF Market!MayInstall, ArchivesOf
  <2> HIDE DEF item
  <2> QED BY <2>2, <2>3, <2>4, ComparedBack
<1> QED
  BY <1>2, <1>5, <1>6 DEF Market!InstalledRight, index, after

(* OffersEnd, for every list of answers of the sources, every archive and  *)
(* file of checksums, and every set of bundles installed.                  *)
THEOREM OffersAlwaysEnd ==
    ASSUME NEW X, NEW W,
           input \in {"market"} \X [installed : W, answers : Seq(Answers(X)), id : W,
                                   archive : ArchivesOf(X), sums : SumFiles(X)]
    PROVE  OffersEnd
<1> DEFINE w == input[2]
<1>1. w.answers \in Seq(Answers(X)) /\ w.archive \in ArchivesOf(X) /\ w.sums \in SumFiles(X)
  OBVIOUS
<1> HIDE DEF w
<1>2. ASSUME Market!LoadIndex(w.answers) # Failed
      PROVE  Market!ListedRight(Market!LoadIndex(w.answers))
  BY <1>1, <1>2, IndexListed
<1>3. ASSUME Market!LoadIndex(w.answers) # Failed
      PROVE  Market!InstalledRight(Market!LoadIndex(w.answers), w.installed,
                Market!AfterInstall(w.installed, Market!LoadIndex(w.answers),
                                    w.id, w.archive, w.sums),
                w.id, w.archive, w.sums)
  BY <1>1, <1>3, MarketRight
<1> QED
  BY <1>2, <1>3 DEF OffersEnd, Market!OffersEnd, Market!IndexRight, w

-----------------------------------------------------------------------------
(* What readers see of any files: module Listing.                          *)

(* Files of the directory walk, with names, slugs and tags of X.           *)
PostFiles(X) == [file : X, slug : X, date : Int, tags : Seq(X), draft : BOOLEAN]

(* The lists of module Listing are those of the lemmas.                    *)
LEMMA ListingsWhere == \A s, S : Listings!Where(s, S) = Where(s, S)
BY DEF Listings!Where, Where

LEMMA ListingsCount == \A S : Listings!Cardinality(S) = Cardinality(S)
BY Zenon DEF Listings!Cardinality, Cardinality

LEMMA ListingsToSet == \A X : \A s \in Seq(X) : Listings!ToSet(s) = {s[i] : i \in 1..Len(s)}
BY DEF Listings!ToSet

(* A sequence without repetitions has as many members as it is long.       *)
LEMMA UnlikeCounted ==
    ASSUME NEW X, NEW s \in Seq(X), Unlike(s)
    PROVE  Cardinality(Listings!ToSet(s)) = Len(s)
<1> DEFINE T == {s[i] : i \in 1..Len(s)}
<1>1. Len(s) \in Nat /\ DOMAIN s = 1..Len(s)
  OBVIOUS
<1>2. s \in [1..Len(s) -> T]
  <2>1. \A i \in 1..Len(s) : s[i] \in T
    OBVIOUS
  <2>2. s = [i \in 1..Len(s) |-> s[i]]
    OBVIOUS
  <2> HIDE DEF T
  <2> QED BY <2>1, <2>2
<1>3. \A x \in T : \E i \in 1..Len(s) : s[i] = x
  OBVIOUS
<1> HIDE DEF T
<1>4. s \in Bijection(1..Len(s), T)
  BY <1>1, <1>2, <1>3 DEF Bijection, Injection, Surjection, IsInjective, Unlike
<1>5. Cardinality(T) = Len(s)
  BY <1>1, <1>4, FS_CountingElements DEF ExistsBijection
<1>6. Listings!ToSet(s) = T
  BY ListingsToSet DEF T
<1> QED BY <1>5, <1>6

(* An order of the numbers from 1 has each of them once.                   *)
LEMMA OrderWhole ==
    ASSUME NEW num \in Nat, NEW p \in Listings!SetToSeqs(1..num)
    PROVE  /\ p \in [1..num -> 1..num]
           /\ \A i, j \in 1..num : p[i] = p[j] => i = j
           /\ \A k \in 1..num : \E i \in 1..num : p[i] = k
<1>1. Listings!Cardinality(1..num) = num /\ IsFiniteSet(1..num)
  <2>1. IsFiniteSet(1..num) /\ Cardinality(1..num) = num
    BY FS_Interval
  <2> QED BY <2>1, ListingsCount
<1>2. p \in [1..num -> 1..num] /\ \A i, j \in 1..num : p[i] = p[j] => i = j
  BY <1>1 DEF Listings!SetToSeqs
<1>3. p \in Seq(1..num) /\ Len(p) = num
  BY <1>2, LenProperties, SeqDef
<1>4. Unlike(p)
  BY <1>2, <1>3 DEF Unlike
<1> DEFINE T == Listings!ToSet(p)
<1>5. Cardinality(T) = num
  BY <1>3, <1>4, UnlikeCounted
<1>6. T = {p[i] : i \in 1..num}
  BY <1>3, ListingsToSet
<1>7. T \in SUBSET (1..num)
  BY <1>2, <1>6
<1> HIDE DEF T
<1>8. T = 1..num
  <2>1. Cardinality(1..num) = num
    BY FS_Interval
  <2> QED BY <1>1, <1>5, <1>7, <2>1, FS_Subset
<1>9. \A k \in 1..num : \E i \in 1..num : p[i] = k
  BY <1>6, <1>8
<1> QED BY <1>2, <1>9

(* However the posts of one date are sorted, they are all there once.      *)
LEMMA SortedWhole ==
    ASSUME NEW X, NEW s \in Seq(X), NEW all \in Listings!Sorted(s)
    PROVE  /\ all \in Seq(X) /\ Len(all) = Len(s)
           /\ Unlike(s) => Unlike(all)
           /\ Listings!ToSet(all) = Listings!ToSet(s)
           /\ \A i \in 1..Len(all) - 1 : all[i].date >= all[i + 1].date
<1> DEFINE num == Len(s)
<1>1. num \in Nat /\ DOMAIN s = 1..num /\ \A i \in 1..num : s[i] \in X
  OBVIOUS
<1>2. PICK p \in Listings!SetToSeqs(1..num) : all = [i \in 1..num |-> s[p[i]]]
  BY <1>1 DEF Listings!Sorted
<1>3. \A i \in 1..Len(all) - 1 : all[i].date >= all[i + 1].date
  BY DEF Listings!Sorted
<1> HIDE DEF num
<1>4. /\ p \in [1..num -> 1..num]
      /\ \A i, j \in 1..num : p[i] = p[j] => i = j
      /\ \A k \in 1..num : \E i \in 1..num : p[i] = k
  BY <1>1, <1>2, OrderWhole
<1>5. all \in [1..num -> X]
  BY <1>1, <1>2, <1>4
<1>6. all \in Seq(X) /\ Len(all) = num
  BY <1>1, <1>5, LenProperties, SeqDef
<1>7. \A i \in 1..num : all[i] = s[p[i]] /\ p[i] \in 1..num
  BY <1>2, <1>4
<1>8. Unlike(s) => Unlike(all)
  <2>1. ASSUME Unlike(s), NEW i \in 1..num, NEW j \in 1..num, all[i] = all[j] PROVE i = j
    <3>1. s[p[i]] = s[p[j]] /\ p[i] \in 1..num /\ p[j] \in 1..num
      BY <1>7, <2>1
    <3>2. p[i] = p[j]
      BY <2>1, <3>1 DEF Unlike, num
    <3> QED BY <1>4, <3>2
  <2> QED BY <1>6, <2>1 DEF Unlike
<1>9. Listings!ToSet(all) = Listings!ToSet(s)
  <2>1. Listings!ToSet(all) = {all[i] : i \in 1..num}
    BY <1>6, ListingsToSet
  <2>2. Listings!ToSet(s) = {s[i] : i \in 1..num}
    BY ListingsToSet DEF num
  <2>3. \A i \in 1..num : \E k \in 1..num : all[k] = s[i]
    BY <1>4, <1>7
  <2>4. \A i \in 1..num : \E k \in 1..num : all[i] = s[k]
    BY <1>7
  <2> QED BY <2>1, <2>2, <2>3, <2>4
<1> QED BY <1>3, <1>6, <1>8, <1>9 DEF num

(* Newer than the next is newer than all that follow.                      *)
LEMMA Descending ==
    ASSUME NEW num \in Nat, NEW d \in [1..num -> Int],
           \A i \in 1..num - 1 : d[i] >= d[i + 1]
    PROVE  \A i, j \in 1..num : i < j => d[i] >= d[j]
<1> SUFFICES ASSUME NEW i \in 1..num PROVE \A j \in 1..num : i < j => d[i] >= d[j]
  OBVIOUS
<1> DEFINE ns == {k \in Nat : i + k <= num => d[i] >= d[i + k]}
<1>1. 0 \in ns
  OBVIOUS
<1>2. ASSUME NEW k \in Nat, k \in ns PROVE k + 1 \in ns
  <2> SUFFICES ASSUME i + (k + 1) <= num PROVE d[i] >= d[i + (k + 1)]
    OBVIOUS
  <2>1. i + k \in 1..num - 1 /\ i + k \in 1..num /\ i + (k + 1) \in 1..num
        /\ (i + k) + 1 = i + (k + 1)
    OBVIOUS
  <2>2. d[i] >= d[i + k] /\ d[i + k] >= d[i + (k + 1)]
    BY <1>2, <2>1
  <2>3. d[i] \in Int /\ d[i + k] \in Int /\ d[i + (k + 1)] \in Int
    BY <2>1
  <2> QED BY <2>2, <2>3
<1>3. Nat \subseteq ns
  <2> HIDE DEF ns
  <2> QED BY <1>1, <1>2, Counting
<1>4. ASSUME NEW j \in 1..num, i < j PROVE d[i] >= d[j]
  <2>1. j - i \in Nat /\ i + (j - i) = j
    BY <1>4
  <2>2. j - i \in ns
    BY <1>3, <2>1
  <2> QED BY <2>1, <2>2
<1> QED BY <1>4

(* FlattenSeq goes through its lists from the first to the last.           *)
JoinsEach(r, s, num) ==
    /\ r[0] = <<>>
    /\ \A k \in 1..num : r[k] = r[k - 1] \o s[k]
    /\ Listings!FlattenSeq(s) = r[num]

LEMMA FlattenTurns ==
    ASSUME NEW X, NEW s \in Seq(Seq(X))
    PROVE  \E r \in [0..Len(s) -> Seq(X)] : JoinsEach(r, s, Len(s))
<1> DEFINE num == Len(s)
           D == Seq(X)
           steps == [i \in 1..num |-> [t \in D |-> t \o s[i]]]
           f == CHOOSE h : h = [i \in 1..num |-> IF i = 1 THEN s[i] ELSE h[i - 1] \o s[i]]
<1>1. num \in Nat /\ \A i \in 1..num : s[i] \in D
  <2>1. s \in Seq(D)
    OBVIOUS
  <2> HIDE DEF D
  <2> QED BY <2>1, ElementOfSeq, LenProperties
<1>2. steps \in [1..num -> [D -> D]] /\ <<>> \in D
  <2>1. \A i \in 1..num : \A t \in D : t \o s[i] \in D
    BY <1>1, ConcatProperties
  <2>2. <<>> \in D
    OBVIOUS
  <2> HIDE DEF num, D
  <2> QED BY <2>1, <2>2
<1>3. PICK r \in [0..num -> D] : Turned(r, num, <<>>, steps)
  <2> HIDE DEF num, D, steps
  <2> QED BY <1>1, <1>2, RecursionExists
<1>4. \A k \in 1..num : r[k] = r[k - 1] \o s[k]
  <2> HIDE DEF D, num, f
  <2>1. \A k \in 1..num : k - 1 \in 0..num
    BY <1>1
  <2>2. \A k \in 1..num : r[k - 1] \in D
    BY <2>1
  <2> QED BY <1>3, <2>2 DEF Turned
<1>5. r[0] = <<>>
  BY <1>3 DEF Turned
<1>6. ASSUME num = 0 PROVE Listings!FlattenSeq(s) = r[num]
  <2>1. s = <<>>
    BY <1>6, EmptySeq
  <2>2. Listings!FlattenSeq(s) = s
    BY <1>6 DEF Listings!FlattenSeq
  <2> QED BY <1>5, <1>6, <2>1, <2>2
<1>7. ASSUME num # 0 PROVE Listings!FlattenSeq(s) = r[num]
  <2>1. \E h : h = [i \in 1..num |-> IF i = 1 THEN s[i] ELSE h[i - 1] \o s[i]]
    <3> DEFINE h == [i \in 1..num |-> r[i]]
    <3> HIDE DEF D, num, steps
    <3>1. ASSUME NEW i \in 1..num PROVE h[i] = IF i = 1 THEN s[i] ELSE h[i - 1] \o s[i]
      <4>1. CASE i = 1
        <5>1. r[1] = r[0] \o s[1] /\ s[1] \in D
          <6>1. 1 \in 1..num /\ 1 - 1 = 0
            BY <1>1, <4>1
          <6> QED BY <1>1, <1>4, <6>1
        <5>2. <<>> \o s[1] = s[1]
          BY <5>1, ConcatEmptySeq DEF D
        <5> QED BY <1>5, <4>1, <5>1, <5>2
      <4>2. CASE i # 1
        <5>1. i - 1 \in 1..num
          BY <1>1, <4>2
        <5> QED BY <1>4, <4>2, <5>1
      <4> QED BY <4>1, <4>2
    <3>2. h = [i \in 1..num |-> h[i]]
      OBVIOUS
    <3> HIDE DEF h
    <3>3. h = [i \in 1..num |-> IF i = 1 THEN s[i] ELSE h[i - 1] \o s[i]]
      BY <3>1, <3>2
    <3> QED BY <3>3, Zenon
  <2>2. f = [i \in 1..num |-> IF i = 1 THEN s[i] ELSE f[i - 1] \o s[i]]
    <3> HIDE DEF num
    <3> QED BY <2>1
  <2>3. Listings!FlattenSeq(s) = f[num]
    BY <1>7 DEF Listings!FlattenSeq
  <2> HIDE DEF f, num, D, steps
  <2>4. \A k \in 1..num : f[k] = IF k = 1 THEN s[k] ELSE f[k - 1] \o s[k]
    BY <2>2
  <2> DEFINE ns == {k \in Nat : k + 1 <= num => f[k + 1] = r[k + 1]}
  <2>5. 0 \in ns
    <3>1. ASSUME 1 <= num PROVE f[1] = r[1]
      <4>1. 1 \in 1..num /\ 1 - 1 = 0
        BY <1>1, <3>1
      <4>3. r[1] = r[0] \o s[1] /\ s[1] \in D
        BY <1>1, <1>4, <4>1
      <4>2. <<>> \o s[1] = s[1]
        BY <4>3, ConcatEmptySeq DEF D
      <4> QED BY <1>5, <2>4, <4>1, <4>2, <4>3
    <3> QED BY <3>1
  <2>6. ASSUME NEW k \in Nat, k \in ns PROVE k + 1 \in ns
    <3> SUFFICES ASSUME (k + 1) + 1 <= num PROVE f[(k + 1) + 1] = r[(k + 1) + 1]
      OBVIOUS
    <3>1. (k + 1) + 1 \in 1..num /\ ((k + 1) + 1) - 1 = k + 1 /\ (k + 1) + 1 # 1
      BY <1>1
    <3>2. f[k + 1] = r[k + 1]
      <4>1. k + 1 <= num
        BY <1>1
      <4> QED BY <2>6, <4>1
    <3>3. ASSUME NEW m \in 1..num, m # 1, f[m - 1] = r[m - 1] PROVE f[m] = r[m]
      BY <1>4, <2>4, <3>3
    <3> QED BY <3>1, <3>2, <3>3
  <2>7. Nat \subseteq ns
    <3> HIDE DEF ns
    <3> QED BY <2>5, <2>6, Counting
  <2>8. num - 1 \in Nat /\ (num - 1) + 1 = num
    BY <1>1, <1>7
  <2>9. f[num] = r[num]
    <3>1. num - 1 \in ns
      BY <2>7, <2>8
    <3>2. num - 1 + 1 <= num
      BY <1>1
    <3> QED BY <2>8, <3>1, <3>2
  <2> QED BY <2>3, <2>9
<1> QED
  BY <1>4, <1>5, <1>6, <1>7 DEF num, D, JoinsEach

(* What is in the lists that FlattenSeq joins, and no more.                *)
Rows(X) == Seq(Seq(X))

LEMMA FlattenMembers ==
    ASSUME NEW X, NEW s \in Rows(X), NEW x
    PROVE  /\ Listings!FlattenSeq(s) \in Seq(X)
           /\ x \in Listings!ToSet(Listings!FlattenSeq(s)) <=>
                 \E i \in 1..Len(s) : \E j \in 1..Len(s[i]) : s[i][j] = x
<1> DEFINE D == Seq(X)
           In(t) == \E j \in 1..Len(t) : t[j] = x
           num == Len(s)
<1>0. s \in Seq(Seq(X))
  BY DEF Rows
<1>1. PICK r \in [0..num -> D] : JoinsEach(r, s, num)
  BY <1>0, FlattenTurns
<1>2. num \in Nat /\ \A i \in 1..num : s[i] \in D
  <2>1. s \in Seq(D)
    BY <1>0
  <2> HIDE DEF D
  <2> QED BY <2>1, ElementOfSeq, LenProperties
<1>3. \A t \in D : \A u \in D : In(t \o u) <=> In(t) \/ In(u)
  <2> SUFFICES ASSUME NEW t \in D, NEW u \in D PROVE In(t \o u) <=> In(t) \/ In(u)
    OBVIOUS
  <2>1. /\ Len(t) \in Nat /\ Len(u) \in Nat /\ Len(t \o u) = Len(t) + Len(u)
        /\ \A i \in 1..Len(t) + Len(u) :
              (t \o u)[i] = IF i <= Len(t) THEN t[i] ELSE u[i - Len(t)]
    BY ConcatProperties, LenProperties
  <2>2. ASSUME In(t) PROVE In(t \o u)
    <3>1. PICK j \in 1..Len(t) : t[j] = x
      BY <2>2
    <3>2. j \in 1..Len(t) + Len(u) /\ j <= Len(t)
      BY <2>1
    <3> QED BY <2>1, <3>1, <3>2
  <2>3. ASSUME In(u) PROVE In(t \o u)
    <3>1. PICK j \in 1..Len(u) : u[j] = x
      BY <2>3
    <3>2. Len(t) + j \in 1..Len(t) + Len(u) /\ ~(Len(t) + j <= Len(t)) /\ (Len(t) + j) - Len(t) = j
      BY <2>1
    <3> QED BY <2>1, <3>1, <3>2
  <2>4. ASSUME In(t \o u) PROVE In(t) \/ In(u)
    <3>1. PICK i \in 1..Len(t) + Len(u) : (t \o u)[i] = x
      BY <2>1, <2>4
    <3>2. CASE i <= Len(t)
      <4>1. i \in 1..Len(t) /\ t[i] = x
        BY <2>1, <3>1, <3>2
      <4> QED BY <4>1
    <3>3. CASE ~(i <= Len(t))
      <4>1. i - Len(t) \in 1..Len(u) /\ u[i - Len(t)] = x
        BY <2>1, <3>1, <3>3
      <4> QED BY <4>1
    <3> QED BY <3>2, <3>3
  <2> QED BY <2>2, <2>3, <2>4
<1>4. ~In(<<>>)
  OBVIOUS
<1>5. /\ r[0] = <<>> /\ Listings!FlattenSeq(s) = r[num]
      /\ \A k \in 1..num : r[k] = r[k - 1] \o s[k]
  BY <1>1 DEF JoinsEach
<1> HIDE DEF D, In, num
<1> DEFINE ns == {k \in Nat : k <= num => (In(r[k]) <=> \E i \in 1..k : In(s[i]))}
<1>6. 0 \in ns
  BY <1>4, <1>5
<1>7. ASSUME NEW k \in Nat, k \in ns PROVE k + 1 \in ns
  <2> SUFFICES ASSUME k + 1 <= num PROVE In(r[k + 1]) <=> \E i \in 1..k + 1 : In(s[i])
    OBVIOUS
  <2>1. k + 1 \in 1..num /\ (k + 1) - 1 = k /\ k \in 0..num /\ r[k] \in D
    BY <1>2
  <2>2. r[k + 1] = r[k] \o s[k + 1]
    BY <1>5, <2>1
  <2>3. In(r[k]) <=> \E i \in 1..k : In(s[i])
    BY <1>2, <1>7
  <2>4. In(r[k + 1]) <=> In(r[k]) \/ In(s[k + 1])
    BY <1>2, <1>3, <2>1, <2>2
  <2>5. \A i \in 1..k + 1 : i \in 1..k \/ i = k + 1
    OBVIOUS
  <2>6. \A i \in 1..k : i \in 1..k + 1
    OBVIOUS
  <2> QED BY <2>3, <2>4, <2>5, <2>6
<1>8. num \in ns
  <2> HIDE DEF ns
  <2>1. Nat \subseteq ns
    BY <1>6, <1>7, Counting
  <2> QED BY <1>2, <2>1
<1>9. In(r[num]) <=> \E i \in 1..num : In(s[i])
  BY <1>2, <1>8
<1>10. r[num] \in D
  BY <1>2
<1>11. x \in Listings!ToSet(r[num]) <=> In(r[num])
  <2>1. Listings!ToSet(r[num]) = {r[num][i] : i \in 1..Len(r[num])}
    BY <1>10, ListingsToSet DEF D
  <2> QED BY <2>1 DEF In
<1> QED
  BY <1>5, <1>9, <1>10, <1>11 DEF D, In, num

(* The pages one after the other are the list.                             *)
LEMMA PageItems ==
    ASSUME NEW T, NEW items \in Seq(T), NEW size \in Nat \ {0},
           NEW p \in 1..Listings!TotalPages(Len(items), size)
    PROVE  /\ Listings!Paginate(items, size, p).items =
                 SubSeq(items, (p - 1) * size + 1, Listings!Smaller((p - 1) * size + size, Len(items)))
           /\ (p - 1) * size \in Nat /\ (p - 1) * size < Len(items)
<1> DEFINE many  == Len(items)
           total == Listings!TotalPages(many, size)
           first == (p - 1) * size
           last  == Listings!Smaller(first + size, many)
           page  == Listings!Paginate(items, size, p)
<1>1. many \in Nat /\ total \in Nat /\ total # 0 /\ many # 0 /\ items # <<>>
  <2>1. many \in Nat
    OBVIOUS
  <2>2. total \in Nat /\ (many = 0 => total = 0)
    BY <2>1, EnoughPages
  <2> QED BY <2>1, <2>2
<1>2. Listings!Smaller(Listings!Larger(p, 1), total) = p
  BY <1>1 DEF Listings!Smaller, Listings!Larger
<1>3. page.items = SubSeq(items, first + 1, last)
  <2> HIDE DEF total
  <2>1. page = [page  |-> p,
                items |-> IF items = <<>> THEN <<>> ELSE SubSeq(items, first + 1, last),
                prev  |-> IF p > 1 THEN p - 1 ELSE 0,
                next  |-> IF total > 0 /\ p < total THEN p + 1 ELSE 0,
                links |-> IF total > 1 THEN Listings!Visible(p, total) ELSE <<>>]
    BY <1>1, <1>2 DEF Listings!Paginate, total
  <2> HIDE DEF page, first, last
  <2>2. page.items = IF items = <<>> THEN <<>> ELSE SubSeq(items, first + 1, last)
    BY <2>1
  <2> QED BY <1>1, <2>2
<1>4. first \in Nat /\ first < many
  <2>1. IsPage(items, size, p)
    BY PageCut
  <2>2. /\ (p - 1) * size \in Nat
        /\ Len(page.items) \in 1..size
        /\ \A k \in 1..Len(page.items) : (p - 1) * size + k \in 1..Len(items)
    BY <2>1 DEF IsPage
  <2> HIDE DEF page
  <2>3. (p - 1) * size + 1 \in 1..Len(items)
    BY <2>2
  <2> QED BY <2>2, <2>3
<1> QED BY <1>3, <1>4

LEMMA PagesJoined ==
    ASSUME NEW T, NEW items \in Seq(T), NEW size \in Nat \ {0},
           NEW num \in Nat,
           num = Listings!Larger(1, Listings!TotalPages(Len(items), size)),
           NEW s, s = [p \in 1..num |-> Listings!Paginate(items, size, p).items]
    PROVE  Listings!FlattenSeq(s) = items
<1> DEFINE many  == Len(items)
           total == Listings!TotalPages(many, size)
           D == Seq(T)
<1>1. /\ many \in Nat /\ total \in Nat
      /\ many <= total * size
      /\ many # 0 <=> total # 0
  <2>1. many \in Nat
    OBVIOUS
  <2> QED BY <2>1, EnoughPages
<1>2. ASSUME NEW p \in 1..total
      PROVE  /\ Listings!Paginate(items, size, p).items =
                   SubSeq(items, (p - 1) * size + 1, Listings!Smaller((p - 1) * size + size, many))
             /\ (p - 1) * size \in Nat /\ (p - 1) * size < many
  BY PageItems
<1>3. ASSUME total = 0 PROVE num = 1 /\ s[1] = <<>> /\ items = <<>>
  <2>1. items = <<>> /\ num = 1
    BY <1>1, <1>3, EmptySeq DEF Listings!Larger
  <2>2. Listings!Paginate(items, size, 1).items = <<>>
    BY <2>1 DEF Listings!Paginate
  <2> QED BY <2>1, <2>2
<1>4. ASSUME total # 0 PROVE num = total
  BY <1>1, <1>4 DEF Listings!Larger
<1> HIDE DEF total, many
<1>5. ASSUME NEW p \in 1..num PROVE s[p] \in D
  <2>1. CASE total = 0
    <3>1. p = 1 /\ <<>> \in Seq(T)
      BY <1>3, <2>1
    <3> QED BY <1>3, <2>1, <3>1
  <2>2. CASE total # 0
    <3> DEFINE m == (p - 1) * size + 1
               k == Listings!Smaller((p - 1) * size + size, many)
    <3>1. s[p] = SubSeq(items, m, k) /\ (p - 1) * size \in Nat
      BY <1>2, <1>4, <2>2
    <3>2. m \in Int /\ k \in Int /\ m >= 1 /\ k <= many
      BY <1>1, <3>1 DEF Listings!Smaller
    <3> HIDE DEF m, k
    <3>3. \A i \in m..k : items[i] \in T
      BY <1>1, <3>2 DEF many
    <3>4. SubSeq(items, m, k) \in Seq(T)
      BY <3>2, <3>3, SubSeqProperties
    <3> QED BY <3>1, <3>4
  <2> QED BY <2>1, <2>2
<1>6. s \in Seq(D) /\ Len(s) = num
  <2> HIDE DEF D
  <2>1. s \in [1..num -> D]
    BY <1>5
  <2>2. ASSUME NEW q \in [1..num -> D] PROVE q \in Seq(D) /\ Len(q) = num
    BY LenProperties, SeqDef
  <2> QED BY <2>1, <2>2, Zenon
<1>7. PICK r \in [0..num -> D] : JoinsEach(r, s, num)
  <2>1. ASSUME NEW q \in Seq(D) PROVE \E r \in [0..Len(q) -> D] : JoinsEach(r, q, Len(q))
    BY FlattenTurns
  <2> HIDE DEF D
  <2> QED BY <1>6, <2>1, Zenon
<1>8. /\ r[0] = <<>> /\ Listings!FlattenSeq(s) = r[num]
      /\ \A k \in 1..num : r[k] = r[k - 1] \o s[k]
  BY <1>7 DEF JoinsEach
<1>9. CASE total = 0
  <2>0. 1 \in 1..num /\ 1 - 1 = 0
    BY <1>3, <1>9
  <2>1. r[1] = r[0] \o s[1]
    BY <1>8, <2>0
  <2>2. <<>> \o <<>> = <<>>
    OBVIOUS
  <2> QED BY <1>3, <1>8, <1>9, <2>1, <2>2
<1>10. CASE total # 0
  <2> DEFINE ns == {k \in Nat : k <= total =>
                       r[k] = SubSeq(items, 1, Listings!Smaller(k * size, many))}
  <2>1. 0 \in ns
    <3>1. 0 * size = 0 /\ Listings!Smaller(0, many) = 0
      BY <1>1 DEF Listings!Smaller
    <3>2. SubSeq(items, 1, 0) = <<>>
      BY SubSeqEmpty
    <3> QED BY <1>8, <3>1, <3>2
  <2>2. ASSUME NEW k \in Nat, k \in ns PROVE k + 1 \in ns
    <3> SUFFICES ASSUME k + 1 <= total
                 PROVE  r[k + 1] = SubSeq(items, 1, Listings!Smaller((k + 1) * size, many))
      OBVIOUS
    <3> DEFINE a == k * size
               b == Listings!Smaller(a + size, many)
    <3>1. k + 1 \in 1..total /\ (k + 1) - 1 = k
      BY <1>1
    <3>2. a \in Nat /\ a < many /\ s[k + 1] = SubSeq(items, a + 1, b)
      <4>1. /\ Listings!Paginate(items, size, k + 1).items =
                   SubSeq(items, ((k + 1) - 1) * size + 1,
                          Listings!Smaller(((k + 1) - 1) * size + size, many))
            /\ ((k + 1) - 1) * size \in Nat /\ ((k + 1) - 1) * size < many
        BY <1>2, <3>1
      <4> QED BY <1>4, <1>10, <3>1, <4>1
    <3>3. (k + 1) * size = a + size
      OBVIOUS
    <3> HIDE DEF a
    <3>4. Listings!Smaller(a, many) = a /\ b \in a..many
      BY <1>1, <3>2 DEF Listings!Smaller
    <3>5. r[k] = SubSeq(items, 1, a)
      BY <1>1, <2>2, <3>4 DEF a
    <3>6. r[k + 1] = r[k] \o s[k + 1]
      BY <1>4, <1>8, <1>10, <3>1
    <3> HIDE DEF b
    <3>7. SubSeq(items, 1, a) \o SubSeq(items, a + 1, b) = SubSeq(items, 1, b)
      <4>1. 1 \in 1..Len(items) + 1 /\ a \in 1 - 1..Len(items) /\ b \in a..Len(items)
        BY <1>1, <3>2, <3>4 DEF many
      <4> QED BY <4>1, ConcatAdjacentSubSeq
    <3> QED BY <3>2, <3>3, <3>5, <3>6, <3>7 DEF b
  <2>3. Nat \subseteq ns
    <3> HIDE DEF ns
    <3> QED BY <2>1, <2>2, Counting
  <2>4. r[total] = SubSeq(items, 1, Listings!Smaller(total * size, many))
    <3>1. total \in ns
      BY <1>1, <2>3
    <3> QED BY <1>1, <3>1
  <2>5. Listings!Smaller(total * size, many) = many
    <3>1. total * size \in Int
      BY <1>1
    <3> QED BY <1>1, <3>1 DEF Listings!Smaller
  <2>6. SubSeq(items, 1, many) = items
    BY SubSeqFull DEF many
  <2> QED BY <1>4, <1>8, <1>10, <2>4, <2>5, <2>6
<1> QED BY <1>9, <1>10

(* loadPosts takes what is no draft.                                       *)
LEMMA PostsTaken ==
    ASSUME NEW X, NEW texts \in Seq(PostFiles(X))
    PROVE  /\ Listings!Posts(texts) \in Seq(PostFiles(X))
           /\ Listings!ToSet(Listings!Posts(texts)) = {f \in Listings!ToSet(texts) : ~f.draft}
           /\ Unlike(texts) => Unlike(Listings!Posts(texts))
<1> DEFINE Y == PostFiles(X)
           M == {texts[i] : i \in 1..Len(texts)}
           S == {f \in M : ~f.draft}
           w == Where(texts, S)
<1>1. texts \in Seq(Y) /\ Listings!ToSet(texts) = M
  BY ListingsToSet
<1>2. Listings!Posts(texts) = w
  BY <1>1, ListingsWhere DEF Listings!Posts
<1>3. \A i \in 1..Len(texts) : texts[i] \in M
  OBVIOUS
<1>4. \A x \in M : \E i \in 1..Len(texts) : texts[i] = x
  OBVIOUS
<1>5. \A x : x \in S <=> x \in M /\ ~x.draft
  OBVIOUS
<1> HIDE DEF Y, M, S, w
<1>6. w \in Seq(Y) /\ (Unlike(texts) => Unlike(w))
  <2>1. w \in Seq(Y)
    BY <1>1, WhereTyped DEF w
  <2>2. Unlike(texts) => Unlike(w)
    BY <1>1, WhereUnlike DEF w
  <2> QED BY <2>1, <2>2
<1>7. \A i \in 1..Len(texts) : texts[i] \in S => \E j \in 1..Len(w) : w[j] = texts[i]
  <2>1. TakesAll(w, texts, Y, S)
    BY <1>1, WhereTakes DEF w
  <2> QED BY <2>1 DEF TakesAll
<1>8. \A j \in 1..Len(w) : w[j] \in S
  BY <1>1, WhereFrom DEF w
<1>9. Listings!ToSet(w) = {w[j] : j \in 1..Len(w)}
  BY <1>6, ListingsToSet
<1>10. \A x : x \in Listings!ToSet(w) <=> x \in S
  BY <1>4, <1>5, <1>7, <1>8, <1>9
<1>11. Listings!ToSet(w) = {f \in M : ~f.draft}
  BY <1>5, <1>10
<1> QED BY <1>1, <1>2, <1>6, <1>11 DEF Y

(* The names of a post that lead to a tag.                                 *)
LEMMA NamesFound ==
    ASSUME NEW X, NEW post \in PostFiles(X), NEW t
    PROVE  LET k == Listings!Names(post, t)
           IN /\ k \in Seq(X) /\ Len(k) \in Nat
              /\ Len(k) > 0 <=> \E j \in DOMAIN post.tags : SlugOfTag[post.tags[j]] = t
              /\ Listings!NoTagTwice(post) => Len(k) <= 1
<1> DEFINE tags == post.tags
           S == {name \in Listings!ToSet(tags) : SlugOfTag[name] = t}
           w == Where(tags, S)
<1>1. tags \in Seq(X) /\ DOMAIN tags = 1..Len(tags)
  BY DEF PostFiles
<1>2. Listings!Names(post, t) = w
  BY ListingsWhere DEF Listings!Names
<1>3. /\ \A name \in S : SlugOfTag[name] = t
      /\ \A j \in 1..Len(tags) : SlugOfTag[tags[j]] = t => tags[j] \in S
  BY <1>1, ListingsToSet
<1>4. Listings!NoTagTwice(post) <=>
         \A i, j \in 1..Len(tags) : i # j => SlugOfTag[tags[i]] # SlugOfTag[tags[j]]
  BY <1>1 DEF Listings!NoTagTwice
<1> HIDE DEF S, w, tags
<1>5. w \in Seq(X) /\ Len(w) \in Nat
  BY <1>1, WhereTyped, LenProperties DEF w
<1>6. \A i \in 1..Len(tags) : tags[i] \in S => \E j \in 1..Len(w) : w[j] = tags[i]
  BY <1>1, WhereTakes, Zenon DEF TakesAll, w
<1>7. \A j \in 1..Len(w) : w[j] \in S /\ \E i \in 1..Len(tags) : w[j] = tags[i]
  BY <1>1, WhereFrom DEF w
<1>8. Len(w) > 0 <=> \E j \in 1..Len(tags) : SlugOfTag[tags[j]] = t
  <2>1. ASSUME Len(w) > 0 PROVE \E j \in 1..Len(tags) : SlugOfTag[tags[j]] = t
    <3>1. 1 \in 1..Len(w)
      BY <1>5, <2>1
    <3> QED BY <1>3, <1>7, <3>1
  <2>2. ASSUME NEW j \in 1..Len(tags), SlugOfTag[tags[j]] = t PROVE Len(w) > 0
    <3>1. PICK i \in 1..Len(w) : w[i] = tags[j]
      BY <1>3, <1>6, <2>2
    <3> QED BY <1>5, <3>1
  <2> QED BY <2>1, <2>2
<1>9. ASSUME Listings!NoTagTwice(post) PROVE Len(w) <= 1
  <2> SUFFICES ASSUME Len(w) > 1 PROVE FALSE
    BY <1>5
  <2>1. 1 \in 1..Len(w) /\ 2 \in 1..Len(w)
    BY <1>5
  <2>2. PICK i \in 1..Len(tags) : w[1] = tags[i]
    BY <1>7, <2>1
  <2>3. PICK j \in 1..Len(tags) : w[2] = tags[j]
    BY <1>7, <2>1
  <2>4. SlugOfTag[tags[i]] = t /\ SlugOfTag[tags[j]] = t
    BY <1>3, <1>7, <2>1, <2>2, <2>3
  <2>5. i = j
    BY <1>4, <1>9, <2>4
  <2>6. Unlike(tags)
    BY <1>4, <1>9 DEF Unlike
  <2>7. Unlike(w)
    BY <1>1, <2>6, WhereUnlike DEF w
  <2> QED BY <2>1, <2>2, <2>3, <2>5, <2>7 DEF Unlike
<1> QED BY <1>1, <1>2, <1>5, <1>8, <1>9 DEF tags

(* The posts of a tag: those that carry it, once each if no post carries   *)
(* it twice.                                                               *)
LEMMA TaggedFound ==
    ASSUME NEW X, NEW texts \in Seq(PostFiles(X)), NEW t
    PROVE  LET all == Listings!Tagged(texts, t)
           IN /\ Listings!ToSet(all) =
                    {f \in Listings!ToSet(texts) :
                        ~f.draft /\ \E j \in DOMAIN f.tags : SlugOfTag[f.tags[j]] = t}
              /\ all = <<>> => Listings!ToSet(all) = {}
              /\ Unlike(texts) /\ (\A f \in Listings!ToSet(texts) : Listings!NoTagTwice(f)) =>
                    Listings!Once(all)
<1> DEFINE Y == PostFiles(X)
           P == Listings!Posts(texts)
           num == Len(P)
           K(i) == Listings!Names(P[i], t)
           s == [i \in 1..num |-> [j \in 1..Len(K(i)) |-> P[i]]]
           all == Listings!Tagged(texts, t)
           Carries(f) == \E j \in DOMAIN f.tags : SlugOfTag[f.tags[j]] = t
<1>1. /\ P \in Seq(Y)
      /\ Listings!ToSet(P) = {f \in Listings!ToSet(texts) : ~f.draft}
      /\ Unlike(texts) => Unlike(P)
  BY PostsTaken
<1> HIDE DEF P, Y
<1>2. num \in Nat /\ DOMAIN P = 1..num /\ \A i \in 1..num : P[i] \in Y
  BY <1>1, LenProperties, ElementOfSeq
<1>3. ASSUME NEW i \in 1..num
      PROVE  /\ Len(K(i)) \in Nat /\ DOMAIN K(i) = 1..Len(K(i))
             /\ Len(K(i)) > 0 <=> Carries(P[i])
             /\ Listings!NoTagTwice(P[i]) => Len(K(i)) <= 1
  <2>1. ASSUME NEW post \in PostFiles(X), NEW k, k = Listings!Names(post, t)
        PROVE  /\ Len(k) \in Nat /\ DOMAIN k = 1..Len(k)
               /\ Len(k) > 0 <=> \E j \in DOMAIN post.tags : SlugOfTag[post.tags[j]] = t
               /\ Listings!NoTagTwice(post) => Len(k) <= 1
    BY <2>1, NamesFound, LenProperties
  <2> QED BY <1>2, <2>1 DEF Y
<1>4. all = Listings!FlattenSeq(s)
  BY <1>2, <1>3 DEF Listings!Tagged, P
<1>5. /\ s \in Seq(Seq(Y)) /\ Len(s) = num
      /\ \A i \in 1..num : /\ s[i] = [j \in 1..Len(K(i)) |-> P[i]]
                           /\ Len(s[i]) = Len(K(i))
                           /\ \A j \in 1..Len(s[i]) : s[i][j] = P[i]
  <2>1. ASSUME NEW m \in Nat, NEW x \in Y, NEW l, l = [j \in 1..m |-> x]
        PROVE  l \in Seq(Y) /\ Len(l) = m /\ \A j \in 1..m : l[j] = x
    <3>1. l \in [1..m -> Y]
      BY <2>1
    <3>2. l \in Seq(Y) /\ Len(l) = m
      BY <3>1, LenProperties, SeqDef
    <3> QED BY <2>1, <3>2
  <2> HIDE DEF num, K
  <2>2. \A i \in 1..num : s[i] = [j \in 1..Len(K(i)) |-> P[i]]
    OBVIOUS
  <2>3. s = [i \in 1..num |-> s[i]]
    OBVIOUS
  <2> HIDE DEF s
  <2>4. \A i \in 1..num : /\ s[i] \in Seq(Y) /\ Len(s[i]) = Len(K(i))
                          /\ \A j \in 1..Len(s[i]) : s[i][j] = P[i]
    <3> SUFFICES ASSUME NEW i \in 1..num
                 PROVE  /\ s[i] \in Seq(Y) /\ Len(s[i]) = Len(K(i))
                        /\ \A j \in 1..Len(s[i]) : s[i][j] = P[i]
      OBVIOUS
    <3> DEFINE m == Len(K(i))
    <3>1. m \in Nat /\ P[i] \in Y /\ s[i] = [j \in 1..m |-> P[i]]
      BY <1>2, <1>3, <2>2
    <3> HIDE DEF m
    <3>2. s[i] \in Seq(Y) /\ Len(s[i]) = m /\ \A j \in 1..m : s[i][j] = P[i]
      BY <2>1, <3>1
    <3> QED BY <3>2 DEF m
  <2>5. s \in [1..num -> Seq(Y)]
    BY <2>3, <2>4
  <2> DEFINE D == Seq(Y)
  <2>6. ASSUME NEW q \in [1..num -> D] PROVE q \in Seq(D) /\ Len(q) = num
    <3> HIDE DEF D
    <3>1. num \in Nat
      BY <1>2 DEF num
    <3> QED BY <3>1, LenProperties, SeqDef
  <2> QED BY <2>2, <2>4, <2>5, <2>6, Zenon
<1> HIDE DEF s, K, Carries, num, all
<1>6. \A x : /\ all \in Seq(Y)
             /\ x \in Listings!ToSet(all) <=>
                  \E i \in 1..num : \E j \in 1..Len(s[i]) : s[i][j] = x
  <2>0. s \in Rows(Y)
    BY <1>5 DEF Rows
  <2>1. Len(s) = num
    BY <1>5
  <2>2. ASSUME NEW x
        PROVE  /\ Listings!FlattenSeq(s) \in Seq(Y)
               /\ x \in Listings!ToSet(Listings!FlattenSeq(s)) <=>
                     \E i \in 1..Len(s) : \E j \in 1..Len(s[i]) : s[i][j] = x
    BY ONLY <2>0, FlattenMembers
  <2> QED BY <1>4, <2>1, <2>2
<1>7. ASSUME NEW i \in 1..num, NEW x
      PROVE  (\E j \in 1..Len(s[i]) : s[i][j] = x) <=> P[i] = x /\ Carries(x)
  <2>1. Len(s[i]) \in Nat /\ (Len(s[i]) > 0 <=> Carries(P[i]))
    BY <1>3, <1>5
  <2>2. \A j \in 1..Len(s[i]) : s[i][j] = P[i]
    BY <1>5
  <2>3. ASSUME NEW j \in 1..Len(s[i]), s[i][j] = x PROVE P[i] = x /\ Carries(x)
    <3>1. Len(s[i]) > 0
      BY <2>1
    <3> QED BY <2>1, <2>2, <2>3, <3>1
  <2>4. ASSUME P[i] = x, Carries(x) PROVE \E j \in 1..Len(s[i]) : s[i][j] = x
    <3>1. 1 \in 1..Len(s[i])
      BY <2>1, <2>4
    <3> QED BY <2>2, <2>4, <3>1
  <2> QED BY <2>3, <2>4
<1>8. \A x : x \in Listings!ToSet(all) <=> \E i \in 1..num : P[i] = x /\ Carries(x)
  <2>1. \A x : \A i \in 1..num :
           (\E j \in 1..Len(s[i]) : s[i][j] = x) <=> P[i] = x /\ Carries(x)
    BY <1>7
  <2> QED BY <1>6, <2>1
<1>9. \A x : x \in Listings!ToSet(P) <=> \E i \in 1..num : P[i] = x
  BY <1>1, ListingsToSet DEF num
<1>10. Listings!ToSet(all) = {f \in Listings!ToSet(texts) : ~f.draft /\ Carries(f)}
  BY <1>1, <1>8, <1>9
<1>11. all = <<>> => Listings!ToSet(all) = {}
  <2>1. Listings!ToSet(all) = {all[i] : i \in 1..Len(all)}
    BY <1>6, ListingsToSet
  <2> QED BY <2>1
<1>12. ASSUME Unlike(texts), \A f \in Listings!ToSet(texts) : Listings!NoTagTwice(f)
       PROVE  Listings!Once(all)
  <2> DEFINE S == {f \in Y : Carries(f)}
  <2>1. ASSUME NEW i \in 1..num
        PROVE  s[i] = IF P[i] \in S THEN << P[i] >> ELSE <<>>
    <3>1. Listings!NoTagTwice(P[i])
      BY <1>1, <1>9, <1>12
    <3>5. P[i] \in S <=> Carries(P[i])
      BY <1>2
    <3> HIDE DEF S
    <3>6. /\ Len(K(i)) \in Nat /\ (Len(K(i)) > 0 <=> Carries(P[i]))
          /\ Len(K(i)) <= 1
      BY <1>3, <3>1
    <3>2. Len(K(i)) \in {0, 1} /\ (Len(K(i)) = 1 <=> P[i] \in S)
      <4> DEFINE m == Len(K(i))
      <4>1. m \in Nat /\ (m > 0 <=> Carries(P[i])) /\ m <= 1
        BY <3>6
      <4> HIDE DEF m
      <4>2. m \in {0, 1} /\ (m = 1 <=> P[i] \in S)
        BY <3>5, <4>1
      <4> QED BY <4>2 DEF m
    <3>3. CASE P[i] \in S
      <4>1. s[i] = [j \in 1..1 |-> P[i]]
        BY <1>5, <3>2, <3>3
      <4> QED BY <3>3, <4>1
    <3>4. CASE P[i] \notin S
      <4>1. s[i] = [j \in 1..0 |-> P[i]]
        BY <1>5, <3>2, <3>4
      <4> QED BY <3>4, <4>1
    <3> QED BY <3>3, <3>4
  <2>2. PICK r \in [0..num -> Seq(Y)] : JoinsEach(r, s, num)
    BY <1>5, FlattenTurns
  <2>3. PICK w \in [0..num -> Seq(Y)] : TakesEach(w, P, num, S)
    <3> HIDE DEF S
    <3> QED BY <1>1, WhereTurns DEF num
  <2> HIDE DEF S
  <2>4. /\ r[0] = <<>> /\ w[0] = <<>> /\ all = r[num] /\ Where(P, S) = w[num]
        /\ \A k \in 1..num : r[k] = r[k - 1] \o s[k]
        /\ \A k \in 1..num : w[k] = IF P[k] \in S THEN Append(w[k - 1], P[k]) ELSE w[k - 1]
    BY <1>4, <2>2, <2>3 DEF JoinsEach, TakesEach
  <2>5. ASSUME NEW k \in 1..num, r[k - 1] = w[k - 1] PROVE r[k] = w[k]
    <3>1. k - 1 \in 0..num /\ r[k - 1] \in Seq(Y)
      BY <1>2
    <3>2. CASE P[k] \in S
      <4>1. r[k] = r[k - 1] \o << P[k] >>
        BY <2>1, <2>4, <3>2
      <4>2. Append(r[k - 1], P[k]) = r[k - 1] \o << P[k] >>
        BY <1>2, <3>1, AppendIsConcat
      <4> QED BY <2>4, <2>5, <3>2, <4>1, <4>2
    <3>3. CASE P[k] \notin S
      <4>1. r[k] = r[k - 1] \o <<>>
        BY <2>1, <2>4, <3>3
      <4>2. r[k - 1] \o <<>> = r[k - 1]
        BY <3>1, ConcatEmptySeq
      <4> QED BY <2>4, <2>5, <3>3, <4>1, <4>2
    <3> QED BY <3>2, <3>3
  <2> DEFINE ns == {k \in Nat : k <= num => r[k] = w[k]}
  <2>6. 0 \in ns
    BY <2>4
  <2>7. ASSUME NEW k \in Nat, k \in ns PROVE k + 1 \in ns
    <3> SUFFICES ASSUME k + 1 <= num PROVE r[k + 1] = w[k + 1]
      OBVIOUS
    <3>1. k + 1 \in 1..num /\ (k + 1) - 1 = k /\ r[k] = w[k]
      BY <1>2, <2>7
    <3> QED BY <2>5, <3>1
  <2>8. num \in ns
    <3> HIDE DEF ns
    <3>1. Nat \subseteq ns
      BY <2>6, <2>7, Counting
    <3> QED BY <1>2, <3>1
  <2>9. all = Where(P, S)
    BY <1>2, <2>4, <2>8
  <2>10. Unlike(all)
    BY <1>1, <1>12, <2>9, WhereUnlike
  <2>11. Listings!Cardinality(Listings!ToSet(all)) = Len(all)
    BY <1>6, <2>10, UnlikeCounted, ListingsCount
  <2> QED BY <2>11 DEF Listings!Once
<1> QED BY <1>10, <1>11, <1>12 DEF all, Carries

(* A slug in the list leads to a post.                                     *)
LEMMA SlugFound ==
    ASSUME NEW X, NEW s \in Seq(X), NEW f \in Listings!ToSet(s)
    PROVE  Listings!BySlug(s, f.slug) # <<>>
<1> DEFINE num == Len(s)
           I == {i \in 1..num : s[i].slug = f.slug}
           at == Listings!SelectLastInSeq(s, LAMBDA x : x.slug = f.slug)
<1>1. num \in Nat /\ \E i \in 1..num : s[i] = f
  BY ListingsToSet
<1>2. I # {} /\ \A i \in I : i \in 1..num
  BY <1>1
<1>3. at = IF I # {} THEN Listings!Max(I) ELSE 0
  BY DEF Listings!SelectLastInSeq
<1> HIDE DEF I, num
<1>4. \E x \in I : \A y \in I : x >= y
  <2> DEFINE J == {num - i : i \in I}
  <2>1. J \in SUBSET Nat /\ J # {}
    <3>1. ASSUME NEW i \in I PROVE num - i \in Nat
      <4>1. i \in 1..num /\ num \in Nat
        BY <1>1, <1>2
      <4>2. \A a \in Nat : \A b \in 1..a : a - b \in Nat
        OBVIOUS
      <4> QED BY <4>1, <4>2
    <3> QED BY <1>2, <3>1
  <2>2. PICK m \in J : \A k \in J : m <= k
    <3> HIDE DEF J
    <3> QED BY <2>1, LeastNumber
  <2>3. PICK x \in I : m = num - x
    OBVIOUS
  <2>4. \A y \in I : num - x <= num - y
    BY <2>2, <2>3
  <2>5. \A y \in I : x >= y
    BY <1>1, <1>2, <2>4
  <2> QED BY <2>5
<1>5. Listings!Max(I) \in I
  BY <1>4 DEF Listings!Max
<1>6. at # 0
  BY <1>2, <1>3, <1>5
<1> QED BY <1>6 DEF Listings!BySlug

LEMMA LenOfFunction ==
    ASSUME NEW num \in Nat, NEW D, NEW s \in [1..num -> D]
    PROVE  Len(s) = num
OBVIOUS

LEMMA FilesTyped ==
    ASSUME NEW X, NEW s \in Seq(PostFiles(X))
    PROVE  /\ Len(s) \in Nat /\ DOMAIN s = 1..Len(s)
           /\ \A i \in 1..Len(s) : s[i].date \in Int /\ s[i].draft \in BOOLEAN
<1> DEFINE Y == PostFiles(X)
<1>1. \A f \in Y : f.date \in Int /\ f.draft \in BOOLEAN
  BY DEF PostFiles
<1> HIDE DEF Y
<1>2. ASSUME NEW v \in Seq(Y)
      PROVE  Len(v) \in Nat /\ DOMAIN v = 1..Len(v) /\ \A i \in 1..Len(v) : v[i] \in Y
  OBVIOUS
<1>3. s \in Seq(Y)
  BY DEF Y
<1> QED BY <1>1, <1>2, <1>3

(* What a reader finds who pages through a list.                           *)
LEMMA ReadersSee ==
    ASSUME Window \in Nat, Around \in Nat, 2 * Around < Window,
           NEW T, NEW all \in Seq(T), NEW size \in Nat \ {0}, NEW asked \in Int
    PROVE  LET last == Listings!Larger(1, Listings!TotalPages(Len(all), size))
               page(p) == Listings!Paginate(all, size, p)
           IN /\ last \in Nat
              /\ page(asked).page \in 1..last
              /\ page(page(asked).page) = page(asked)
              /\ \A p \in 1..last :
                    /\ p < last <=> page(p).next = p + 1
                    /\ page(p).next # 0 => page(page(p).next).prev = p
                    /\ page(p).links # <<>> =>
                          /\ p \in Listings!ToSet(page(p).links)
                          /\ Listings!ToSet(page(p).links) \subseteq 1..last
                          /\ \A i \in 1..Len(page(p).links) - 1 :
                                page(p).links[i + 1] = page(p).links[i] + 1
                    /\ page(p).items = <<>> => all = <<>>
<1> DEFINE total   == Listings!TotalPages(Len(all), size)
           last    == Listings!Larger(1, total)
           page(p) == Listings!Paginate(all, size, p)
<1>1. Len(all) \in Nat /\ total \in Nat /\ (total = 0 <=> Len(all) = 0)
  <2>1. Len(all) \in Nat
    OBVIOUS
  <2> QED BY <2>1, EnoughPages
<1>2. /\ page(asked).page \in 1..last
      /\ page(page(asked).page) = page(asked)
      /\ \A p \in 1..total :
            /\ page(p).page = p
            /\ p < total <=> page(p).next = p + 1
            /\ page(p).next # 0 => page(page(p).next).prev = p
            /\ page(p).links # <<>> =>
                  /\ p \in Listings!ToSet(page(p).links)
                  /\ Listings!ToSet(page(p).links) \subseteq 1..total
                  /\ \A i \in 1..Len(page(p).links) - 1 :
                        page(p).links[i + 1] = page(p).links[i] + 1
  <2>1. WellPaged(all, size, asked)
    BY PagesWalk
  <2> QED BY <2>1 DEF WellPaged
<1>3. ASSUME NEW p \in 1..total PROVE page(p).items # <<>>
  <2>1. IsPage(all, size, p)
    BY <1>3, PageCut
  <2>2. Len(page(p).items) \in 1..size
    BY <2>1 DEF IsPage
  <2> HIDE DEF page
  <2>3. Len(<<>>) = 0
    OBVIOUS
  <2>4. Len(page(p).items) # 0
    BY <2>2
  <2> QED BY <2>3, <2>4
<1>4. CASE total = 0
  <2>1. all = <<>> /\ last = 1 /\ Len(all) = 0
    BY <1>1, <1>4, EmptySeq DEF Listings!Larger
  <2>2. page(1).next = 0 /\ page(1).links = <<>>
    BY <1>4, <2>1 DEF Listings!Paginate
  <2> HIDE DEF page, total, last
  <2>3. \A p \in 1..last : p = 1
    BY <2>1
  <2> QED BY <1>2, <2>1, <2>2, <2>3 DEF page, total, last
<1>5. CASE total # 0
  <2>1. last = total
    BY <1>1, <1>5 DEF Listings!Larger
  <2> HIDE DEF page, total, last
  <2> QED BY <1>1, <1>2, <1>3, <2>1 DEF page, total, last
<1> QED BY <1>4, <1>5

(* What a reader sees who walks through the pages of one order of the      *)
(* posts: the first part of PagesCover.                                    *)
WalkShows(texts, all, size, asked, walk, read) ==
    /\ Listings!Once(read)
    /\ Listings!ToSet(read) = {f \in Listings!ToSet(texts) : ~f.draft}
    /\ \A i, j \in DOMAIN read : i < j => read[i].date >= read[j].date
    /\ Listings!Paginate(all, size, asked) =
          walk[Listings!Paginate(all, size, asked).page]
    /\ \A p \in DOMAIN walk :
          /\ p < Len(walk) <=> walk[p].next = p + 1
          /\ walk[p].next # 0 =>
                Listings!Paginate(all, size, walk[p].next).prev = p
          /\ walk[p].links # <<>> =>
                /\ p \in Listings!ToSet(walk[p].links)
                /\ Listings!ToSet(walk[p].links) \subseteq DOMAIN walk
                /\ \A i \in 1..Len(walk[p].links) - 1 :
                      walk[p].links[i + 1] = walk[p].links[i] + 1
          /\ walk[p].items = <<>> =>
                texts = <<>> \/ \A f \in Listings!ToSet(texts) : f.draft

(* The first part of PagesCover, for one order of the posts.               *)
LEMMA ListRead ==
    ASSUME Window \in Nat, Around \in Nat, 2 * Around < Window,
           NEW X, NEW texts \in Seq(PostFiles(X)), Unlike(texts),
           NEW size \in Nat \ {0}, NEW asked \in Int,
           NEW all \in Listings!Sorted(Listings!Posts(texts)),
           NEW walk, walk = [p \in 1..Listings!Larger(1, Listings!TotalPages(Len(all), size)) |->
                                Listings!Paginate(all, size, p)],
           NEW read, read = Listings!FlattenSeq([p \in DOMAIN walk |-> walk[p].items])
    PROVE  WalkShows(texts, all, size, asked, walk, read)
<1> DEFINE Y == PostFiles(X)
           P == Listings!Posts(texts)
           page(p) == Listings!Paginate(all, size, p)
           last == Listings!Larger(1, Listings!TotalPages(Len(all), size))
           items == [p \in 1..last |-> page(p).items]
<1>1. /\ P \in Seq(Y) /\ Unlike(P)
      /\ Listings!ToSet(P) = {f \in Listings!ToSet(texts) : ~f.draft}
  BY PostsTaken
<1>2. /\ all \in Seq(Y) /\ Unlike(all)
      /\ Listings!ToSet(all) = Listings!ToSet(P)
      /\ \A i \in 1..Len(all) - 1 : all[i].date >= all[i + 1].date
  <2> HIDE DEF Y
  <2>1. ASSUME NEW s \in Seq(Y), Unlike(s), NEW t \in Listings!Sorted(s)
        PROVE  /\ t \in Seq(Y) /\ Unlike(t)
               /\ Listings!ToSet(t) = Listings!ToSet(s)
               /\ \A i \in 1..Len(t) - 1 : t[i].date >= t[i + 1].date
    BY <2>1, SortedWhole
  <2> HIDE DEF P
  <2>2. all \in Listings!Sorted(P)
    BY DEF P
  <2> QED BY <1>1, <2>1, <2>2
<1>3. /\ last \in Nat
      /\ page(asked).page \in 1..last
      /\ page(page(asked).page) = page(asked)
      /\ \A p \in 1..last :
            /\ p < last <=> page(p).next = p + 1
            /\ page(p).next # 0 => page(page(p).next).prev = p
            /\ page(p).links # <<>> =>
                  /\ p \in Listings!ToSet(page(p).links)
                  /\ Listings!ToSet(page(p).links) \subseteq 1..last
                  /\ \A i \in 1..Len(page(p).links) - 1 :
                        page(p).links[i + 1] = page(p).links[i] + 1
            /\ page(p).items = <<>> => all = <<>>
  <2> HIDE DEF Y
  <2> QED BY <1>2, ReadersSee
<1>4. read = all
  <2>1. DOMAIN walk = 1..last /\ \A p \in 1..last : walk[p] = page(p)
    OBVIOUS
  <2>2. read = Listings!FlattenSeq(items)
    BY <2>1
  <2>3. Listings!FlattenSeq(items) = all
    <3> HIDE DEF Y
    <3>1. ASSUME NEW num \in Nat, num = last, NEW s, s = [p \in 1..num |-> page(p).items]
          PROVE  Listings!FlattenSeq(s) = all
      BY <1>2, <3>1, PagesJoined
    <3> QED BY <1>3, <3>1
  <2> QED BY <2>2, <2>3
<1>5. /\ DOMAIN walk = 1..last /\ Len(walk) = last
      /\ \A p \in 1..last : walk[p] = page(p)
  <2>1. DOMAIN walk = 1..last /\ \A p \in 1..last : walk[p] = page(p)
    OBVIOUS
  <2>2. walk \in [1..last -> {page(p) : p \in 1..last}]
    OBVIOUS
  <2> HIDE DEF last, page
  <2>3. Len(walk) = last
    BY <1>3, <2>2, LenOfFunction
  <2> QED BY <2>1, <2>3
<1> HIDE DEF P, page, last
<1>6. Listings!Once(read)
  <2> HIDE DEF Y
  <2> QED BY <1>2, <1>4, UnlikeCounted, ListingsCount DEF Listings!Once
<1>7. Listings!ToSet(read) = {f \in Listings!ToSet(texts) : ~f.draft}
  BY <1>1, <1>2, <1>4
<1>8. \A i, j \in DOMAIN read : i < j => read[i].date >= read[j].date
  <2> DEFINE num == Len(all)
             d == [i \in 1..num |-> all[i].date]
  <2>1. num \in Nat /\ DOMAIN all = 1..num /\ \A i \in 1..num : all[i].date \in Int
    <3> HIDE DEF Y
    <3> QED BY <1>2, FilesTyped DEF Y
  <2>2. d \in [1..num -> Int] /\ \A i \in 1..num - 1 : d[i] >= d[i + 1]
    <3>1. \A i \in 1..num - 1 : i \in 1..num /\ i + 1 \in 1..num
      BY <2>1
    <3> HIDE DEF num
    <3> QED BY <1>2, <2>1, <3>1 DEF num
  <2>3. \A i \in 1..num : d[i] = all[i].date
    OBVIOUS
  <2> HIDE DEF num, d
  <2>4. \A i, j \in 1..num : i < j => d[i] >= d[j]
    BY <2>1, <2>2, Descending
  <2> QED BY <1>4, <2>1, <2>3, <2>4
<1>9. page(asked) = walk[page(asked).page]
  BY <1>3, <1>5
<1>10. all = <<>> => \A f \in Listings!ToSet(texts) : f.draft
  <2>1. ASSUME all = <<>> PROVE Listings!ToSet(all) = {}
    <3>1. Listings!ToSet(all) = {all[i] : i \in 1..Len(all)}
      BY <1>2, ListingsToSet
    <3> QED BY <2>1, <3>1
  <2>2. Listings!ToSet(texts) = {texts[i] : i \in 1..Len(texts)}
    BY ListingsToSet
  <2>3. \A f \in Listings!ToSet(texts) : f.draft \in BOOLEAN
    BY <2>2, FilesTyped
  <2> QED BY <1>1, <1>2, <2>1, <2>3
<1>11. ASSUME NEW p \in DOMAIN walk
       PROVE  /\ p < Len(walk) <=> walk[p].next = p + 1
              /\ walk[p].next # 0 => page(walk[p].next).prev = p
              /\ walk[p].links # <<>> =>
                    /\ p \in Listings!ToSet(walk[p].links)
                    /\ Listings!ToSet(walk[p].links) \subseteq DOMAIN walk
                    /\ \A i \in 1..Len(walk[p].links) - 1 :
                          walk[p].links[i + 1] = walk[p].links[i] + 1
              /\ walk[p].items = <<>> =>
                    texts = <<>> \/ \A f \in Listings!ToSet(texts) : f.draft
  <2>1. p \in 1..last /\ walk[p] = page(p) /\ DOMAIN walk = 1..last /\ Len(walk) = last
    BY <1>5, <1>11
  <2>2. page(p).items = <<>> => texts = <<>> \/ \A f \in Listings!ToSet(texts) : f.draft
    BY <1>3, <1>10, <2>1
  <2> DEFINE here == page(p)
  <2>3. /\ p < last <=> here.next = p + 1
        /\ here.next # 0 => page(here.next).prev = p
        /\ here.links # <<>> =>
              /\ p \in Listings!ToSet(here.links)
              /\ Listings!ToSet(here.links) \subseteq 1..last
              /\ \A i \in 1..Len(here.links) - 1 : here.links[i + 1] = here.links[i] + 1
    BY <1>3, <2>1
  <2>4. walk[p] = here
    BY <2>1
  <2> HIDE DEF here
  <2> QED BY ONLY <2>1, <2>2, <2>3, <2>4, Zenon DEF here
<1> QED BY <1>6, <1>7, <1>8, <1>9, <1>11 DEF WalkShows, page

(* PagesCover, for files of any number with any dates and tags, pages of   *)
(* any size and any page asked for. Files have different names.            *)
THEOREM PagesAlwaysCover ==
    ASSUME Window \in Nat, Around \in Nat, 2 * Around < Window,
           NEW X, NEW W,
           input \in {"list"} \X [files : {s \in Seq(PostFiles(X)) :
                                             \A i, j \in DOMAIN s : s[i].file = s[j].file => i = j},
                                 size : Nat \ {0}, asked : Int, described : SUBSET W]
    PROVE  PagesCover
<1> DEFINE l == input[2]
           texts == l.files
           size == l.size
           asked == l.asked
           described == l.described
           P == Listings!Posts(texts)
           Carries(f, t) == \E j \in DOMAIN f.tags : SlugOfTag[f.tags[j]] = t
<1>1. /\ texts \in Seq(PostFiles(X))
      /\ \A i, j \in DOMAIN texts : texts[i].file = texts[j].file => i = j
      /\ size \in Nat \ {0} /\ asked \in Int
  OBVIOUS
<1> HIDE DEF l, texts, size, asked, described
<1>2. Unlike(texts)
  <2>1. DOMAIN texts = 1..Len(texts)
    BY <1>1
  <2> QED BY <1>1, <2>1 DEF Unlike
<1>3. /\ P \in Seq(PostFiles(X))
      /\ Listings!ToSet(P) = {f \in Listings!ToSet(texts) : ~f.draft}
  BY <1>1, PostsTaken
<1>4. ASSUME NEW all \in Listings!Sorted(P),
             NEW walk, walk = [p \in 1..Listings!Larger(1, Listings!TotalPages(Len(all), size)) |->
                                  Listings!Paginate(all, size, p)],
             NEW read, read = Listings!FlattenSeq([p \in DOMAIN walk |-> walk[p].items])
      PROVE  WalkShows(texts, all, size, asked, walk, read)
  BY <1>1, <1>2, <1>4, ListRead
<1>5. ASSUME NEW t
      PROVE  /\ Listings!ToSet(Listings!Tagged(texts, t)) =
                   {f \in Listings!ToSet(texts) : ~f.draft /\ Carries(f, t)}
             /\ Listings!Tagged(texts, t) = <<>> =>
                   Listings!ToSet(Listings!Tagged(texts, t)) = {}
             /\ (\A f \in Listings!ToSet(texts) : Listings!NoTagTwice(f)) =>
                   Listings!Once(Listings!Tagged(texts, t))
  BY <1>1, <1>2, TaggedFound
<1>6. ASSUME NEW tags \in Listings!Tags(texts, described), NEW t \in Listings!ToSet(tags)
      PROVE  t \in described \/ \E f \in Listings!ToSet(P) : Carries(f, t)
  <2> DEFINE slugs == Listings!TagSlugs(texts, described)
  <2>1. t \in slugs
    <3>1. tags \in Listings!SetToSeqs(slugs)
      BY DEF Listings!Tags
    <3> HIDE DEF slugs
    <3>2. tags \in [1..Listings!Cardinality(slugs) -> slugs]
      BY <3>1 DEF Listings!SetToSeqs
    <3> QED BY <3>2 DEF Listings!ToSet
  <2>2. ASSUME t \notin described PROVE \E f \in Listings!ToSet(P) : Carries(f, t)
    <3>1. PICK f \in Listings!ToSet(P) :
             t \in {SlugOfTag[name] : name \in Listings!ToSet(f.tags)}
      BY <2>1, <2>2 DEF Listings!TagSlugs
    <3>2. PICK name \in Listings!ToSet(f.tags) : SlugOfTag[name] = t
      BY <3>1
    <3>3. PICK j \in DOMAIN f.tags : f.tags[j] = name
      BY <3>2 DEF Listings!ToSet
    <3> QED BY <3>1, <3>2, <3>3
  <2> QED BY <2>2
<1> HIDE DEF P, Carries
<1>7. ASSUME NEW tags \in Listings!Tags(texts, described), NEW t \in Listings!ToSet(tags)
      PROVE  Listings!Tagged(texts, t) # <<>> \/ t \in described
  <2>1. ASSUME t \notin described PROVE Listings!Tagged(texts, t) # <<>>
    <3>1. PICK f \in Listings!ToSet(P) : Carries(f, t)
      BY <1>6, <2>1
    <3>2. f \in Listings!ToSet(Listings!Tagged(texts, t))
      BY <1>3, <1>5, <3>1
    <3> QED BY <1>5, <3>2
  <2> QED BY <2>1
<1>8. ASSUME NEW f \in Listings!ToSet(texts), ~f.draft
      PROVE  Listings!BySlug(P, f.slug) # <<>>
  <2>1. f \in Listings!ToSet(P)
    BY <1>3, <1>8
  <2> QED BY <1>3, <2>1, SlugFound
<1>9. \A tags \in Listings!Tags(texts, described) : \A t \in Listings!ToSet(tags) :
         /\ Listings!ToSet(Listings!Tagged(texts, t)) =
               {f \in Listings!ToSet(texts) : ~f.draft /\ Carries(f, t)}
         /\ \/ Listings!Once(Listings!Tagged(texts, t))
            \/ \E f \in Listings!ToSet(texts) : ~Listings!NoTagTwice(f)
         /\ Listings!Tagged(texts, t) # <<>> \/ t \in described
  BY <1>5, <1>7
<1>10. \A f \in Listings!ToSet(texts) : ~f.draft => Listings!BySlug(P, f.slug) # <<>>
  BY <1>8
<1>11. Listings!PagesCover(texts, size, asked, described)
  <2>1. \A all \in Listings!Sorted(P) :
           LET walk == [p \in 1..Listings!Larger(1, Listings!TotalPages(Len(all), size)) |->
                           Listings!Paginate(all, size, p)]
               read == Listings!FlattenSeq([p \in DOMAIN walk |-> walk[p].items])
           IN WalkShows(texts, all, size, asked, walk, read)
    BY <1>4
  <2> QED BY <1>9, <1>10, <2>1 DEF Listings!PagesCover, WalkShows, P, Carries
<1> QED BY <1>11 DEF PagesCover, l, texts, size, asked, described

-----------------------------------------------------------------------------
(* The lists of module Permalinks are those of the lemmas.                 *)
LEMMA AddrFlatten == \A s : Addr!FlattenSeq(s) = Listings!FlattenSeq(s)
BY DEF Addr!FlattenSeq, Listings!FlattenSeq

(* Permalinks. Where an address ends when its last slashes do not count.   *)
NoSlash(t) == \A i \in 1..Len(t) : t[i] # "/"

EndsAt(t, num) ==
    /\ num \in 0..Len(t)
    /\ \A i \in num + 1..Len(t) : t[i] = "/"
    /\ num > 0 => t[num] # "/"

LEMMA EndsOnce ==
    ASSUME NEW X, NEW t \in Seq(X), NEW num, NEW other, EndsAt(t, num), EndsAt(t, other)
    PROVE  num = other
<1>1. Len(t) \in Nat /\ num \in 0..Len(t) /\ other \in 0..Len(t)
  BY DEF EndsAt
<1>2. ~(num < other) /\ ~(other < num)
  BY <1>1 DEF EndsAt
<1> QED BY <1>1, <1>2

(* samePermalinkPath compares up to where the addresses end.               *)
LEMMA ComparedToEnd ==
    ASSUME NEW X, NEW t \in Seq(X)
    PROVE  \E num \in 0..Len(t) :
              /\ EndsAt(t, num)
              /\ Addr!Comparable(t) = IF num = 0 THEN <<"/">> ELSE SubSeq(t, 1, num)
<1> DEFINE len == Len(t)
           I == {i \in 1..len : t[i] # "/"}
           IsEnd(at) == t[at] # "/" /\ \A i \in at + 1..len : t[i] = "/"
<1>1. len \in Nat /\ DOMAIN t = 1..len
  OBVIOUS
<1>2. CASE I = {}
  <2>1. EndsAt(t, 0) /\ \A i \in DOMAIN t : t[i] = "/"
    BY <1>1, <1>2 DEF EndsAt
  <2>2. Addr!Comparable(t) = <<"/">>
    BY <2>1 DEF Addr!Comparable
  <2> QED BY <1>1, <2>1, <2>2
<1>3. CASE I # {}
  <2> DEFINE J == {len - i : i \in I}
  <2>1. J \in SUBSET Nat /\ J # {}
    BY <1>1, <1>3
  <2>2. PICK m \in J : \A k \in J : m <= k
    <3> HIDE DEF J
    <3> QED BY <2>1, LeastNumber
  <2>3. PICK at \in I : m = len - at
    OBVIOUS
  <2>4. \A i \in I : i <= at
    <3> SUFFICES ASSUME NEW i \in I PROVE i <= at
      OBVIOUS
    <3>1. len - at <= len - i
      BY <2>2, <2>3
    <3> QED BY <1>1, <3>1
  <2>5. at \in 1..len /\ IsEnd(at)
    <3> SUFFICES ASSUME NEW i \in at + 1..len, t[i] # "/" PROVE FALSE
      BY <2>3
    <3>1. i \in I
      BY <1>1, <2>3
    <3> QED BY <1>1, <2>3, <2>4, <3>1
  <2>6. ASSUME NEW x \in 1..len, IsEnd(x) PROVE x = at
    BY <1>1, <2>5, <2>6
  <2>7. (CHOOSE x \in DOMAIN t : /\ t[x] # "/"
                                 /\ \A i \in x + 1..Len(t) : t[i] = "/") = at
    <3>1. (CHOOSE x \in 1..len : IsEnd(x)) = at
      <4> HIDE DEF IsEnd, len
      <4> QED BY <2>5, <2>6
    <3> QED BY <1>1, <3>1
  <2>8. Addr!Comparable(t) = SubSeq(t, 1, at)
    <3>1. ~\A i \in DOMAIN t : t[i] = "/"
      BY <1>1, <2>5
    <3> QED BY <2>7, <3>1 DEF Addr!Comparable
  <2>9. EndsAt(t, at) /\ at \in 0..len /\ at # 0
    BY <1>1, <2>5 DEF EndsAt
  <2> QED BY <2>8, <2>9
<1> QED BY <1>2, <1>3

LEMMA SameEnds ==
    ASSUME NEW X, NEW t \in Seq(X), NEW u \in Seq(X), Addr!Same(t, u),
           NEW num, NEW other, EndsAt(t, num), EndsAt(u, other), num # 0
    PROVE  num = other /\ \A i \in 1..num : t[i] = u[i]
<1>1. PICK x \in 0..Len(t) :
         /\ EndsAt(t, x)
         /\ Addr!Comparable(t) = IF x = 0 THEN <<"/">> ELSE SubSeq(t, 1, x)
  BY ComparedToEnd
<1>2. PICK y \in 0..Len(u) :
         /\ EndsAt(u, y)
         /\ Addr!Comparable(u) = IF y = 0 THEN <<"/">> ELSE SubSeq(u, 1, y)
  BY ComparedToEnd
<1>3. x = num /\ y = other
  BY <1>1, <1>2, EndsOnce
<1>4. Addr!Comparable(t) = Addr!Comparable(u)
  BY DEF Addr!Same
<1>5. num \in 1..Len(t) /\ t[num] # "/" /\ other \in 0..Len(u)
  BY DEF EndsAt
<1>6. /\ Addr!Comparable(t) = SubSeq(t, 1, num)
      /\ Len(SubSeq(t, 1, num)) = num
      /\ \A i \in 1..num : SubSeq(t, 1, num)[i] = t[i]
  BY <1>1, <1>3, <1>5
<1>7. CASE other = 0
  <2> DEFINE start == SubSeq(t, 1, num)
  <2>0. Len(start) = num /\ \A i \in 1..num : start[i] = t[i]
    BY <1>6
  <2>1. start = <<"/">>
    BY <1>2, <1>3, <1>4, <1>6, <1>7
  <2> HIDE DEF start
  <2>2. Len(<<"/">>) = 1 /\ <<"/">>[1] = "/"
    OBVIOUS
  <2>3. num = 1
    BY <2>0, <2>1, <2>2
  <2>4. t[1] = "/"
    BY <2>0, <2>1, <2>2, <2>3
  <2> QED BY <1>5, <2>3, <2>4
<1>8. CASE other # 0
  <2>1. /\ Addr!Comparable(u) = SubSeq(u, 1, other)
        /\ Len(SubSeq(u, 1, other)) = other
        /\ \A i \in 1..other : SubSeq(u, 1, other)[i] = u[i]
    BY <1>2, <1>3, <1>5, <1>8
  <2>2. num = other
    BY <1>4, <1>6, <2>1
  <2> QED BY <1>4, <1>6, <2>1, <2>2
<1> QED BY <1>7, <1>8

(* A slash more at the end does not count.                                 *)
LEMMA SlashIgnored ==
    ASSUME NEW X, "/" \in X, NEW t \in Seq(X)
    PROVE  Addr!Comparable(t \o <<"/">>) = Addr!Comparable(t)
<1> DEFINE u == t \o <<"/">>
<1>1. /\ u \in Seq(X) /\ Len(t) \in Nat /\ Len(u) = Len(t) + 1
      /\ u[Len(t) + 1] = "/" /\ \A i \in 1..Len(t) : u[i] = t[i]
  <2> DEFINE end == <<"/">>
  <2>1. end \in Seq(X) /\ Len(end) = 1 /\ end[1] = "/"
    OBVIOUS
  <2> HIDE DEF end
  <2>2. /\ t \o end \in Seq(X) /\ Len(t) \in Nat /\ Len(t \o end) = Len(t) + Len(end)
        /\ \A i \in 1..Len(t) + Len(end) :
              (t \o end)[i] = IF i <= Len(t) THEN t[i] ELSE end[i - Len(t)]
    BY <2>1, ConcatProperties, LenProperties
  <2> QED BY <2>1, <2>2 DEF end
<1> HIDE DEF u
<1>2. PICK x \in 0..Len(t) :
         /\ EndsAt(t, x)
         /\ Addr!Comparable(t) = IF x = 0 THEN <<"/">> ELSE SubSeq(t, 1, x)
  BY ComparedToEnd
<1>3. PICK y \in 0..Len(u) :
         /\ EndsAt(u, y)
         /\ Addr!Comparable(u) = IF y = 0 THEN <<"/">> ELSE SubSeq(u, 1, y)
  BY <1>1, ComparedToEnd
<1>4. EndsAt(u, x)
  <2>1. \A i \in x + 1..Len(u) : i \in x + 1..Len(t) \/ i = Len(t) + 1
    BY <1>1
  <2> QED BY <1>1, <1>2, <2>1 DEF EndsAt
<1>5. y = x
  BY <1>1, <1>3, <1>4, EndsOnce
<1>6. ASSUME x # 0 PROVE SubSeq(u, 1, x) = SubSeq(t, 1, x)
  <2>1. x \in 1..Len(t) /\ x \in 1..Len(u)
    BY <1>1, <1>6
  <2> QED BY <1>1, <2>1
<1> QED BY <1>2, <1>3, <1>5, <1>6 DEF u

(* What one piece more does to the end of an address.                      *)
LEMMA EndOfJoined ==
    ASSUME NEW X, NEW t \in Seq(X), NEW q \in Seq(X), NEW num, EndsAt(t \o q, num)
    PROVE  /\ q = <<"/">> \/ q = <<>> => EndsAt(t, num)
           /\ NoSlash(q) /\ Len(q) # 0 => num = Len(t) + Len(q)
<1>1. /\ Len(t) \in Nat /\ Len(q) \in Nat /\ Len(t \o q) = Len(t) + Len(q)
      /\ \A i \in 1..Len(t) + Len(q) :
            (t \o q)[i] = IF i <= Len(t) THEN t[i] ELSE q[i - Len(t)]
  BY ConcatProperties, LenProperties
<1>2. /\ num \in 0..Len(t) + Len(q)
      /\ \A i \in num + 1..Len(t) + Len(q) : (t \o q)[i] = "/"
      /\ num > 0 => (t \o q)[num] # "/"
  BY <1>1 DEF EndsAt
<1>3. CASE q = <<>>
  <2>1. Len(q) = 0
    BY <1>3
  <2>2. EndsAt(t, num)
    BY <1>1, <1>2, <2>1 DEF EndsAt
  <2> QED BY <2>1, <2>2
<1>4. CASE q = <<"/">>
  <2>1. Len(q) = 1 /\ q[1] = "/"
    BY <1>4
  <2>2. num # Len(t) + 1
    BY <1>1, <1>2, <2>1
  <2>3. num \in 0..Len(t)
    BY <1>1, <1>2, <2>1, <2>2
  <2>4. \A i \in num + 1..Len(t) : t[i] = "/"
    <3> SUFFICES ASSUME NEW i \in num + 1..Len(t) PROVE t[i] = "/"
      OBVIOUS
    <3>1. i \in num + 1..Len(t) + Len(q) /\ i \in 1..Len(t) + Len(q) /\ i <= Len(t)
      BY <1>1, <2>1, <2>3
    <3> QED BY <1>1, <1>2, <3>1
  <2>5. num > 0 => t[num] # "/"
    BY <1>1, <1>2, <2>3
  <2>6. EndsAt(t, num)
    BY <2>3, <2>4, <2>5 DEF EndsAt
  <2> QED BY <2>1, <2>6 DEF NoSlash
<1>5. CASE q # <<>> /\ q # <<"/">>
  <2> SUFFICES ASSUME NoSlash(q), Len(q) # 0, num # Len(t) + Len(q) PROVE FALSE
    BY <1>5
  <2>1. Len(t) + Len(q) \in num + 1..Len(t) + Len(q)
    BY <1>1, <1>2
  <2>2. (t \o q)[Len(t) + Len(q)] = "/"
    BY <1>2, <2>1
  <2>3. (t \o q)[Len(t) + Len(q)] = q[Len(q)]
    <3>1. /\ Len(t) + Len(q) \in 1..Len(t) + Len(q) /\ ~(Len(t) + Len(q) <= Len(t))
          /\ (Len(t) + Len(q)) - Len(t) = Len(q)
      BY <1>1
    <3> QED BY <1>1, <3>1
  <2>4. Len(q) \in 1..Len(q)
    BY <1>1
  <2> QED BY <2>2, <2>3, <2>4 DEF NoSlash
<1> QED BY <1>3, <1>4, <1>5

(* The pieces that two items put at one place of a pattern.                *)
Alike(q, v) ==
    \/ q = <<"/">> /\ v = <<"/">>
    \/ /\ NoSlash(q) /\ NoSlash(v)
       /\ Len(q) <= Len(v) /\ (Len(q) = 0 => Len(v) = 0)

LEMMA SumsApart ==
    ASSUME NEW a \in Nat, NEW b \in Nat, NEW c \in Nat, NEW d \in Nat, a <= b, c <= d
    PROVE  a + c <= b + d /\ (a < b \/ c < d => a + c < b + d)
OBVIOUS

(* Where one piece is longer than the other, the addresses stay different. *)
LEMMA LongerPiece ==
    ASSUME NEW X, NEW s \in Seq(Seq(X)), NEW z \in Seq(Seq(X)), Len(s) = Len(z),
           \A i \in 1..Len(s) : Alike(s[i], z[i]),
           NEW j \in 1..Len(s), Len(s[j]) # 0, Len(s[j]) < Len(z[j])
    PROVE  ~Addr!Same(Addr!FlattenSeq(s), Addr!FlattenSeq(z))
<1> DEFINE D == Seq(X)
           len == Len(s)
<1>1. /\ len \in Nat /\ \A i \in 1..len : s[i] \in D /\ z[i] \in D
  <2>1. s \in Seq(D) /\ z \in Seq(D)
    OBVIOUS
  <2> HIDE DEF D
  <2> QED BY <2>1, ElementOfSeq, LenProperties
<1>2. PICK r \in [0..len -> D] : JoinsEach(r, s, len)
  BY FlattenTurns
<1>3. PICK w \in [0..len -> D] : JoinsEach(w, z, len)
  BY FlattenTurns
<1>4. /\ r[0] = <<>> /\ w[0] = <<>>
      /\ Addr!FlattenSeq(s) = r[len] /\ Addr!FlattenSeq(z) = w[len]
      /\ \A k \in 1..len : r[k] = r[k - 1] \o s[k] /\ w[k] = w[k - 1] \o z[k]
  BY <1>2, <1>3, AddrFlatten DEF JoinsEach
<1> DEFINE Apart(k) ==
              /\ Len(r[k]) <= Len(w[k])
              /\ j <= k => Len(r[k]) < Len(w[k])
              /\ \A at, m : EndsAt(r[k], at) /\ EndsAt(w[k], m) =>
                     at <= m /\ (j <= k => at # 0 /\ at < m)
           ns == {k \in Nat : k <= len => Apart(k)}
<1> HIDE DEF D, len
<1>5. 0 \in ns
  <2>1. \A at : EndsAt(<<>>, at) => at = 0
    BY DEF EndsAt
  <2>2. Len(<<>>) = 0 /\ ~(j <= 0)
    BY <1>1 DEF len
  <2> QED BY <1>4, <2>1, <2>2
<1>6. ASSUME NEW k \in Nat, k \in ns PROVE k + 1 \in ns
  <2> SUFFICES ASSUME k + 1 <= len PROVE Apart(k + 1)
    OBVIOUS
  <2> DEFINE t == r[k]
             u == w[k]
             q == s[k + 1]
             v == z[k + 1]
  <2>0. len \in Nat
    BY <1>1
  <2>1. k + 1 \in 1..len /\ (k + 1) - 1 = k /\ k \in 0..len /\ k <= len
    BY <2>0
  <2>2. t \in D /\ u \in D /\ q \in D /\ v \in D
    BY <1>1, <2>1
  <2>3. r[k + 1] = t \o q /\ w[k + 1] = u \o v
    BY <1>4, <2>1
  <2>4. Alike(q, v)
    BY <2>1 DEF len
  <2>5. Apart(k)
    BY <1>6, <2>1
  <2>6. j <= k + 1 => j <= k \/ (Len(q) # 0 /\ Len(q) < Len(v))
    <3>1. j \in Int
      OBVIOUS
    <3>2. j <= k + 1 => j <= k \/ j = k + 1
      BY <3>1
    <3> QED BY <3>2
  <2>7. ASSUME NEW at, NEW m, EndsAt(t, at), EndsAt(u, m)
        PROVE  at <= m /\ (j <= k => at # 0 /\ at < m)
    BY <2>5, <2>7
  <2> DEFINE tl == Len(t)
             ul == Len(u)
  <2>8. tl <= ul /\ (j <= k => tl < ul)
    BY <2>5
  <2> HIDE DEF t, u, q, v, ns, Apart, tl, ul
  <2>9. /\ tl \in Nat /\ ul \in Nat /\ Len(q) \in Nat /\ Len(v) \in Nat
        /\ Len(t \o q) = tl + Len(q) /\ Len(u \o v) = ul + Len(v)
    BY <2>2, ConcatProperties, LenProperties DEF D, tl, ul
  <2>10. Len(q) <= Len(v)
    BY <2>4, <2>9 DEF Alike
  <2>11. tl + Len(q) <= ul + Len(v) /\ (j <= k + 1 => tl + Len(q) < ul + Len(v))
    <3>1. /\ tl + Len(q) <= ul + Len(v)
          /\ tl < ul \/ Len(q) < Len(v) => tl + Len(q) < ul + Len(v)
      BY <2>8, <2>9, <2>10, SumsApart
    <3>2. j <= k + 1 => tl < ul \/ Len(q) < Len(v)
      BY <2>6, <2>8, Zenon
    <3> QED BY <3>1, <3>2, Zenon
  <2>12. ASSUME NEW at, NEW m, EndsAt(t \o q, at), EndsAt(u \o v, m)
         PROVE  at <= m /\ (j <= k + 1 => at # 0 /\ at < m)
    <3>0. t \in Seq(X) /\ u \in Seq(X) /\ q \in Seq(X) /\ v \in Seq(X)
      BY <2>2 DEF D
    <3> DEFINE Slashes == q = <<"/">> /\ v = <<"/">>
               Some == Len(q) # 0 /\ NoSlash(q) /\ NoSlash(v)
               Nothing == Len(q) = 0 /\ Len(v) = 0
               Goal == at <= m /\ (j <= k + 1 => at # 0 /\ at < m)
    <3>1. ASSUME Slashes \/ (q = <<>> /\ v = <<>>) PROVE Goal
      <4>1. EndsAt(t, at) /\ EndsAt(u, m)
        BY <2>12, <3>0, <3>1, EndOfJoined
      <4>2. Len(q) = Len(v)
        BY <3>1
      <4>3. j <= k + 1 => j <= k
        BY <2>6, <2>9, <4>2
      <4> QED BY <2>7, <4>1, <4>3
    <3>2. ASSUME Some PROVE Goal
      <4>1. Len(v) # 0
        BY <2>9, <2>10, <3>2
      <4>2. at = tl + Len(q) /\ m = ul + Len(v)
        BY <2>12, <3>0, <3>2, <4>1, EndOfJoined DEF tl, ul
      <4> QED BY <2>9, <2>11, <3>2, <4>2
    <3>3. ASSUME Nothing PROVE Goal
      <4>1. q = <<>> /\ v = <<>>
        BY <3>0, <3>3, EmptySeq
      <4> QED BY <3>1, <4>1
    <3>4. Slashes \/ Some \/ Nothing
      BY <2>4 DEF Alike
    <3> HIDE DEF Slashes, Some, Nothing
    <3> QED BY <3>1, <3>2, <3>3, <3>4
  <2> DEFINE tq == t \o q
             uv == u \o v
  <2>13. /\ r[k + 1] = tq /\ w[k + 1] = uv
         /\ Len(tq) <= Len(uv) /\ (j <= k + 1 => Len(tq) < Len(uv))
         /\ \A at, m : EndsAt(tq, at) /\ EndsAt(uv, m) =>
                at <= m /\ (j <= k + 1 => at # 0 /\ at < m)
    BY <2>3, <2>9, <2>11, <2>12
  <2> HIDE DEF tq, uv
  <2> QED BY <2>13 DEF Apart
<1>7. Apart(len)
  <2>1. len \in ns
    <3> HIDE DEF ns
    <3>1. Nat \subseteq ns
      BY <1>5, <1>6, Counting
    <3> QED BY <1>1, <3>1
  <2> HIDE DEF Apart
  <2> QED BY <1>1, <2>1
<1>8. r[len] \in Seq(X) /\ w[len] \in Seq(X) /\ j <= len
  <2>1. j \in 1..len
    BY DEF len
  <2>2. len \in 0..len
    BY <1>1
  <2>3. r[len] \in D /\ w[len] \in D
    BY <2>2
  <2> QED BY <1>1, <2>1, <2>3 DEF D
<1> SUFFICES ASSUME Addr!Same(r[len], w[len]) PROVE FALSE
  BY <1>4
<1>9. PICK at \in 0..Len(r[len]) : EndsAt(r[len], at)
  BY <1>8, ComparedToEnd
<1>10. PICK m \in 0..Len(w[len]) : EndsAt(w[len], m)
  BY <1>8, ComparedToEnd
<1>11. at # 0 /\ at < m
  BY <1>7, <1>8, <1>9, <1>10
<1>20. at # 0
  BY <1>11
<1>12. at = m
  <2> DEFINE t == r[len]
             u == w[len]
  <2>1. t \in Seq(X) /\ u \in Seq(X) /\ Addr!Same(t, u) /\ EndsAt(t, at) /\ EndsAt(u, m)
    BY <1>8, <1>9, <1>10
  <2> HIDE DEF t, u
  <2> QED BY ONLY <1>20, <2>1, SameEnds, Zenon
<1> QED BY <1>9, <1>10, <1>11, <1>12

(* Addresses of one length that count as the same are the same.            *)
LEMMA SameLength ==
    ASSUME NEW X, NEW t \in Seq(X), NEW u \in Seq(X), Addr!Same(t, u), Len(t) = Len(u)
    PROVE  t = u
<1>1. PICK at \in 0..Len(t) : EndsAt(t, at)
  BY ComparedToEnd
<1>2. PICK m \in 0..Len(u) : EndsAt(u, m)
  BY ComparedToEnd
<1>3. at = m /\ \A i \in 1..at : t[i] = u[i]
  <2>1. CASE at # 0
    BY <1>1, <1>2, <2>1, SameEnds
  <2>2. CASE at = 0 /\ m = 0
    BY <2>2
  <2>3. CASE at = 0 /\ m # 0
    <3>1. Addr!Same(u, t)
      BY DEF Addr!Same
    <3>2. m = at
      BY <1>1, <1>2, <2>3, <3>1, SameEnds
    <3> QED BY <2>3, <3>2
  <2> QED BY <2>1, <2>2, <2>3
<1>4. \A i \in at + 1..Len(t) : t[i] = u[i]
  BY <1>1, <1>2, <1>3 DEF EndsAt
<1>5. \A i \in 1..Len(t) : t[i] = u[i]
  <2>1. \A i \in 1..Len(t) : i \in 1..at \/ i \in at + 1..Len(t)
    BY <1>1
  <2> QED BY <1>3, <1>4, <2>1
<1> QED BY <1>5, SeqEqual

LEMMA SameJoined ==
    ASSUME NEW X, NEW t \in Seq(X), NEW u \in Seq(X), NEW q \in Seq(X), NEW v \in Seq(X),
           Len(t) = Len(u), Len(q) = Len(v), t \o q = u \o v
    PROVE  t = u /\ q = v
<1>1. /\ Len(t) \in Nat /\ Len(q) \in Nat
      /\ \A i \in 1..Len(t) + Len(q) :
            (t \o q)[i] = IF i <= Len(t) THEN t[i] ELSE q[i - Len(t)]
  BY ConcatProperties, LenProperties
<1>2. \A i \in 1..Len(t) + Len(q) :
         (u \o v)[i] = IF i <= Len(t) THEN u[i] ELSE v[i - Len(t)]
  BY ConcatProperties, LenProperties
<1> DEFINE tq == t \o q
<1>3. \A i \in 1..Len(t) + Len(q) :
         /\ tq[i] = IF i <= Len(t) THEN t[i] ELSE q[i - Len(t)]
         /\ tq[i] = IF i <= Len(t) THEN u[i] ELSE v[i - Len(t)]
  BY <1>1, <1>2
<1> HIDE DEF tq
<1>4. ASSUME NEW i \in 1..Len(t) PROVE t[i] = u[i]
  <2>1. i \in 1..Len(t) + Len(q) /\ i <= Len(t)
    BY <1>1
  <2> QED BY <1>3, <2>1
<1>5. ASSUME NEW i \in 1..Len(q) PROVE q[i] = v[i]
  <2>1. /\ Len(t) + i \in 1..Len(t) + Len(q) /\ ~(Len(t) + i <= Len(t))
        /\ (Len(t) + i) - Len(t) = i
    BY <1>1
  <2> QED BY <1>3, <2>1
<1>6. t = u
  BY <1>4, SeqEqual
<1>7. q = v
  BY <1>5, SeqEqual
<1> QED BY <1>6, <1>7

(* Where pieces have the same lengths, addresses are the same piece by     *)
(* piece.                                                                  *)
LEMMA EqualPieces ==
    ASSUME NEW X, NEW s \in Seq(Seq(X)), NEW z \in Seq(Seq(X)), Len(s) = Len(z),
           \A i \in 1..Len(s) : Len(s[i]) = Len(z[i]),
           Addr!Same(Addr!FlattenSeq(s), Addr!FlattenSeq(z)),
           NEW j \in 1..Len(s)
    PROVE  s[j] = z[j]
<1> DEFINE D == Seq(X)
           len == Len(s)
<1>1. /\ len \in Nat /\ \A i \in 1..len : s[i] \in D /\ z[i] \in D
  <2>1. s \in Seq(D) /\ z \in Seq(D)
    OBVIOUS
  <2> HIDE DEF D
  <2> QED BY <2>1, ElementOfSeq, LenProperties
<1>2. PICK r \in [0..len -> D] : JoinsEach(r, s, len)
  BY FlattenTurns
<1>3. PICK w \in [0..len -> D] : JoinsEach(w, z, len)
  BY FlattenTurns
<1>4. /\ r[0] = <<>> /\ w[0] = <<>>
      /\ Addr!FlattenSeq(s) = r[len] /\ Addr!FlattenSeq(z) = w[len]
      /\ \A k \in 1..len : r[k] = r[k - 1] \o s[k] /\ w[k] = w[k - 1] \o z[k]
  BY <1>2, <1>3, AddrFlatten DEF JoinsEach
<1>5. \A i \in 1..len : Len(s[i]) = Len(z[i])
  BY DEF len
<1> DEFINE Equal(k) ==
              /\ Len(r[k]) = Len(w[k])
              /\ r[k] = w[k] => \A i \in 1..k : s[i] = z[i]
           ns == {k \in Nat : k <= len => Equal(k)}
<1> HIDE DEF D, len
<1>6. 0 \in ns
  BY <1>4
<1>7. ASSUME NEW k \in Nat, k \in ns PROVE k + 1 \in ns
  <2> SUFFICES ASSUME k + 1 <= len PROVE Equal(k + 1)
    OBVIOUS
  <2> DEFINE t == r[k]
             u == w[k]
             q == s[k + 1]
             v == z[k + 1]
  <2>1. k + 1 \in 1..len /\ (k + 1) - 1 = k /\ k \in 0..len /\ k <= len
    BY <1>1
  <2>2. t \in D /\ u \in D /\ q \in D /\ v \in D
    BY <1>1, <2>1
  <2>3. r[k + 1] = t \o q /\ w[k + 1] = u \o v
    BY <1>4, <2>1
  <2>4. Len(q) = Len(v)
    BY <1>5, <2>1
  <2>5. Len(t) = Len(u) /\ (t = u => \A i \in 1..k : s[i] = z[i])
    BY <1>7, <2>1
  <2> HIDE DEF t, u, q, v
  <2>10. t \in Seq(X) /\ u \in Seq(X) /\ q \in Seq(X) /\ v \in Seq(X)
    BY <2>2 DEF D
  <2>6. Len(t \o q) = Len(u \o v)
    <3>1. Len(t \o q) = Len(t) + Len(q) /\ Len(u \o v) = Len(u) + Len(v)
      BY <2>10, ConcatProperties
    <3> QED BY <2>4, <2>5, <3>1
  <2>7. ASSUME t \o q = u \o v PROVE t = u /\ q = v
    <3>1. Len(t) = Len(u)
      BY <2>5
    <3> QED BY ONLY <2>4, <2>7, <2>10, <3>1, SameJoined, Zenon
  <2> DEFINE tq == t \o q
             uv == u \o v
  <2>8. r[k + 1] = tq /\ w[k + 1] = uv /\ Len(tq) = Len(uv) /\ (tq = uv => t = u /\ q = v)
    BY <2>3, <2>6, <2>7
  <2> HIDE DEF tq, uv
  <2>9. ASSUME t = u, q = v, NEW i \in 1..k + 1 PROVE s[i] = z[i]
    <3>1. i \in 1..k \/ i = k + 1
      OBVIOUS
    <3> QED BY <2>5, <2>9, <3>1 DEF q, v
  <2> QED BY <2>8, <2>9
<1>8. Equal(len)
  <2>1. len \in ns
    <3> HIDE DEF ns
    <3>1. Nat \subseteq ns
      BY <1>6, <1>7, Counting
    <3> QED BY <1>1, <3>1
  <2> HIDE DEF Equal
  <2> QED BY <1>1, <2>1
<1>9. r[len] \in Seq(X) /\ w[len] \in Seq(X)
  <2>1. len \in 0..len
    BY <1>1
  <2> QED BY <2>1 DEF D
<1>10. r[len] = w[len]
  <2> DEFINE t == r[len]
             u == w[len]
  <2>1. t \in Seq(X) /\ u \in Seq(X) /\ Addr!Same(t, u) /\ Len(t) = Len(u)
    BY <1>4, <1>8, <1>9
  <2> HIDE DEF t, u
  <2>2. t = u
    BY <2>1, SameLength
  <2> QED BY <2>2 DEF t, u
<1> QED BY <1>8, <1>10 DEF len

(* What is put for the names of D for two items: their names a and b for   *)
(* those of R, and values of one length for the others. None has a slash.  *)
Twins(X, D, R, v, w, a, b) ==
    /\ R \subseteq D /\ v \in [D -> Seq(X)] /\ w \in [D -> Seq(X)]
    /\ Len(a) # 0 /\ Len(b) # 0
    /\ \A d \in D : NoSlash(v[d]) /\ NoSlash(w[d])
    /\ \A d \in R : v[d] = a /\ w[d] = b
    /\ \A d \in D \ R : Len(v[d]) = Len(w[d])

PiecesOf(p, v) == [i \in DOMAIN p |-> Addr!Piece(p, v, i)]

IsPiece(p, D, v, i, q) ==
    \/ i \in Addr!Tokens(p) /\ p[i + 1] \in D /\ q = v[p[i + 1]]
    \/ /\ ~(i \in Addr!Tokens(p) /\ p[i + 1] \in D)
       /\ q = IF {i - 1, i - 2} \cap {k \in Addr!Tokens(p) : p[k + 1] \in D} # {}
              THEN <<>> ELSE <<p[i]>>

LEMMA Pieces ==
    ASSUME NEW X, NEW p \in Seq(X), NEW D, NEW v \in [D -> Seq(X)]
    PROVE  /\ PiecesOf(p, v) \in Seq(Seq(X)) /\ Len(PiecesOf(p, v)) = Len(p)
           /\ Addr!Expanded(p, v) = Addr!FlattenSeq(PiecesOf(p, v))
           /\ Addr!Tokens(p) \subseteq 1..Len(p)
           /\ \A i \in 1..Len(p) : IsPiece(p, D, v, i, PiecesOf(p, v)[i])
<1> DEFINE F == {k \in Addr!Tokens(p) : p[k + 1] \in D}
<1>1. DOMAIN p = 1..Len(p) /\ Len(p) \in Nat /\ \A i \in 1..Len(p) : p[i] \in X
  OBVIOUS
<1>2. Addr!Tokens(p) \subseteq 1..Len(p)
  BY <1>1 DEF Addr!Tokens
<1>3. Addr!Filled(p, v) = F
  BY DEF Addr!Filled
<1>4. ASSUME NEW i \in 1..Len(p)
      PROVE  PiecesOf(p, v)[i] = IF i \in F THEN v[p[i + 1]]
                                 ELSE IF {i - 1, i - 2} \cap F # {} THEN <<>>
                                 ELSE <<p[i]>>
  BY <1>1, <1>3 DEF PiecesOf, Addr!Piece
<1>5. ASSUME NEW i \in 1..Len(p) PROVE PiecesOf(p, v)[i] \in Seq(X)
  <2> DEFINE q == PiecesOf(p, v)[i]
  <2>1. CASE i \in F
    BY <1>4, <2>1
  <2>2. CASE i \notin F
    <3>1. <<>> \in Seq(X) /\ <<p[i]>> \in Seq(X)
      BY <1>1
    <3> QED BY <1>4, <2>2, <3>1
  <2> QED BY <2>1, <2>2
<1>6. PiecesOf(p, v) \in Seq(Seq(X)) /\ Len(PiecesOf(p, v)) = Len(p)
  <2>1. PiecesOf(p, v) = [i \in 1..Len(p) |-> PiecesOf(p, v)[i]]
    BY <1>1 DEF PiecesOf
  <2> DEFINE T == Seq(X)
             s == PiecesOf(p, v)
  <2>2. s = [i \in 1..Len(p) |-> s[i]] /\ \A i \in 1..Len(p) : s[i] \in T
    BY <1>5, <2>1
  <2> HIDE DEF T, s
  <2>3. s \in [1..Len(p) -> T]
    BY <2>2
  <2>4. s \in Seq(T) /\ Len(s) = Len(p)
    BY <1>1, <2>3
  <2> QED BY <2>4 DEF T, s
<1>7. Addr!Expanded(p, v) = Addr!FlattenSeq(PiecesOf(p, v))
  BY DEF Addr!Expanded, PiecesOf
<1>8. ASSUME NEW i \in 1..Len(p) PROVE IsPiece(p, D, v, i, PiecesOf(p, v)[i])
  BY <1>4 DEF IsPiece
<1> QED BY <1>2, <1>6, <1>7, <1>8

LEMMA OneSlash == ASSUME NEW x PROVE x # "/" => NoSlash(<<x>>)
BY DEF NoSlash

LEMMA ExpandedAlike ==
    ASSUME NEW X, NEW p \in Seq(X), NEW D, NEW R, NEW v, NEW w, NEW a, NEW b,
           Twins(X, D, R, v, w, a, b), Len(a) <= Len(b), NEW i \in 1..Len(p)
    PROVE  /\ Alike(PiecesOf(p, v)[i], PiecesOf(p, w)[i])
           /\ Len(a) = Len(b) => Len(PiecesOf(p, v)[i]) = Len(PiecesOf(p, w)[i])
           /\ i \in Addr!Tokens(p) /\ p[i + 1] \in R =>
                 PiecesOf(p, v)[i] = a /\ PiecesOf(p, w)[i] = b
<1> DEFINE q == PiecesOf(p, v)[i]
           u == PiecesOf(p, w)[i]
           d == p[i + 1]
           F == {k \in Addr!Tokens(p) : p[k + 1] \in D}
           rest == IF {i - 1, i - 2} \cap F # {} THEN <<>> ELSE <<p[i]>>
<1>1. v \in [D -> Seq(X)] /\ w \in [D -> Seq(X)] /\ R \subseteq D
  BY DEF Twins
<1>2. \/ i \in Addr!Tokens(p) /\ d \in D /\ q = v[d] /\ u = w[d]
      \/ ~(i \in Addr!Tokens(p) /\ d \in D) /\ q = rest /\ u = rest
  <2>1. IsPiece(p, D, v, i, q) /\ IsPiece(p, D, w, i, u)
    BY <1>1, Pieces
  <2> HIDE DEF q, u
  <2> QED BY <2>1 DEF IsPiece
<1>3. CASE i \in Addr!Tokens(p) /\ d \in D
  <2>1. q = v[d] /\ u = w[d]
    BY <1>2, <1>3
  <2>2. NoSlash(q) /\ NoSlash(u)
    BY <1>3, <2>1 DEF Twins
  <2>3. CASE d \in R
    <3>1. q = a /\ u = b /\ Len(a) # 0
      BY <2>1, <2>3 DEF Twins
    <3> QED BY <2>2, <3>1 DEF Alike
  <2>4. CASE d \notin R
    <3>1. Len(q) = Len(u)
      BY <1>3, <2>1, <2>4 DEF Twins
    <3>2. Len(q) \in Nat
      BY <1>1, <1>3, <2>1
    <3> QED BY <2>2, <2>4, <3>1, <3>2 DEF Alike
  <2> QED BY <2>3, <2>4
<1>4. CASE ~(i \in Addr!Tokens(p) /\ d \in D)
  <2>1. q = rest /\ u = rest
    BY <1>2, <1>4
  <2>2. rest = <<>> \/ rest = <<p[i]>>
    OBVIOUS
  <2>3. ~(i \in Addr!Tokens(p) /\ d \in R)
    BY <1>1, <1>4
  <2> HIDE DEF rest
  <2>4. Len(rest) \in Nat /\ (Len(rest) = 0 => NoSlash(rest))
    BY <2>2 DEF NoSlash
  <2>5. rest = <<"/">> \/ NoSlash(rest)
    <3>1. CASE rest = <<>>
      BY <2>4, <3>1
    <3>2. CASE rest = <<p[i]>>
      BY <3>2, OneSlash
    <3> QED BY <2>2, <3>1, <3>2
  <2> QED BY <2>1, <2>3, <2>4, <2>5 DEF Alike
<1> QED BY <1>3, <1>4

(* Addresses that count as the same are of items with one name.            *)
LEMMA NoLonger ==
    ASSUME NEW X, NEW p \in Seq(X), NEW D, NEW R, NEW v, NEW w,
           NEW a \in Seq(X), NEW b \in Seq(X),
           Twins(X, D, R, v, w, a, b), Len(a) <= Len(b),
           NEW j \in Addr!Tokens(p), p[j + 1] \in R,
           Addr!Same(Addr!Expanded(p, v), Addr!Expanded(p, w))
    PROVE  a = b
<1> DEFINE s == PiecesOf(p, v)
           z == PiecesOf(p, w)
<1>1. v \in [D -> Seq(X)] /\ w \in [D -> Seq(X)] /\ Len(a) # 0
  BY DEF Twins
<1>2. /\ s \in Seq(Seq(X)) /\ z \in Seq(Seq(X)) /\ Len(s) = Len(p) /\ Len(z) = Len(p)
      /\ Addr!Expanded(p, v) = Addr!FlattenSeq(s) /\ Addr!Expanded(p, w) = Addr!FlattenSeq(z)
      /\ j \in 1..Len(p)
  BY <1>1, Pieces
<1>3. \A i \in 1..Len(p) :
         /\ Alike(s[i], z[i])
         /\ Len(a) = Len(b) => Len(s[i]) = Len(z[i])
         /\ i \in Addr!Tokens(p) /\ p[i + 1] \in R => s[i] = a /\ z[i] = b
  BY ExpandedAlike
<1> HIDE DEF s, z
<1>4. s[j] = a /\ z[j] = b
  BY <1>2, <1>3
<1>5. Addr!Same(Addr!FlattenSeq(s), Addr!FlattenSeq(z))
  BY <1>2
<1>6. ASSUME Len(a) < Len(b) PROVE FALSE
  <2>1. Len(s[j]) # 0 /\ Len(s[j]) < Len(z[j])
    BY <1>1, <1>4, <1>6
  <2> QED BY <1>2, <1>3, <1>5, <2>1, LongerPiece
<1>7. Len(a) = Len(b)
  BY <1>6
<1>8. \A i \in 1..Len(s) : Len(s[i]) = Len(z[i])
  BY <1>2, <1>3, <1>7
<1>9. s[j] = z[j]
  <2>1. Len(s) = Len(z) /\ j \in 1..Len(s)
    BY <1>2
  <2>2. s \in Seq(Seq(X)) /\ z \in Seq(Seq(X))
    BY <1>2
  <2> QED BY ONLY <1>5, <1>8, <2>1, <2>2, EqualPieces, Zenon
<1> QED BY <1>4, <1>9

LEMMA OneName ==
    ASSUME NEW X, NEW p \in Seq(X), NEW D, NEW R, NEW v, NEW w,
           NEW a \in Seq(X), NEW b \in Seq(X), Twins(X, D, R, v, w, a, b),
           NEW j \in Addr!Tokens(p), p[j + 1] \in R,
           Addr!Same(Addr!Expanded(p, v), Addr!Expanded(p, w))
    PROVE  a = b
<1>1. CASE Len(a) <= Len(b)
  BY <1>1, NoLonger
<1>2. CASE Len(b) <= Len(a)
  <2>1. Twins(X, D, R, w, v, b, a)
    BY DEF Twins
  <2>2. Addr!Same(Addr!Expanded(p, w), Addr!Expanded(p, v))
    BY DEF Addr!Same
  <2> QED BY <1>2, <2>1, <2>2, NoLonger
<1>3. Len(a) \in Nat /\ Len(b) \in Nat
  OBVIOUS
<1> QED BY <1>1, <1>2, <1>3

(* What the patterns and the names of items are made of.                   *)
Literals == {"/", "%", "0", "posts", "postname", "pages", "pagename", "tags", "tag"}
PathNames(X) == {t \in Seq(X) : Len(t) # 0 /\ NoSlash(t)}
PathPosts(X) == [slug : PathNames(X),
                 date : {<<>>} \cup {d \in Seq(X) : Len(d) = 4 /\ NoSlash(d)}]

(* The content: names are not empty and have no slash, and no two posts    *)
(* have one name.                                                          *)
LiveTyped(X) ==
    /\ Literals \subseteq X
    /\ Live.posts \in Seq(PathPosts(X))
    /\ Live.pages \in Seq(PathNames(X)) /\ Live.tags \in Seq(PathNames(X))
    /\ \A i, j \in DOMAIN Live.posts : Live.posts[i].slug = Live.posts[j].slug => i = j

PatternTexts(X) == [post : Seq(X), page : Seq(X), tag : Seq(X)]

(* A pattern that has the text of a token has the token, or its name is    *)
(* lost.                                                                   *)
NameText(p, R) ==
    \E i \in 2..Len(p) - 1 : p[i] \in R /\ p[i - 1] = "%" /\ p[i + 1] = "%"

LEMMA TokenThere ==
    ASSUME NEW p, NEW R, NameText(p, R), ~Addr!NameLost(p, R)
    PROVE  \E j \in Addr!Tokens(p) : p[j + 1] \in R
BY DEF NameText, Addr!NameLost, Addr!TokenNames

LEMMA ValidText ==
    ASSUME NEW X, NEW p \in Seq(X), NEW allowed, NEW R, Addr!Valid(p, allowed, R)
    PROVE  NameText(p, R)
<1>1. Len(p) \in Nat
  OBVIOUS
<1>2. PICK i \in 1..Len(p) : Addr!TokenAt(p, i) /\ p[i + 1] \in R
  BY DEF Addr!Valid, Addr!HasName
<1>3. i + 1 \in 2..Len(p) - 1 /\ (i + 1) - 1 = i /\ (i + 1) + 1 = i + 2
  BY <1>1, <1>2 DEF Addr!TokenAt
<1>4. p[i] = "%" /\ p[i + 2] = "%"
  BY <1>2 DEF Addr!TokenAt
<1> QED BY <1>2, <1>3, <1>4 DEF NameText

LEMMA PatternsNormal ==
    ASSUME NEW X, Literals \subseteq X, NEW s \in PatternTexts(X)
    PROVE  LET at == Addr!Normal(s)
           IN /\ at.post \in Seq(X) /\ NameText(at.post, Addr!PostNames)
              /\ at.page \in Seq(X) /\ NameText(at.page, Addr!PageNames)
              /\ at.tag \in Seq(X) /\ NameText(at.tag, Addr!TagNames)
<1>1. s.post \in Seq(X) /\ s.page \in Seq(X) /\ s.tag \in Seq(X)
  BY DEF PatternTexts
<1>2. ASSUME NEW first \in X, NEW name \in X, NEW R, name \in R
      PROVE  LET p == <<"/", first, "/", "%", name, "%">>
             IN p \in Seq(X) /\ NameText(p, R)
  <2> DEFINE p == <<"/", first, "/", "%", name, "%">>
  <2>1. "/" \in X /\ "%" \in X
    BY DEF Literals
  <2>2. p \in Seq(X)
    BY <2>1
  <2>3. Len(p) = 6 /\ p[5] = name /\ p[4] = "%" /\ p[6] = "%"
    OBVIOUS
  <2> HIDE DEF p
  <2>4. 5 \in 2..Len(p) - 1 /\ p[5] \in R /\ p[5 - 1] = "%" /\ p[5 + 1] = "%"
    BY <1>2, <2>3
  <2>5. NameText(p, R)
    BY <2>4 DEF NameText
  <2> QED BY <2>2, <2>5 DEF p
<1>3. /\ Addr!Default.post \in Seq(X) /\ NameText(Addr!Default.post, Addr!PostNames)
      /\ Addr!Default.page \in Seq(X) /\ NameText(Addr!Default.page, Addr!PageNames)
      /\ Addr!Default.tag \in Seq(X) /\ NameText(Addr!Default.tag, Addr!TagNames)
  <2>1. /\ "posts" \in X /\ "postname" \in X /\ "pages" \in X /\ "pagename" \in X
        /\ "tags" \in X /\ "tag" \in X
    BY DEF Literals
  <2>2. "postname" \in Addr!PostNames /\ "pagename" \in Addr!PageNames /\ "tag" \in Addr!TagNames
    BY DEF Addr!PostNames, Addr!PageNames, Addr!TagNames
  <2>3. /\ Addr!Default.post = <<"/", "posts", "/", "%", "postname", "%">>
        /\ Addr!Default.page = <<"/", "pages", "/", "%", "pagename", "%">>
        /\ Addr!Default.tag = <<"/", "tags", "/", "%", "tag", "%">>
    BY DEF Addr!Default
  <2>4. Addr!Default.post \in Seq(X) /\ NameText(Addr!Default.post, Addr!PostNames)
    BY <1>2, <2>1, <2>2, <2>3
  <2>5. Addr!Default.page \in Seq(X) /\ NameText(Addr!Default.page, Addr!PageNames)
    BY <1>2, <2>1, <2>2, <2>3
  <2>6. Addr!Default.tag \in Seq(X) /\ NameText(Addr!Default.tag, Addr!TagNames)
    BY <1>2, <2>1, <2>2, <2>3
  <2> QED BY <2>4, <2>5, <2>6
<1> DEFINE at == Addr!Normal(s)
<1>4. at.post \in Seq(X) /\ NameText(at.post, Addr!PostNames)
  <2>1. \/ at.post = Addr!Default.post
        \/ at.post = s.post /\ \E allowed : Addr!Valid(s.post, allowed, Addr!PostNames)
    BY DEF Addr!Normal
  <2> QED BY <1>1, <1>3, <2>1, ValidText
<1>5. at.page \in Seq(X) /\ NameText(at.page, Addr!PageNames)
  <2>1. \/ at.page = Addr!Default.page
        \/ at.page = s.page /\ \E allowed : Addr!Valid(s.page, allowed, Addr!PageNames)
    BY DEF Addr!Normal
  <2> QED BY <1>1, <1>3, <2>1, ValidText
<1>6. at.tag \in Seq(X) /\ NameText(at.tag, Addr!TagNames)
  <2>1. \/ at.tag = Addr!Default.tag
        \/ at.tag = s.tag /\ \E allowed : Addr!Valid(s.tag, allowed, Addr!TagNames)
    BY DEF Addr!Normal
  <2> QED BY <1>1, <1>3, <2>1, ValidText
<1> QED BY <1>4, <1>5, <1>6

(* What DateValues gives has one length for any date.                      *)
LEMMA DatesFixed ==
    ASSUME NEW X, "0" \in X, NEW x \in PathPosts(X)
    PROVE  LET v == Addr!DateValues(x)
           IN /\ v.year \in Seq(X) /\ Len(v.year) = 2 /\ NoSlash(v.year)
              /\ v.monthnum \in Seq(X) /\ Len(v.monthnum) = 1 /\ NoSlash(v.monthnum)
              /\ v.day \in Seq(X) /\ Len(v.day) = 1 /\ NoSlash(v.day)
<1> DEFINE v == Addr!DateValues(x)
           d == x.date
<1>1. d = <<>> \/ (d # <<>> /\ d \in Seq(X) /\ Len(d) = 4 /\ NoSlash(d))
  <2>1. d \in {<<>>} \cup {t \in Seq(X) : Len(t) = 4 /\ NoSlash(t)}
    BY DEF PathPosts
  <2>2. Len(<<>>) # 4
    OBVIOUS
  <2> HIDE DEF d
  <2> QED BY <2>1, <2>2
<1>2. CASE d = <<>>
  <2>1. v.year = <<"0", "0">> /\ v.monthnum = <<"0">> /\ v.day = <<"0">>
    BY <1>2 DEF Addr!DateValues
  <2>2. /\ <<"0", "0">> \in Seq(X) /\ Len(<<"0", "0">>) = 2
        /\ <<"0">> \in Seq(X) /\ Len(<<"0">>) = 1
    OBVIOUS
  <2>3. NoSlash(<<"0", "0">>) /\ NoSlash(<<"0">>)
    BY DEF NoSlash
  <2> QED BY <2>1, <2>2, <2>3
<1>3. CASE d # <<>>
  <2>0. d \in Seq(X) /\ Len(d) = 4 /\ \A i \in 1..4 : d[i] \in X /\ d[i] # "/"
    BY <1>1, <1>3 DEF NoSlash
  <2>1. v.year = SubSeq(d, 1, 2) /\ v.monthnum = <<d[3]>> /\ v.day = <<d[4]>>
    BY <1>3 DEF Addr!DateValues
  <2> HIDE DEF d, v
  <2> DEFINE y == SubSeq(d, 1, 2)
  <2>2. y \in Seq(X) /\ Len(y) = 2 /\ y[1] = d[1] /\ y[2] = d[2]
    BY <2>0
  <2> HIDE DEF y
  <2>3. NoSlash(y)
    <3>1. \A i \in 1..2 : i = 1 \/ i = 2
      OBVIOUS
    <3> QED BY <2>0, <2>2, <3>1 DEF NoSlash
  <2>4. ASSUME NEW c \in X, c # "/"
        PROVE  <<c>> \in Seq(X) /\ Len(<<c>>) = 1 /\ NoSlash(<<c>>)
    BY <2>4, OneSlash
  <2>5. d[3] \in X /\ d[3] # "/" /\ d[4] \in X /\ d[4] # "/"
    BY <2>0
  <2>6. v.year \in Seq(X) /\ Len(v.year) = 2 /\ NoSlash(v.year)
    BY <2>1, <2>2, <2>3 DEF y
  <2>7. v.monthnum \in Seq(X) /\ Len(v.monthnum) = 1 /\ NoSlash(v.monthnum)
    BY <2>1, <2>4, <2>5
  <2>8. v.day \in Seq(X) /\ Len(v.day) = 1 /\ NoSlash(v.day)
    BY <2>1, <2>4, <2>5
  <2> QED BY <2>6, <2>7, <2>8 DEF v
<1> QED BY <1>2, <1>3

(* Posts whose addresses count as the same have one name, whatever their   *)
(* dates; and so have pages, and tags.                                     *)
LEMMA SamePost ==
    ASSUME NEW X, Literals \subseteq X, NEW s \in PatternTexts(X),
           NEW x \in PathPosts(X), NEW y \in PathPosts(X),
           ~Addr!NameLost(Addr!Normal(s).post, Addr!PostNames),
           Addr!Same(Addr!PostURL(s, x), Addr!PostURL(s, y))
    PROVE  x.slug = y.slug
<1> DEFINE p == Addr!Normal(s).post
           R == Addr!PostNames
           D == R \cup {"year", "monthnum", "day"}
           v == Addr!PostValues(x)
           w == Addr!PostValues(y)
           a == x.slug
           b == y.slug
<1>1. p \in Seq(X) /\ NameText(p, R)
  BY PatternsNormal
<1>2. PICK j \in Addr!Tokens(p) : p[j + 1] \in R
  BY <1>1, TokenThere
<1>3. a \in PathNames(X) /\ b \in PathNames(X)
  BY DEF PathPosts
<1>4. a \in Seq(X) /\ b \in Seq(X) /\ Len(a) # 0 /\ Len(b) # 0 /\ NoSlash(a) /\ NoSlash(b)
  BY <1>3 DEF PathNames
<1>5. ASSUME NEW z \in PathPosts(X)
      PROVE  /\ Addr!PostValues(z) = [d \in D |-> IF d \in R THEN z.slug ELSE Addr!DateValues(z)[d]]
             /\ Addr!DateValues(z)["year"] = Addr!DateValues(z).year
             /\ Addr!DateValues(z)["monthnum"] = Addr!DateValues(z).monthnum
             /\ Addr!DateValues(z)["day"] = Addr!DateValues(z).day
  BY DEF Addr!PostValues
<1>6. /\ v = [d \in D |-> IF d \in R THEN a ELSE Addr!DateValues(x)[d]]
      /\ w = [d \in D |-> IF d \in R THEN b ELSE Addr!DateValues(y)[d]]
  BY <1>5
<1>7. "0" \in X
  BY DEF Literals
<1>8. ASSUME NEW d \in D \ R
      PROVE  LET f == Addr!DateValues(x)[d]
                 g == Addr!DateValues(y)[d]
             IN f \in Seq(X) /\ g \in Seq(X) /\ Len(f) = Len(g) /\ NoSlash(f) /\ NoSlash(g)
  <2>1. d \in {"year", "monthnum", "day"}
    OBVIOUS
  <2>2. CASE d = "year"
    BY <1>7, <2>2, DatesFixed
  <2>3. CASE d = "monthnum"
    BY <1>7, <2>3, DatesFixed
  <2>4. CASE d = "day"
    BY <1>7, <2>4, DatesFixed
  <2> QED BY <2>1, <2>2, <2>3, <2>4
<1> HIDE DEF p, v, w, a, b, D, R
<1>9. R \subseteq D
  BY DEF D
<1>10. Twins(X, D, R, v, w, a, b)
  <2>1. v \in [D -> Seq(X)] /\ w \in [D -> Seq(X)]
    BY <1>4, <1>6, <1>8
  <2>2. \A d \in D : NoSlash(v[d]) /\ NoSlash(w[d])
    BY <1>4, <1>6, <1>8
  <2>3. \A d \in R : v[d] = a /\ w[d] = b
    BY <1>6, <1>9
  <2>4. \A d \in D \ R : Len(v[d]) = Len(w[d])
    BY <1>6, <1>8
  <2> QED BY <1>4, <1>9, <2>1, <2>2, <2>3, <2>4 DEF Twins
<1>11. Addr!Same(Addr!Expanded(p, v), Addr!Expanded(p, w))
  BY DEF Addr!PostURL, p, v, w
<1>12. a = b
  BY <1>1, <1>2, <1>4, <1>10, <1>11, OneName
<1> QED BY <1>12 DEF a, b

LEMMA SameName ==
    ASSUME NEW X, NEW p \in Seq(X), NEW R, NameText(p, R), ~Addr!NameLost(p, R),
           NEW a \in PathNames(X), NEW b \in PathNames(X),
           Addr!Same(Addr!Expanded(p, [w \in R |-> a]), Addr!Expanded(p, [w \in R |-> b]))
    PROVE  a = b
<1> DEFINE v == [w \in R |-> a]
           w == [d \in R |-> b]
<1>1. PICK j \in Addr!Tokens(p) : p[j + 1] \in R
  BY TokenThere
<1>2. a \in Seq(X) /\ b \in Seq(X) /\ Len(a) # 0 /\ Len(b) # 0 /\ NoSlash(a) /\ NoSlash(b)
  BY DEF PathNames
<1>3. Twins(X, R, R, v, w, a, b)
  BY <1>2 DEF Twins
<1>4. Addr!Same(Addr!Expanded(p, v), Addr!Expanded(p, w))
  OBVIOUS
<1> HIDE DEF v, w
<1> QED BY <1>1, <1>2, <1>3, <1>4, OneName

LEMMA SamePage ==
    ASSUME NEW X, Literals \subseteq X, NEW s \in PatternTexts(X),
           NEW a \in PathNames(X), NEW b \in PathNames(X),
           ~Addr!NameLost(Addr!Normal(s).page, Addr!PageNames),
           Addr!Same(Addr!PageURL(s, a), Addr!PageURL(s, b))
    PROVE  a = b
<1> DEFINE p == Addr!Normal(s).page
           R == Addr!PageNames
<1>1. p \in Seq(X) /\ NameText(p, R) /\ ~Addr!NameLost(p, R)
  BY PatternsNormal
<1>2. Addr!Same(Addr!Expanded(p, [w \in R |-> a]), Addr!Expanded(p, [w \in R |-> b]))
  BY DEF Addr!PageURL
<1> HIDE DEF p, R
<1> QED BY <1>1, <1>2, SameName

LEMMA SameTag ==
    ASSUME NEW X, Literals \subseteq X, NEW s \in PatternTexts(X),
           NEW a \in PathNames(X), NEW b \in PathNames(X),
           ~Addr!NameLost(Addr!Normal(s).tag, Addr!TagNames),
           Addr!Same(Addr!TagURL(s, a), Addr!TagURL(s, b))
    PROVE  a = b
<1> DEFINE p == Addr!Normal(s).tag
           R == Addr!TagNames
<1>1. p \in Seq(X) /\ NameText(p, R) /\ ~Addr!NameLost(p, R)
  BY PatternsNormal
<1>2. Addr!Same(Addr!Expanded(p, [w \in R |-> a]), Addr!Expanded(p, [w \in R |-> b]))
  BY DEF Addr!TagURL
<1> HIDE DEF p, R
<1> QED BY <1>1, <1>2, SameName

(* The first of the items that have an address is found, if any has it.    *)
LEMMA FirstAt ==
    ASSUME NEW len \in Nat, NEW I \in SUBSET (1..len)
    PROVE  LET at == IF I # {} THEN Addr!Min(I) ELSE 0
           IN (at = 0 /\ I = {}) \/ (at \in 1..len /\ at # 0 /\ at \in I)
<1>1. CASE I # {}
  <2>1. \E at \in I : \A m \in I : at <= m
    <3>1. I \in SUBSET Nat
      OBVIOUS
    <3> QED BY <1>1, <3>1, LeastNumber
  <2>2. Addr!Min(I) \in I
    BY <2>1 DEF Addr!Min
  <2>3. Addr!Min(I) \in 1..len
    BY <2>2
  <2>4. Addr!Min(I) # 0
    BY <2>3
  <2> QED BY <1>1, <2>2, <2>3, <2>4
<1>2. CASE I = {}
  BY <1>2
<1> QED BY <1>1, <1>2

(* A handler that finds an item by its address finds one that has it, and  *)
(* finds one if there is one.                                              *)
LEMMA PostFoundAt ==
    ASSUME NEW X, LiveTyped(X), NEW s, NEW path
    PROVE  LET at == Addr!PostByPermalink(s, path)
           IN \/ /\ at = 0
                 /\ \A i \in 1..Len(Live.posts) : ~Addr!Same(Addr!PostURL(s, Live.posts[i]), path)
              \/ /\ at \in 1..Len(Live.posts) /\ at # 0
                 /\ Addr!Same(Addr!PostURL(s, Live.posts[at]), path)
<1> DEFINE I == {i \in 1..Len(Live.posts) : Addr!Same(Addr!PostURL(s, Live.posts[i]), path)}
<1>1. Len(Live.posts) \in Nat
  BY DEF LiveTyped
<1>2. Addr!PostByPermalink(s, path) = IF I # {} THEN Addr!Min(I) ELSE 0
  BY DEF Addr!PostByPermalink, Addr!SelectInSeq
<1>3. I \in SUBSET (1..Len(Live.posts))
  OBVIOUS
<1> DEFINE at == IF I # {} THEN Addr!Min(I) ELSE 0
<1>4. (at = 0 /\ I = {}) \/ (at \in 1..Len(Live.posts) /\ at # 0 /\ at \in I)
  <2> HIDE DEF I
  <2> QED BY <1>1, <1>3, FirstAt
<1>5. Addr!PostByPermalink(s, path) = at
  BY <1>2
<1> HIDE DEF at
<1> QED BY <1>4, <1>5

LEMMA PageFoundAt ==
    ASSUME NEW X, LiveTyped(X), NEW s, NEW path
    PROVE  LET at == Addr!PageByPermalink(s, path)
           IN \/ /\ at = 0
                 /\ \A i \in 1..Len(Live.pages) : ~Addr!Same(Addr!PageURL(s, Live.pages[i]), path)
              \/ /\ at \in 1..Len(Live.pages) /\ at # 0
                 /\ Addr!Same(Addr!PageURL(s, Live.pages[at]), path)
<1> DEFINE I == {i \in 1..Len(Live.pages) : Addr!Same(Addr!PageURL(s, Live.pages[i]), path)}
<1>1. Len(Live.pages) \in Nat
  BY DEF LiveTyped
<1>2. Addr!PageByPermalink(s, path) = IF I # {} THEN Addr!Min(I) ELSE 0
  BY DEF Addr!PageByPermalink, Addr!SelectInSeq
<1>3. I \in SUBSET (1..Len(Live.pages))
  OBVIOUS
<1> DEFINE at == IF I # {} THEN Addr!Min(I) ELSE 0
<1>4. (at = 0 /\ I = {}) \/ (at \in 1..Len(Live.pages) /\ at # 0 /\ at \in I)
  <2> HIDE DEF I
  <2> QED BY <1>1, <1>3, FirstAt
<1>5. Addr!PageByPermalink(s, path) = at
  BY <1>2
<1> HIDE DEF at
<1> QED BY <1>4, <1>5

LEMMA TagFoundAt ==
    ASSUME NEW X, LiveTyped(X), NEW s, NEW path
    PROVE  LET at == Addr!TagByPermalink(s, path)
           IN \/ /\ at = 0
                 /\ \A i \in 1..Len(Live.tags) : ~Addr!Same(Addr!TagURL(s, Live.tags[i]), path)
              \/ /\ at \in 1..Len(Live.tags) /\ at # 0
                 /\ Addr!Same(Addr!TagURL(s, Live.tags[at]), path)
<1> DEFINE I == {i \in 1..Len(Live.tags) : Addr!Same(Addr!TagURL(s, Live.tags[i]), path)}
<1>1. Len(Live.tags) \in Nat
  BY DEF LiveTyped
<1>2. Addr!TagByPermalink(s, path) = IF I # {} THEN Addr!Min(I) ELSE 0
  BY DEF Addr!TagByPermalink, Addr!SelectInSeq
<1>3. I \in SUBSET (1..Len(Live.tags))
  OBVIOUS
<1> DEFINE at == IF I # {} THEN Addr!Min(I) ELSE 0
<1>4. (at = 0 /\ I = {}) \/ (at \in 1..Len(Live.tags) /\ at # 0 /\ at \in I)
  <2> HIDE DEF I
  <2> QED BY <1>1, <1>3, FirstAt
<1>5. Addr!TagByPermalink(s, path) = at
  BY <1>2
<1> HIDE DEF at
<1> QED BY <1>4, <1>5

(* The items, and their addresses.                                         *)
LEMMA LiveItems ==
    ASSUME NEW X, LiveTyped(X), NEW s
    PROVE  /\ \A i \in 1..Len(Live.posts) :
                 /\ Live.posts[i] \in PathPosts(X) /\ Live.posts[i].slug \in Addr!Items("post")
                 /\ Addr!URL(s, "post", Live.posts[i].slug) = Addr!PostURL(s, Live.posts[i])
           /\ \A i \in 1..Len(Live.pages) :
                 Live.pages[i] \in PathNames(X) /\ Live.pages[i] \in Addr!Items("page")
           /\ \A i \in 1..Len(Live.tags) :
                 Live.tags[i] \in PathNames(X) /\ Live.tags[i] \in Addr!Items("tag")
           /\ \A a \in Addr!Items("post") : \E i \in 1..Len(Live.posts) : Live.posts[i].slug = a
           /\ \A a \in Addr!Items("page") : \E i \in 1..Len(Live.pages) : Live.pages[i] = a
           /\ \A a \in Addr!Items("tag") : \E i \in 1..Len(Live.tags) : Live.tags[i] = a
           /\ \A a : /\ Addr!URL(s, "page", a) = Addr!PageURL(s, a)
                     /\ Addr!URL(s, "tag", a) = Addr!TagURL(s, a)
<1> DEFINE P == PathPosts(X)
           N == PathNames(X)
           posts == Live.posts
           pages == Live.pages
           tags == Live.tags
<1>1. /\ posts \in Seq(P) /\ pages \in Seq(N) /\ tags \in Seq(N)
      /\ \A i, j \in DOMAIN posts : posts[i].slug = posts[j].slug => i = j
  BY DEF LiveTyped
<1> HIDE DEF P, N
<1>2. /\ DOMAIN posts = 1..Len(posts) /\ \A i \in 1..Len(posts) : posts[i] \in P
      /\ DOMAIN pages = 1..Len(pages) /\ \A i \in 1..Len(pages) : pages[i] \in N
      /\ DOMAIN tags = 1..Len(tags) /\ \A i \in 1..Len(tags) : tags[i] \in N
  <2> HIDE DEF posts, pages, tags
  <2> QED BY <1>1
<1>3. /\ Addr!Items("post") = {posts[i].slug : i \in DOMAIN posts}
      /\ Addr!Items("page") = {pages[i] : i \in DOMAIN pages}
      /\ Addr!Items("tag") = {tags[i] : i \in DOMAIN tags}
      /\ Addr!ToSet(posts) = {posts[i] : i \in DOMAIN posts}
  BY DEF Addr!Items, Addr!ToSet
<1>4. ASSUME NEW a
      PROVE  /\ Addr!URL(s, "post", a) =
                   Addr!PostURL(s, CHOOSE x \in Addr!ToSet(posts) : x.slug = a)
             /\ Addr!URL(s, "page", a) = Addr!PageURL(s, a)
             /\ Addr!URL(s, "tag", a) = Addr!TagURL(s, a)
  BY DEF Addr!URL
<1> HIDE DEF posts, pages, tags
<1>5. ASSUME NEW i \in 1..Len(posts)
      PROVE  (CHOOSE x \in Addr!ToSet(posts) : x.slug = posts[i].slug) = posts[i]
  <2>1. posts[i] \in Addr!ToSet(posts)
    BY <1>2, <1>3
  <2>2. \A x \in Addr!ToSet(posts) : x.slug = posts[i].slug => x = posts[i]
    BY <1>1, <1>2, <1>3
  <2> QED BY <2>1, <2>2
<1>6. \A i \in 1..Len(posts) :
         /\ posts[i] \in P /\ posts[i].slug \in Addr!Items("post")
         /\ Addr!URL(s, "post", posts[i].slug) = Addr!PostURL(s, posts[i])
  BY <1>2, <1>3, <1>4, <1>5
<1>7. /\ \A i \in 1..Len(pages) : pages[i] \in N /\ pages[i] \in Addr!Items("page")
      /\ \A i \in 1..Len(tags) : tags[i] \in N /\ tags[i] \in Addr!Items("tag")
  BY <1>2, <1>3
<1>8. /\ \A a \in Addr!Items("post") : \E i \in 1..Len(posts) : posts[i].slug = a
      /\ \A a \in Addr!Items("page") : \E i \in 1..Len(pages) : pages[i] = a
      /\ \A a \in Addr!Items("tag") : \E i \in 1..Len(tags) : tags[i] = a
  BY <1>2, <1>3
<1> QED BY <1>4, <1>6, <1>7, <1>8 DEF P, N, posts, pages, tags

(* An address is a text.                                                   *)
LEMMA ExpandedTyped ==
    ASSUME NEW X, NEW p \in Seq(X), NEW D, NEW v \in [D -> Seq(X)]
    PROVE  Addr!Expanded(p, v) \in Seq(X)
<1> DEFINE s == PiecesOf(p, v)
<1>1. s \in Seq(Seq(X)) /\ Addr!Expanded(p, v) = Addr!FlattenSeq(s)
  BY Pieces
<1> HIDE DEF s
<1>2. PICK r \in [0..Len(s) -> Seq(X)] : JoinsEach(r, s, Len(s))
  BY <1>1, FlattenTurns
<1>3. Addr!FlattenSeq(s) = r[Len(s)]
  BY <1>2, AddrFlatten DEF JoinsEach
<1>4. Len(s) \in 0..Len(s)
  BY <1>1
<1> QED BY <1>1, <1>2, <1>3, <1>4

LEMMA AddressTyped ==
    ASSUME NEW X, LiveTyped(X), NEW s \in PatternTexts(X),
           NEW kind \in {"post", "page", "tag"}, NEW a \in Addr!Items(kind)
    PROVE  Addr!URL(s, kind, a) \in Seq(X)
<1>0. Literals \subseteq X
  BY DEF LiveTyped
<1>1. /\ Addr!Normal(s).post \in Seq(X) /\ Addr!Normal(s).page \in Seq(X)
      /\ Addr!Normal(s).tag \in Seq(X)
  BY <1>0, PatternsNormal
<1>2. CASE kind = "post"
  <2>1. PICK i \in 1..Len(Live.posts) : Live.posts[i].slug = a
    BY <1>2, LiveItems
  <2> DEFINE x == Live.posts[i]
             D == Addr!PostNames \cup {"year", "monthnum", "day"}
  <2>2. x \in PathPosts(X) /\ Addr!URL(s, kind, a) = Addr!PostURL(s, x)
    BY <1>2, <2>1, LiveItems
  <2> HIDE DEF x
  <2>3. x.slug \in Seq(X)
    BY <2>2 DEF PathPosts, PathNames
  <2>4. "0" \in X
    BY <1>0 DEF Literals
  <2>5. \A d \in {"year", "monthnum", "day"} : Addr!DateValues(x)[d] \in Seq(X)
    BY <2>2, <2>4, DatesFixed
  <2>6. Addr!PostValues(x) = [d \in D |-> IF d \in Addr!PostNames THEN x.slug
                                         ELSE Addr!DateValues(x)[d]]
    BY DEF Addr!PostValues
  <2>7. Addr!PostValues(x) \in [D -> Seq(X)]
    BY <2>3, <2>5, <2>6
  <2> HIDE DEF D
  <2> QED BY <1>1, <2>2, <2>7, ExpandedTyped DEF Addr!PostURL
<1>3. CASE kind = "page"
  <2>1. a \in Seq(X)
    BY <1>3, LiveItems DEF PathNames
  <2>2. [w \in Addr!PageNames |-> a] \in [Addr!PageNames -> Seq(X)]
    BY <2>1
  <2>3. Addr!URL(s, kind, a) = Addr!PageURL(s, a)
    BY <1>3, LiveItems
  <2> QED BY <1>1, <2>2, <2>3, ExpandedTyped DEF Addr!PageURL
<1>4. CASE kind = "tag"
  <2>1. a \in Seq(X)
    BY <1>4, LiveItems DEF PathNames
  <2>2. [w \in Addr!TagNames |-> a] \in [Addr!TagNames -> Seq(X)]
    BY <2>1
  <2>3. Addr!URL(s, kind, a) = Addr!TagURL(s, a)
    BY <1>4, LiveItems
  <2> QED BY <1>1, <2>2, <2>3, ExpandedTyped DEF Addr!TagURL
<1> QED BY <1>2, <1>3, <1>4

(* An address of an item that no other handler has, and none of the kinds  *)
(* that are looked for first: the item is served there.                    *)
LEMMA ItemServed ==
    ASSUME NEW X, LiveTyped(X), NEW s \in PatternTexts(X),
           NEW kind \in {"post", "page", "tag"}, NEW a \in Addr!Items(kind), NEW path,
           Addr!Same(Addr!URL(s, kind, a), path), path \notin Reserved,
           ~Addr!Takes(s, Addr!Before(kind), path),
           kind = "post" => ~Addr!NameLost(Addr!Normal(s).post, Addr!PostNames),
           kind = "page" => ~Addr!NameLost(Addr!Normal(s).page, Addr!PageNames),
           kind = "tag" => ~Addr!NameLost(Addr!Normal(s).tag, Addr!TagNames)
    PROVE  Addr!Serve(s, path) = <<kind, a>>
<1> DEFINE m == Addr!PostByPermalink(s, path)
           at == Addr!PageByPermalink(s, path)
           k == Addr!TagByPermalink(s, path)
<1>0. Literals \subseteq X
  BY DEF LiveTyped
<1>1. /\ \A x, y : <<x, y>> # <<>>
      /\ \A t, u : Addr!Same(t, path) /\ Addr!Same(u, path) => Addr!Same(t, u)
  BY DEF Addr!Same
<1>2. ASSUME Addr!ByPermalink(s, path) = <<kind, a>> PROVE Addr!Serve(s, path) = <<kind, a>>
  BY <1>1, <1>2 DEF Addr!Serve
<1>3. Addr!ByPermalink(s, path) =
         IF m # 0 THEN <<"post", Live.posts[m].slug>>
         ELSE IF at # 0 THEN <<"page", Live.pages[at]>>
         ELSE IF k # 0 THEN <<"tag", Live.tags[k]>>
         ELSE <<>>
  BY DEF Addr!ByPermalink
<1>4. ASSUME m # 0
      PROVE  /\ m \in 1..Len(Live.posts)
             /\ Addr!Same(Addr!PostURL(s, Live.posts[m]), path)
             /\ Addr!Takes(s, {"post"}, path) /\ Addr!Takes(s, {"post", "page"}, path)
  <2>1. m \in 1..Len(Live.posts) /\ Addr!Same(Addr!PostURL(s, Live.posts[m]), path)
    BY <1>4, PostFoundAt
  <2>2. /\ Live.posts[m].slug \in Addr!Items("post")
        /\ Addr!Same(Addr!URL(s, "post", Live.posts[m].slug), path)
    BY <2>1, LiveItems
  <2> HIDE DEF m
  <2> QED BY <2>1, <2>2 DEF Addr!Takes
<1>5. ASSUME at # 0
      PROVE  /\ at \in 1..Len(Live.pages)
             /\ Addr!Same(Addr!PageURL(s, Live.pages[at]), path)
             /\ Addr!Takes(s, {"post", "page"}, path)
  <2>1. at \in 1..Len(Live.pages) /\ Addr!Same(Addr!PageURL(s, Live.pages[at]), path)
    BY <1>5, PageFoundAt
  <2>2. /\ Live.pages[at] \in Addr!Items("page")
        /\ Addr!Same(Addr!URL(s, "page", Live.pages[at]), path)
    BY <2>1, LiveItems
  <2> HIDE DEF at
  <2> QED BY <2>1, <2>2 DEF Addr!Takes
<1>6. ASSUME k # 0
      PROVE  k \in 1..Len(Live.tags) /\ Addr!Same(Addr!TagURL(s, Live.tags[k]), path)
  BY <1>6, TagFoundAt
<1>7. CASE kind = "post"
  <2>1. PICK i \in 1..Len(Live.posts) : Live.posts[i].slug = a
    BY <1>7, LiveItems
  <2>2. Live.posts[i] \in PathPosts(X) /\ Addr!Same(Addr!PostURL(s, Live.posts[i]), path)
    BY <1>7, <2>1, LiveItems
  <2>3. m # 0
    BY <2>2, PostFoundAt
  <2>4. Live.posts[m] \in PathPosts(X)
    BY <1>4, <2>3, LiveItems
  <2>5. Addr!Same(Addr!PostURL(s, Live.posts[m]), Addr!PostURL(s, Live.posts[i]))
    BY <1>1, <1>4, <2>2, <2>3
  <2> DEFINE x == Live.posts[m]
             y == Live.posts[i]
  <2> HIDE DEF m, x, y
  <2>6. x.slug = y.slug
    BY <1>0, <1>7, <2>2, <2>4, <2>5, SamePost DEF x, y
  <2>7. Live.posts[m].slug = a
    BY <2>1, <2>6 DEF x, y
  <2> QED BY <1>2, <1>3, <1>7, <2>3, <2>7
<1>8. CASE kind = "page"
  <2>0. Addr!Before(kind) = {"post"}
    BY <1>8 DEF Addr!Before
  <2>1. PICK i \in 1..Len(Live.pages) : Live.pages[i] = a
    BY <1>8, LiveItems
  <2>2. Live.pages[i] \in PathNames(X) /\ Addr!Same(Addr!PageURL(s, Live.pages[i]), path)
    BY <1>8, <2>1, LiveItems
  <2>3. m = 0 /\ at # 0
    BY <1>4, <2>0, <2>2, PageFoundAt
  <2>4. Live.pages[at] \in PathNames(X)
    BY <1>5, <2>3, LiveItems
  <2>5. Addr!Same(Addr!PageURL(s, Live.pages[at]), Addr!PageURL(s, Live.pages[i]))
    BY <1>1, <1>5, <2>2, <2>3
  <2> DEFINE x == Live.pages[at]
             y == Live.pages[i]
  <2> HIDE DEF m, at, x, y
  <2>6. x = y
    BY <1>0, <1>8, <2>2, <2>4, <2>5, SamePage DEF x, y
  <2>7. Live.pages[at] = a
    BY <2>1, <2>6 DEF x, y
  <2> QED BY <1>2, <1>3, <1>8, <2>3, <2>7
<1>9. CASE kind = "tag"
  <2>0. Addr!Before(kind) = {"post", "page"}
    BY <1>9 DEF Addr!Before
  <2>1. PICK i \in 1..Len(Live.tags) : Live.tags[i] = a
    BY <1>9, LiveItems
  <2>2. Live.tags[i] \in PathNames(X) /\ Addr!Same(Addr!TagURL(s, Live.tags[i]), path)
    BY <1>9, <2>1, LiveItems
  <2>3. m = 0 /\ at = 0 /\ k # 0
    BY <1>4, <1>5, <2>0, <2>2, TagFoundAt
  <2>4. Live.tags[k] \in PathNames(X)
    BY <1>6, <2>3, LiveItems
  <2>5. Addr!Same(Addr!TagURL(s, Live.tags[k]), Addr!TagURL(s, Live.tags[i]))
    BY <1>1, <1>6, <2>2, <2>3
  <2> DEFINE x == Live.tags[k]
             y == Live.tags[i]
  <2> HIDE DEF m, at, k, x, y
  <2>6. x = y
    BY <1>0, <1>9, <2>2, <2>4, <2>5, SameTag DEF x, y
  <2>7. Live.tags[k] = a
    BY <2>1, <2>6 DEF x, y
  <2> QED BY <1>2, <1>3, <1>9, <2>3, <2>7
<1> QED BY <1>7, <1>8, <1>9

(* The old address of a post: Server.post finds the name in it.            *)
LEMMA OldServed ==
    ASSUME NEW X, LiveTyped(X), NEW s \in PatternTexts(X), NEW a \in Addr!Items("post"),
           NEW old, old = <<"/", "posts", "/">> \o a, old \notin Reserved,
           ~Addr!Takes(s, {"post", "page", "tag"}, old)
    PROVE  Addr!Serve(s, old) = <<"post", a>>
<1>1. PICK i \in 1..Len(Live.posts) : Live.posts[i].slug = a
  BY LiveItems
<1>2. a \in Seq(X) /\ Len(a) # 0
  <2>1. Live.posts[i] \in PathPosts(X)
    BY LiveItems
  <2> QED BY <1>1, <2>1 DEF PathPosts, PathNames
<1>3. /\ Addr!PostByPermalink(s, old) = 0
      /\ Addr!PageByPermalink(s, old) = 0
      /\ Addr!TagByPermalink(s, old) = 0
  <2> DEFINE m == Addr!PostByPermalink(s, old)
             at == Addr!PageByPermalink(s, old)
             k == Addr!TagByPermalink(s, old)
  <2>0. ASSUME NEW kind \in {"post", "page", "tag"}, NEW b \in Addr!Items(kind)
        PROVE  ~Addr!Same(Addr!URL(s, kind, b), old)
    BY DEF Addr!Takes
  <2>1. m = 0
    <3>1. ASSUME m \in 1..Len(Live.posts), Addr!Same(Addr!PostURL(s, Live.posts[m]), old)
          PROVE  FALSE
      <4>1. /\ Live.posts[m].slug \in Addr!Items("post")
            /\ Addr!Same(Addr!URL(s, "post", Live.posts[m].slug), old)
        BY <3>1, LiveItems
      <4> QED BY <2>0, <4>1
    <3> QED BY <3>1, PostFoundAt
  <2>2. at = 0
    <3>1. ASSUME at \in 1..Len(Live.pages), Addr!Same(Addr!PageURL(s, Live.pages[at]), old)
          PROVE  FALSE
      <4>1. /\ Live.pages[at] \in Addr!Items("page")
            /\ Addr!Same(Addr!URL(s, "page", Live.pages[at]), old)
        BY <3>1, LiveItems
      <4> QED BY <2>0, <4>1
    <3> QED BY <3>1, PageFoundAt
  <2>3. k = 0
    <3>1. ASSUME k \in 1..Len(Live.tags), Addr!Same(Addr!TagURL(s, Live.tags[k]), old)
          PROVE  FALSE
      <4>1. /\ Live.tags[k] \in Addr!Items("tag")
            /\ Addr!Same(Addr!URL(s, "tag", Live.tags[k]), old)
        BY <3>1, LiveItems
      <4> QED BY <2>0, <4>1
    <3> QED BY <3>1, TagFoundAt
  <2> QED BY <2>1, <2>2, <2>3
<1>4. Addr!Serve(s, old) = Addr!BySlug(old)
  BY <1>3 DEF Addr!Serve, Addr!ByPermalink
<1>5. /\ old \in Seq(X) /\ Len(old) = 3 + Len(a)
      /\ old[1] = "/" /\ old[2] = "posts" /\ old[3] = "/"
      /\ \A j \in 1..Len(a) : old[3 + j] = a[j]
  <2> DEFINE first == <<"/", "posts", "/">>
  <2>1. "/" \in X /\ "posts" \in X
    BY DEF LiveTyped, Literals
  <2>2. first \in Seq(X) /\ Len(first) = 3 /\ first[1] = "/" /\ first[2] = "posts" /\ first[3] = "/"
    BY <2>1
  <2> HIDE DEF first
  <2>3. /\ first \o a \in Seq(X) /\ Len(a) \in Nat /\ Len(first \o a) = Len(first) + Len(a)
        /\ \A j \in 1..Len(first) + Len(a) :
              (first \o a)[j] = IF j <= Len(first) THEN first[j] ELSE a[j - Len(first)]
    <3>1. first \in Seq(X) /\ a \in Seq(X)
      BY <1>2, <2>2
    <3>2. Len(a) \in Nat
      BY <3>1, LenProperties
    <3> QED BY ONLY <3>1, <3>2, ConcatProperties
  <2>4. old = first \o a
    BY DEF first
  <2>5. \A j \in 1..3 + Len(a) : old[j] = IF j <= 3 THEN first[j] ELSE a[j - 3]
    BY <2>2, <2>3, <2>4
  <2>6. old[1] = "/" /\ old[2] = "posts" /\ old[3] = "/"
    <3>1. 1 \in 1..3 + Len(a) /\ 2 \in 1..3 + Len(a) /\ 3 \in 1..3 + Len(a)
      BY <2>3
    <3> QED BY <2>2, <2>5, <3>1
  <2>7. ASSUME NEW j \in 1..Len(a) PROVE old[3 + j] = a[j]
    <3>1. 3 + j \in 1..3 + Len(a) /\ ~(3 + j <= 3) /\ (3 + j) - 3 = j
      BY <2>3
    <3> QED BY <2>5, <3>1
  <2> QED BY <2>2, <2>3, <2>4, <2>6, <2>7
<1>6. SubSeq(old, 4, Len(old)) = a
  <2> DEFINE u == SubSeq(old, 4, Len(old))
  <2>0. Len(a) \in Nat /\ Len(a) # 0
    BY <1>2
  <2>1. u \in Seq(X) /\ Len(u) = Len(a) /\ \A j \in 1..Len(a) : u[j] = old[3 + j]
    BY <1>5, <2>0
  <2> HIDE DEF u
  <2>2. \A j \in 1..Len(u) : u[j] = a[j]
    BY <1>5, <2>1
  <2>3. u = a
    BY <1>2, <2>1, <2>2, SeqEqual
  <2> QED BY <2>3 DEF u
<1>7. ~(Len(old) < 4)
  BY <1>2, <1>5
<1>8. i \in DOMAIN Live.posts
  BY DEF LiveTyped
<1>9. Addr!BySlug(old) = <<"post", a>>
  BY <1>1, <1>5, <1>6, <1>7, <1>8 DEF Addr!BySlug
<1> QED BY <1>4, <1>9

(* AddressesLead, for any patterns, and for content of any size: names are *)
(* not empty and have no slash, and no two posts have one name. The old    *)
(* address of a post is none that another handler has.                     *)
THEOREM AddressesAlwaysLead ==
    ASSUME NEW X, LiveTyped(X),
           \A i \in DOMAIN Live.posts : <<"/", "posts", "/">> \o Live.posts[i].slug \notin Reserved,
           input \in {"address"} \X PatternTexts(X)
    PROVE  AddressesLead
<1> DEFINE s == input[2]
<1>1. s \in PatternTexts(X)
  OBVIOUS
<1> HIDE DEF s
<1>2. ASSUME NEW kind \in {"post", "page", "tag"}, NEW a \in Addr!Items(kind),
             ~(kind = "post" /\ Addr!NameLost(Addr!Normal(s).post, Addr!PostNames)),
             ~(kind = "page" /\ Addr!NameLost(Addr!Normal(s).page, Addr!PageNames)),
             ~(kind = "tag" /\ Addr!NameLost(Addr!Normal(s).tag, Addr!TagNames)),
             NEW end \in {<<>>, <<"/">>}
      PROVE  LET url == Addr!URL(s, kind, a)
             IN Addr!Leads(s, kind, a, IF Addr!Last(url) = "/" THEN url ELSE url \o end)
  <2> DEFINE url == Addr!URL(s, kind, a)
             path == IF Addr!Last(url) = "/" THEN url ELSE url \o end
  <2>1. url \in Seq(X)
    BY <1>1, <1>2, AddressTyped
  <2>2. Addr!Same(url, path)
    <3>1. path = url \/ path = url \o <<>> \/ path = url \o <<"/">>
      OBVIOUS
    <3>2. url \o <<>> = url
      BY <2>1
    <3>3. "/" \in X
      BY DEF LiveTyped, Literals
    <3>4. Addr!Comparable(url \o <<"/">>) = Addr!Comparable(url)
      BY <2>1, <3>3, SlashIgnored
    <3> HIDE DEF url, path
    <3> QED BY <3>1, <3>2, <3>4 DEF Addr!Same
  <2> HIDE DEF path
  <2>3. ASSUME path \notin Reserved, ~Addr!Takes(s, Addr!Before(kind), path)
        PROVE  Addr!Serve(s, path) = <<kind, a>>
    BY <1>1, <1>2, <2>2, <2>3, ItemServed
  <2>4. Addr!Leads(s, kind, a, path)
    BY <2>3 DEF Addr!Leads
  <2> QED BY <2>4 DEF path
<1>3. ASSUME NEW a \in Addr!Items("post")
      PROVE  LET old == <<"/", "posts", "/">> \o a
             IN Addr!Serve(s, old) = <<"post", a>> \/ Addr!Takes(s, {"post", "page", "tag"}, old)
  <2> DEFINE old == <<"/", "posts", "/">> \o a
  <2>1. old \notin Reserved
    <3>1. PICK i \in 1..Len(Live.posts) : Live.posts[i].slug = a
      BY LiveItems
    <3>2. i \in DOMAIN Live.posts
      BY DEF LiveTyped
    <3> QED BY <3>1, <3>2
  <2> HIDE DEF old
  <2>2. old = <<"/", "posts", "/">> \o a
    BY DEF old
  <2>3. Addr!Serve(s, old) = <<"post", a>> \/ Addr!Takes(s, {"post", "page", "tag"}, old)
    BY <1>1, <2>1, <2>2, OldServed
  <2> QED BY <2>3 DEF old
<1>4. Addr!AddressesLead(s)
  BY <1>2, <1>3 DEF Addr!AddressesLead
<1> QED BY <1>4 DEF AddressesLead, s
-----------------------------------------------------------------------------
(* Posts through files and the editor. The lists of module FrontMatter are *)
(* those of the lemmas.                                                    *)
LEMMA EditorLists ==
    /\ \A s, S : Editor!Where(s, S) = Where(s, S)
    /\ \A s : Editor!FlattenSeq(s) = Listings!FlattenSeq(s)
<1>1. \A s, S : Editor!Where(s, S) = Where(s, S)
  BY DEF Editor!Where, Where
<1>2. \A s : Editor!FlattenSeq(s) = Listings!FlattenSeq(s)
  BY DEF Editor!FlattenSeq, Listings!FlattenSeq
<1> QED BY <1>1, <1>2

(* The first and the last of some places.                                  *)
LEMMA EndPlaces ==
    ASSUME NEW len \in Nat, NEW I \in SUBSET (1..len), I # {}
    PROVE  /\ Editor!Min(I) \in I /\ Editor!Max(I) \in I
           /\ \A i \in I : Editor!Min(I) <= i /\ i <= Editor!Max(I)
<1>1. \E x \in I : \A y \in I : x <= y
  <2>1. I \in SUBSET Nat /\ I # {}
    OBVIOUS
  <2>2. PICK x \in I : \A y \in I : x <= y
    BY ONLY <2>1, LeastNumber
  <2> QED BY <2>2
<1>2. \E x \in I : \A y \in I : x >= y
  <2> DEFINE J == {len - i : i \in I}
  <2>1. J \in SUBSET Nat /\ J # {}
    <3>1. \A i \in I : i \in 1..len
      OBVIOUS
    <3>2. \A i \in I : len - i \in Nat
      BY <3>1
    <3> QED BY <3>2
  <2>2. PICK m \in J : \A k \in J : m <= k
    <3> HIDE DEF J
    <3> QED BY <2>1, LeastNumber
  <2>3. PICK at \in I : m = len - at
    OBVIOUS
  <2>4. ASSUME NEW i \in I PROVE at >= i
    <3>1. len - at <= len - i
      BY <2>2, <2>3
    <3> QED BY <3>1
  <2> QED BY <2>4
<1>3. Editor!Min(I) \in I /\ \A y \in I : Editor!Min(I) =< y
  BY <1>1 DEF Editor!Min
<1>4. Editor!Max(I) \in I /\ \A y \in I : Editor!Max(I) >= y
  BY <1>2 DEF Editor!Max
<1>5. \A i \in I : i \in Nat
  OBVIOUS
<1> QED BY <1>3, <1>4, <1>5

(* What is left of a text without a set of characters at its ends.         *)
Keeps(t, set, a, b) ==
    /\ a \in 1..Len(t) /\ b \in 1..Len(t) /\ a <= b
    /\ t[a] \notin set /\ t[b] \notin set
    /\ \A i \in 1..Len(t) : i < a \/ b < i => t[i] \in set

LEMMA TrimFinds ==
    ASSUME NEW X, NEW t \in Seq(X), NEW set
    PROVE  \/ /\ \A i \in 1..Len(t) : t[i] \in set
              /\ Editor!Trim(t, set) = <<>>
           \/ \E a, b : Keeps(t, set, a, b) /\ Editor!Trim(t, set) = SubSeq(t, a, b)
<1> DEFINE I == {i \in DOMAIN t : t[i] \notin set}
           len == Len(t)
<1>1. len \in Nat /\ DOMAIN t = 1..len /\ I \in SUBSET (1..len)
  OBVIOUS
<1>2. CASE I = {}
  BY <1>1, <1>2 DEF Editor!Trim
<1>3. CASE I # {}
  <2> DEFINE a == Editor!Min(I)
             b == Editor!Max(I)
  <2>1. Editor!Trim(t, set) = SubSeq(t, a, b)
    BY <1>3 DEF Editor!Trim
  <2>2. a \in I /\ b \in I /\ \A i \in I : a <= i /\ i <= b
    <3> HIDE DEF I
    <3> QED BY <1>1, <1>3, EndPlaces
  <2> HIDE DEF a, b
  <2>3. a \in 1..len /\ b \in 1..len /\ a <= b /\ t[a] \notin set /\ t[b] \notin set
    BY <1>1, <2>2
  <2>4. ASSUME NEW i \in 1..len, i < a \/ b < i PROVE t[i] \in set
    <3>1. i \notin I
      BY <1>1, <2>2, <2>3, <2>4
    <3> QED BY <1>1, <3>1
  <2> QED BY <2>1, <2>3, <2>4 DEF Keeps
<1> QED BY <1>2, <1>3

LEMMA KeepsOnce ==
    ASSUME NEW X, NEW t \in Seq(X), NEW set, NEW a, NEW b, NEW c, NEW d,
           Keeps(t, set, a, b), Keeps(t, set, c, d)
    PROVE  a = c /\ b = d
<1>1. /\ a \in 1..Len(t) /\ b \in 1..Len(t) /\ c \in 1..Len(t) /\ d \in 1..Len(t)
      /\ Len(t) \in Nat
  BY DEF Keeps
<1>2. ~(a < c) /\ ~(c < a) /\ ~(b < d) /\ ~(d < b)
  BY <1>1 DEF Keeps
<1> QED BY <1>1, <1>2

LEMMA TrimIs ==
    ASSUME NEW X, NEW t \in Seq(X), NEW set, NEW a, NEW b, Keeps(t, set, a, b)
    PROVE  Editor!Trim(t, set) = SubSeq(t, a, b)
<1>1. ~ \A i \in 1..Len(t) : t[i] \in set
  BY DEF Keeps
<1>2. PICK c, d : Keeps(t, set, c, d) /\ Editor!Trim(t, set) = SubSeq(t, c, d)
  BY <1>1, TrimFinds
<1>3. a = c /\ b = d
  BY <1>2, KeepsOnce
<1> QED BY <1>2, <1>3

(* Nothing at the ends to take away.                                       *)
Clean(t, set) == t = <<>> \/ (t[1] \notin set /\ t[Len(t)] \notin set)

LEMMA TrimNothing ==
    ASSUME NEW X, NEW t \in Seq(X), NEW set, Clean(t, set)
    PROVE  Editor!Trim(t, set) = t
<1>1. CASE t = <<>>
  <2>1. 1..Len(t) = {}
    BY <1>1
  <2>2. \A a, b : ~Keeps(t, set, a, b)
    BY <2>1 DEF Keeps
  <2> QED BY <1>1, <2>2, TrimFinds
<1>2. CASE t # <<>>
  <2>1. Len(t) \in Nat /\ Len(t) # 0
    BY <1>2, EmptySeq
  <2>2. Keeps(t, set, 1, Len(t))
    BY <1>2, <2>1 DEF Keeps, Clean
  <2>3. Editor!Trim(t, set) = SubSeq(t, 1, Len(t))
    BY <2>2, TrimIs
  <2> QED BY <2>3, SubSeqFull
<1> QED BY <1>1, <1>2

LEMMA Trims ==
    ASSUME NEW X, NEW t \in Seq(X), NEW set
    PROVE  /\ Editor!Trim(t, set) \in Seq(X)
           /\ \A i \in 1..Len(Editor!Trim(t, set)) :
                 \E j \in 1..Len(t) : Editor!Trim(t, set)[i] = t[j]
           /\ Clean(Editor!Trim(t, set), set)
<1> DEFINE u == Editor!Trim(t, set)
<1>1. CASE u = <<>>
  <2>1. 1..Len(u) = {} /\ u \in Seq(X)
    BY <1>1
  <2> QED BY <1>1, <2>1 DEF Clean
<1>2. CASE u # <<>>
  <2>1. PICK a, b : Keeps(t, set, a, b) /\ u = SubSeq(t, a, b)
    BY <1>2, TrimFinds
  <2> HIDE DEF u
  <2>2. /\ a \in 1..Len(t) /\ b \in 1..Len(t) /\ a <= b /\ Len(t) \in Nat
        /\ t[a] \notin set /\ t[b] \notin set
    BY <2>1 DEF Keeps
  <2>3. u \in Seq(X) /\ Len(u) = b - a + 1 /\ \A i \in 1..b - a + 1 : u[i] = t[a + i - 1]
    <3>1. \A i \in a..b : t[i] \in X
      BY <2>2
    <3> QED BY <2>1, <2>2, <3>1, SubSeqProperties
  <2>4. \A i \in 1..b - a + 1 : a + i - 1 \in 1..Len(t)
    BY <2>2
  <2>5. u[1] = t[a] /\ u[Len(u)] = t[b]
    <3>1. 1 \in 1..b - a + 1 /\ Len(u) \in 1..b - a + 1 /\ a + 1 - 1 = a /\ a + Len(u) - 1 = b
      BY <2>2, <2>3
    <3> QED BY <2>3, <3>1
  <2>6. \A i \in 1..Len(u) : \E j \in 1..Len(t) : u[i] = t[j]
    BY <2>3, <2>4
  <2>7. Clean(u, set)
    BY <2>2, <2>5 DEF Clean
  <2> QED BY <2>3, <2>6, <2>7 DEF u
<1> QED BY <1>1, <1>2

(* A text without quotes and backslashes between quotes.                   *)
InQuotes(t, u) ==
    /\ Len(u) = Len(t) + 2
    /\ u[1] = Quote /\ u[Len(t) + 2] = Quote
    /\ \A i \in 1..Len(t) : u[i + 1] = t[i]

Unquotable(t) == \A i \in 1..Len(t) : t[i] \notin {Quote, Slash}

LEMMA OneByOne ==
    ASSUME NEW X, NEW t \in Seq(X)
    PROVE  Editor!FlattenSeq([i \in 1..Len(t) |-> <<t[i]>>]) = t
<1> DEFINE len == Len(t)
           s == [i \in 1..len |-> <<t[i]>>]
<1>1. len \in Nat /\ \A i \in 1..len : <<t[i]>> \in Seq(X)
  OBVIOUS
<1>2. s \in Seq(Seq(X)) /\ Len(s) = len
  <2> DEFINE D == Seq(X)
  <2>1. s \in [1..len -> D]
    BY <1>1
  <2> HIDE DEF s, D
  <2>2. s \in Seq(D)
    BY <1>1, <2>1, SeqDef
  <2>3. Len(s) = len
    <3>1. DOMAIN s = 1..Len(s) /\ Len(s) \in Nat
      BY <2>2, LenProperties
    <3> QED BY <1>1, <2>1, <3>1
  <2> QED BY <2>2, <2>3 DEF D
<1>3. PICK r \in [0..len -> Seq(X)] : JoinsEach(r, s, len)
  <2> HIDE DEF s
  <2>1. PICK r \in [0..Len(s) -> Seq(X)] : JoinsEach(r, s, Len(s))
    BY <1>2, FlattenTurns
  <2> QED BY <1>2, <2>1
<1>4. \A k \in 1..len : s[k] = <<t[k]>>
  OBVIOUS
<1> HIDE DEF s
<1> DEFINE Is(k) == Len(r[k]) = k /\ \A i \in 1..k : r[k][i] = t[i]
           ns == {k \in Nat : k <= len => Is(k)}
<1>5. 0 \in ns
  BY <1>3 DEF JoinsEach
<1>6. ASSUME NEW k \in Nat, k \in ns PROVE k + 1 \in ns
  <2> SUFFICES ASSUME k + 1 <= len PROVE Is(k + 1)
    OBVIOUS
  <2>1. k + 1 \in 1..len /\ (k + 1) - 1 = k /\ k \in 0..len
    BY <1>1
  <2>2. r[k + 1] = r[k] \o <<t[k + 1]>> /\ r[k] \in Seq(X) /\ t[k + 1] \in X
    <3>1. \A m \in 1..len : r[m] = r[m - 1] \o s[m]
      BY <1>3 DEF JoinsEach
    <3>2. r[k + 1] = r[k] \o s[k + 1]
      BY <2>1, <3>1
    <3>3. r[k] \in Seq(X)
      BY <2>1
    <3>4. t[k + 1] \in X
      BY <2>1
    <3> QED BY <1>4, <2>1, <3>2, <3>3, <3>4
  <2>3. Len(r[k]) = k /\ \A i \in 1..k : r[k][i] = t[i]
    BY <1>6, <2>1
  <2> DEFINE u == r[k]
             x == t[k + 1]
  <2> HIDE DEF u, x
  <2>4. Append(u, x) = u \o <<x>> /\ u \in Seq(X) /\ x \in X
    BY <2>2, AppendIsConcat DEF u, x
  <2>5. Len(u \o <<x>>) = k + 1 /\ (u \o <<x>>)[k + 1] = x /\ \A i \in 1..k : (u \o <<x>>)[i] = u[i]
    <3>1. Len(u) = k
      BY <2>3 DEF u
    <3> QED BY <2>4, <3>1, AppendProperties
  <2>6. \A i \in 1..k + 1 : i \in 1..k \/ i = k + 1
    OBVIOUS
  <2> QED BY <2>2, <2>3, <2>5, <2>6 DEF u, x
<1>7. Is(len)
  <2>1. Nat \subseteq ns
    <3> HIDE DEF ns
    <3> QED BY <1>5, <1>6, Counting
  <2> QED BY <1>1, <2>1
<1>8. r[len] = t
  <2> DEFINE u == r[len]
  <2>1. u \in Seq(X) /\ Len(u) = Len(t) /\ \A i \in 1..Len(u) : u[i] = t[i]
    BY <1>1, <1>7
  <2> HIDE DEF u
  <2>2. u = t
    BY <2>1, SeqEqual
  <2> QED BY <2>2 DEF u
<1>9. Editor!FlattenSeq(s) = r[len]
  BY <1>3, EditorLists DEF JoinsEach
<1> QED BY <1>8, <1>9 DEF s

LEMMA QuotesAround ==
    ASSUME NEW X, Quote \in X, NEW t \in Seq(X), Unquotable(t)
    PROVE  Editor!Quoted(t) \in Seq(X) /\ InQuotes(t, Editor!Quoted(t))
<1>1. Len(t) \in Nat /\ DOMAIN t = 1..Len(t)
  OBVIOUS
<1>2. [i \in DOMAIN t |-> IF t[i] \in {Quote, Slash} THEN <<Slash, t[i]>> ELSE <<t[i]>>]
         = [i \in 1..Len(t) |-> <<t[i]>>]
  BY <1>1 DEF Unquotable
<1>3. Editor!Quoted(t) = (<<Quote>> \o t) \o <<Quote>>
  <2>1. Editor!FlattenSeq([i \in DOMAIN t |-> IF t[i] \in {Quote, Slash} THEN <<Slash, t[i]>>
                                             ELSE <<t[i]>>]) = t
    BY <1>2, OneByOne
  <2> QED BY <2>1 DEF Editor!Quoted
<1> DEFINE q == <<Quote>>
<1>4. q \in Seq(X) /\ Len(q) = 1 /\ q[1] = Quote
  OBVIOUS
<1> HIDE DEF q
<1>5. /\ q \o t \in Seq(X) /\ Len(q \o t) = Len(t) + 1
      /\ \A i \in 1..Len(t) + 1 : (q \o t)[i] = IF i <= 1 THEN q[i] ELSE t[i - 1]
  <2>1. /\ q \o t \in Seq(X) /\ Len(q \o t) = Len(q) + Len(t)
        /\ \A i \in 1..Len(q) + Len(t) : (q \o t)[i] = IF i <= Len(q) THEN q[i] ELSE t[i - Len(q)]
    BY <1>4, ConcatProperties
  <2>2. Len(q) + Len(t) = Len(t) + 1
    BY <1>1, <1>4
  <2> QED BY <1>4, <2>1, <2>2
<1> DEFINE v == q \o t
<1>6. /\ v \o q \in Seq(X) /\ Len(v \o q) = Len(t) + 2
      /\ \A i \in 1..Len(t) + 2 : (v \o q)[i] = IF i <= Len(t) + 1 THEN v[i] ELSE q[i - (Len(t) + 1)]
  <2> HIDE DEF v
  <2>1. v \in Seq(X) /\ Len(v) = Len(t) + 1
    BY <1>5 DEF v
  <2>2. /\ v \o q \in Seq(X) /\ Len(v \o q) = Len(v) + Len(q)
        /\ \A i \in 1..Len(v) + Len(q) : (v \o q)[i] = IF i <= Len(v) THEN v[i] ELSE q[i - Len(v)]
    BY <1>4, <2>1, ConcatProperties
  <2>3. Len(v) + Len(q) = Len(t) + 2
    BY <1>1, <1>4, <2>1
  <2> QED BY <2>1, <2>2, <2>3
<1> DEFINE u == v \o q
<1>7. u[1] = Quote /\ u[Len(t) + 2] = Quote
  <2>1. 1 \in 1..Len(t) + 2 /\ Len(t) + 2 \in 1..Len(t) + 2 /\ 1 <= Len(t) + 1 /\ 1 \in 1..Len(t) + 1
        /\ (Len(t) + 2) - (Len(t) + 1) = 1 /\ ~(Len(t) + 2 <= Len(t) + 1)
    BY <1>1
  <2>2. v[1] = Quote
    BY <1>4, <1>5, <2>1
  <2> HIDE DEF v
  <2> QED BY <1>4, <1>6, <2>1, <2>2
<1>8. ASSUME NEW i \in 1..Len(t) PROVE u[i + 1] = t[i]
  <2>1. i + 1 \in 1..Len(t) + 2 /\ i + 1 <= Len(t) + 1 /\ i + 1 \in 1..Len(t) + 1 /\ ~(i + 1 <= 1)
        /\ (i + 1) - 1 = i
    BY <1>1
  <2>2. v[i + 1] = t[i]
    BY <1>5, <2>1
  <2> HIDE DEF v
  <2> QED BY <1>6, <2>1, <2>2
<1>9. Editor!Quoted(t) = u
  BY <1>3 DEF q
<1> HIDE DEF u
<1>10. u \in Seq(X) /\ Len(u) = Len(t) + 2
  BY <1>6 DEF u
<1> QED BY <1>7, <1>8, <1>9, <1>10 DEF InQuotes

(* What the quotes are taken from comes back.                              *)
LEMMA QuotesOff ==
    ASSUME NEW X, NEW t \in Seq(X), NEW u \in Seq(X), InQuotes(t, u), Unquotable(t)
    PROVE  Editor!Unquoted(u) = t
<1>1. Len(t) \in Nat /\ Len(u) = Len(t) + 2 /\ u[1] = Quote /\ u[Len(t) + 2] = Quote
      /\ \A i \in 1..Len(t) : u[i + 1] = t[i] /\ t[i] # Quote
  BY DEF InQuotes, Unquotable
<1>2. CASE t = <<>>
  <2>1. Len(t) = 0
    BY <1>2
  <2>2. \A i \in 1..Len(u) : u[i] \in {Quote}
    BY <1>1, <2>1
  <2>3. \A a, b : ~Keeps(u, {Quote}, a, b)
    BY <2>2 DEF Keeps
  <2>4. Editor!Trim(u, {Quote}) = <<>>
    BY <2>3, TrimFinds
  <2> QED BY <1>2, <2>4 DEF Editor!Unquoted
<1>3. CASE t # <<>>
  <2>1. Len(t) # 0
    BY <1>3, EmptySeq
  <2>2. Keeps(u, {Quote}, 2, Len(t) + 1)
    <3>1. 1 \in 1..Len(t) /\ Len(t) \in 1..Len(t) /\ 2 = 1 + 1
      BY <1>1, <2>1
    <3>2. u[2] # Quote /\ u[Len(t) + 1] # Quote
      BY <1>1, <3>1
    <3>3. \A i \in 1..Len(u) : i < 2 \/ Len(t) + 1 < i => u[i] = Quote
      BY <1>1
    <3> QED BY <1>1, <2>1, <3>2, <3>3 DEF Keeps
  <2>3. Editor!Trim(u, {Quote}) = SubSeq(u, 2, Len(t) + 1)
    BY <2>2, TrimIs
  <2> DEFINE v == SubSeq(u, 2, Len(t) + 1)
  <2>4. v \in Seq(X) /\ Len(v) = Len(t) /\ \A i \in 1..Len(t) : v[i] = u[i + 1]
    <3>1. \A i \in 2..Len(t) + 1 : u[i] \in X
      BY <1>1
    <3>2. 2 <= Len(t) + 1 /\ (Len(t) + 1) - 2 + 1 = Len(t) /\ \A i \in 1..Len(t) : 2 + i - 1 = i + 1
      BY <1>1, <2>1
    <3> QED BY <1>1, <3>1, <3>2, SubSeqProperties
  <2> HIDE DEF v
  <2>5. v = t
    <3>1. \A i \in 1..Len(v) : v[i] = t[i]
      BY <1>1, <2>4
    <3> QED BY <2>4, <3>1, SeqEqual
  <2> QED BY <2>3, <2>5 DEF v, Editor!Unquoted
<1> QED BY <1>2, <1>3

(* The marks are five characters.                                          *)
Marks(X) ==
    /\ {Quote, Slash, Comma, NewLine, Space} \subseteq X
    /\ Quote \notin {Slash, Comma, NewLine, Space}
    /\ Slash \notin {Comma, NewLine, Space}
    /\ Comma \notin {NewLine, Space}
    /\ NewLine # Space

LEMMA CutNothing ==
    ASSUME NEW X, NEW t \in Seq(X), NEW sep, \A i \in 1..Len(t) : t[i] # sep
    PROVE  Editor!Cut(t, sep) = t
<1>1. {i \in 1..Len(t) : t[i] = sep} = {}
  OBVIOUS
<1>2. Editor!SelectInSeq(t, LAMBDA c : c = sep) = 0
  BY <1>1 DEF Editor!SelectInSeq
<1> QED BY <1>2 DEF Editor!Cut

(* A plain text is read as it was written.                                 *)
LEMMA PlainInQuotes ==
    ASSUME NEW X, Marks(X), NEW t \in Seq(X), Editor!Plain(t)
    PROVE  /\ Editor!Quoted(t) \in Seq(X) /\ InQuotes(t, Editor!Quoted(t)) /\ Unquotable(t)
           /\ \A i \in 1..Len(Editor!Quoted(t)) :
                 Editor!Quoted(t)[i] = Quote \/ \E j \in 1..Len(t) : Editor!Quoted(t)[i] = t[j]
<1> DEFINE u == Editor!Quoted(t)
<1>1. DOMAIN t = 1..Len(t) /\ Len(t) \in Nat
  OBVIOUS
<1>2. Unquotable(t) /\ Quote \in X
  BY <1>1 DEF Editor!Plain, Unquotable, Marks
<1>3. u \in Seq(X) /\ InQuotes(t, u)
  BY <1>2, QuotesAround
<1> HIDE DEF u
<1>4. ASSUME NEW i \in 1..Len(u) PROVE u[i] = Quote \/ \E j \in 1..Len(t) : u[i] = t[j]
  <2>1. CASE i = 1 \/ i = Len(t) + 2
    BY <1>3, <2>1 DEF InQuotes
  <2>2. CASE ~(i = 1 \/ i = Len(t) + 2)
    <3>1. i - 1 \in 1..Len(t) /\ (i - 1) + 1 = i
      BY <1>1, <1>3, <2>2 DEF InQuotes
    <3>2. u[(i - 1) + 1] = t[i - 1]
      BY <1>3, <3>1 DEF InQuotes
    <3> QED BY <3>1, <3>2
  <2> QED BY <2>1, <2>2
<1> QED BY <1>2, <1>3, <1>4 DEF u

LEMMA QuotedClean ==
    ASSUME NEW X, Marks(X), NEW t \in Seq(X), NEW u \in Seq(X), InQuotes(t, u)
    PROVE  Editor!TrimSpace(u) = u
<1>1. Len(u) = Len(t) + 2 /\ u[1] = Quote /\ u[Len(t) + 2] = Quote
  BY DEF InQuotes
<1>2. Clean(u, {Space, NewLine})
  BY <1>1 DEF Clean, Marks
<1> QED BY <1>2, TrimNothing DEF Editor!TrimSpace

LEMMA ValueKept ==
    ASSUME NEW X, Marks(X), NEW t \in Seq(X), Editor!Plain(t)
    PROVE  Editor!Value(Editor!Quoted(t)) = t
<1> DEFINE u == Editor!Quoted(t)
<1>1. /\ u \in Seq(X) /\ InQuotes(t, u) /\ Unquotable(t)
      /\ \A i \in 1..Len(u) : u[i] = Quote \/ \E j \in 1..Len(t) : u[i] = t[j]
  BY PlainInQuotes
<1> HIDE DEF u
<1>2. \A i \in 1..Len(u) : u[i] # NewLine
  <2>1. \A j \in 1..Len(t) : t[j] # NewLine
    BY DEF Editor!Plain
  <2> QED BY <1>1, <2>1 DEF Marks
<1>3. Editor!Cut(u, NewLine) = u
  BY <1>1, <1>2, CutNothing
<1>4. Editor!TrimSpace(u) = u
  BY <1>1, QuotedClean
<1>5. Editor!Unquoted(u) = t
  BY <1>1, QuotesOff
<1> QED BY <1>3, <1>4, <1>5 DEF Editor!Value, u

(* The parts of a text, from one character to the next.                    *)
SplitParts(X) == Seq(Seq(X)) \ {<<>>}
Longer(p, x, sep) ==
    IF x = sep THEN Append(p, <<>>) ELSE [p EXCEPT ![Len(p)] = Append(@, x)]

LEMMA LongerLast ==
    ASSUME NEW X, NEW p \in Seq(Seq(X)), NEW q \in Seq(X), NEW x \in X, NEW sep, x # sep
    PROVE  Longer(Append(p, q), x, sep) = Append(p, Append(q, x))
<1> DEFINE D == Seq(X)
           v == Append(q, x)
<1>1. v \in D /\ q \in D /\ p \in Seq(D)
  BY AppendProperties
<1> HIDE DEF D, v
<1>2. /\ Append(p, q) \in Seq(D) /\ Len(Append(p, q)) = Len(p) + 1 /\ Len(p) \in Nat
      /\ \A i \in 1..Len(p) : Append(p, q)[i] = p[i]
      /\ Append(p, q)[Len(p) + 1] = q
  BY <1>1, AppendProperties
<1>3. /\ Append(p, v) \in Seq(D) /\ Len(Append(p, v)) = Len(p) + 1
      /\ \A i \in 1..Len(p) : Append(p, v)[i] = p[i]
      /\ Append(p, v)[Len(p) + 1] = v
  BY <1>1, AppendProperties
<1> DEFINE a == Append(p, q)
           b == Append(p, v)
           at == Len(p) + 1
           e == [a EXCEPT ![at] = v]
<1> HIDE DEF a, b, at
<1>4. a \in Seq(D) /\ at \in 1..Len(a) /\ Len(a) = at /\ a[at] = q /\ Len(b) = at /\ b \in Seq(D)
  BY <1>2, <1>3 DEF a, b, at
<1>5. e \in Seq(D) /\ Len(e) = at /\ \A j \in 1..at : e[j] = IF j = at THEN v ELSE a[j]
  BY <1>1, <1>4, ExceptSeq
<1> HIDE DEF e
<1>6. ASSUME NEW j \in 1..at PROVE e[j] = b[j]
  <2>1. CASE j = at
    BY <1>3, <1>5, <2>1 DEF b, at
  <2>2. CASE j # at
    <3>1. j \in 1..Len(p)
      BY <1>2, <2>2 DEF at
    <3> QED BY <1>2, <1>3, <1>5, <2>2, <3>1 DEF a, b
  <2> QED BY <2>1, <2>2
<1>7. e = b
  BY <1>4, <1>5, <1>6, SeqEqual
<1>8. Longer(a, x, sep) = e
  <2>1. Longer(a, x, sep) = [a EXCEPT ![Len(a)] = Append(a[Len(a)], x)]
    BY DEF Longer
  <2>2. Append(a[Len(a)], x) = v /\ Len(a) = at
    BY <1>4 DEF v
  <2> QED BY <2>1, <2>2 DEF e
<1> QED BY <1>7, <1>8 DEF a, b, v

LEMMA LongerTyped ==
    ASSUME NEW X, NEW p \in SplitParts(X), NEW x \in X, NEW sep
    PROVE  Longer(p, x, sep) \in SplitParts(X)
<1> DEFINE D == Seq(X)
<1>1. p \in Seq(D) /\ p # <<>> /\ <<>> \in D
  BY DEF SplitParts
<1>2. \A q \in D : Append(q, x) \in D
  BY AppendProperties
<1> HIDE DEF D
<1>3. Len(p) \in 1..Len(p) /\ Len(p) \in Nat
  BY <1>1, EmptySeq
<1>4. CASE x = sep
  <2>1. Append(p, <<>>) \in Seq(D) /\ Len(Append(p, <<>>)) = Len(p) + 1
    BY <1>1, AppendProperties
  <2>2. Append(p, <<>>) # <<>>
    <3>1. Len(<<>>) = 0
      OBVIOUS
    <3> QED BY <1>3, <2>1, <3>1
  <2> QED BY <1>4, <2>1, <2>2 DEF Longer, SplitParts, D
<1>5. CASE x # sep
  <2> DEFINE v == Append(p[Len(p)], x)
             e == [p EXCEPT ![Len(p)] = v]
  <2>1. v \in D
    BY <1>1, <1>2, <1>3, ElementOfSeq
  <2> HIDE DEF v
  <2>2. e \in Seq(D) /\ Len(e) = Len(p)
    BY <1>1, <1>3, <2>1, ExceptSeq
  <2>3. e # <<>>
    <3>1. Len(<<>>) = 0
      OBVIOUS
    <3> HIDE DEF e
    <3> QED BY <1>3, <2>2, <3>1
  <2>4. Longer(p, x, sep) = e
    BY <1>5 DEF Longer, v
  <2> HIDE DEF e
  <2> QED BY <2>2, <2>3, <2>4 DEF SplitParts, D
<1> QED BY <1>4, <1>5

(* strings.Split goes through a text from the first character to the last. *)
SplitsEach(r, t, num, sep) ==
    /\ r[0] = <<<<>>>>
    /\ \A k \in 1..num : r[k] = Longer(r[k - 1], t[k], sep)
    /\ Editor!Split(t, sep) = r[num]

LEMMA SplitTurns ==
    ASSUME NEW X, NEW t \in Seq(X), NEW sep
    PROVE  \E r \in [0..Len(t) -> SplitParts(X)] : SplitsEach(r, t, Len(t), sep)
<1> DEFINE num == Len(t)
           D == SplitParts(X)
           steps == [i \in 1..num |-> [p \in D |-> Longer(p, t[i], sep)]]
           f == CHOOSE h : h = [k \in 0..num |-> IF k = 0 THEN <<<<>>>>
                                               ELSE Longer(h[k - 1], t[k], sep)]
<1>1. num \in Nat /\ \A i \in 1..num : t[i] \in X
  OBVIOUS
<1>2. steps \in [1..num -> [D -> D]] /\ <<<<>>>> \in D
  <2>1. \A i \in 1..num : \A p \in D : Longer(p, t[i], sep) \in D
    BY <1>1, LongerTyped
  <2>2. <<<<>>>> \in D
    BY DEF SplitParts
  <2> HIDE DEF num, D
  <2> QED BY <2>1, <2>2
<1>3. PICK r \in [0..num -> D] : Turned(r, num, <<<<>>>>, steps)
  <2> HIDE DEF num, D, steps
  <2> QED BY <1>1, <1>2, RecursionExists
<1>4. \A k \in 1..num : r[k] = Longer(r[k - 1], t[k], sep)
  <2> HIDE DEF D, num, f
  <2>1. \A k \in 1..num : k - 1 \in 0..num
    BY <1>1
  <2>2. \A k \in 1..num : r[k - 1] \in D
    BY <2>1
  <2> QED BY <1>3, <2>2 DEF Turned
<1>5. \E h : h = [k \in 0..num |-> IF k = 0 THEN <<<<>>>> ELSE Longer(h[k - 1], t[k], sep)]
  <2>1. DOMAIN r = 0..num /\ \A k \in 0..num : k # 0 => k \in 1..num
    BY <1>1
  <2>2. r = [k \in 0..num |-> IF k = 0 THEN <<<<>>>> ELSE Longer(r[k - 1], t[k], sep)]
    <3> HIDE DEF D, num, steps
    <3> QED BY <1>3, <1>4, <2>1 DEF Turned
  <2> QED BY <2>2, Zenon
<1>6. f = [k \in 0..num |-> IF k = 0 THEN <<<<>>>> ELSE Longer(f[k - 1], t[k], sep)]
  <2> HIDE DEF num
  <2> QED BY <1>5
<1>7. Editor!Split(t, sep) = f[num]
  BY DEF Editor!Split, Longer
<1> HIDE DEF f
<1>8. f[0] = <<<<>>>> /\ \A k \in 1..num : f[k] = Longer(f[k - 1], t[k], sep)
  <2>1. 0 \in 0..num /\ \A k \in 1..num : k \in 0..num /\ k # 0
    BY <1>1
  <2> HIDE DEF num
  <2> QED BY <1>6, <2>1
<1> HIDE DEF num, D, steps
<1> DEFINE ns == {k \in Nat : k <= num => f[k] = r[k]}
<1>9. 0 \in ns
  BY <1>3, <1>8 DEF Turned
<1>10. ASSUME NEW k \in Nat, k \in ns PROVE k + 1 \in ns
  <2> SUFFICES ASSUME k + 1 <= num PROVE f[k + 1] = r[k + 1]
    OBVIOUS
  <2>1. k + 1 \in 1..num /\ (k + 1) - 1 = k /\ f[k] = r[k]
    BY <1>1, <1>10
  <2> QED BY <1>4, <1>8, <2>1
<1>11. f[num] = r[num]
  <2>1. Nat \subseteq ns
    <3> HIDE DEF ns
    <3> QED BY <1>9, <1>10, Counting
  <2> QED BY <1>1, <2>1
<1>12. r[0] = <<<<>>>>
  BY <1>3 DEF Turned
<1> QED
  BY <1>4, <1>7, <1>11, <1>12 DEF num, D, SplitsEach

LEMMA SplitTyped ==
    ASSUME NEW X, NEW t \in Seq(X), NEW sep
    PROVE  Editor!Split(t, sep) \in SplitParts(X)
<1>1. PICK r \in [0..Len(t) -> SplitParts(X)] : SplitsEach(r, t, Len(t), sep)
  BY SplitTurns
<1>2. Len(t) \in 0..Len(t)
  OBVIOUS
<1> QED BY <1>1, <1>2 DEF SplitsEach

LEMMA SplitNext ==
    ASSUME NEW X, NEW s \in Seq(X), NEW x \in X, NEW sep
    PROVE  Editor!Split(Append(s, x), sep) = Longer(Editor!Split(s, sep), x, sep)
<1> DEFINE num == Len(s)
           t == Append(s, x)
<1>1. /\ num \in Nat /\ t \in Seq(X) /\ Len(t) = num + 1
      /\ \A i \in 1..num : t[i] = s[i]
      /\ t[num + 1] = x
  BY AppendProperties
<1>2. PICK r \in [0..num -> SplitParts(X)] : SplitsEach(r, s, num, sep)
  BY SplitTurns
<1> HIDE DEF t, num
<1>3. PICK q \in [0..num + 1 -> SplitParts(X)] : SplitsEach(q, t, num + 1, sep)
  <2>1. PICK q \in [0..Len(t) -> SplitParts(X)] : SplitsEach(q, t, Len(t), sep)
    BY <1>1, SplitTurns
  <2> QED BY <1>1, <2>1
<1> DEFINE ns == {k \in Nat : k <= num => q[k] = r[k]}
<1>4. 0 \in ns
  BY <1>2, <1>3 DEF SplitsEach
<1>5. ASSUME NEW k \in Nat, k \in ns PROVE k + 1 \in ns
  <2> SUFFICES ASSUME k + 1 <= num PROVE q[k + 1] = r[k + 1]
    OBVIOUS
  <2>1. k + 1 \in 1..num /\ k + 1 \in 1..num + 1 /\ (k + 1) - 1 = k /\ q[k] = r[k]
    <3>1. k <= num
      BY <1>1
    <3>2. q[k] = r[k]
      BY <1>5, <3>1
    <3> QED BY <1>1, <3>2
  <2>2. t[k + 1] = s[k + 1]
    BY <1>1, <2>1
  <2>3. r[k + 1] = Longer(r[k], s[k + 1], sep)
    BY <1>2, <2>1 DEF SplitsEach
  <2>4. q[k + 1] = Longer(q[k], t[k + 1], sep)
    BY <1>3, <2>1 DEF SplitsEach
  <2> QED BY <2>1, <2>2, <2>3, <2>4
<1>6. q[num] = r[num]
  <2>1. Nat \subseteq ns
    <3> HIDE DEF ns
    <3> QED BY <1>4, <1>5, Counting
  <2> QED BY <1>1, <2>1
<1>7. num + 1 \in 1..num + 1 /\ (num + 1) - 1 = num /\ num \in 0..num
  BY <1>1
<1>8. Editor!Split(t, sep) = Longer(Editor!Split(s, sep), x, sep)
  <2>1. q[num + 1] = Longer(q[num], t[num + 1], sep)
    BY <1>3, <1>7 DEF SplitsEach
  <2>2. Editor!Split(t, sep) = q[num + 1] /\ Editor!Split(s, sep) = r[num]
    BY <1>2, <1>3 DEF SplitsEach
  <2> QED BY <1>1, <1>6, <2>1, <2>2
<1> QED BY <1>8 DEF t

LEMMA SplitNothing ==
    ASSUME NEW sep PROVE Editor!Split(<<>>, sep) = <<<<>>>>
<1>1. <<>> \in Seq({}) /\ Len(<<>>) = 0
  OBVIOUS
<1>2. PICK r \in [0..Len(<<>>) -> SplitParts({})] : SplitsEach(r, <<>>, Len(<<>>), sep)
  BY <1>1, SplitTurns
<1> QED BY <1>1, <1>2 DEF SplitsEach

(* What follows without a separator goes into the last part,               *)
LEMMA SplitOn ==
    ASSUME NEW X, NEW t \in Seq(X), NEW p \in Seq(Seq(X)), NEW q \in Seq(X), NEW sep,
           Editor!Split(t, sep) = Append(p, <<>>), \A i \in 1..Len(q) : q[i] # sep
    PROVE  Editor!Split(t \o q, sep) = Append(p, q)
<1> DEFINE T == {u \in Seq(X) : (\A i \in 1..Len(u) : u[i] # sep) =>
                                    Editor!Split(t \o u, sep) = Append(p, u)}
<1>1. <<>> \in T
  <2>1. <<>> \in Seq(X) /\ t \o <<>> = t
    BY ConcatEmptySeq
  <2> QED BY <2>1
<1>2. ASSUME NEW u \in Seq(X), NEW x \in X, u \in T PROVE Append(u, x) \in T
  <2> DEFINE v == Append(u, x)
  <2>1. /\ v \in Seq(X) /\ Len(u) \in Nat /\ Len(v) = Len(u) + 1 /\ v[Len(u) + 1] = x
        /\ \A i \in 1..Len(u) : v[i] = u[i] /\ i \in 1..Len(v)
        /\ Len(u) + 1 \in 1..Len(v)
    BY AppendProperties
  <2>2. t \o v = Append(t \o u, x) /\ t \o u \in Seq(X)
    BY AppendAfter, ConcatProperties
  <2> HIDE DEF v
  <2>3. ASSUME \A i \in 1..Len(v) : v[i] # sep PROVE Editor!Split(t \o v, sep) = Append(p, v)
    <3>1. x # sep
      BY <2>1, <2>3
    <3>2. \A i \in 1..Len(u) : u[i] # sep
      BY <2>1, <2>3
    <3>3. Editor!Split(t \o u, sep) = Append(p, u)
      BY <1>2, <3>2
    <3>4. Editor!Split(Append(t \o u, x), sep) = Longer(Editor!Split(t \o u, sep), x, sep)
      BY <2>2, SplitNext
    <3>5. Longer(Append(p, u), x, sep) = Append(p, v)
      BY <3>1, LongerLast DEF v
    <3> QED BY <2>2, <3>3, <3>4, <3>5
  <2> QED BY <2>1, <2>3 DEF v
<1>3. Seq(X) \subseteq T
  <2> HIDE DEF T
  <2> QED BY <1>1, <1>2, Lengthening
<1> QED BY <1>3

LEMMA SplitFirst ==
    ASSUME NEW X, NEW q \in Seq(X), NEW sep, \A i \in 1..Len(q) : q[i] # sep
    PROVE  Editor!Split(q, sep) = <<q>>
<1>1. Editor!Split(<<>>, sep) = Append(<<>>, <<>>) /\ <<>> \in Seq(X) /\ <<>> \in Seq(Seq(X))
  BY SplitNothing
<1>2. PICK t \in Seq(X), p \in Seq(Seq(X)) : t = <<>> /\ p = <<>>
  BY <1>1
<1>3. Editor!Split(t, sep) = Append(p, <<>>)
  BY <1>1, <1>2
<1>4. Editor!Split(t \o q, sep) = Append(p, q)
  BY ONLY <1>3, SplitOn, q \in Seq(X), \A i \in 1..Len(q) : q[i] # sep
<1>5. <<>> \o q = q
  BY ConcatEmptySeq
<1> QED BY <1>2, <1>4, <1>5

(* and what follows a separator is the next part.                          *)
LEMMA SplitMore ==
    ASSUME NEW X, NEW t \in Seq(X), NEW q \in Seq(X), NEW sep \in X,
           \A i \in 1..Len(q) : q[i] # sep
    PROVE  Editor!Split(Append(t, sep) \o q, sep) = Append(Editor!Split(t, sep), q)
<1> DEFINE p == Editor!Split(t, sep)
<1>1. p \in Seq(Seq(X))
  BY SplitTyped DEF SplitParts
<1>2. Editor!Split(Append(t, sep), sep) = Append(p, <<>>) /\ Append(t, sep) \in Seq(X)
  BY SplitNext, AppendProperties DEF Longer
<1>3. PICK u \in Seq(X), z \in Seq(Seq(X)) :
         u = Append(t, sep) /\ z = p /\ Editor!Split(u, sep) = Append(z, <<>>)
  BY <1>1, <1>2
<1>4. Editor!Split(u, sep) = Append(z, <<>>)
  BY <1>3
<1>5. Editor!Split(u \o q, sep) = Append(z, q)
  BY ONLY <1>4, SplitOn, q \in Seq(X), \A i \in 1..Len(q) : q[i] # sep
<1> QED BY <1>3, <1>5

-----------------------------------------------------------------------------
(* The list of tags: what is between the quotes, and the parts the reader  *)
(* finds.                                                                  *)
Fit(t) == Editor!Plain(t) /\ \A i \in DOMAIN t : t[i] # Comma

Wrapped(X, q) ==
    /\ q \in Seq(X) /\ Len(q) # 0 /\ q[1] = Quote /\ q[Len(q)] = Quote
    /\ \A i \in 1..Len(q) : q[i] # Comma /\ q[i] # NewLine

Trimmed(tags) == [i \in DOMAIN tags |-> Editor!TrimSpace(tags[i])]

LEMMA TrimmedFit ==
    ASSUME NEW X, NEW t \in Seq(X), Fit(t)
    PROVE  Editor!TrimSpace(t) \in Seq(X) /\ Fit(Editor!TrimSpace(t))
<1> DEFINE u == Editor!TrimSpace(t)
<1>1. u \in Seq(X) /\ \A i \in 1..Len(u) : \E j \in 1..Len(t) : u[i] = t[j]
  <2> DEFINE set == {Space, NewLine}
  <2> HIDE DEF set
  <2>1. /\ Editor!Trim(t, set) \in Seq(X)
        /\ \A i \in 1..Len(Editor!Trim(t, set)) : \E j \in 1..Len(t) : Editor!Trim(t, set)[i] = t[j]
    BY Trims
  <2>2. u = Editor!Trim(t, set)
    BY DEF Editor!TrimSpace, set
  <2> HIDE DEF u
  <2> QED BY <2>1, <2>2
<1> HIDE DEF u
<1>2. DOMAIN u = 1..Len(u) /\ DOMAIN t = 1..Len(t)
  BY <1>1
<1> QED BY <1>1, <1>2 DEF u, Fit, Editor!Plain

LEMMA TagWrapped ==
    ASSUME NEW X, Marks(X), NEW g \in Seq(X), Fit(g)
    PROVE  Wrapped(X, Editor!Quoted(g)) /\ Editor!Unquoted(Editor!Quoted(g)) = g
<1> DEFINE q == Editor!Quoted(g)
<1>1. DOMAIN g = 1..Len(g) /\ Len(g) \in Nat /\ Editor!Plain(g)
  BY DEF Fit
<1>2. /\ q \in Seq(X) /\ InQuotes(g, q) /\ Unquotable(g)
      /\ \A i \in 1..Len(q) : q[i] = Quote \/ \E j \in 1..Len(g) : q[i] = g[j]
  BY <1>1, PlainInQuotes
<1> HIDE DEF q
<1>3. \A i \in 1..Len(q) : q[i] # Comma /\ q[i] # NewLine
  BY <1>1, <1>2 DEF Fit, Editor!Plain, Marks
<1>4. Len(q) # 0 /\ q[1] = Quote /\ q[Len(q)] = Quote
  BY <1>1, <1>2 DEF InQuotes
<1>5. Editor!Unquoted(q) = g
  BY <1>2, QuotesOff
<1> QED BY <1>2, <1>3, <1>4, <1>5 DEF Wrapped, q

(* A part after the first one has a space in front.                        *)
LEMMA SpaceInFront ==
    ASSUME NEW X, Marks(X), NEW q, Wrapped(X, q)
    PROVE  LET u == <<Space>> \o q
           IN /\ u \in Seq(X) /\ Len(u) = Len(q) + 1 /\ u[Len(u)] = Quote
              /\ \A i \in 1..Len(u) : u[i] # Comma /\ u[i] # NewLine
              /\ Editor!TrimSpace(u) = q
<1> DEFINE s == <<Space>>
           u == s \o q
<1>1. s \in Seq(X) /\ Len(s) = 1 /\ s[1] = Space
  BY DEF Marks
<1>2. /\ q \in Seq(X) /\ Len(q) \in Nat /\ Len(q) # 0 /\ q[1] = Quote /\ q[Len(q)] = Quote
      /\ \A i \in 1..Len(q) : q[i] # Comma /\ q[i] # NewLine
  BY DEF Wrapped
<1> HIDE DEF s
<1>3. /\ u \in Seq(X) /\ Len(u) = Len(s) + Len(q)
      /\ \A i \in 1..Len(s) + Len(q) : u[i] = IF i <= Len(s) THEN s[i] ELSE q[i - Len(s)]
  BY <1>1, <1>2, ConcatProperties
<1> HIDE DEF u
<1>4. Len(u) = Len(q) + 1 /\ u[1] = Space /\ \A i \in 1..Len(q) : u[i + 1] = q[i]
  <2>1. Len(u) = Len(q) + 1
    BY <1>1, <1>2, <1>3
  <2>2. u[1] = Space
    BY <1>1, <1>2, <1>3
  <2>3. ASSUME NEW i \in 1..Len(q) PROVE u[i + 1] = q[i]
    <3>1. i + 1 \in 1..Len(s) + Len(q) /\ ~(i + 1 <= Len(s)) /\ (i + 1) - Len(s) = i
      BY <1>1, <1>2
    <3> QED BY <1>3, <3>1
  <2> QED BY <2>1, <2>2, <2>3
<1>5. u[2] = Quote /\ u[Len(u)] = Quote
  <2>1. 1 \in 1..Len(q) /\ Len(q) \in 1..Len(q) /\ 1 + 1 = 2
    BY <1>2
  <2> QED BY <1>2, <1>4, <2>1
<1>6. ASSUME NEW i \in 1..Len(u) PROVE u[i] # Comma /\ u[i] # NewLine
  <2>1. CASE i = 1
    BY <1>4, <2>1 DEF Marks
  <2>2. CASE i # 1
    <3>1. i - 1 \in 1..Len(q) /\ (i - 1) + 1 = i
      BY <1>2, <1>4, <2>2
    <3>2. u[(i - 1) + 1] = q[i - 1]
      BY <1>4, <3>1
    <3> QED BY <1>2, <3>1, <3>2
  <2> QED BY <2>1, <2>2
<1>7. Editor!TrimSpace(u) = q
  <2>1. Keeps(u, {Space, NewLine}, 2, Len(u))
    <3>1. 2 \in 1..Len(u) /\ Len(u) \in 1..Len(u) /\ 2 <= Len(u)
      BY <1>2, <1>4
    <3>2. Quote \notin {Space, NewLine}
      BY DEF Marks
    <3>3. \A i \in 1..Len(u) : i < 2 \/ Len(u) < i => u[i] \in {Space, NewLine}
      BY <1>2, <1>4
    <3> QED BY <1>5, <3>1, <3>2, <3>3 DEF Keeps
  <2>2. Editor!TrimSpace(u) = SubSeq(u, 2, Len(u))
    BY <1>3, <2>1, TrimIs DEF Editor!TrimSpace
  <2> DEFINE v == SubSeq(u, 2, Len(u))
  <2>3. v \in Seq(X) /\ Len(v) = Len(q) /\ \A i \in 1..Len(q) : v[i] = u[i + 1]
    <3>1. \A i \in 2..Len(u) : u[i] \in X
      BY <1>2, <1>3, <1>4
    <3>2. 2 <= Len(u) /\ Len(u) - 2 + 1 = Len(q) /\ \A i \in 1..Len(q) : 2 + i - 1 = i + 1
      BY <1>2, <1>4
    <3>3. 2 \in Int /\ Len(u) \in Int
      BY <1>2, <1>4
    <3> QED BY <3>1, <3>2, <3>3, SubSeqProperties
  <2> HIDE DEF v
  <2>4. v = q
    BY <1>2, <1>4, <2>3, SeqEqual
  <2> QED BY <2>2, <2>4 DEF v
<1> QED BY <1>3, <1>4, <1>5, <1>6, <1>7 DEF s, u

LEMMA PairOf ==
    ASSUME NEW X, NEW c \in X, NEW s \in X
    PROVE  <<c, s>> = <<c>> \o <<s>>
<1> DEFINE cc == <<c>>
           ss == <<s>>
<1>1. cc \in Seq(X) /\ ss \in Seq(X)
  OBVIOUS
<1>2. Append(cc, s) = <<c, s>>
  <2> DEFINE v == Append(cc, s)
             w == <<c, s>>
  <2>1. w \in Seq(X) /\ Len(w) = 2 /\ w[1] = c /\ w[2] = s
    OBVIOUS
  <2>2. Len(cc) = 1 /\ cc[1] = c
    OBVIOUS
  <2> HIDE DEF w, cc
  <2>3. v \in Seq(X) /\ Len(v) = 2 /\ v[1] = c /\ v[2] = s
    <3>1. /\ v \in Seq(X) /\ Len(v) = Len(cc) + 1 /\ v[Len(cc) + 1] = s
          /\ \A i \in 1..Len(cc) : v[i] = cc[i]
      BY <1>1, AppendProperties
    <3> HIDE DEF v
    <3> QED BY <2>2, <3>1
  <2> HIDE DEF v
  <2>4. \A i \in 1..Len(v) : v[i] = w[i]
    BY <2>1, <2>3
  <2>5. v = w
    BY <2>1, <2>3, <2>4, SeqEqual
  <2> QED BY <2>5 DEF v, w
<1> HIDE DEF cc
<1>3. Append(cc, s) = cc \o ss
  BY <1>1, AppendIsConcat
<1> QED BY <1>2, <1>3 DEF cc, ss

(* serializePost joins the names of the tags, and parseList takes them     *)
(* apart again: P is what the k first ones are between the commas.         *)
Joined(X, u, P, k) ==
    /\ u \in Seq(X) /\ Len(u) # 0 /\ u[1] = Quote /\ u[Len(u)] = Quote
    /\ \A i \in 1..Len(u) : u[i] # NewLine
    /\ Len(Editor!Split(u, Comma)) = k
    /\ \A i \in 1..k : Editor!Split(u, Comma)[i] = P[i]

LEMMA OneJoined ==
    ASSUME NEW X, NEW q, Wrapped(X, q), NEW P, P[1] = q
    PROVE  Joined(X, q, P, 1)
<1>1. /\ q \in Seq(X) /\ Len(q) # 0 /\ q[1] = Quote /\ q[Len(q)] = Quote
      /\ \A i \in 1..Len(q) : q[i] # NewLine /\ q[i] # Comma
  BY DEF Wrapped
<1>2. Editor!Split(q, Comma) = <<q>>
  BY <1>1, SplitFirst
<1>3. Len(<<q>>) = 1 /\ <<q>>[1] = q /\ \A i \in 1..1 : i = 1
  OBVIOUS
<1> QED BY <1>1, <1>2, <1>3 DEF Joined

LEMMA ThreeJoined ==
    ASSUME NEW X, NEW s \in Seq(X), NEW t \in Seq(X), NEW q \in Seq(X)
    PROVE  s \o (t \o q) = (s \o t) \o q
BY ConcatAssociative

LEMMA CommaNext ==
    ASSUME NEW X, Comma \in X, Space \in X, NEW t \in Seq(X), NEW q \in Seq(X)
    PROVE  t \o (<<Comma, Space>> \o q) = Append(t, Comma) \o (<<Space>> \o q)
<1> DEFINE c == <<Comma>>
           s == <<Space>>
<1>1. c \in Seq(X) /\ s \in Seq(X)
  OBVIOUS
<1>2. Append(t, Comma) = t \o c
  BY AppendIsConcat
<1>3. <<Comma, Space>> = c \o s
  BY PairOf
<1> HIDE DEF c, s
<1> DEFINE w == s \o q
<1>4. w \in Seq(X)
  BY <1>1, ConcatProperties
<1>5. c \o w = (c \o s) \o q
  BY <1>1, ThreeJoined
<1> HIDE DEF w
<1>6. t \o (c \o w) = (t \o c) \o w
  BY <1>1, <1>4, ThreeJoined
<1> QED BY <1>2, <1>3, <1>5, <1>6 DEF w, s

LEMMA NextJoined ==
    ASSUME NEW X, Marks(X), NEW k \in Nat, NEW P, NEW u, Joined(X, u, P, k),
           NEW q, Wrapped(X, q), P[k + 1] = <<Space>> \o q
    PROVE  Joined(X, u \o (<<Comma, Space>> \o q), P, k + 1)
<1> DEFINE w == <<Space>> \o q
           v == Append(u, Comma)
<1>1. /\ u \in Seq(X) /\ Len(u) # 0 /\ u[1] = Quote /\ u[Len(u)] = Quote
      /\ \A i \in 1..Len(u) : u[i] # NewLine
      /\ q \in Seq(X) /\ Comma \in X /\ Space \in X /\ Comma # NewLine
  BY DEF Joined, Wrapped, Marks
<1>2. u \o (<<Comma, Space>> \o q) = v \o w
  BY <1>1, CommaNext
<1>3. /\ w \in Seq(X) /\ Len(w) = Len(q) + 1 /\ w[Len(w)] = Quote
      /\ \A i \in 1..Len(w) : w[i] # Comma /\ w[i] # NewLine
  BY SpaceInFront
<1>4. /\ v \in Seq(X) /\ Len(v) = Len(u) + 1 /\ v[Len(u) + 1] = Comma
      /\ \A i \in 1..Len(u) : v[i] = u[i]
  BY <1>1, AppendProperties
<1>5. Editor!Split(v \o w, Comma) = Append(Editor!Split(u, Comma), w)
  <2> HIDE DEF w
  <2>1. \A i \in 1..Len(w) : w[i] # Comma
    BY <1>3
  <2> QED BY <1>1, <1>3, <2>1, SplitMore
<1> HIDE DEF v, w
<1> DEFINE t == v \o w
<1>6. /\ t \in Seq(X) /\ Len(t) = Len(v) + Len(w)
      /\ \A i \in 1..Len(v) + Len(w) : t[i] = IF i <= Len(v) THEN v[i] ELSE w[i - Len(v)]
  BY <1>3, <1>4, ConcatProperties
<1> HIDE DEF t
<1>7. Len(u) \in Nat /\ Len(q) \in Nat
  BY <1>1
<1>8. Len(t) # 0 /\ t[1] = Quote /\ t[Len(t)] = Quote
  <2>1. Len(t) = Len(u) + 1 + Len(q) + 1
    BY <1>3, <1>4, <1>6, <1>7
  <2>2. 1 \in 1..Len(v) + Len(w) /\ 1 <= Len(v) /\ 1 \in 1..Len(u)
    BY <1>1, <1>3, <1>4, <1>7
  <2>3. /\ Len(t) \in 1..Len(v) + Len(w) /\ ~(Len(t) <= Len(v)) /\ Len(t) - Len(v) = Len(w)
    BY <1>3, <1>4, <1>6, <1>7
  <2>4. t[1] = u[1]
    BY <1>4, <1>6, <2>2
  <2>5. t[Len(t)] = w[Len(w)]
    BY <1>6, <2>3
  <2>6. Len(t) # 0
    BY <1>7, <2>1
  <2> QED BY <1>1, <1>3, <2>4, <2>5, <2>6
<1>9. ASSUME NEW i \in 1..Len(t) PROVE t[i] # NewLine
  <2>1. CASE i <= Len(v)
    <3>1. i \in 1..Len(u) \/ i = Len(u) + 1
      BY <1>4, <1>6, <1>7, <2>1
    <3>2. v[i] # NewLine
      BY <1>1, <1>4, <3>1
    <3> QED BY <1>6, <2>1, <3>2
  <2>2. CASE ~(i <= Len(v))
    <3>1. i - Len(v) \in 1..Len(w)
      BY <1>3, <1>4, <1>6, <1>7, <2>2
    <3> QED BY <1>3, <1>6, <2>2, <3>1
  <2> QED BY <2>1, <2>2
<1> DEFINE p == Editor!Split(u, Comma)
           D == Seq(X)
<1>10. p \in Seq(D) /\ w \in D
  BY <1>1, <1>3, SplitTyped DEF SplitParts
<1>11. Len(p) = k /\ \A i \in 1..k : p[i] = P[i]
  BY DEF Joined
<1> HIDE DEF p, D
<1>12. Len(Append(p, w)) = k + 1 /\ \A i \in 1..k + 1 : Append(p, w)[i] = P[i]
  <2>1. /\ Len(Append(p, w)) = Len(p) + 1 /\ Append(p, w)[Len(p) + 1] = w
        /\ \A i \in 1..Len(p) : Append(p, w)[i] = p[i]
    BY <1>10, AppendProperties
  <2>2. P[k + 1] = w
    BY DEF w
  <2>3. \A i \in 1..k + 1 : i \in 1..k \/ i = k + 1
    OBVIOUS
  <2> QED BY <1>11, <2>1, <2>2, <2>3
<1>13. Editor!Split(t, Comma) = Append(p, w)
  BY <1>5 DEF t, p
<1>14. Joined(X, t, P, k + 1)
  BY <1>6, <1>8, <1>9, <1>12, <1>13 DEF Joined
<1> QED BY <1>2, <1>14 DEF t

LEMMA AllJoined ==
    ASSUME NEW X, Marks(X), NEW z \in Seq(Seq(X)), Len(z) # 0,
           NEW q, \A i \in 1..Len(z) : Wrapped(X, q[i]),
           NEW P, P[1] = q[1], z[1] = q[1],
           \A i \in 2..Len(z) : P[i] = <<Space>> \o q[i] /\ z[i] = <<Comma, Space>> \o q[i]
    PROVE  Joined(X, Editor!FlattenSeq(z), P, Len(z))
<1> DEFINE num == Len(z)
<1>1. num \in Nat /\ num # 0
  OBVIOUS
<1>2. PICK r \in [0..num -> Seq(X)] : JoinsEach(r, z, num)
  BY FlattenTurns
<1>3. /\ r[0] = <<>> /\ \A k \in 1..num : r[k] = r[k - 1] \o z[k]
      /\ Editor!FlattenSeq(z) = r[num]
  BY <1>2, EditorLists DEF JoinsEach
<1>4. \A i \in 1..num : Wrapped(X, q[i])
  OBVIOUS
<1>5. \A i \in 2..num : P[i] = <<Space>> \o q[i] /\ z[i] = <<Comma, Space>> \o q[i]
  OBVIOUS
<1> HIDE DEF num
<1> DEFINE ns == {k \in Nat : k # 0 /\ k <= num => Joined(X, r[k], P, k)}
<1>6. 0 \in ns
  OBVIOUS
<1>7. ASSUME NEW k \in Nat, k \in ns PROVE k + 1 \in ns
  <2>1. CASE ~(k + 1 <= num)
    BY <2>1
  <2>2. CASE k = 0
    <3>0. 1 \in 1..num /\ 1 - 1 = 0
      BY <1>1
    <3>1. r[1] = r[0] \o z[1] /\ 1 \in 1..num
      BY <1>3, <3>0
    <3>2. Wrapped(X, q[1]) /\ q[1] \in Seq(X)
      BY <1>4, <3>1 DEF Wrapped
    <3>3. r[1] = q[1]
      BY <1>3, <3>1, <3>2, ConcatEmptySeq
    <3>4. Joined(X, q[1], P, 1)
      BY <3>2, OneJoined
    <3> QED BY <2>2, <3>3, <3>4
  <2>3. CASE k # 0 /\ k + 1 <= num
    <3>1. k + 1 \in 1..num /\ k + 1 \in 2..num /\ (k + 1) - 1 = k /\ k <= num
      BY <1>1, <2>3
    <3>2. r[k + 1] = r[k] \o z[k + 1]
      BY <1>3, <3>1
    <3>3. Wrapped(X, q[k + 1]) /\ P[k + 1] = <<Space>> \o q[k + 1]
          /\ z[k + 1] = <<Comma, Space>> \o q[k + 1]
      BY <1>4, <1>5, <3>1
    <3>4. Joined(X, r[k], P, k)
      BY <1>7, <2>3, <3>1
    <3> DEFINE u == r[k]
               w == q[k + 1]
    <3>5. Joined(X, u, P, k) /\ Wrapped(X, w) /\ P[k + 1] = <<Space>> \o w
      BY <3>3, <3>4
    <3> HIDE DEF u, w
    <3>6. Joined(X, u \o (<<Comma, Space>> \o w), P, k + 1)
      BY <3>5, NextJoined
    <3>7. r[k + 1] = u \o (<<Comma, Space>> \o w)
      BY <3>2, <3>3 DEF u, w
    <3>8. Joined(X, r[k + 1], P, k + 1)
      BY <3>6, <3>7
    <3>9. k + 1 \in Nat
      OBVIOUS
    <3> QED BY <3>8, <3>9
  <2> QED BY <2>1, <2>2, <2>3
<1> HIDE DEF ns
<1>8. Nat \subseteq ns
  BY <1>6, <1>7, Counting
<1>9. Joined(X, r[num], P, num)
  BY <1>1, <1>8 DEF ns
<1> QED BY <1>3, <1>9 DEF num

(* The names of tags, trimmed.                                             *)
LEMMA TrimmedTyped ==
    ASSUME NEW X, NEW tags \in Seq(Seq(X)), \A i \in 1..Len(tags) : Fit(tags[i])
    PROVE  /\ Trimmed(tags) \in Seq(Seq(X)) /\ Len(Trimmed(tags)) = Len(tags)
           /\ \A i \in 1..Len(tags) :
                 /\ Trimmed(tags)[i] = Editor!TrimSpace(tags[i]) /\ Trimmed(tags)[i] \in Seq(X)
                 /\ Fit(Trimmed(tags)[i])
                 /\ Editor!TrimSpace(Trimmed(tags)[i]) = Trimmed(tags)[i]
<1>1. DOMAIN tags = 1..Len(tags) /\ Len(tags) \in Nat /\ \A i \in 1..Len(tags) : tags[i] \in Seq(X)
  OBVIOUS
<1>2. ASSUME NEW i \in 1..Len(tags)
      PROVE  /\ Editor!TrimSpace(tags[i]) \in Seq(X) /\ Fit(Editor!TrimSpace(tags[i]))
             /\ Editor!TrimSpace(Editor!TrimSpace(tags[i])) = Editor!TrimSpace(tags[i])
  <2> DEFINE t == tags[i]
             u == Editor!TrimSpace(t)
             set == {Space, NewLine}
  <2>1. t \in Seq(X) /\ Fit(t)
    BY <1>1
  <2> HIDE DEF t
  <2>2. u \in Seq(X) /\ Fit(u)
    BY <2>1, TrimmedFit
  <2>3. u = Editor!Trim(t, set) /\ Editor!TrimSpace(u) = Editor!Trim(u, set)
    BY DEF Editor!TrimSpace
  <2> HIDE DEF u, set
  <2>4. Clean(Editor!Trim(t, set), set)
    BY <2>1, Trims
  <2>5. Editor!Trim(u, set) = u
    BY <2>2, <2>3, <2>4, TrimNothing
  <2> QED BY <2>2, <2>3, <2>5 DEF u, t
<1>3. \A i \in 1..Len(tags) : Trimmed(tags)[i] = Editor!TrimSpace(tags[i])
  BY <1>1 DEF Trimmed
<1>4. Trimmed(tags) \in [1..Len(tags) -> Seq(X)]
  BY <1>1, <1>2 DEF Trimmed
<1> DEFINE G == Trimmed(tags)
           D == Seq(X)
<1> HIDE DEF G, D
<1>5. G \in [1..Len(tags) -> D]
  BY <1>4 DEF G, D
<1>6. G \in Seq(D) /\ Len(G) = Len(tags)
  BY <1>1, <1>5
<1> QED BY <1>2, <1>3, <1>6 DEF G, D

(* The parts of the written list: a space in front of each but the first.  *)
InList(tags) ==
    [i \in 1..Len(tags) |-> (IF i = 1 THEN <<>> ELSE <<Space>>)
                              \o Editor!Quoted(Editor!TrimSpace(tags[i]))]

LEMMA TagsJoined ==
    ASSUME NEW X, Marks(X), NEW tags \in Seq(Seq(X)), Len(tags) # 0,
           \A i \in 1..Len(tags) : Fit(tags[i])
    PROVE  /\ Joined(X, Editor!WrittenTags(tags), InList(tags), Len(tags))
           /\ \A i \in 1..Len(tags) :
                 Editor!Unquoted(Editor!TrimSpace(InList(tags)[i])) = Trimmed(tags)[i]
<1> DEFINE num == Len(tags)
           q == [i \in 1..num |-> Editor!Quoted(Editor!TrimSpace(tags[i]))]
           z == [i \in 1..num |-> (IF i = 1 THEN <<>> ELSE <<Comma, Space>>) \o q[i]]
<1>1. num \in Nat /\ DOMAIN tags = 1..num /\ 1 \in 1..num
  OBVIOUS
<1>2. \A i \in 1..num : /\ Trimmed(tags)[i] = Editor!TrimSpace(tags[i])
                        /\ Trimmed(tags)[i] \in Seq(X) /\ Fit(Trimmed(tags)[i])
  BY TrimmedTyped
<1>3. Comma \in X /\ Space \in X
  BY DEF Marks
<1> DEFINE P == InList(tags)
<1>4. /\ \A i \in 1..num : q[i] = Editor!Quoted(Trimmed(tags)[i])
      /\ \A i \in 1..num : P[i] = (IF i = 1 THEN <<>> ELSE <<Space>>) \o q[i]
      /\ \A i \in 1..num : z[i] = (IF i = 1 THEN <<>> ELSE <<Comma, Space>>) \o q[i]
  BY <1>2 DEF InList
<1>5. Editor!WrittenTags(tags) = Editor!FlattenSeq(z)
  <2>1. z = [i \in 1..num |-> (IF i = 1 THEN <<>> ELSE <<Comma, Space>>)
                                \o Editor!Quoted(Editor!TrimSpace(tags[i]))]
    OBVIOUS
  <2> HIDE DEF z, num
  <2> QED BY <1>1, <2>1 DEF Editor!WrittenTags
<1> HIDE DEF q, z, num, P
<1>7. ASSUME NEW i \in 1..num
      PROVE  /\ Wrapped(X, q[i]) /\ Editor!Unquoted(q[i]) = Trimmed(tags)[i]
             /\ q[i] \in Seq(X)
  <2> DEFINE g == Trimmed(tags)[i]
  <2>1. g \in Seq(X) /\ Fit(g)
    BY <1>2
  <2> HIDE DEF g
  <2>2. Wrapped(X, Editor!Quoted(g)) /\ Editor!Unquoted(Editor!Quoted(g)) = g
    BY <2>1, TagWrapped
  <2>3. Editor!Quoted(g) \in Seq(X)
    BY <2>2 DEF Wrapped
  <2> QED BY <1>4, <2>2, <2>3 DEF g
<1>8. ASSUME NEW i \in 1..num
      PROVE  z[i] \in Seq(X)
  <2> DEFINE c == IF i = 1 THEN <<>> ELSE <<Comma, Space>>
             t == q[i]
  <2>1. c \in Seq(X)
    BY <1>3
  <2>2. t \in Seq(X) /\ z[i] = c \o t
    BY <1>4, <1>7
  <2> HIDE DEF c, t
  <2> QED BY <2>1, <2>2, ConcatProperties
<1>9. q[1] = P[1] /\ q[1] = z[1]
  <2> DEFINE t == q[1]
  <2>1. t \in Seq(X) /\ P[1] = <<>> \o t /\ z[1] = <<>> \o t
    BY <1>1, <1>4, <1>7
  <2> HIDE DEF t
  <2>2. P[1] = t /\ z[1] = t
    BY <2>1, ConcatEmptySeq
  <2> QED BY <2>2 DEF t
<1>10. \A i \in 2..num : P[i] = <<Space>> \o q[i] /\ z[i] = <<Comma, Space>> \o q[i]
  <2>1. \A i \in 2..num : i \in 1..num /\ i # 1
    BY <1>1
  <2> QED BY <1>4, <2>1
<1>11. z \in Seq(Seq(X)) /\ Len(z) = num
  <2> DEFINE D == Seq(X)
  <2>1. \A i \in 1..num : z[i] \in D
    BY <1>8
  <2> HIDE DEF D
  <2>2. z \in [1..num -> D]
    <3>1. z = [i \in 1..num |-> z[i]]
      BY <1>1 DEF z
    <3> QED BY <2>1, <3>1
  <2>3. z \in Seq(D) /\ Len(z) = num
    BY <1>1, <2>2
  <2> QED BY <2>3 DEF D
<1>12. num # 0
  BY DEF num
<1>13. Joined(X, Editor!FlattenSeq(z), P, num)
  <2>1. Len(z) # 0 /\ \A i \in 1..Len(z) : Wrapped(X, q[i])
    BY <1>7, <1>11, <1>12
  <2>2. \A i \in 2..Len(z) : P[i] = <<Space>> \o q[i] /\ z[i] = <<Comma, Space>> \o q[i]
    BY <1>10, <1>11
  <2>3. P[1] = q[1] /\ z[1] = q[1]
    BY <1>9
  <2>4. Joined(X, Editor!FlattenSeq(z), P, Len(z))
    BY <1>11, <2>1, <2>2, <2>3, AllJoined
  <2> QED BY <1>11, <2>4
<1>14. ASSUME NEW i \in 1..num
       PROVE  Editor!Unquoted(Editor!TrimSpace(P[i])) = Trimmed(tags)[i]
  <2> DEFINE t == q[i]
  <2>1. Wrapped(X, t) /\ t \in Seq(X) /\ Editor!Unquoted(t) = Trimmed(tags)[i]
    BY <1>7
  <2>2. Editor!TrimSpace(P[i]) = t
    <3>1. CASE i = 1
      <4>1. P[i] = t
        BY <1>9, <3>1
      <4> HIDE DEF t
      <4> DEFINE set == {Space, NewLine}
      <4>2. Clean(t, set)
        BY <2>1 DEF Clean, Wrapped, Marks
      <4> HIDE DEF set
      <4>3. Editor!Trim(t, set) = t
        BY <2>1, <4>2, TrimNothing
      <4> QED BY <4>1, <4>3 DEF Editor!TrimSpace, set
    <3>2. CASE i # 1
      <4>1. P[i] = <<Space>> \o t
        BY <1>4, <3>2
      <4> HIDE DEF t
      <4>2. Editor!TrimSpace(<<Space>> \o t) = t
        BY <2>1, SpaceInFront
      <4> QED BY <4>1, <4>2
    <3> QED BY <3>1, <3>2
  <2> QED BY <2>1, <2>2
<1> QED BY <1>5, <1>13, <1>14 DEF num, P

LEMMA NoTags ==
    /\ Editor!ParseList(Editor!Cut(<<>>, NewLine)) = <<>>
    /\ Editor!WrittenTags(<<>>) = <<>> /\ Trimmed(<<>>) = <<>>
    /\ Editor!NotEmpty(<<>>) = <<>>
<1> DEFINE none == <<>>
           X == {0}
<1>1. /\ none \in Seq(X) /\ Len(none) = 0 /\ DOMAIN none = {}
      /\ none \in Seq(Seq(X)) /\ \A i \in 1..Len(none) : none[i] # NewLine
  OBVIOUS
<1> HIDE DEF X
<1>2. Editor!Cut(none, NewLine) = none
  <2> HIDE DEF none
  <2> QED BY <1>1, CutNothing
<1>3. Editor!TrimSpace(none) = none
  <2> DEFINE set == {Space, NewLine}
  <2>1. Clean(none, set)
    BY DEF Clean
  <2> HIDE DEF set, none
  <2>2. Editor!Trim(none, set) = none
    BY <1>1, <2>1, TrimNothing
  <2> QED BY <2>2 DEF Editor!TrimSpace, set
<1>4. Editor!ParseList(none) = <<>>
  BY <1>3 DEF Editor!ParseList
<1>5. Trimmed(none) = <<>>
  BY DEF Trimmed
<1>6. Editor!NotEmpty(none) = <<>>
  <2>1. Editor!NotEmpty(none) = Where(<<>>, Editor!ToSet(none) \ {<<>>})
    BY EditorLists DEF Editor!NotEmpty
  <2> QED BY <2>1, WhereNothing
<1>7. Editor!WrittenTags(none) = <<>>
  <2>1. Editor!WrittenTags(none) = Editor!FlattenSeq(<<>>)
    BY DEF Editor!WrittenTags
  <2>2. PICK r \in [0..Len(none) -> Seq(X)] : JoinsEach(r, none, Len(none))
    <3> HIDE DEF none
    <3> QED BY <1>1, FlattenTurns
  <2>3. Listings!FlattenSeq(none) = <<>>
    BY <1>1, <2>2 DEF JoinsEach
  <2> QED BY <2>1, <2>3, EditorLists
<1> QED BY <1>2, <1>4, <1>5, <1>6, <1>7

LEMMA TagsRead ==
    ASSUME NEW X, Marks(X), NEW tags \in Seq(Seq(X)),
           \A i \in 1..Len(tags) : Fit(tags[i])
    PROVE  Editor!ParseList(Editor!Cut(Editor!WrittenTags(tags), NewLine))
           = Editor!NotEmpty(Trimmed(tags))
<1>1. CASE Len(tags) = 0
  <2>1. tags = <<>>
    BY <1>1
  <2> QED BY <2>1, NoTags
<1>2. CASE Len(tags) # 0
  <2> DEFINE u == Editor!WrittenTags(tags)
             P == InList(tags)
             num == Len(tags)
             p == Editor!Split(u, Comma)
             set == {Space, NewLine}
  <2>1. /\ Joined(X, u, P, num)
        /\ \A i \in 1..num : Editor!Unquoted(Editor!TrimSpace(P[i])) = Trimmed(tags)[i]
    BY <1>2, TagsJoined
  <2>2. /\ DOMAIN tags = 1..num /\ DOMAIN Trimmed(tags) = 1..num
    BY DEF Trimmed
  <2> HIDE DEF u, P, num
  <2>3. /\ u \in Seq(X) /\ Len(u) # 0 /\ u[1] = Quote /\ u[Len(u)] = Quote
        /\ \A i \in 1..Len(u) : u[i] # NewLine
        /\ Len(p) = num /\ \A i \in 1..num : p[i] = P[i]
    BY <2>1 DEF Joined
  <2>4. Editor!Cut(u, NewLine) = u
    BY <2>3, CutNothing
  <2>5. Editor!TrimSpace(u) = u
    <3>1. Clean(u, set)
      BY <2>3 DEF Clean, Marks
    <3> HIDE DEF set
    <3>2. Editor!Trim(u, set) = u
      BY <2>3, <3>1, TrimNothing
    <3> QED BY <3>2 DEF Editor!TrimSpace, set
  <2>6. u # <<>>
    BY <2>3
  <2>7. p \in Seq(Seq(X))
    <3>1. p \in SplitParts(X)
      BY <2>3, SplitTyped
    <3> QED BY <3>1 DEF SplitParts
  <2>8. DOMAIN p = 1..num
    <3> DEFINE D == Seq(X)
    <3> HIDE DEF D, p
    <3>1. p \in Seq(D)
      BY <2>7 DEF D
    <3> QED BY <2>3, <3>1
  <2>9. Editor!ParseList(u)
        = Editor!NotEmpty([i \in DOMAIN p |-> Editor!Unquoted(Editor!TrimSpace(p[i]))])
    BY <2>5, <2>6 DEF Editor!ParseList
  <2> HIDE DEF p
  <2>10. [i \in DOMAIN p |-> Editor!Unquoted(Editor!TrimSpace(p[i]))] = Trimmed(tags)
    <3>1. \A i \in 1..num : Editor!Unquoted(Editor!TrimSpace(p[i])) = Trimmed(tags)[i]
      BY <2>1, <2>3
    <3>2. Trimmed(tags) = [i \in 1..num |-> Trimmed(tags)[i]]
      BY <2>2 DEF Trimmed
    <3> QED BY <2>8, <3>1, <3>2
  <2> QED BY <2>4, <2>9, <2>10 DEF u
<1> QED BY <1>1, <1>2

(* The tags that were read are written and read again without a change.    *)
LEMMA TagsStay ==
    ASSUME NEW X, NEW tags \in Seq(Seq(X)), \A i \in 1..Len(tags) : Fit(tags[i])
    PROVE  LET names == Editor!NotEmpty(Trimmed(tags))
           IN /\ names \in Seq(Seq(X)) /\ \A i \in 1..Len(names) : Fit(names[i])
              /\ Editor!NotEmpty(Trimmed(names)) = names
<1> DEFINE G == Trimmed(tags)
           D == Seq(X)
           S == Editor!ToSet(G) \ {<<>>}
           names == Editor!NotEmpty(G)
<1>1. /\ G \in Seq(D) /\ Len(G) = Len(tags)
      /\ \A i \in 1..Len(G) : G[i] \in D /\ Fit(G[i]) /\ Editor!TrimSpace(G[i]) = G[i]
  BY TrimmedTyped
<1>2. names = Where(G, S)
  BY EditorLists DEF Editor!NotEmpty
<1> HIDE DEF names, G, D, S
<1>3. /\ names \in Seq(D)
      /\ \A j \in 1..Len(names) : names[j] \in S /\ \E i \in 1..Len(G) : names[j] = G[i]
  BY <1>1, <1>2, WhereTyped, WhereFrom
<1>4. \A j \in 1..Len(names) : /\ Fit(names[j]) /\ Editor!TrimSpace(names[j]) = names[j]
                               /\ names[j] # <<>>
  BY <1>1, <1>3 DEF S
<1>5. DOMAIN names = 1..Len(names)
  BY <1>3
<1>6. Trimmed(names) = names
  <2>1. names = [j \in DOMAIN names |-> names[j]]
    BY <1>3
  <2> QED BY <1>4, <1>5, <2>1 DEF Trimmed
<1>7. Editor!NotEmpty(names) = names
  <2> DEFINE R == Editor!ToSet(names) \ {<<>>}
  <2>1. Editor!NotEmpty(names) = Where(names, R)
    BY EditorLists DEF Editor!NotEmpty
  <2>2. \A j \in 1..Len(names) : names[j] \in R
    BY <1>4, <1>5 DEF Editor!ToSet
  <2> HIDE DEF R
  <2>3. TakesAll(Where(names, R), names, D, R)
    BY <1>3, WhereTakes
  <2> QED BY <2>1, <2>2, <2>3 DEF TakesAll
<1> QED BY <1>3, <1>4, <1>6, <1>7 DEF names, G, D

(* Drafts of the editor.                                                   *)
Bodies(X) == [text : Seq(X), more : BOOLEAN]
EditorDrafts(X, D) ==
    [title : Seq(X), tags : Seq(Seq(X)), summary : Seq(X), date : D, updated : D,
     manual : BOOLEAN, draft : BOOLEAN, toc : BOOLEAN, body : Bodies(X)]

ReadTags(kind, tags) ==
    Editor!ParseList(Editor!Cut(IF kind = "post" THEN Editor!WrittenTags(tags) ELSE <<>>, NewLine))

(* What the next load reads of a draft with a date.                        *)
Reads(kind, x, e) ==
    /\ x.title = Editor!Given(Editor!Value(Editor!Quoted(e.title)), SlugOfTitle[e.title])
    /\ x.tags = ReadTags(kind, e.tags)
    /\ x.summary = Editor!Given(Editor!Value(Editor!Quoted(e.summary)),
                                Editor!Beginning(Editor!Trimmed(e.body)))
    /\ x.date = e.date /\ x.updated = e.updated /\ x.draft = e.draft /\ x.toc = e.toc
    /\ x.body = Editor!Trimmed(e.body)

LEMMA SavedReads ==
    ASSUME NEW kind \in {"post", "page"}, NEW e, e.toc \in BOOLEAN, e.date # Undated
    PROVE  Reads(kind, Editor!Loaded(kind, Editor!Serialized(kind, e)), e)
<1> DEFINE f == Editor!Serialized(kind, e)
           x == Editor!Loaded(kind, f)
<1>1. /\ f.title = Editor!Quoted(e.title) /\ f.slug = SlugOfTitle[e.title]
      /\ f.tags = (IF kind = "post" THEN Editor!WrittenTags(e.tags) ELSE <<>>)
      /\ f.summary = Editor!Quoted(e.summary) /\ f.date = e.date /\ f.updated = e.updated
      /\ f.draft = e.draft /\ f.toc = Editor!Toc(kind, e.toc) /\ f.body = Editor!Trimmed(e.body)
  BY DEF Editor!Serialized
<1> HIDE DEF f
<1>2. /\ x.title = Editor!Given(Editor!Value(f.title), f.slug)
      /\ x.tags = Editor!ParseList(Editor!Cut(f.tags, NewLine))
      /\ x.summary = Editor!Given(Editor!Value(f.summary), Editor!Beginning(f.body))
      /\ x.date = (IF kind = "page" /\ f.date = Undated THEN f.updated ELSE f.date)
      /\ x.updated = f.updated /\ x.draft = f.draft
      /\ x.toc = (IF kind = "post" THEN f.toc # "false" ELSE f.toc = "true")
      /\ x.body = f.body
  BY DEF Editor!Loaded
<1> HIDE DEF x
<1>3. x.date = e.date
  BY <1>1, <1>2
<1>4. x.toc = e.toc
  BY <1>1, <1>2 DEF Editor!Toc
<1>5. x.tags = ReadTags(kind, e.tags)
  BY <1>1, <1>2 DEF ReadTags
<1> QED BY <1>1, <1>2, <1>3, <1>4, <1>5 DEF Reads, x, f

(* Spaces are only trimmed once.                                           *)
LEMMA SpaceOff ==
    ASSUME NEW X, NEW t \in Seq(X)
    PROVE  LET u == Editor!TrimSpace(t)
           IN /\ u \in Seq(X) /\ Editor!TrimSpace(u) = u
              /\ u # <<>> => u[1] \notin {Space, NewLine}
              /\ Editor!Plain(t) => Editor!Plain(u)
<1> DEFINE u == Editor!TrimSpace(t)
           set == {Space, NewLine}
<1>1. u = Editor!Trim(t, set) /\ Editor!TrimSpace(u) = Editor!Trim(u, set)
  BY DEF Editor!TrimSpace
<1> HIDE DEF u, set
<1>2. /\ u \in Seq(X) /\ Clean(u, set)
      /\ \A i \in 1..Len(u) : \E j \in 1..Len(t) : u[i] = t[j]
  BY <1>1, Trims
<1>3. Editor!Trim(u, set) = u
  BY <1>2, TrimNothing
<1>4. u # <<>> => u[1] \notin set
  BY <1>2 DEF Clean
<1>5. Editor!Plain(t) => Editor!Plain(u)
  <2>1. DOMAIN u = 1..Len(u) /\ DOMAIN t = 1..Len(t)
    BY <1>2
  <2> QED BY <1>2, <2>1 DEF Editor!Plain
<1> QED BY <1>1, <1>2, <1>3, <1>4, <1>5 DEF u, set

LEMMA OneCharacter ==
    ASSUME NEW X, NEW h \in X, h \notin {Space, NewLine}
    PROVE  Editor!TrimSpace(<<h>>) = <<h>>
<1> DEFINE t == <<h>>
           set == {Space, NewLine}
<1>1. t \in Seq(X) /\ Clean(t, set)
  BY DEF Clean
<1> HIDE DEF t, set
<1>2. Editor!Trim(t, set) = t
  BY <1>1, TrimNothing
<1> QED BY <1>2 DEF Editor!TrimSpace, t, set

(* The body, and its beginning.                                            *)
LEMMA BodyTrimmed ==
    ASSUME NEW X, NEW b \in Bodies(X)
    PROVE  LET t == Editor!Trimmed(b)
               h == Editor!Beginning(t)
           IN /\ t \in Bodies(X) /\ Editor!Trimmed(t) = t
              /\ h \in Seq(X) /\ Editor!TrimSpace(h) = h
<1> DEFINE t == Editor!Trimmed(b)
           u == b.text
           v == Editor!TrimSpace(u)
           h == Editor!Beginning(t)
<1>1. u \in Seq(X) /\ b = [text |-> u, more |-> b.more] /\ b.more \in BOOLEAN
  BY DEF Bodies
<1>2. t = [text |-> v, more |-> b.more]
  BY <1>1 DEF Editor!Trimmed
<1> HIDE DEF u, v, t
<1>3. /\ v \in Seq(X) /\ Editor!TrimSpace(v) = v /\ (v # <<>> => v[1] \notin {Space, NewLine})
  BY <1>1, SpaceOff DEF v
<1>4. t \in Bodies(X) /\ Editor!Trimmed(t) = t
  BY <1>1, <1>2, <1>3 DEF Bodies, Editor!Trimmed
<1>5. h = (IF b.more /\ v # <<>> /\ Head(v) # Slash THEN <<Head(v)>> ELSE <<>>)
  BY <1>2 DEF Editor!Beginning
<1>6. v # <<>> => Head(v) = v[1] /\ Head(v) \in X
  BY <1>3
<1>7. h \in Seq(X) /\ Editor!TrimSpace(h) = h
  <2>1. CASE h = <<>>
    <3>1. Editor!TrimSpace(<<>>) = <<>>
      <4> DEFINE none == <<>>
                 set == {Space, NewLine}
      <4>1. none \in Seq(X) /\ Clean(none, set)
        BY DEF Clean
      <4> HIDE DEF none, set
      <4>2. Editor!Trim(none, set) = none
        BY <4>1, TrimNothing
      <4> QED BY <4>2 DEF Editor!TrimSpace, none, set
    <3> QED BY <2>1, <3>1
  <2>2. CASE h # <<>>
    <3> DEFINE c == Head(v)
    <3>1. h = <<c>> /\ c \in X /\ c \notin {Space, NewLine}
      BY <1>3, <1>5, <1>6, <2>2
    <3> HIDE DEF c, h
    <3>2. Editor!TrimSpace(<<c>>) = <<c>>
      BY <3>1, OneCharacter
    <3> QED BY <3>1, <3>2
  <2> QED BY <2>1, <2>2
<1> QED BY <1>4, <1>7 DEF t, h

(* A draft whose texts are read as they were written.                      *)
PlainTexts(X, e) ==
    /\ e.title \in Seq(X) /\ e.tags \in Seq(Seq(X)) /\ e.summary \in Seq(X) /\ e.body \in Bodies(X)
    /\ Editor!PlainDraft(e) /\ Editor!TrimSpace(e.title) # <<>>

LEMMA SeenWritten ==
    ASSUME NEW X, Marks(X), NEW kind \in {"post", "page"}, NEW e, PlainTexts(X, e),
           NEW x, Reads(kind, x, e)
    PROVE  Editor!Seen(x) = Editor!Written(kind, e)
<1> DEFINE title == e.title
           summary == e.summary
           tags == e.tags
<1>1. /\ title \in Seq(X) /\ tags \in Seq(Seq(X)) /\ summary \in Seq(X)
      /\ Editor!Plain(title) /\ Editor!Plain(summary) /\ Editor!TrimSpace(title) # <<>>
      /\ \A i \in DOMAIN tags : Fit(tags[i])
  BY DEF PlainTexts, Editor!PlainDraft, Fit
<1>2. DOMAIN tags = 1..Len(tags)
  BY <1>1
<1> HIDE DEF title, summary, tags
<1>3. Editor!Value(Editor!Quoted(title)) = title /\ Editor!Value(Editor!Quoted(summary)) = summary
  BY <1>1, ValueKept
<1>4. x.title = Editor!TrimSpace(title)
  BY <1>1, <1>3 DEF Reads, Editor!Given, title
<1>5. x.summary = Editor!Given(summary, Editor!Beginning(Editor!Trimmed(e.body)))
  BY <1>3 DEF Reads, summary
<1>6. Editor!ParseList(Editor!Cut(Editor!WrittenTags(tags), NewLine))
      = Editor!NotEmpty(Trimmed(tags))
  BY <1>1, <1>2, TagsRead
<1>7. x.tags = IF kind = "page" THEN <<>> ELSE Editor!NotEmpty(Trimmed(tags))
  <2>1. x.tags = ReadTags(kind, tags)
    BY DEF Reads, tags
  <2>2. CASE kind = "page"
    BY <2>1, <2>2, NoTags DEF ReadTags
  <2>3. CASE kind = "post"
    BY <1>6, <2>1, <2>3 DEF ReadTags
  <2> QED BY <2>2, <2>3
<1>8. x.draft = e.draft /\ x.toc = e.toc /\ x.body = Editor!Trimmed(e.body)
  BY DEF Reads
<1>9. Editor!Written(kind, e)
      = [title |-> Editor!TrimSpace(title),
         tags |-> IF kind = "page" THEN <<>> ELSE Editor!NotEmpty(Trimmed(tags)),
         summary |-> Editor!Given(summary, Editor!Beginning(Editor!Trimmed(e.body))),
         draft |-> e.draft, toc |-> e.toc, body |-> Editor!Trimmed(e.body)]
  BY DEF Editor!Written, Trimmed, title, tags, summary
<1>10. Editor!Seen(x) = [title |-> x.title, tags |-> x.tags, summary |-> x.summary,
                         draft |-> x.draft, toc |-> x.toc, body |-> x.body]
  BY DEF Editor!Seen
<1> QED BY <1>4, <1>5, <1>7, <1>8, <1>9, <1>10

(* What was read is written and read again without a change.               *)
LEMMA WrittenAgain ==
    ASSUME NEW X, NEW kind \in {"post", "page"}, NEW d, PlainTexts(X, d),
           NEW o, Editor!Seen(o) = Editor!Written(kind, d)
    PROVE  PlainTexts(X, o) /\ Editor!Written(kind, o) = Editor!Written(kind, d)
<1> DEFINE title == d.title
           summary == d.summary
           tags == d.tags
           body == Editor!Trimmed(d.body)
           h == Editor!Beginning(body)
           names == Editor!NotEmpty(Trimmed(tags))
<1>1. /\ title \in Seq(X) /\ tags \in Seq(Seq(X)) /\ summary \in Seq(X) /\ d.body \in Bodies(X)
      /\ Editor!Plain(title) /\ Editor!Plain(summary) /\ Editor!TrimSpace(title) # <<>>
      /\ Editor!TrimSpace(summary) = <<>> => Editor!Plain(h)
      /\ \A i \in DOMAIN tags : Fit(tags[i])
  BY DEF PlainTexts, Editor!PlainDraft, Fit
<1>2. DOMAIN tags = 1..Len(tags)
  BY <1>1
<1>3. /\ o.title = Editor!TrimSpace(title)
      /\ o.tags = (IF kind = "page" THEN <<>> ELSE names)
      /\ o.summary = Editor!Given(summary, h)
      /\ o.draft = d.draft /\ o.toc = d.toc /\ o.body = body
  BY DEF Editor!Seen, Editor!Written, Trimmed
<1>4. /\ body \in Bodies(X) /\ Editor!Trimmed(body) = body
      /\ h \in Seq(X) /\ Editor!TrimSpace(h) = h
  BY <1>1, BodyTrimmed
<1> HIDE DEF title, summary, tags, body, h
<1>5. /\ o.title \in Seq(X) /\ Editor!TrimSpace(o.title) = o.title /\ o.title # <<>>
      /\ Editor!Plain(o.title)
  BY <1>1, <1>3, SpaceOff
<1>6. /\ names \in Seq(Seq(X)) /\ \A i \in 1..Len(names) : Fit(names[i])
      /\ Editor!NotEmpty(Trimmed(names)) = names
  BY <1>1, <1>2, TagsStay
<1> HIDE DEF names
<1>7. /\ o.tags \in Seq(Seq(X)) /\ \A i \in DOMAIN o.tags : Fit(o.tags[i])
      /\ kind # "page" => Editor!NotEmpty(Trimmed(o.tags)) = o.tags
  <2>1. CASE kind = "page"
    <3>1. o.tags = <<>>
      BY <1>3, <2>1
    <3> QED BY <2>1, <3>1
  <2>2. CASE kind # "page"
    <3>1. o.tags = names
      BY <1>3, <2>2
    <3>2. DOMAIN names = 1..Len(names)
      BY <1>6
    <3> QED BY <1>6, <3>1, <3>2
  <2> QED BY <2>1, <2>2
<1> DEFINE s == Editor!TrimSpace(summary)
<1>8. s \in Seq(X) /\ Editor!TrimSpace(s) = s /\ Editor!Plain(s)
  BY <1>1, SpaceOff
<1>9. /\ o.summary \in Seq(X) /\ Editor!Plain(o.summary)
      /\ Editor!TrimSpace(o.summary) = o.summary
      /\ o.summary = <<>> => Editor!Plain(h) /\ h = <<>>
  <2>1. CASE s = <<>>
    <3>1. o.summary = h
      BY <1>3, <2>1 DEF Editor!Given
    <3> QED BY <1>1, <1>4, <2>1, <3>1
  <2>2. CASE s # <<>>
    <3>1. o.summary = s
      BY <1>3, <2>2 DEF Editor!Given
    <3> HIDE DEF s
    <3> QED BY <1>8, <2>2, <3>1
  <2> QED BY <2>1, <2>2
<1>10. Editor!Given(o.summary, h) = o.summary
  BY <1>9 DEF Editor!Given
<1>11. PlainTexts(X, o)
  <2>1. Editor!Trimmed(o.body) = body
    BY <1>3, <1>4
  <2>2. Editor!TrimSpace(o.summary) = <<>> => Editor!Plain(Editor!Beginning(Editor!Trimmed(o.body)))
    BY <1>9, <2>1 DEF h
  <2>3. Editor!PlainDraft(o)
    BY <1>5, <1>7, <1>9, <2>2 DEF Editor!PlainDraft, Fit
  <2> QED BY <1>3, <1>4, <1>5, <1>7, <1>9, <2>3 DEF PlainTexts
<1>12. Editor!Written(kind, o) = Editor!Written(kind, d)
  <2>1. Editor!Written(kind, o)
        = [title |-> Editor!TrimSpace(o.title),
           tags |-> IF kind = "page" THEN <<>> ELSE Editor!NotEmpty(Trimmed(o.tags)),
           summary |-> Editor!Given(o.summary, Editor!Beginning(Editor!Trimmed(o.body))),
           draft |-> o.draft, toc |-> o.toc, body |-> Editor!Trimmed(o.body)]
    BY DEF Editor!Written, Trimmed
  <2>2. Editor!TrimSpace(o.title) = o.title
    BY <1>5
  <2>3. (IF kind = "page" THEN <<>> ELSE Editor!NotEmpty(Trimmed(o.tags))) = o.tags
    BY <1>3, <1>7
  <2>4. Editor!Trimmed(o.body) = o.body
    BY <1>3, <1>4
  <2>5. Editor!Given(o.summary, Editor!Beginning(Editor!Trimmed(o.body))) = o.summary
    BY <1>3, <1>10, <2>4 DEF h
  <2>6. Editor!Written(kind, o) = Editor!Seen(o)
    BY <2>1, <2>2, <2>3, <2>4, <2>5 DEF Editor!Seen
  <2> QED BY <2>6
<1> QED BY <1>11, <1>12

(* What is saved of a draft d with the dates of e, and what is saved again *)
(* after the editor has opened it.                                         *)
SameTexts(e, d) ==
    /\ e.title = d.title /\ e.tags = d.tags /\ e.summary = d.summary
    /\ e.draft = d.draft /\ e.toc = d.toc /\ e.body = d.body

LEMMA SavedTwice ==
    ASSUME Minute # Undated, NEW X, Marks(X), NEW kind \in {"post", "page"},
           NEW d, d.toc \in BOOLEAN, d.body \in Bodies(X),
           NEW e, SameTexts(e, d), e.date # Undated
    PROVE  LET once  == Editor!Loaded(kind, Editor!Serialized(kind, e))
               twice == Editor!Loaded(kind, Editor!SavedPost(kind, Editor!Opened(once)))
           IN /\ PlainTexts(X, d) => /\ Editor!Seen(once) = Editor!Written(kind, d)
                                /\ Editor!Seen(twice) = Editor!Written(kind, d)
              /\ Editor!Stays(once, twice) /\ twice.updated = Minute
              /\ once.date = e.date /\ once.updated = e.updated
<1> DEFINE once  == Editor!Loaded(kind, Editor!Serialized(kind, e))
           o     == Editor!Opened(once)
           p     == Editor!Dated(o)
           twice == Editor!Loaded(kind, Editor!Serialized(kind, p))
<1>1. Reads(kind, once, e)
  BY SavedReads DEF SameTexts
<1> HIDE DEF once
<1>2. /\ once.date = e.date /\ once.updated = e.updated /\ once.draft = d.draft
      /\ once.toc = d.toc /\ once.body = Editor!Trimmed(d.body)
  BY <1>1 DEF Reads, SameTexts
<1>3. /\ SameTexts(o, once) /\ o.date = e.date /\ o.manual = FALSE
  BY <1>2 DEF Editor!Opened, SameTexts
<1>4. /\ SameTexts(p, once) /\ p.date = e.date /\ p.updated = Minute
  BY <1>2 DEF Editor!Opened, Editor!Dated, SameTexts
<1> HIDE DEF p
<1>5. Reads(kind, twice, p)
  BY <1>2, <1>4, SavedReads DEF SameTexts
<1> HIDE DEF twice
<1>6. /\ twice.date = e.date /\ twice.updated = Minute /\ twice.draft = d.draft
      /\ twice.toc = d.toc /\ twice.body = Editor!Trimmed(Editor!Trimmed(d.body))
  BY <1>2, <1>4, <1>5 DEF Reads, SameTexts
<1>7. Editor!Trimmed(Editor!Trimmed(d.body)) = Editor!Trimmed(d.body)
  BY BodyTrimmed
<1>8. Editor!Stays(once, twice)
  BY <1>2, <1>6, <1>7 DEF Editor!Stays
<1>9. ASSUME PlainTexts(X, d)
      PROVE  /\ Editor!Seen(once) = Editor!Written(kind, d)
             /\ Editor!Seen(twice) = Editor!Written(kind, d)
  <2>1. PlainTexts(X, e) /\ Editor!Written(kind, e) = Editor!Written(kind, d)
    BY <1>9 DEF PlainTexts, SameTexts, Editor!PlainDraft, Editor!Written
  <2>2. Editor!Seen(once) = Editor!Written(kind, d)
    BY <1>1, <2>1, SeenWritten
  <2>3. Editor!Seen(p) = Editor!Seen(once)
    BY <1>4 DEF Editor!Seen, SameTexts
  <2>4. PlainTexts(X, p) /\ Editor!Written(kind, p) = Editor!Written(kind, d)
    BY <1>9, <2>2, <2>3, WrittenAgain
  <2>5. Editor!Seen(twice) = Editor!Written(kind, d)
    BY <1>5, <2>4, SeenWritten
  <2> QED BY <2>2, <2>5
<1>10. Editor!Loaded(kind, Editor!SavedPost(kind, o)) = twice
  BY DEF Editor!SavedPost, twice, p
<1> QED BY <1>2, <1>6, <1>8, <1>9, <1>10 DEF once

(* EditsKeepText, for drafts of posts and pages with texts of any length,  *)
(* any number of tags and any dates. The time of a save is not the zero    *)
(* time.                                                                   *)
THEOREM EditsAlwaysKeepText ==
    ASSUME Minute # Undated, NEW X, Marks(X), NEW D,
           input \in {"post", "page"} \X EditorDrafts(X, D)
    PROVE  EditsKeepText
<1> DEFINE d == input[2]
<1>1. d \in EditorDrafts(X, D)
  OBVIOUS
<1> HIDE DEF d
<1>2. /\ d.title \in Seq(X) /\ d.tags \in Seq(Seq(X)) /\ d.summary \in Seq(X)
      /\ d.body \in Bodies(X) /\ d.toc \in BOOLEAN
  BY <1>1 DEF EditorDrafts
<1>3. ASSUME NEW kind \in {"post", "page"} PROVE Editor!EditsKeepText(kind, d)
  <2> SUFFICES ASSUME ~Editor!Refused(d)
               PROVE  Editor!EditsKeepText(kind, d)
    BY DEF Editor!EditsKeepText
  <2> DEFINE e == Editor!Dated(d)
             i == Editor!ImportDated(d)
             once  == Editor!Loaded(kind, Editor!Serialized(kind, e))
             twice == Editor!Loaded(kind, Editor!SavedPost(kind, Editor!Opened(once)))
             taken == Editor!Loaded(kind, Editor!Serialized(kind, i))
             later == Editor!Loaded(kind, Editor!SavedPost(kind, Editor!Opened(taken)))
  <2>1. /\ SameTexts(e, d) /\ e.date = (IF d.date = Undated THEN Minute ELSE d.date)
        /\ e.date # Undated /\ (d.manual /\ d.updated # Undated => e.updated = d.updated)
    BY <1>1 DEF Editor!Dated, SameTexts, EditorDrafts
  <2>2. /\ SameTexts(i, d) /\ i.date # Undated /\ (d.date # Undated => i.date = d.date)
    BY <1>1 DEF Editor!ImportDated, SameTexts, EditorDrafts
  <2>3. Editor!PlainDraft(d) => PlainTexts(X, d)
    BY <1>2 DEF PlainTexts, Editor!Refused
  <2> HIDE DEF e, i
  <2>4. /\ PlainTexts(X, d) => /\ Editor!Seen(once) = Editor!Written(kind, d)
                          /\ Editor!Seen(twice) = Editor!Written(kind, d)
        /\ Editor!Stays(once, twice) /\ twice.updated = Minute
        /\ once.date = e.date /\ once.updated = e.updated
    BY <1>2, <2>1, SavedTwice
  <2>5. Editor!Stays(taken, later) /\ taken.date = i.date
    BY <1>2, <2>2, SavedTwice
  <2>6. /\ once = Editor!Loaded(kind, Editor!SavedPost(kind, d))
        /\ taken = Editor!Loaded(kind, Editor!SavedImport(kind, d))
    BY DEF Editor!SavedPost, Editor!SavedImport, e, i
  <2> HIDE DEF once, taken
  <2> HIDE DEF twice, later
  <2>7. /\ Editor!PlainDraft(d) => /\ Editor!Seen(once) = Editor!Written(kind, d)
                                   /\ Editor!Seen(twice) = Editor!Written(kind, d)
        /\ Editor!Stays(once, twice) /\ twice.updated = Minute
        /\ once.date = (IF d.date = Undated THEN Minute ELSE d.date)
        /\ d.manual /\ d.updated # Undated => once.updated = d.updated
        /\ Editor!Stays(taken, later) /\ (d.date # Undated => taken.date = d.date)
    BY <2>1, <2>2, <2>3, <2>4, <2>5
  <2> QED BY <2>6, <2>7 DEF Editor!EditsKeepText, twice, later
<1> QED BY <1>3 DEF EditsKeepText, d
=============================================================================
