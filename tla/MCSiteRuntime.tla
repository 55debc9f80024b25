---------------------------- MODULE MCSiteRuntime ----------------------------
(* Small instances of SiteRuntime for TLC, which remember whether a reload  *)
(* fell into the rendering of a page.                                       *)
EXTENDS SiteRuntime, TLC

VARIABLE calm  \* for a page: what is served is what was when it began

MCInit == Init /\ calm = [v \in Viewers |-> TRUE]
MCNext ==
    /\ Next \/ Faults
    /\ calm' = [v \in Viewers |-> vpc'[v] = "store" \/ (calm[v] /\ served' = served)]
MCSpec == MCInit /\ [][MCNext]_<<vars, calm>>

(* The page a reader gets is made of one load, with the theme its settings  *)
(* select and the templates of that theme, unless a reload was published    *)
(* while it was rendered: it takes the three one after the other.           *)
PagesWhole == \A v \in Viewers : vpc[v] = "shown" /\ calm[v] => WholePage(v)

Symmetry == Permutations(Admins) \cup Permutations(Bundles)
            \cup Permutations(Fields) \cup Permutations(Plugins)
=============================================================================
