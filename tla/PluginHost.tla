------------------------------ MODULE PluginHost ------------------------------
(***************************************************************************)
(* The plugin runtimes of internal/pluginhost/host.go: processes started   *)
(* on demand by InvokeAction and in the background by ReconcileBackground, *)
(* registered in Host.clients under the mutex h.mu, together with the      *)
(* catalog reload of internal/http/server.go that calls the reconciler.    *)
(*                                                                         *)
(* One action is one critical section of h.mu, or one stretch of code      *)
(* between two of them.  Only grpc packs appear: client() refuses every    *)
(* other kind before it touches the host.                                  *)
(***************************************************************************)
EXTENDS Naturals, FiniteSets

CONSTANTS
    Ids,        \* plugin ids
    Releases,   \* what Version and RootDir of a pack identify
    Background, \* the ids that declare runtime.background and background.run
    Workers,    \* goroutines inside Host.client, at most this many at a time
    Reloaders,  \* goroutines inside Server.reloadRuntime
    Slots,      \* plugin processes whose resources are held, at most this many
    None        \* Go's nil

ASSUME BackgroundAssumption == Background \subseteq Ids
ASSUME NoneAssumption ==
    /\ None \notin Slots
    /\ None \notin Releases
    /\ None \notin [id : Ids, release : Releases]

VARIABLES
    disk,     \* the packs installed and enabled on disk
    catalog,  \* Server.appearance.ActivePlugins
    clients,  \* Host.clients
    pack,     \* client.pack of each slot
    proc,     \* client.cmd: "none", "running" or "exited" (done is closed)
    host,     \* client.hostServer and hostListener: "open" or "closed"
    wpc, wpack, wstarted, wservice,   \* the locals of Host.client
    rpc, rcat, rtodo                  \* the locals of Server.reloadRuntime

worker == <<wpc, wpack, wstarted, wservice>>
reload == <<rpc, rcat, rtodo>>
slots  == <<pack, proc, host>>
vars   == <<disk, catalog, clients, pack, proc, host,
            wpc, wpack, wstarted, wservice, rpc, rcat, rtodo>>

Packs    == [id : Ids, release : Releases]
Catalogs == [Ids -> Releases \cup {None}]

WorkerPCs == {"idle", "lookup", "launch", "spawn", "handshake", "register",
              "discard", "ready"}

(* The type invariant: the domains, and which locals of Host.client are    *)
(* set where (a goroutine holds a started process from start's first       *)
(* resource until it registers, discards or gives up).                     *)
Starting == {"spawn", "handshake", "register", "discard"}

TypeOK ==
    /\ disk \in Catalogs
    /\ catalog \in Catalogs
    /\ clients \in [Ids -> Slots \cup {None}]
    /\ pack \in [Slots -> Packs \cup {None}]
    /\ proc \in [Slots -> {"none", "running", "exited"}]
    /\ host \in [Slots -> {"open", "closed"}]
    /\ wpc \in [Workers -> WorkerPCs]
    /\ wpack \in [Workers -> Packs \cup {None}]
    /\ wstarted \in [Workers -> Slots \cup {None}]
    /\ wservice \in [Workers -> Slots \cup {None}]
    /\ rpc \in [Reloaders -> {"idle", "load", "publish", "reconcile", "spawn"}]
    /\ rcat \in [Reloaders -> Catalogs]
    /\ rtodo \in [Reloaders -> SUBSET Ids]
    /\ \A w \in Workers :
          /\ wpc[w] # "idle" => wpack[w] # None
          /\ wpc[w] \in Starting <=> wstarted[w] # None
          /\ wpc[w] \in {"discard", "ready"} <=> wservice[w] # None
    /\ \A r \in Reloaders :
          /\ rpc[r] # "spawn" => rtodo[r] = {}
          /\ \A id \in rtodo[r] : rcat[r][id] # None

Nothing == [id \in Ids |-> None]

Init ==
    /\ disk = Nothing
    /\ catalog = Nothing
    /\ clients = Nothing
    /\ pack = [s \in Slots |-> None]
    /\ proc = [s \in Slots |-> "none"]
    /\ host = [s \in Slots |-> "closed"]
    /\ wpc = [w \in Workers |-> "idle"]
    /\ wpack = [w \in Workers |-> None]
    /\ wstarted = [w \in Workers |-> None]
    /\ wservice = [w \in Workers |-> None]
    /\ rpc = [r \in Reloaders |-> "idle"]
    /\ rcat = [r \in Reloaders |-> Nothing]
    /\ rtodo = [r \in Reloaders |-> {}]

-----------------------------------------------------------------------------
(* Helpers of host.go.                                                     *)

Running(s) == s # None /\ proc[s] = "running"            \* pluginRunning

(* closeClient on a set of slots: Shutdown, then the connection, the host  *)
(* service and, if it is still alive, the process are closed.              *)
Close(closed) ==
    /\ proc' = [s \in Slots |-> IF s \in closed /\ proc[s] = "running"
                                THEN "exited" ELSE proc[s]]
    /\ host' = [s \in Slots |-> IF s \in closed THEN "closed" ELSE host[s]]

(* A variant that is not the code, as are the other definitions named      *)
(* ...Forgets, ...KeepsLocal, ...Never, ...ByName and ...IfDead below: the *)
(* mutants that show that the properties can fail.                         *)
CloseKeepsProcess(closed) ==
    /\ host' = [s \in Slots |-> IF s \in closed THEN "closed" ELSE host[s]]
    /\ UNCHANGED proc

Free(s) ==
    /\ proc[s] # "running" /\ host[s] = "closed"
    /\ \A id \in Ids : clients[id] # s
    /\ \A w \in Workers : wstarted[w] # s /\ wservice[w] # s

Return(w) ==
    /\ wpc' = [wpc EXCEPT ![w] = "idle"]
    /\ wpack' = [wpack EXCEPT ![w] = None]
    /\ wstarted' = [wstarted EXCEPT ![w] = None]
    /\ wservice' = [wservice EXCEPT ![w] = None]

-----------------------------------------------------------------------------
(* Host.InvokeAction and Host.client.                                      *)

Enter(w, p) ==
    /\ wpc[w] = "idle"
    /\ wpc' = [wpc EXCEPT ![w] = "lookup"]
    /\ wpack' = [wpack EXCEPT ![w] = p]
    /\ UNCHANGED <<wstarted, wservice>>

(* A plugin page or plugin action request: the handler finds the pack in   *)
(* the catalog it sees now and hands it to InvokeAction.                   *)
Request(w, id) ==
    /\ catalog[id] # None
    /\ Enter(w, [id |-> id, release |-> catalog[id]])
    /\ UNCHANGED <<disk, catalog, clients, slots, reload>>

Registered(w) == clients[wpack[w].id]

(* The first critical section finds a live runtime of that id.             *)
Reuse(w) ==
    /\ wpc[w] = "lookup"
    /\ Running(Registered(w))
    /\ wservice' = [wservice EXCEPT ![w] = Registered(w)]
    /\ wpc' = [wpc EXCEPT ![w] = "ready"]
    /\ UNCHANGED <<disk, catalog, clients, slots, wpack, wstarted, reload>>

(* It finds none, or one whose process has exited, which it closes.        *)
Evict(w) ==
    /\ wpc[w] = "lookup"
    /\ ~Running(Registered(w))
    /\ Close({Registered(w)})
    /\ clients' = [clients EXCEPT ![wpack[w].id] = None]
    /\ wpc' = [wpc EXCEPT ![w] = "launch"]
    /\ UNCHANGED <<disk, catalog, pack, wpack, wstarted, wservice, reload>>

(* Host.start fails before it holds anything: no command for the platform, *)
(* no data directory, no executable, no port for the host service.         *)
PrepareFails(w) ==
    /\ wpc[w] = "launch"
    /\ Return(w)
    /\ UNCHANGED <<disk, catalog, clients, slots, reload>>

OpenHostService(w, s) ==
    /\ wpc[w] = "launch"
    /\ Free(s)
    /\ pack' = [pack EXCEPT ![s] = wpack[w]]
    /\ proc' = [proc EXCEPT ![s] = "none"]
    /\ host' = [host EXCEPT ![s] = "open"]
    /\ wstarted' = [wstarted EXCEPT ![w] = s]
    /\ wpc' = [wpc EXCEPT ![w] = "spawn"]
    /\ UNCHANGED <<disk, catalog, clients, wpack, wservice, reload>>

(* StdoutPipe or StderrPipe fails: start returns and the host service it   *)
(* opened is never stopped.                                                *)
PipeFails(w) ==
    /\ wpc[w] = "spawn"
    /\ Return(w)
    /\ UNCHANGED <<disk, catalog, clients, slots, reload>>

SpawnFails(w) ==
    /\ wpc[w] = "spawn"
    /\ Close({wstarted[w]})
    /\ Return(w)
    /\ UNCHANGED <<disk, catalog, clients, pack, reload>>

SpawnProcess(w) ==
    /\ wpc[w] = "spawn"
    /\ proc' = [proc EXCEPT ![wstarted[w]] = "running"]
    /\ wpc' = [wpc EXCEPT ![w] = "handshake"]
    /\ UNCHANGED <<disk, catalog, clients, pack, host, wpack, wstarted,
                   wservice, reload>>

(* The endpoint line, the dial, the readiness probe or the handshake fails *)
(* or runs into its timeout, whether or not the process is alive.          *)
HandshakeFailsIfDead(w) ==
    /\ wpc[w] = "handshake"
    /\ ~Running(wstarted[w])
    /\ Close({wstarted[w]})
    /\ Return(w)
    /\ UNCHANGED <<disk, catalog, clients, pack, reload>>

HandshakeFails(w) ==
    /\ wpc[w] = "handshake"
    /\ Close({wstarted[w]})
    /\ Return(w)
    /\ UNCHANGED <<disk, catalog, clients, pack, reload>>

HandshakeSucceeds(w) ==
    /\ wpc[w] = "handshake"
    /\ Running(wstarted[w])
    /\ wpc' = [wpc EXCEPT ![w] = "register"]
    /\ UNCHANGED <<disk, catalog, clients, slots, wpack, wstarted, wservice,
                   reload>>

(* The second critical section: a live runtime registered meanwhile wins.  *)
MustYieldNever(w) == FALSE
MustYield(w) == Running(Registered(w))

RegisterLoses(w) ==
    /\ wpc[w] = "register"
    /\ MustYield(w)
    /\ wservice' = [wservice EXCEPT ![w] = Registered(w)]
    /\ wpc' = [wpc EXCEPT ![w] = "discard"]
    /\ UNCHANGED <<disk, catalog, clients, slots, wpack, wstarted, reload>>

RegisterKeepsLocal(w) ==
    /\ wpc[w] = "register"
    /\ ~MustYield(w)
    /\ clients' = [clients EXCEPT ![wpack[w].id] = wstarted[w]]
    /\ wservice' = [wservice EXCEPT ![w] = wstarted[w]]
    /\ wpc' = [wpc EXCEPT ![w] = "ready"]
    /\ UNCHANGED <<disk, catalog, slots, wpack, wstarted, reload>>

(* Otherwise the new runtime is stored, over a dead one if there is one.   *)
(* Nothing asks whether the pack is still active.                          *)
Register(w) ==
    /\ wpc[w] = "register"
    /\ ~MustYield(w)
    /\ clients' = [clients EXCEPT ![wpack[w].id] = wstarted[w]]
    /\ wservice' = [wservice EXCEPT ![w] = wstarted[w]]
    /\ wstarted' = [wstarted EXCEPT ![w] = None]
    /\ wpc' = [wpc EXCEPT ![w] = "ready"]
    /\ UNCHANGED <<disk, catalog, slots, wpack, reload>>

(* closeClient(started), after the mutex is released.                      *)
Discard(w) ==
    /\ wpc[w] = "discard"
    /\ Close({wstarted[w]})
    /\ wstarted' = [wstarted EXCEPT ![w] = None]
    /\ wpc' = [wpc EXCEPT ![w] = "ready"]
    /\ UNCHANGED <<disk, catalog, clients, pack, wpack, wservice, reload>>

(* service.InvokeAction returns, with an answer, an error or at callTimeout; *)
(* a background start has nothing more to do.                              *)
Invoke(w) ==
    /\ wpc[w] = "ready"
    /\ Return(w)
    /\ UNCHANGED <<disk, catalog, clients, slots, reload>>

(* A plugin process ends by itself; waitForProcess closes done.            *)
Exit(s) ==
    /\ proc[s] = "running"
    /\ proc' = [proc EXCEPT ![s] = "exited"]
    /\ UNCHANGED <<disk, catalog, clients, pack, host, worker, reload>>

-----------------------------------------------------------------------------
(* Server.reloadRuntime and Host.ReconcileBackground.                      *)

(* An admin request installs, upgrades, enables, disables or deletes a     *)
(* pack, then reloads.                                                     *)
Change(r, id, release) ==
    /\ rpc[r] = "idle"
    /\ disk[id] # release
    /\ disk' = [disk EXCEPT ![id] = release]
    /\ rpc' = [rpc EXCEPT ![r] = "load"]
    /\ UNCHANGED <<catalog, clients, slots, worker, rcat, rtodo>>

LoadCatalog(r) ==
    /\ rpc[r] = "load"
    /\ rcat' = [rcat EXCEPT ![r] = disk]
    /\ rpc' = [rpc EXCEPT ![r] = "publish"]
    /\ UNCHANGED <<disk, catalog, clients, slots, worker, rtodo>>

LoadFails(r) ==
    /\ rpc[r] = "load"
    /\ rpc' = [rpc EXCEPT ![r] = "idle"]
    /\ UNCHANGED <<disk, catalog, clients, slots, worker, rcat, rtodo>>

(* replaceRuntime *)
Publish(r) ==
    /\ rpc[r] = "publish"
    /\ catalog' = rcat[r]
    /\ rpc' = [rpc EXCEPT ![r] = "reconcile"]
    /\ UNCHANGED <<disk, clients, slots, worker, rcat, rtodo>>

(* The ids whose registered runtime is not the release now active.         *)
StaleByName(active) ==
    {id \in Ids : clients[id] # None /\ active[id] # None}
Stale(active) ==
    {id \in Ids : clients[id] # None /\ active[id] # pack[clients[id]].release}

(* ReconcileBackground's critical section.                                 *)
ReconcileForgets(r) ==
    /\ rpc[r] = "reconcile"
    /\ clients' = [id \in Ids |-> IF id \in Stale(rcat[r]) THEN None
                                                          ELSE clients[id]]
    /\ CloseKeepsProcess({clients[id] : id \in Stale(rcat[r])})
    /\ rtodo' = [rtodo EXCEPT ![r] = {id \in Background : rcat[r][id] # None}]
    /\ rpc' = [rpc EXCEPT ![r] = "spawn"]
    /\ UNCHANGED <<disk, catalog, pack, worker, rcat>>

Reconcile(r) ==
    /\ rpc[r] = "reconcile"
    /\ clients' = [id \in Ids |-> IF id \in Stale(rcat[r]) THEN None
                                                          ELSE clients[id]]
    /\ Close({clients[id] : id \in Stale(rcat[r])})
    /\ rtodo' = [rtodo EXCEPT ![r] = {id \in Background : rcat[r][id] # None}]
    /\ rpc' = [rpc EXCEPT ![r] = "spawn"]
    /\ UNCHANGED <<disk, catalog, pack, worker, rcat>>

(* One goroutine for each background pack.                                 *)
StartBackground(r, id, w) ==
    /\ rpc[r] = "spawn"
    /\ id \in rtodo[r]
    /\ Enter(w, [id |-> id, release |-> rcat[r][id]])
    /\ rtodo' = [rtodo EXCEPT ![r] = @ \ {id}]
    /\ UNCHANGED <<disk, catalog, clients, slots, rpc, rcat>>

ReloadDone(r) ==
    /\ rpc[r] = "spawn"
    /\ rtodo[r] = {}
    /\ rpc' = [rpc EXCEPT ![r] = "idle"]
    /\ UNCHANGED <<disk, catalog, clients, slots, worker, rcat, rtodo>>

(* Host.Close: no caller in the program, but the package offers it.        *)
CloseHost ==
    /\ clients # Nothing
    /\ Close({clients[id] : id \in Ids})
    /\ clients' = Nothing
    /\ UNCHANGED <<disk, catalog, pack, worker, reload>>

-----------------------------------------------------------------------------
HostStep(w) ==
    \/ Reuse(w) \/ Evict(w)
    \/ PrepareFails(w) \/ \E s \in Slots : OpenHostService(w, s)
    \/ PipeFails(w) \/ SpawnFails(w) \/ SpawnProcess(w)
    \/ HandshakeFails(w)
    \/ RegisterLoses(w) \/ Register(w) \/ Discard(w) \/ Invoke(w)

WorkerStep(w) == HostStep(w) \/ HandshakeSucceeds(w)

ReloadStep(r) ==
    \/ LoadCatalog(r) \/ LoadFails(r) \/ Publish(r) \/ Reconcile(r)
    \/ \E id \in Ids, w \in Workers : StartBackground(r, id, w)
    \/ ReloadDone(r)

Next ==
    \/ \E w \in Workers : WorkerStep(w)
    \/ \E w \in Workers, id \in Ids : Request(w, id)
    \/ \E s \in Slots : Exit(s)
    \/ \E r \in Reloaders : ReloadStep(r)
    \/ \E r \in Reloaders, id \in Ids, release \in Releases \cup {None} :
          Change(r, id, release)
    \/ CloseHost

Spec == Init /\ [][Next]_vars

(* Goroutines run, and every wait inside Host.client ends: readEndpoint    *)
(* after startupTimeout, waitForReady and Handshake with their context,    *)
(* InvokeAction after callTimeout.  A plugin is not obliged to answer, so  *)
(* nothing is assumed of HandshakeSucceeds; nor of requests, crashes and   *)
(* admin changes.                                                          *)
Fairness ==
    /\ \A w \in Workers : WF_vars(HostStep(w))
    /\ \A r \in Reloaders : WF_vars(ReloadStep(r))

FairSpec == Spec /\ Fairness

-----------------------------------------------------------------------------
(* Properties.                                                             *)

(* A plugin process that runs belongs to someone who will stop it: it is   *)
(* registered, or the goroutine that started it still holds it.            *)
NoOrphanProcess ==
    \A s \in Slots : proc[s] = "running" =>
        \/ \E id \in Ids : clients[id] = s
        \/ \E w \in Workers : wstarted[w] = s

(* No runtime has two owners: it is not registered twice, not held by two  *)
(* starting goroutines, and never both registered and about to be closed   *)
(* by the goroutine that lost the race.                                    *)
SingleOwner ==
    /\ \A a, b \in Ids : a # b /\ clients[a] # None => clients[a] # clients[b]
    /\ \A a, b \in Workers :
          a # b /\ wstarted[a] # None => wstarted[a] # wstarted[b]
    /\ \A id \in Ids, w \in Workers :
          wstarted[w] # None => clients[id] # wstarted[w]

AtRest == /\ \A w \in Workers : wpc[w] = "idle"
          /\ \A r \in Reloaders : rpc[r] = "idle"

(* However many goroutines raced to start a plugin, once they have         *)
(* returned it runs in at most one process.                                *)
OneRuntimeAtRest ==
    AtRest => \A s, t \in Slots :
        proc[s] = "running" /\ proc[t] = "running" /\ pack[s].id = pack[t].id
            => s = t

(* "already-running plugins are reused": while a reload reconciles, a live *)
(* registered runtime of the release that stays active is neither dropped  *)
(* nor stopped.                                                            *)
KeepsRunning ==
    \A r \in Reloaders : rpc[r] = "reconcile" /\ rpc'[r] = "spawn" =>
        \A id \in Ids :
            /\ Running(clients[id])
            /\ pack[clients[id]].release = rcat[r][id]
            => clients'[id] = clients[id] /\ proc'[clients[id]] = "running"

RunningReused == [][KeepsRunning]_vars

(* "stops runtimes for disabled plugins": with every call and reload over, *)
(* what runs is what the catalog the program serves lists as active.       *)
DisabledStopped ==
    AtRest => \A id \in Ids : Running(clients[id]) => catalog[id] # None

(* Every call into the host returns, whatever the plugin does.             *)
CallsReturn == \A w \in Workers : wpc[w] # "idle" ~> wpc[w] = "idle"
=============================================================================
