-------------------------- MODULE PluginHostProofs --------------------------
(***************************************************************************)
(* Ownership of plugin processes, for any number of plugins, releases,     *)
(* goroutines and processes; and that the host can start what was          *)
(* installed.                                                              *)
(***************************************************************************)
EXTENDS PluginHost, PureFunctions, TLAPS

(* What SingleOwner and OneRuntimeAtRest rest on: a slot is registered     *)
(* under the id of its pack, and a starting goroutine holds a slot made    *)
(* for its own pack, which no process runs in before SpawnProcess.         *)
OwnPack ==
    /\ \A id \in Ids : clients[id] # None =>
          /\ pack[clients[id]] # None
          /\ pack[clients[id]].id = id
    /\ \A w \in Workers : wstarted[w] # None =>
          /\ pack[wstarted[w]] = wpack[w]
          /\ wpc[w] = "spawn" => proc[wstarted[w]] = "none"

IInv == TypeOK /\ NoOrphanProcess /\ SingleOwner /\ OwnPack

USE DEF Starting, WorkerPCs, Packs, Catalogs

(* The invariant holds of the empty host that New returns.                 *)
LEMMA InitIInv == Init => IInv
BY NoneAssumption
   DEF Init, IInv, TypeOK, NoOrphanProcess, SingleOwner, OwnPack, Nothing

(* Every critical section of h.mu and every step of start preserve typing. *)
LEMMA TypeStep == TypeOK /\ [Next]_vars => TypeOK'
<1> SUFFICES ASSUME TypeOK, [Next]_vars PROVE TypeOK'
  OBVIOUS
<1> USE NoneAssumption, BackgroundAssumption DEF TypeOK
<1>1. ASSUME NEW w \in Workers, Reuse(w) PROVE TypeOK'
  BY <1>1 DEF Reuse, Running, Registered, slots, reload
<1>2. ASSUME NEW w \in Workers, Evict(w) PROVE TypeOK'
  BY <1>2 DEF Evict, Running, Registered, Close, reload
<1>3. ASSUME NEW w \in Workers, PrepareFails(w) PROVE TypeOK'
  BY <1>3 DEF PrepareFails, Return, slots, reload
<1>4. ASSUME NEW w \in Workers, NEW s \in Slots, OpenHostService(w, s)
      PROVE TypeOK'
  BY <1>4 DEF OpenHostService, Free, reload
<1>5. ASSUME NEW w \in Workers, PipeFails(w) PROVE TypeOK'
  BY <1>5 DEF PipeFails, Return, slots, reload
<1>6. ASSUME NEW w \in Workers, SpawnFails(w) PROVE TypeOK'
  BY <1>6 DEF SpawnFails, Return, Close, reload
<1>7. ASSUME NEW w \in Workers, SpawnProcess(w) PROVE TypeOK'
  BY <1>7 DEF SpawnProcess, reload
<1>8. ASSUME NEW w \in Workers, HandshakeFails(w) PROVE TypeOK'
  BY <1>8 DEF HandshakeFails, Return, Close, reload
<1>9. ASSUME NEW w \in Workers, HandshakeSucceeds(w) PROVE TypeOK'
  BY <1>9 DEF HandshakeSucceeds, slots, reload
<1>10. ASSUME NEW w \in Workers, RegisterLoses(w) PROVE TypeOK'
  BY <1>10 DEF RegisterLoses, MustYield, Running, Registered, slots, reload
<1>11. ASSUME NEW w \in Workers, Register(w) PROVE TypeOK'
  BY <1>11 DEF Register, slots, reload
<1>12. ASSUME NEW w \in Workers, Discard(w) PROVE TypeOK'
  BY <1>12 DEF Discard, Close, reload
<1>13. ASSUME NEW w \in Workers, Invoke(w) PROVE TypeOK'
  BY <1>13 DEF Invoke, Return, slots, reload
<1>14. ASSUME NEW w \in Workers, NEW id \in Ids, Request(w, id) PROVE TypeOK'
  <2> [id |-> id, release |-> catalog[id]] \in Packs
    BY <1>14 DEF Request
  <2> QED
    BY <1>14 DEF Request, Enter, slots, reload
<1>15. ASSUME NEW s \in Slots, Exit(s) PROVE TypeOK'
  BY <1>15 DEF Exit, worker, reload
<1>16. ASSUME NEW r \in Reloaders, LoadCatalog(r) PROVE TypeOK'
  BY <1>16 DEF LoadCatalog, slots, worker
<1>17. ASSUME NEW r \in Reloaders, LoadFails(r) PROVE TypeOK'
  BY <1>17 DEF LoadFails, slots, worker
<1>18. ASSUME NEW r \in Reloaders, Publish(r) PROVE TypeOK'
  BY <1>18 DEF Publish, slots, worker
<1>19. ASSUME NEW r \in Reloaders, ReloadDone(r) PROVE TypeOK'
  BY <1>19 DEF ReloadDone, slots, worker
<1>20. ASSUME NEW r \in Reloaders, Reconcile(r) PROVE TypeOK'
  BY <1>20 DEF Reconcile, Stale, Close, worker
<1>21. ASSUME NEW r \in Reloaders, NEW id \in Ids, NEW w \in Workers,
              StartBackground(r, id, w)
       PROVE TypeOK'
  BY <1>21 DEF StartBackground, Enter, slots
<1>22. ASSUME NEW r \in Reloaders, NEW id \in Ids,
              NEW release \in Releases \cup {None}, Change(r, id, release)
       PROVE TypeOK'
  BY <1>22 DEF Change, slots, worker
<1>23. CASE CloseHost
  BY <1>23 DEF CloseHost, Close, Nothing, worker, reload
<1>24. CASE UNCHANGED vars
  BY <1>24 DEF vars
<1> QED
  BY <1>1, <1>2, <1>3, <1>4, <1>5, <1>6, <1>7, <1>8, <1>9, <1>10, <1>11,
     <1>12, <1>13, <1>14, <1>15, <1>16, <1>17, <1>18, <1>19, <1>20, <1>21,
     <1>22, <1>23, <1>24 DEF Next, WorkerStep, HostStep, ReloadStep

Owned == NoOrphanProcess /\ SingleOwner /\ OwnPack

(* A step that starts no process and lets go of none loses no owner.       *)
LEMMA OwnersKept ==
    ASSUME NoOrphanProcess, clients' = clients,
           \A s \in Slots : proc'[s] = "running" => proc[s] = "running",
           \A s \in Slots, w \in Workers : wstarted[w] = s => wstarted'[w] = s
    PROVE  NoOrphanProcess'
BY DEF NoOrphanProcess

(* No step of a call, a reload or a crash loses or duplicates the owner of *)
(* a process.                                                              *)
LEMMA OwnedStep == IInv /\ [Next]_vars => Owned'
<1> SUFFICES ASSUME IInv, [Next]_vars PROVE Owned'
  OBVIOUS
<1> USE NoneAssumption
    DEF IInv, TypeOK, Owned, NoOrphanProcess, SingleOwner, OwnPack
<1>1. ASSUME NEW w \in Workers, Reuse(w) PROVE Owned'
  BY <1>1 DEF Reuse, Running, Registered, slots, reload
<1>2. ASSUME NEW w \in Workers, Evict(w) PROVE Owned'
  BY <1>2 DEF Evict, Running, Registered, Close, reload
<1>3. ASSUME NEW w \in Workers, PrepareFails(w) PROVE Owned'
  <2>1. NoOrphanProcess'
    <3>1. /\ UNCHANGED <<clients, proc>>
          /\ wstarted' = [wstarted EXCEPT ![w] = None]
          /\ wstarted[w] = None
      BY <1>3 DEF PrepareFails, Return, slots
    <3> QED
      BY <3>1, OwnersKept
  <2>2. SingleOwner'
    BY <1>3 DEF PrepareFails, Return, slots, reload
  <2>3. OwnPack'
    BY <1>3 DEF PrepareFails, Return, slots, reload
  <2> QED
    BY <2>1, <2>2, <2>3
<1>4. ASSUME NEW w \in Workers, NEW s \in Slots, OpenHostService(w, s) PROVE Owned'
  <2>1. NoOrphanProcess'
    <3>1. /\ clients' = clients
          /\ proc' = [proc EXCEPT ![s] = "none"]
          /\ wstarted' = [wstarted EXCEPT ![w] = s]
          /\ wstarted[w] = None
      BY <1>4 DEF OpenHostService
    <3> QED
      BY <3>1, OwnersKept
  <2>2. SingleOwner'
    BY <1>4 DEF OpenHostService, Free, reload
  <2>3. OwnPack'
    BY <1>4 DEF OpenHostService, Free, reload
  <2> QED
    BY <2>1, <2>2, <2>3
<1>5. ASSUME NEW w \in Workers, PipeFails(w) PROVE Owned'
  <2>1. NoOrphanProcess'
    BY <1>5 DEF PipeFails, Return, slots, reload
  <2>2. SingleOwner'
    BY <1>5 DEF PipeFails, Return, slots, reload
  <2>3. OwnPack'
    BY <1>5 DEF PipeFails, Return, slots, reload
  <2> QED
    BY <2>1, <2>2, <2>3
<1>6. ASSUME NEW w \in Workers, SpawnFails(w) PROVE Owned'
  BY <1>6 DEF SpawnFails, Return, Close, reload
<1>7. ASSUME NEW w \in Workers, SpawnProcess(w) PROVE Owned'
  <2>1. NoOrphanProcess'
    BY <1>7 DEF SpawnProcess
  <2>2. SingleOwner'
    BY <1>7 DEF SpawnProcess
  <2>3. OwnPack'
    BY <1>7 DEF SpawnProcess
  <2> QED
    BY <2>1, <2>2, <2>3
<1>8. ASSUME NEW w \in Workers, HandshakeFails(w) PROVE Owned'
  BY <1>8 DEF HandshakeFails, Return, Close, reload
<1>9. ASSUME NEW w \in Workers, HandshakeSucceeds(w) PROVE Owned'
  BY <1>9 DEF HandshakeSucceeds, slots, reload
<1>10. ASSUME NEW w \in Workers, RegisterLoses(w) PROVE Owned'
  BY <1>10 DEF RegisterLoses, slots, reload
<1>11. ASSUME NEW w \in Workers, Register(w) PROVE Owned'
  <2>1. NoOrphanProcess'
    BY <1>11 DEF Register, MustYield, Running, Registered, slots, reload
  <2>2. SingleOwner'
    BY <1>11 DEF Register, MustYield, Running, Registered, slots, reload
  <2>3. OwnPack'
    BY <1>11 DEF Register, MustYield, Running, Registered, slots, reload
  <2> QED
    BY <2>1, <2>2, <2>3
<1>12. ASSUME NEW w \in Workers, Discard(w) PROVE Owned'
  BY <1>12 DEF Discard, Close, reload
<1>13. ASSUME NEW w \in Workers, Invoke(w) PROVE Owned'
  <2>1. /\ UNCHANGED <<clients, proc, pack>>
        /\ wstarted' = [wstarted EXCEPT ![w] = None]
        /\ wpack' = [wpack EXCEPT ![w] = None]
        /\ wpc' = [wpc EXCEPT ![w] = "idle"]
        /\ wstarted[w] = None
    BY <1>13 DEF Invoke, Return, slots
  <2>2. NoOrphanProcess'
    BY <2>1, OwnersKept
  <2>3. SingleOwner'
    BY <2>1
  <2>4. OwnPack'
    BY <2>1
  <2> QED
    BY <2>2, <2>3, <2>4
<1>14. ASSUME NEW w \in Workers, NEW id \in Ids, Request(w, id) PROVE Owned'
  <2>1. /\ UNCHANGED <<clients, proc, pack, wstarted>>
        /\ \E p : wpack' = [wpack EXCEPT ![w] = p]
        /\ wpc' = [wpc EXCEPT ![w] = "lookup"]
        /\ wstarted[w] = None
    BY <1>14 DEF Request, Enter, slots
  <2>2. NoOrphanProcess'
    BY <2>1, OwnersKept
  <2>3. SingleOwner'
    BY <2>1
  <2>4. OwnPack'
    BY <2>1
  <2> QED
    BY <2>2, <2>3, <2>4
<1>15. ASSUME NEW s \in Slots, Exit(s) PROVE Owned'
  <2>1. NoOrphanProcess'
    <3>1. /\ UNCHANGED <<clients, wstarted>>
          /\ proc' = [proc EXCEPT ![s] = "exited"]
      BY <1>15 DEF Exit, worker
    <3> QED
      BY <3>1, OwnersKept
  <2>2. SingleOwner'
    BY <1>15 DEF Exit, worker, reload
  <2>3. OwnPack'
    BY <1>15 DEF Exit, worker, reload
  <2> QED
    BY <2>1, <2>2, <2>3
<1>16. ASSUME NEW r \in Reloaders, Reconcile(r) PROVE Owned'
  BY <1>16 DEF Reconcile, Stale, Close, worker
<1>17. ASSUME NEW r \in Reloaders, NEW id \in Ids, NEW w \in Workers, StartBackground(r, id, w) PROVE Owned'
  <2>1. NoOrphanProcess'
    BY <1>17 DEF StartBackground, Enter, slots
  <2>2. SingleOwner'
    BY <1>17 DEF StartBackground, Enter, slots
  <2>4. wstarted[w] = None
    BY <1>17 DEF StartBackground, Enter
  <2>3. OwnPack'
    BY <1>17, <2>4 DEF StartBackground, Enter, slots
  <2> QED
    BY <2>1, <2>2, <2>3
<1>18. CASE CloseHost
  <2>1. NoOrphanProcess'
    BY <1>18 DEF CloseHost, Close, Nothing, worker, reload
  <2>2. SingleOwner'
    BY <1>18 DEF CloseHost, Close, Nothing, worker, reload
  <2>3. OwnPack'
    BY <1>18 DEF CloseHost, Close, Nothing, worker, reload
  <2> QED
    BY <2>1, <2>2, <2>3
<1>19. CASE UNCHANGED <<clients, slots, worker>>
  BY <1>19 DEF slots, worker
<1> QED
  BY <1>1, <1>2, <1>3, <1>4, <1>5, <1>6, <1>7, <1>8, <1>9, <1>10, <1>11, <1>12, <1>13, <1>14, <1>15, <1>16, <1>17, <1>18, <1>19
     DEF Next, WorkerStep, HostStep, ReloadStep, LoadCatalog, LoadFails, Publish,
         ReloadDone, Change, vars, slots, worker

(* So types and owners are right in every behaviour.                       *)
LEMMA Invariance == Spec => []IInv
<1>1. IInv /\ [Next]_vars => IInv'
  BY TypeStep, OwnedStep DEF IInv, Owned
<1> QED
  BY InitIInv, <1>1, PTL DEF Spec

(* The locals of Host.client and of reloadRuntime are set exactly where    *)
(* the code has set them, for any number of goroutines.                    *)
THEOREM TypeCorrect == Spec => []TypeOK
BY Invariance, PTL DEF IInv

(* Every plugin process that runs is registered or still held by the       *)
(* goroutine that started it: none is ever left behind.                    *)
THEOREM NoOrphans == Spec => []NoOrphanProcess
BY Invariance, PTL DEF IInv

(* No plugin process ever has two owners.                                  *)
THEOREM SingleOwners == Spec => []SingleOwner
BY Invariance, PTL DEF IInv

(* With no call and no reload in progress a plugin runs in one process at  *)
(* most, however many goroutines raced to start it.                        *)
THEOREM OneRuntime == Spec => []OneRuntimeAtRest
<1>1. IInv => OneRuntimeAtRest
  <2> SUFFICES ASSUME IInv, AtRest, NEW s \in Slots, NEW t \in Slots,
                      proc[s] = "running", proc[t] = "running",
                      pack[s].id = pack[t].id
               PROVE  s = t
    BY DEF OneRuntimeAtRest
  <2>1. \A w \in Workers : wstarted[w] = None
    BY DEF IInv, TypeOK, AtRest
  <2>2. \A u \in Slots : proc[u] = "running" =>
           \E id \in Ids : clients[id] = u /\ pack[u].id = id
    BY <2>1, NoneAssumption DEF IInv, NoOrphanProcess, OwnPack
  <2> QED
    BY <2>2
<1> QED
  BY <1>1, Invariance, PTL

(* A reload keeps every live runtime of a release that stays active.       *)
THEOREM Reused == Spec => RunningReused
<1>1. IInv /\ [Next]_vars => [KeepsRunning]_vars
  <2> SUFFICES ASSUME IInv, Next, NEW r \in Reloaders, NEW id \in Ids,
                      rpc[r] = "reconcile", rpc'[r] = "spawn",
                      Running(clients[id]),
                      pack[clients[id]].release = rcat[r][id]
               PROVE  clients'[id] = clients[id] /\ proc'[clients[id]] = "running"
    BY DEF KeepsRunning
  <2> USE DEF IInv, TypeOK
  <2>1. Reconcile(r)
    <3>1. ASSUME NEW q \in Reloaders, ReloadStep(q) PROVE Reconcile(r)
      <4>1. CASE LoadCatalog(q) \/ LoadFails(q) \/ Publish(q) \/ ReloadDone(q)
        BY <4>1 DEF LoadCatalog, LoadFails, Publish, ReloadDone
      <4>2. ASSUME NEW i \in Ids, NEW w \in Workers, StartBackground(q, i, w)
            PROVE  rpc' = rpc
        BY <4>2 DEF StartBackground
      <4>3. ASSUME Reconcile(q) PROVE q = r
        BY <4>3 DEF Reconcile
      <4> QED
        BY <3>1, <4>1, <4>2, <4>3 DEF ReloadStep
    <3>2. ASSUME NEW q \in Reloaders, NEW i \in Ids,
                 NEW release \in Releases \cup {None}, Change(q, i, release)
          PROVE  Reconcile(r)
      BY <3>2 DEF Change
    <3>3. ASSUME NEW w \in Workers, WorkerStep(w) PROVE rpc' = rpc
      BY <3>3 DEF WorkerStep, HostStep, Reuse, Evict, PrepareFails, OpenHostService,
                  PipeFails, SpawnFails, SpawnProcess, HandshakeFails,
                  HandshakeSucceeds, RegisterLoses, Register, Discard, Invoke,
                  reload
    <3>4. ASSUME NEW w \in Workers, NEW i \in Ids, Request(w, i)
          PROVE  rpc' = rpc
      BY <3>4 DEF Request, reload
    <3>5. ASSUME NEW s \in Slots, Exit(s) PROVE rpc' = rpc
      BY <3>5 DEF Exit, reload
    <3>6. CASE CloseHost
      BY <3>6 DEF CloseHost, reload
    <3> QED
      BY <3>1, <3>2, <3>3, <3>4, <3>5, <3>6 DEF Next
  <2>2. id \notin Stale(rcat[r])
    BY DEF Stale
  <2>3. \A k \in Stale(rcat[r]) : clients[k] # clients[id]
    BY <2>2, NoneAssumption DEF Stale, SingleOwner, Running
  <2> QED
    BY <2>1, <2>2, <2>3, NoneAssumption DEF Reconcile, Close, Running
<1> QED
  BY <1>1, Invariance, PTL DEF Spec, RunningReused
-----------------------------------------------------------------------------
(* What the host starts is what was installed: module PackRuntime, for any *)
(* packs, platforms and spellings of commands.                             *)

(* Manifests with commands of C and other values of X; packs whose files   *)
(* are of F.                                                               *)
Runtimes(C, X) ==
    [command : C, args : X, dir : X, env : X,
     platforms : Seq([platform : X, command : C, args : X, dir : X, env : X])]
PacksOf(C, X, F) ==
    [id : X, type : X, kind : X, runtime : Runtimes(C, X), files : SUBSET F, runs : SUBSET F]

(* A valid runtime has at most one entry for this platform, and it is found. *)
LEMMA EntryFound ==
    ASSUME NEW C, NEW X, NEW r \in Runtimes(C, X), Runtime!ValidRuntime(r)
    PROVE  /\ Runtime!Entry(r) \in 0..Len(r.platforms)
           /\ Runtime!Entry(r) = 0 => \A i \in DOMAIN r.platforms : r.platforms[i].platform # Here
           /\ Runtime!Entry(r) # 0 => r.platforms[Runtime!Entry(r)].platform = Here
<1> DEFINE I == {i \in 1..Len(r.platforms) : r.platforms[i].platform = Here}
<1>1. Runtime!Entry(r) = IF I # {} THEN Runtime!Min(I) ELSE 0
  BY DEF Runtime!Entry, Runtime!SelectInSeq
<1>2. Len(r.platforms) \in Nat /\ DOMAIN r.platforms = 1..Len(r.platforms)
  BY DEF Runtimes
<1>3. I \in SUBSET Nat
  BY <1>2
<1>4. I # {} => Runtime!Min(I) \in I
  <2>1. ASSUME NEW i \in I, NEW j \in I PROVE i = j
    BY <1>2 DEF Runtime!ValidRuntime
  <2>2. ASSUME NEW i \in I PROVE I = {i} /\ \A y \in I : i =< y
    BY <1>3, <2>1
  <2> QED BY <2>2 DEF Runtime!Min
<1>5. I # {} => Runtime!Min(I) \in 1..Len(r.platforms) /\ r.platforms[Runtime!Min(I)].platform = Here
  BY <1>4
<1>6. I = {} => \A i \in DOMAIN r.platforms : r.platforms[i].platform # Here
  BY <1>2
<1> HIDE DEF I
<1>7. CASE I = {}
  BY <1>1, <1>2, <1>6, <1>7
<1>8. CASE I # {}
  BY <1>1, <1>2, <1>5, <1>8
<1> QED BY <1>7, <1>8

(* A runtime without entries has none for this platform.                   *)
LEMMA NoPlatforms ==
    ASSUME NEW r, r.platforms = <<>>
    PROVE  Runtime!Entry(r) = 0
BY DEF Runtime!Entry, Runtime!SelectInSeq

(* The installation and the host read the same program out of a manifest.  *)
LEMMA SelectedAlike ==
    ASSUME NEW C, NEW X, NEW r \in Runtimes(C, X)
    PROVE  /\ Runtime!HostCommand(r) = Runtime!Selected(r)
           /\ Runtime!Selected(r).platforms = <<>>
           /\ Runtime!HostCommand(Runtime!Selected(r)) = Runtime!Selected(r)
<1>1. Runtime!HostCommand(r) = Runtime!Selected(r) /\ Runtime!Selected(r).platforms = <<>>
  <2>1. CASE Runtime!Entry(r) = 0
    BY <2>1 DEF Runtime!HostCommand, Runtime!Selected, Runtimes
  <2>2. CASE Runtime!Entry(r) # 0
    BY <2>2 DEF Runtime!HostCommand, Runtime!Selected, Runtime!Specialised, Runtimes
  <2> QED BY <2>1, <2>2
<1>2. DOMAIN Runtime!Selected(r) = {"command", "args", "dir", "env", "platforms"}
  BY DEF Runtime!Selected, Runtime!Specialised, Runtimes
<1>3. Runtime!HostCommand(Runtime!Selected(r)) = [Runtime!Selected(r) EXCEPT !.platforms = <<>>]
  BY <1>1, NoPlatforms DEF Runtime!HostCommand
<1>4. Runtime!Selected(r) = [x \in DOMAIN Runtime!Selected(r) |-> Runtime!Selected(r)[x]]
  BY DEF Runtime!Selected, Runtime!Specialised, Runtimes
<1> QED BY <1>1, <1>2, <1>3, <1>4

(* What a pack keeps through its installation, and what the installation    *)
(* would decide of what it left.                                           *)
LEMMA KeptByPruning ==
    ASSUME NEW C, NEW X, NEW F, NEW given \in PacksOf(C, X, F)
    PROVE  /\ Runtime!Pruned(given).id = given.id
           /\ Runtime!Pruned(given).type = given.type
           /\ Runtime!Pruned(given).kind = given.kind
           /\ Runtime!IsPlugin(given) =>
                 Runtime!HostCommand(Runtime!Pruned(given).runtime) = Runtime!HostCommand(given.runtime)
           /\ Runtime!IsPlugin(given) => Runtime!Pruned(given).runtime.platforms = <<>>
           /\ Runtime!Pruned(Runtime!Pruned(given)) = Runtime!Pruned(given)
<1>0. given.runtime \in Runtimes(C, X)
  BY DEF PacksOf
<1>1. CASE ~Runtime!IsPlugin(given) \/ given.runtime.platforms = <<>>
  BY <1>1 DEF Runtime!Pruned
<1>2. CASE Runtime!IsPlugin(given) /\ given.runtime.platforms # <<>>
  <2>1. /\ Runtime!Pruned(given).id = given.id
        /\ Runtime!Pruned(given).type = given.type
        /\ Runtime!Pruned(given).kind = given.kind
        /\ Runtime!Pruned(given).runtime = Runtime!Selected(given.runtime)
    BY <1>2 DEF Runtime!Pruned, PacksOf
  <2>2. Runtime!HostCommand(Runtime!Pruned(given).runtime) = Runtime!HostCommand(given.runtime)
    BY <2>1, <1>0, SelectedAlike
  <2>3. Runtime!Pruned(given).runtime.platforms = <<>>
    BY <2>1, <1>0, SelectedAlike
  <2>4. Runtime!Pruned(Runtime!Pruned(given)) = Runtime!Pruned(given)
    BY <2>3 DEF Runtime!Pruned
  <2> QED BY <2>1, <2>2, <2>3, <2>4
<1> QED BY <1>1, <1>2

(* The program of this platform is in the pack that is kept.                *)
LEMMA ProgramKept ==
    ASSUME NEW C, NEW X, NEW F, NEW given \in PacksOf(C, X, F),
           Runtime!IsPlugin(given), Runtime!ValidRuntime(given.runtime), Runtime!Available(given),
           ~Runtime!PruneFails(given)
    PROVE  LET c == Runtime!HostCommand(given.runtime).command
           IN /\ c # Unset
              /\ Runtime!HasFile(Runtime!Pruned(given), Cleaned[c])
              /\ given.runtime.platforms # <<>> /\ Cleaned[c] # Unset =>
                    Cleaned[c] \in Runtime!Pruned(given).runs
<1> DEFINE c == Runtime!Selected(given.runtime).command
<1>0. given.runtime \in Runtimes(C, X)
  BY DEF PacksOf
<1>1. Runtime!HostCommand(given.runtime).command = c
  BY <1>0, SelectedAlike
<1>2. c # Unset /\ Runtime!HasFile(given, Cleaned[c])
  BY DEF Runtime!Available
<1>3. CASE given.runtime.platforms = <<>>
  BY <1>1, <1>2, <1>3 DEF Runtime!Pruned
<1>4. CASE given.runtime.platforms # <<>>
  <2>1. Runtime!HasFile(Runtime!Pruned(given), Cleaned[c])
    BY <1>4 DEF Runtime!PruneFails
  <2>2. /\ Runtime!Pruned(given).files =
              given.files \ Runtime!Unused(given.runtime, Runtime!Selected(given.runtime))
        /\ {Cleaned[c]} \cap Runtime!Pruned(given).files \subseteq Runtime!Pruned(given).runs
    BY <1>4 DEF Runtime!Pruned, PacksOf
  <2>3. Cleaned[c] # Unset => Cleaned[c] \in Runtime!Pruned(given).runs
    BY <2>1, <2>2 DEF Runtime!HasFile
  <2> HIDE DEF c
  <2> QED BY <1>1, <1>2, <2>1, <2>3
<1> QED BY <1>3, <1>4

(* Only programs that an entry of another platform names are deleted.      *)
LEMMA OthersGo ==
    ASSUME NEW C, NEW X, NEW F, NEW given \in PacksOf(C, X, F),
           Runtime!IsPlugin(given), Runtime!ValidRuntime(given.runtime),
           NEW f \in given.files \ Runtime!Pruned(given).files
    PROVE  \E e \in Runtime!ToSet(given.runtime.platforms) :
              e.platform # Here /\ Cleaned[e.command] = f
<1> DEFINE r == given.runtime
<1>0. r \in Runtimes(C, X)
  BY DEF PacksOf
<1>1. r.platforms # <<>> /\ f \in Runtime!Unused(r, Runtime!Selected(r))
  BY DEF Runtime!Pruned, PacksOf
<1>2. PICK j \in DOMAIN r.platforms :
         /\ r.platforms[j].command # Runtime!Selected(r).command
         /\ Cleaned[r.platforms[j].command] = f
  BY <1>1 DEF Runtime!Unused
<1>3. r.platforms[j].platform # Here
  <2> SUFFICES ASSUME r.platforms[j].platform = Here PROVE FALSE
    OBVIOUS
  <2>1. /\ Runtime!Entry(r) # 0
        /\ Runtime!Entry(r) \in DOMAIN r.platforms
        /\ r.platforms[Runtime!Entry(r)].platform = Here
    BY <1>0, EntryFound DEF Runtimes
  <2>2. Runtime!Entry(r) = j
    BY <2>1, <1>2 DEF Runtime!ValidRuntime
  <2>3. Runtime!Selected(r).command = r.platforms[j].command
    BY <2>1, <2>2, <1>0 DEF Runtime!Selected, Runtime!Specialised, Runtimes
  <2> QED BY <2>3, <1>2
<1>4. r.platforms[j] \in Runtime!ToSet(r.platforms)
  BY <1>0, <1>2 DEF Runtime!ToSet, Runtimes
<1> QED BY <1>2, <1>3, <1>4

(* What was accepted once would be accepted again, as it was kept.         *)
LEMMA AcceptedAgain ==
    ASSUME NEW C, NEW X, NEW F, NEW given \in PacksOf(C, X, F),
           Runtime!IsPlugin(given), Runtime!ValidRuntime(given.runtime), Runtime!Available(given),
           ~Runtime!PruneFails(given)
    PROVE  /\ Runtime!ValidRuntime(Runtime!Pruned(given).runtime)
           /\ Runtime!Available(Runtime!Pruned(given))
           /\ ~Runtime!PruneFails(Runtime!Pruned(given))
<1> DEFINE r     == given.runtime
           after == Runtime!Pruned(given)
<1>0. r \in Runtimes(C, X)
  BY DEF PacksOf
<1>1. after.runtime.platforms = <<>> /\ Runtime!HostCommand(after.runtime) = Runtime!HostCommand(r)
  BY KeptByPruning
<1>2. Runtime!HostCommand(r) = Runtime!Selected(r)
  BY <1>0, SelectedAlike
<1>3. after.runtime = r \/ after.runtime = Runtime!Selected(r)
  BY DEF Runtime!Pruned, PacksOf
<1>4. Runtime!Selected(after.runtime) = [after.runtime EXCEPT !.platforms = <<>>]
  BY <1>1, NoPlatforms DEF Runtime!Selected
<1>5. Runtime!HostCommand(after.runtime) = [after.runtime EXCEPT !.platforms = <<>>]
  BY <1>1, NoPlatforms DEF Runtime!HostCommand
<1>6. DOMAIN after.runtime = {"command", "args", "dir", "env", "platforms"}
  BY <1>0, <1>3 DEF Runtimes, Runtime!Selected, Runtime!Specialised
<1>7. after.runtime.command = Runtime!HostCommand(r).command
  BY <1>1, <1>5, <1>6
<1>8. Runtime!Selected(after.runtime).command = Runtime!HostCommand(r).command
  BY <1>1, <1>4, <1>5
<1>9. /\ Runtime!HostCommand(r).command # Unset
      /\ Runtime!HasFile(after, Cleaned[Runtime!HostCommand(r).command])
  BY ProgramKept
<1>10. Runtime!ValidRuntime(after.runtime)
  BY <1>1, <1>7, <1>9 DEF Runtime!ValidRuntime
<1>11. Runtime!Available(after)
  BY <1>8, <1>9 DEF Runtime!Available
<1>12. ~Runtime!PruneFails(after)
  BY <1>1 DEF Runtime!PruneFails
<1> QED BY <1>10, <1>11, <1>12

(* Why a plugin is refused whose manifest says nothing wrong.              *)
LEMMA RefusedWith ==
    ASSUME NEW C, NEW X, NEW F, NEW given \in PacksOf(C, X, F),
           ~Runtime!Available(given) \/ Runtime!PruneFails(given)
    PROVE  LET c == Runtime!HostCommand(given.runtime).command
           IN Runtime!SpelledTwice(given.runtime) \/ c = Unset \/ ~Runtime!HasFile(given, Cleaned[c])
<1> DEFINE r == given.runtime
           c == Runtime!Selected(r).command
<1>0. r \in Runtimes(C, X)
  BY DEF PacksOf
<1>1. Runtime!HostCommand(r).command = c
  BY <1>0, SelectedAlike
<1>2. CASE ~Runtime!Available(given)
  BY <1>1, <1>2 DEF Runtime!Available
<1>3. CASE Runtime!PruneFails(given) /\ Runtime!HasFile(given, Cleaned[c])
  <2>1. Runtime!Pruned(given).files = given.files \ Runtime!Unused(r, Runtime!Selected(r))
    BY <1>3 DEF Runtime!PruneFails, Runtime!Pruned, PacksOf
  <2>2. Cleaned[c] # Unset /\ Cleaned[c] \in Runtime!Unused(r, Runtime!Selected(r))
    BY <2>1, <1>3 DEF Runtime!PruneFails, Runtime!HasFile
  <2>3. PICK j \in DOMAIN r.platforms : /\ r.platforms[j].command # c
                                        /\ Cleaned[r.platforms[j].command] = Cleaned[c]
    BY <2>2 DEF Runtime!Unused
  <2>4. Runtime!SpelledTwice(r)
    BY <2>2, <2>3 DEF Runtime!SpelledTwice
  <2> QED BY <2>4
<1> QED BY <1>1, <1>2, <1>3

(* validateBundleInstall, pruneBundleRuntimesForCurrentPlatform and        *)
(* Host.command agree, whatever the manifests say: a plugin whose          *)
(* installation is accepted starts with what its author declared for this  *)
(* platform, no program but those of other platforms is deleted, a second  *)
(* installation changes nothing, and one is refused for a reason only.     *)
LEMMA InstalledPacksStart ==
    ASSUME NEW C, NEW X, NEW F, NEW packs \in Seq(PacksOf(C, X, F))
    PROVE  Runtime!InstalledStarts(packs)
<1> DEFINE after == Runtime!Installed(packs)
<1>0. /\ \A i \in DOMAIN packs : packs[i] \in PacksOf(C, X, F)
      /\ DOMAIN after = DOMAIN packs
      /\ \A i \in DOMAIN packs : after[i] = Runtime!Pruned(packs[i])
  BY DEF Runtime!Installed
<1>1. ASSUME Runtime!Accepted(packs), NEW i \in DOMAIN packs, Runtime!IsPlugin(packs[i])
      PROVE  /\ Runtime!ValidRuntime(packs[i].runtime)
             /\ Runtime!Available(packs[i])
             /\ ~Runtime!PruneFails(packs[i])
  BY <1>1 DEF Runtime!Accepted, Runtime!IsPlugin
<1>2. ASSUME Runtime!Accepted(packs), NEW i \in DOMAIN packs, Runtime!IsPlugin(packs[i])
      PROVE  LET before == packs[i]
                 c      == Runtime!HostCommand(before.runtime).command
             IN /\ Runtime!HostCommand(after[i].runtime) = Runtime!HostCommand(before.runtime)
                /\ Runtime!Starts(after[i]) \/ Cleaned[c] # HostFile[c]
                /\ \A f \in before.files \ after[i].files :
                      \E e \in Runtime!ToSet(before.runtime.platforms) :
                         e.platform # Here /\ Cleaned[e.command] = f
                /\ before.runtime.platforms # <<>> /\ Cleaned[c] # Unset =>
                      Cleaned[c] \in after[i].runs
  <2> DEFINE c == Runtime!HostCommand(packs[i].runtime).command
  <2>1. /\ c # Unset
        /\ Runtime!HasFile(after[i], Cleaned[c])
        /\ packs[i].runtime.platforms # <<>> /\ Cleaned[c] # Unset =>
              Cleaned[c] \in after[i].runs
    BY <1>0, <1>1, <1>2, ProgramKept
  <2>2. Runtime!HostCommand(after[i].runtime) = Runtime!HostCommand(packs[i].runtime)
    BY <1>0, <1>2, KeptByPruning
  <2>3. Runtime!Starts(after[i]) \/ Cleaned[c] # HostFile[c]
    BY <2>1, <2>2 DEF Runtime!Starts
  <2>4. \A f \in packs[i].files \ after[i].files :
           \E e \in Runtime!ToSet(packs[i].runtime.platforms) :
              e.platform # Here /\ Cleaned[e.command] = f
    BY <1>0, <1>1, <1>2, OthersGo
  <2> QED BY <2>1, <2>2, <2>3, <2>4
<1>3. ASSUME NEW i \in DOMAIN packs
      PROVE  /\ after[i].id = packs[i].id
             /\ after[i].type = packs[i].type
             /\ after[i].kind = packs[i].kind
             /\ Runtime!Pruned(after[i]) = after[i]
  BY <1>0, KeptByPruning
<1>4. ASSUME Runtime!Accepted(packs), NEW i \in DOMAIN packs
      PROVE  /\ after[i].type \in {"theme", "plugin"}
             /\ after[i].kind = "grpc" => /\ after[i].type = "plugin"
                                          /\ Runtime!ValidRuntime(after[i].runtime)
             /\ Runtime!Available(after[i])
             /\ ~Runtime!PruneFails(after[i])
  <2>1. CASE Runtime!IsPlugin(packs[i])
    <3>1. /\ Runtime!ValidRuntime(after[i].runtime)
          /\ Runtime!Available(after[i])
          /\ ~Runtime!PruneFails(after[i])
      BY <1>0, <1>1, <1>4, <2>1, AcceptedAgain
    <3> QED BY <3>1, <1>3, <2>1 DEF Runtime!IsPlugin
  <2>2. CASE ~Runtime!IsPlugin(packs[i])
    <3>1. after[i] = packs[i]
      BY <1>0, <2>2 DEF Runtime!Pruned
    <3> QED BY <3>1, <1>4 DEF Runtime!Accepted
  <2> QED BY <2>1, <2>2
<1>5. ASSUME Runtime!Accepted(packs) PROVE Runtime!Accepted(after)
  <2>1. after # <<>>
    <3>1. packs # <<>> /\ Len(packs) \in Nat /\ DOMAIN packs = 1..Len(packs)
      BY <1>5 DEF Runtime!Accepted
    <3>2. Len(packs) # 0
      BY <3>1
    <3>3. 1 \in DOMAIN after
      BY <1>0, <3>1, <3>2
    <3> HIDE DEF after
    <3> QED BY <3>3
  <2>2. \A i, j \in DOMAIN after :
           i # j => <<after[i].type, after[i].id>> # <<after[j].type, after[j].id>>
    BY <1>0, <1>3, <1>5 DEF Runtime!Accepted
  <2> HIDE DEF after
  <2> QED BY <2>1, <2>2, <1>0, <1>4, <1>5 DEF Runtime!Accepted
<1>6. Runtime!Installed(after) = after
  BY <1>0, <1>3 DEF Runtime!Installed
<1>7. CASE Runtime!Accepted(packs)
  BY <1>0, <1>2, <1>5, <1>6, <1>7 DEF Runtime!InstalledStarts
<1>8. CASE ~Runtime!Accepted(packs)
  <2> DEFINE Fine(i) == /\ packs[i].type \in {"theme", "plugin"}
                        /\ packs[i].kind = "grpc" => /\ packs[i].type = "plugin"
                                                     /\ Runtime!ValidRuntime(packs[i].runtime)
  <2>1. \/ packs = <<>>
        \/ \E i, j \in DOMAIN packs : i # j /\ packs[i].id = packs[j].id
        \/ \E i \in DOMAIN packs : ~Fine(i)
        \/ \E i \in DOMAIN packs : ~Runtime!Available(packs[i]) \/ Runtime!PruneFails(packs[i])
    BY <1>8 DEF Runtime!Accepted
  <2>2. ASSUME NEW i \in DOMAIN packs, ~Fine(i)
        PROVE  \/ packs[i].type \notin {"theme", "plugin"}
               \/ packs[i].type = "theme" /\ packs[i].kind = "grpc"
               \/ ~Runtime!ValidRuntime(packs[i].runtime)
    BY <2>2
  <2>3. ASSUME NEW i \in DOMAIN packs, ~Runtime!Available(packs[i]) \/ Runtime!PruneFails(packs[i])
        PROVE  LET c == Runtime!HostCommand(packs[i].runtime).command
               IN \/ Runtime!SpelledTwice(packs[i].runtime)
                  \/ c = Unset
                  \/ ~Runtime!HasFile(packs[i], Cleaned[c])
    BY <1>0, <2>3, RefusedWith
  <2> HIDE DEF Fine
  <2> QED BY <1>8, <2>1, <2>2, <2>3 DEF Runtime!InstalledStarts
<1> QED BY <1>7, <1>8

(* A method is in the set made of some services just if one of them has it. *)
LEMMA MethodKnown ==
    ASSUME NEW services, NEW n \in DOMAIN Runtime!MethodSet(services), NEW x
    PROVE  x \in Runtime!MethodSet(services)[n] <=>
              \E i \in DOMAIN services : services[i].name = n /\ x \in services[i].methods
BY DEF Runtime!MethodSet

(* No warning about services: what is wanted of them is there.             *)
LEMMA AllSupported ==
    ASSUME NEW required, NEW supported, Runtime!RequiredWarnings(required, supported) = {},
           NEW i \in DOMAIN required
    PROVE  /\ required[i].name \in DOMAIN Runtime!MethodSet(supported)
           /\ required[i].methods \subseteq Runtime!MethodSet(supported)[required[i].name]
<1> DEFINE known == Runtime!MethodSet(supported)
           Of(s) == IF s.name \notin DOMAIN known THEN {<<"unsupported", s.name>>}
                    ELSE IF s.methods = {} THEN {<<"no methods", s.name>>}
                    ELSE {<<"unsupported", s.name, x>> : x \in s.methods \ known[s.name]}
<1>1. UNION {Of(required[j]) : j \in DOMAIN required} = {}
  BY DEF Runtime!RequiredWarnings
<1>2. Of(required[i]) = {}
  <2> HIDE DEF Of
  <2> QED BY <1>1
<1>3. required[i].name \in DOMAIN known
  BY <1>2
<1>4. required[i].methods # {} =>
         {<<"unsupported", required[i].name, x>> :
             x \in required[i].methods \ known[required[i].name]} = {}
  BY <1>2, <1>3
<1>5. required[i].methods \subseteq known[required[i].name]
  <2> HIDE DEF known
  <2> QED BY <1>4
<1> QED BY <1>3, <1>5

(* No warning about the plugin: every method the host calls is declared.   *)
LEMMA AllDeclared ==
    ASSUME NEW declared, NEW supported, Runtime!PluginWarnings(declared, supported) = {},
           NEW n \in DOMAIN Runtime!MethodSet(supported)
    PROVE  /\ n \in DOMAIN Runtime!MethodSet(declared)
           /\ Runtime!MethodSet(supported)[n] \subseteq Runtime!MethodSet(declared)[n]
<1> DEFINE own    == Runtime!MethodSet(declared)
           wanted == Runtime!MethodSet(supported)
           Of(k)  == IF k \in DOMAIN own
                     THEN {<<"not declared", k, x>> : x \in Runtime!Missing(own, k, wanted[k])}
                     ELSE {<<"not declared", k>>}
<1>1. UNION {Of(k) : k \in DOMAIN wanted} = {}
  BY DEF Runtime!PluginWarnings
<1>2. Of(n) = {}
  <2> HIDE DEF Of
  <2> QED BY <1>1
<1>3. n \in DOMAIN own
  BY <1>2
<1>4. {<<"not declared", n, x>> : x \in wanted[n] \ own[n]} = {}
  BY <1>2, <1>3 DEF Runtime!Missing
<1>5. wanted[n] \subseteq own[n]
  <2> HIDE DEF own, wanted
  <2> QED BY <1>4
<1> QED BY <1>3, <1>5

(* manifestCompatibilityWarnings says nothing only if the services that    *)
(* plugin and host want of each other are there, and the version will do.  *)
LEMMA QuietPacksFit ==
    ASSUME NEW manifest, NEW offered
    PROVE  Runtime!QuietIsCompatible(manifest, offered)
<1> DEFINE Has(services, n, x) == \E i \in DOMAIN services :
                                     services[i].name = n /\ x \in services[i].methods
<1> SUFFICES ASSUME Runtime!Warnings(manifest, offered) = {}
             PROVE  /\ \A i \in DOMAIN manifest.needs : \A x \in manifest.needs[i].methods :
                          Has(offered.services, manifest.needs[i].name, x)
                    /\ \A i \in DOMAIN offered.plugin : \A x \in offered.plugin[i].methods :
                          Has(manifest.services, offered.plugin[i].name, x)
                    /\ manifest.declares
                    /\ manifest.version # Unset => ~Runtime!Older(offered.version, manifest.version)
  BY DEF Runtime!QuietIsCompatible
<1>1. /\ manifest.declares
      /\ Runtime!VersionWarnings(manifest.version, offered.version) = {}
      /\ Runtime!RequiredWarnings(manifest.needs, offered.services) = {}
      /\ Runtime!PluginWarnings(manifest.services, offered.plugin) = {}
  BY DEF Runtime!Warnings
<1>2. manifest.version # Unset => ~Runtime!Older(offered.version, manifest.version)
  BY <1>1 DEF Runtime!VersionWarnings
<1>3. ASSUME NEW i \in DOMAIN manifest.needs, NEW x \in manifest.needs[i].methods
      PROVE  Has(offered.services, manifest.needs[i].name, x)
  <2>1. /\ manifest.needs[i].name \in DOMAIN Runtime!MethodSet(offered.services)
        /\ x \in Runtime!MethodSet(offered.services)[manifest.needs[i].name]
    BY <1>1, <1>3, AllSupported
  <2> QED BY <2>1, MethodKnown
<1>4. ASSUME NEW i \in DOMAIN offered.plugin, NEW x \in offered.plugin[i].methods
      PROVE  Has(manifest.services, offered.plugin[i].name, x)
  <2>1. /\ offered.plugin[i].name \in DOMAIN Runtime!MethodSet(offered.plugin)
        /\ x \in Runtime!MethodSet(offered.plugin)[offered.plugin[i].name]
    BY DEF Runtime!MethodSet
  <2>2. /\ offered.plugin[i].name \in DOMAIN Runtime!MethodSet(manifest.services)
        /\ x \in Runtime!MethodSet(manifest.services)[offered.plugin[i].name]
    BY <1>1, <2>1, AllDeclared
  <2> QED BY <2>2, MethodKnown
<1> QED BY <1>1, <1>2, <1>3, <1>4

(* PacksWork, for inputs of any size: packs with any files, platforms and  *)
(* spellings of commands, and any manifest and host.                       *)
THEOREM PacksAlwaysWork ==
    ASSUME NEW C, NEW X, NEW F, NEW W,
           input \in ({"plugin"} \X Seq(PacksOf(C, X, F))) \cup ({"manifest"} \X W)
    PROVE  PacksWork
<1>1. ASSUME input[1] = "plugin" PROVE Runtime!InstalledStarts(input[2])
  <2>1. input[2] \in Seq(PacksOf(C, X, F))
    BY <1>1
  <2> QED BY <2>1, InstalledPacksStart
<1>2. Runtime!QuietIsCompatible(input[2].m, input[2].host)
  BY QuietPacksFit
<1> QED BY <1>1, <1>2 DEF PacksWork
=============================================================================
