---------------------------- MODULE PackRuntime ----------------------------
(***************************************************************************)
(* The programs of the plugins of a bundle: what an installation accepts,  *)
(* what it keeps for this platform and what it warns of                    *)
(* (internal/appearance/appearance.go), and what the plugin host starts    *)
(* afterwards (internal/pluginhost/host.go).                               *)
(*                                                                         *)
(* A pack is a record [id, type, kind, runtime, files, runs]: the files of *)
(* its directory, and those that are executable. A runtime is a record     *)
(* [command, args, dir, env, platforms]; an entry of platforms has the     *)
(* same fields and the platform it is for, with Unset where the manifest   *)
(* leaves one out. How a command is spelled matters: see Cleaned.          *)
(*                                                                         *)
(* RemovesAll, TakesLast and OneMethod are not the code: they are mutants  *)
(* that the properties must catch.                                         *)
(***************************************************************************)
EXTENDS Integers, Sequences, SequencesExt

CONSTANTS
    Here,      \* the platform of the program
    Cleaned,   \* by command: the file cleanPackPath makes of it, or Unset
               \* when it is no path in the pack (a name like node)
    HostFile,  \* by command: the file the host finds there, or Unset
    Unset      \* left out

-----------------------------------------------------------------------------
(* The platforms.                                                          *)

(* validatePluginRuntime.                                                  *)
ValidRuntime(r) ==
    /\ r.command # Unset \/ r.platforms # <<>>
    /\ \A i \in DOMAIN r.platforms : r.platforms[i].command # Unset
    /\ \A i, j \in DOMAIN r.platforms :
          i # j => r.platforms[i].platform # r.platforms[j].platform

Over(a, b) == IF b = Unset THEN a ELSE b
Env(a, b)  == [v \in DOMAIN a \cup DOMAIN b |-> IF v \in DOMAIN b THEN b[v] ELSE a[v]]

(* pluginRuntimeForCurrentPlatform, and Host.command, which decides the    *)
(* same once more. Mutant: what the entry leaves out stays out.            *)
TakesLast(r, entry) == [r EXCEPT !.command = entry.command, !.args = entry.args,
                                 !.dir = entry.dir, !.env = entry.env, !.platforms = <<>>]
Specialised(r, entry) ==
    [r EXCEPT !.command = entry.command, !.args = Over(@, entry.args),
              !.dir = Over(@, entry.dir), !.env = Env(@, entry.env), !.platforms = <<>>]

Entry(r) == SelectInSeq(r.platforms, LAMBDA e : e.platform = Here)
Selected(r) == IF Entry(r) # 0 THEN Specialised(r, r.platforms[Entry(r)])
               ELSE [r EXCEPT !.platforms = <<>>]

HostCommand(r) ==
    LET e == Entry(r)
    IN IF e = 0 THEN [r EXCEPT !.platforms = <<>>]
       ELSE [command |-> r.platforms[e].command, args |-> Over(r.args, r.platforms[e].args),
             dir |-> Over(r.dir, r.platforms[e].dir),
             env |-> Env(r.env, r.platforms[e].env), platforms |-> <<>>]

(* validatePackRuntimeForCurrentPlatform.                                  *)
IsPlugin(pack) == pack.type = "plugin" /\ pack.kind = "grpc"

HasFile(pack, file) == file = Unset \/ file \in pack.files

Available(pack) ==
    IsPlugin(pack) => LET command == Selected(pack.runtime).command
                      IN command # Unset /\ HasFile(pack, Cleaned[command])

-----------------------------------------------------------------------------
(* The installation.                                                       *)

(* prunePluginRuntimeForCurrentPlatform: the programs of other platforms   *)
(* go, the manifest keeps one runtime, and its program becomes executable. *)
(* Mutant: every program that an entry names goes.                         *)
RemovesAll(r, chosen) == {Cleaned[r.platforms[i].command] : i \in DOMAIN r.platforms}
Unused(r, chosen) ==
    {Cleaned[r.platforms[i].command] :
        i \in {j \in DOMAIN r.platforms : r.platforms[j].command # chosen.command}}

Pruned(pack) ==
    IF ~IsPlugin(pack) \/ pack.runtime.platforms = <<>> THEN pack
    ELSE LET chosen == Selected(pack.runtime)
             left   == pack.files \ Unused(pack.runtime, chosen)
         IN [pack EXCEPT !.runtime = chosen, !.files = left,
                         !.runs = (@ \cap left) \cup ({Cleaned[chosen.command]} \cap left)]

(* ensureRuntimeCommandExecutable fails when its file is not there.        *)
PruneFails(pack) ==
    /\ IsPlugin(pack) /\ pack.runtime.platforms # <<>>
    /\ ~HasFile(Pruned(pack), Cleaned[Selected(pack.runtime).command])

(* validateBundleInstall, then pruneBundleRuntimesForCurrentPlatform.      *)
Accepted(packs) ==
    /\ packs # <<>>
    /\ \A i \in DOMAIN packs : /\ packs[i].type \in {"theme", "plugin"}
                               /\ packs[i].kind = "grpc" => /\ packs[i].type = "plugin"
                                                            /\ ValidRuntime(packs[i].runtime)
                               /\ Available(packs[i])
                               /\ ~PruneFails(packs[i])
    /\ \A i, j \in DOMAIN packs :
          i # j => <<packs[i].type, packs[i].id>> # <<packs[j].type, packs[j].id>>

Installed(packs) == [i \in DOMAIN packs |-> Pruned(packs[i])]

(* ensureExecutable, when the host starts the plugin: the mode is repaired *)
(* and a file that is missing is an error.                                 *)
Starts(pack) ==
    LET command == HostCommand(pack.runtime).command
    IN command # Unset /\ HasFile(pack, HostFile[command])

-----------------------------------------------------------------------------
(* The warnings. Services are sequences of records [name, methods].        *)

(* serviceMethodSet: methods by name, those of one name together.          *)
MethodSet(services) ==
    [n \in {services[i].name : i \in DOMAIN services} |->
        UNION {services[i].methods : i \in {j \in DOMAIN services : services[j].name = n}}]

(* requiredServiceWarnings.                                                *)
RequiredWarnings(required, supported) ==
    LET known == MethodSet(supported)
        Of(s) == IF s.name \notin DOMAIN known THEN {<<"unsupported", s.name>>}
                 ELSE IF s.methods = {} THEN {<<"no methods", s.name>>}
                 ELSE {<<"unsupported", s.name, m>> : m \in s.methods \ known[s.name]}
    IN UNION {Of(required[i]) : i \in DOMAIN required}

(* pluginServiceWarnings. Mutant: one method of a service is enough.       *)
OneMethod(own, n, methods) == IF own[n] \cap methods # {} THEN {} ELSE methods
Missing(own, n, methods)   == methods \ own[n]

PluginWarnings(declared, supported) ==
    LET own    == MethodSet(declared)
        wanted == MethodSet(supported)
    IN IF declared = <<>> THEN {<<"nothing declared">>}
       ELSE RequiredWarnings(declared, supported)
            \cup UNION {IF n \in DOMAIN own
                        THEN {<<"not declared", n, m>> : m \in Missing(own, n, wanted[n])}
                        ELSE {<<"not declared", n>>} : n \in DOMAIN wanted}

(* compareReleaseVersions and postizerVersionWarnings: a version that is   *)
(* not a triple of numbers (dev) is Unset.                                 *)
Older(a, b) ==
    \E i \in 1..3 : a[i] < b[i] /\ \A j \in 1..i - 1 : a[j] = b[j]
VersionWarnings(required, current) ==
    IF required = Unset THEN {}
    ELSE IF current = Unset THEN {<<"version unknown">>}
    ELSE IF Older(current, required) THEN {<<"too old">>} ELSE {}

(* manifestCompatibilityWarnings, of a plugin with a program.              *)
Warnings(m, host) ==
    (IF m.declares
     THEN VersionWarnings(m.version, host.version) \cup RequiredWarnings(m.needs, host.services)
     ELSE {<<"no requires">>})
    \cup PluginWarnings(m.services, host.plugin)

-----------------------------------------------------------------------------
(* The properties.                                                         *)

(* One file, spelled in two ways: the program of this platform would be    *)
(* deleted as that of another one.                                         *)
SpelledTwice(r) ==
    \E i \in DOMAIN r.platforms : LET c == r.platforms[i].command
                                  IN /\ c # Selected(r).command
                                     /\ Cleaned[c] = Cleaned[Selected(r).command]
                                     /\ Cleaned[c] # Unset

(* A plugin whose installation is accepted can be started, with what its   *)
(* author declared for this platform; unless its command has a backslash,  *)
(* which the installation reads as a slash and the host does not. The      *)
(* installation deletes no program but those of other platforms, and would *)
(* be accepted, and change nothing, a second time. It is refused only when *)
(* a declared program is missing or a manifest contradicts itself.         *)
InstalledStarts(packs) ==
    IF Accepted(packs)
    THEN /\ \A i \in DOMAIN packs : IsPlugin(packs[i]) =>
              LET before == packs[i]
                  after  == Installed(packs)[i]
                  c      == HostCommand(before.runtime).command
              IN /\ HostCommand(after.runtime) = HostCommand(before.runtime)
                 /\ Starts(after) \/ Cleaned[c] # HostFile[c]
                 /\ \A f \in before.files \ after.files :
                       \E e \in ToSet(before.runtime.platforms) :
                          e.platform # Here /\ Cleaned[e.command] = f
                 /\ before.runtime.platforms # <<>> /\ Cleaned[c] # Unset =>
                       Cleaned[c] \in after.runs
         /\ Accepted(Installed(packs))
         /\ Installed(Installed(packs)) = Installed(packs)
    ELSE \/ packs = <<>>
         \/ \E i, j \in DOMAIN packs : i # j /\ packs[i].id = packs[j].id
         \/ \E i \in DOMAIN packs :
               \/ packs[i].type \notin {"theme", "plugin"}
               \/ packs[i].type = "theme" /\ packs[i].kind = "grpc"
               \/ ~ValidRuntime(packs[i].runtime)
               \/ SpelledTwice(packs[i].runtime)
               \/ LET c == HostCommand(packs[i].runtime).command
                  IN c = Unset \/ ~HasFile(packs[i], Cleaned[c])

(* No warning means no surprise: every method the plugin calls is there,   *)
(* every method the host calls is declared, and the program is not older   *)
(* than the plugin wants.                                                  *)
QuietIsCompatible(m, host) ==
    Warnings(m, host) = {} =>
        LET Has(services, n, x) == \E i \in DOMAIN services :
                                      services[i].name = n /\ x \in services[i].methods
        IN /\ \A i \in DOMAIN m.needs : \A x \in m.needs[i].methods :
                 Has(host.services, m.needs[i].name, x)
           /\ \A i \in DOMAIN host.plugin : \A x \in host.plugin[i].methods :
                 Has(m.services, host.plugin[i].name, x)
           /\ m.declares /\ (m.version # Unset => ~Older(host.version, m.version))
=============================================================================
