--------------------------- MODULE StandaloneBuild ----------------------------
(***************************************************************************)
(* What the command line leaves on disk: the export of `blitsen build`,    *)
(* the cache a runtime for another target is fetched into, and the macOS   *)
(* bundle a development run re-executes into.                              *)
(*                                                                         *)
(* One command runs at a time.  Every step may fail, which ends the        *)
(* command through its error path, and the process may be killed between   *)
(* any two writes; the next command starts from the files as they are.     *)
(*                                                                         *)
(* External: the user's build command, npm, Bun's linker and the signing   *)
(* command succeed or fail.                                                *)
(***************************************************************************)
EXTENDS Naturals, FiniteSets

CONSTANTS MaxCommands,  \* bound: commands the user runs
          MaxCrashes,   \* bound: commands killed half way
          MaxUserFiles  \* bound: outputs the user's files are in the way of

Outputs == {"executable", "assets", "sidecar", "bundle", "entry"}

VARIABLES
    commands,                 \* commands started so far
    want,                     \* what the running command was asked for
    stage,                    \* the step it is at, "idle" between commands
    disk,                     \* whose an output is: "none", "user", "earlier" or "own"
    staging,                  \* the staging directory holds files
    cacheAddon, cacheNotices, \* the fetched runtime of the other target
    interpreter,              \* generation of the interpreter a development run copies
    stamp,                    \* generation the bundle's stamp names, 0 for no stamp
    devBundle,                \* the development bundle: copied generation, signed
    crashes

diskVars == <<disk, staging>>
cacheVars == <<cacheAddon, cacheNotices>>
devVars == <<stamp, devBundle>>
buildVars == <<commands, want, stage, diskVars, cacheVars, interpreter, devVars, crashes>>

Wants == [kind : {"build"}, force : BOOLEAN, sideLoaded : BOOLEAN,
          sidecar : {"no", "copied", "inPlace"}, artifact : {"no", "bundle", "entry"},
          foreign : BOOLEAN]
Nothing == [kind |-> "nothing"]

BuildInit ==
    /\ commands = 0 /\ want = Nothing /\ stage = "idle" /\ crashes = 0
    /\ disk = [p \in Outputs |-> "none"] /\ staging = FALSE
    /\ cacheAddon = FALSE /\ cacheNotices = FALSE
    /\ interpreter = 1 /\ stamp = 0 /\ devBundle = [copied |-> 0, signed |-> FALSE]

(***************************************************************************)
(* The user                                                                *)
(***************************************************************************)
\* Between commands the user moves own files in or out of the output directory.
UserEdits(p) ==
    /\ stage = "idle" /\ commands < MaxCommands
    /\ disk[p] = "none" => Cardinality({o \in Outputs : disk[o] = "user"}) < MaxUserFiles
    /\ disk' = [disk EXCEPT ![p] = IF @ = "none" THEN "user" ELSE "none"]
    /\ UNCHANGED <<commands, want, stage, staging, cacheVars, interpreter, devVars, crashes>>

\* main() and parseArgs(): a sidecar that is in place is a file of the user's there.
Run(w) ==
    /\ stage = "idle" /\ commands < MaxCommands
    /\ w.kind = "build" => (w.sidecar = "inPlace" => disk["sidecar"] = "user")
    /\ commands' = commands + 1 /\ want' = w
    /\ stage' = IF w.kind = "build" THEN "runtime" ELSE "stamp"
    /\ disk' = [p \in Outputs |-> IF disk[p] = "own" THEN "earlier" ELSE disk[p]]
    /\ UNCHANGED <<staging, cacheVars, interpreter, devVars, crashes>>

Upgrade ==
    /\ stage = "idle" /\ interpreter <= commands /\ commands < MaxCommands
    /\ interpreter' = interpreter + 1
    /\ UNCHANGED <<commands, want, stage, diskVars, cacheVars, devVars, crashes>>

At(s) == stage = s
To(s) == /\ stage' = s /\ want' = (IF s = "idle" THEN Nothing ELSE want)
         /\ UNCHANGED <<commands, interpreter, crashes>>

Passes(from, next) ==
    /\ At(from) /\ To(next) /\ UNCHANGED <<diskVars, cacheVars, devVars>>

\* Any step may throw.  What was staged goes in the finally of buildStandalone.
Throw ==
    /\ stage \notin {"idle", "clear"}
    /\ To(IF stage \in {"collect", "link", "sideLoad", "ship", "package", "sign"}
          THEN "clear" ELSE "idle")
    /\ UNCHANGED <<diskVars, cacheVars, devVars>>

KilledHalfWay ==
    /\ stage # "idle" /\ crashes < MaxCrashes /\ crashes' = crashes + 1
    /\ stage' = "idle" /\ want' = Nothing
    /\ UNCHANGED <<commands, diskVars, cacheVars, interpreter, devVars>>

(***************************************************************************)
(* The runtime a build links                                               *)
(***************************************************************************)
\* resolveBinary: an environment override, the installed package and the checkout are
\* files of the machine; only a build for another target goes on to the cache.
ResolveLocally == Passes("runtime", "configure")

ResolveCached == cacheAddon /\ Passes("runtime", "configure") /\ want.foreign

\* npm pack, into a scratch directory of its own.
DownloadRuntimePackage ==
    /\ At("runtime") /\ want.foreign /\ ~cacheAddon /\ To("downloaded")
    /\ UNCHANGED <<diskVars, cacheVars, devVars>>

FetchAddon ==
    /\ At("downloaded") /\ cacheAddon' = TRUE /\ To("fetched")
    /\ UNCHANGED <<diskVars, cacheNotices, devVars>>

FetchNotices ==
    /\ At("fetched") /\ cacheNotices' = TRUE /\ To("configure")
    /\ UNCHANGED <<diskVars, cacheAddon, devVars>>

(***************************************************************************)
(* Before anything is written                                              *)
(***************************************************************************)
\* applyConfiguration, the user's build command, resolveApplication, and the errors
\* doctorApplication finds that are not accepted: each goes on or throws.
Configure == Passes("configure", "command")
RunBuildCommand == Passes("command", "resolve")
ResolveApplication == Passes("resolve", "doctor")
DoctorApplication == Passes("doctor", "prepare")

Free(paths) == want.force \/ \A p \in paths : disk[p] = "none"

\* prepareStandaloneBuild: the executable and the side-loaded assets.
PrepareExecutableOnly == Passes("prepare", "sidecars") /\ Free({"executable"})

Prepare ==
    /\ Passes("prepare", "sidecars")
    /\ Free({"executable"} \union (IF want.sideLoaded THEN {"assets"} ELSE {}))

\* planSidecars: one that is in place already is not in its own way.
PlanSidecars ==
    /\ Passes("sidecars", "plan")
    /\ want.sidecar = "copied" => Free({"sidecar"})

\* planIngest, from the entrypoint, and planApplication for what is carried besides.
PlanIngest == Passes("plan", "ingest")

\* What a build that was killed left in staging goes first.
BuildStandalone ==
    /\ At("ingest") /\ staging' = FALSE /\ To("collect")
    /\ UNCHANGED <<disk, cacheVars, devVars>>

(***************************************************************************)
(* The export                                                              *)
(***************************************************************************)
WriteOutputs(paths) == disk' = [p \in Outputs |-> IF p \in paths THEN "own" ELSE disk[p]]

StageApplication ==
    /\ At("collect") /\ staging' = TRUE /\ To("link")
    /\ UNCHANGED <<disk, cacheVars, devVars>>

LinkBun ==
    /\ At("link") /\ WriteOutputs({"executable"}) /\ To("sideLoad")
    /\ UNCHANGED <<staging, cacheVars, devVars>>

\* The directory is emptied first, so a death in between leaves the new one half full.
WriteSideLoadedAssets ==
    /\ At("sideLoad") /\ To("ship")
    /\ WriteOutputs(IF want.sideLoaded THEN {"assets"} ELSE {})
    /\ UNCHANGED <<staging, cacheVars, devVars>>

ShipSidecars ==
    /\ At("ship") /\ To("package")
    /\ WriteOutputs(IF want.sidecar = "copied" THEN {"sidecar"} ELSE {})
    /\ UNCHANGED <<staging, cacheVars, devVars>>

\* packagePlan: a bundle on macOS, files beside the executable elsewhere.
Artifacts == {want.artifact} \ {"no"}
Moved == IF Artifacts = {"bundle"}
         THEN {"executable"} \union (IF want.sideLoaded THEN {"assets"} ELSE {})
                \union (IF want.sidecar = "no" THEN {} ELSE {"sidecar"})
         ELSE {}

\* packageBuild: everything the export consists of moves into a macOS bundle.
PackageBuild ==
    /\ At("package") /\ Free(Artifacts) /\ To("sign")
    /\ disk' = [p \in Outputs |-> IF p \in Artifacts THEN "own"
                                  ELSE IF p \in Moved THEN "none" ELSE disk[p]]
    /\ UNCHANGED <<staging, cacheVars, devVars>>

SignArtifact == Passes("sign", "clear")

\* The finally of buildStandalone, on the way out of a build that succeeded or threw.
ClearStaging ==
    /\ At("clear") /\ staging' = FALSE /\ To("idle")
    /\ UNCHANGED <<disk, cacheVars, devVars>>

(***************************************************************************)
(* runInsideDevelopmentBundle and developmentBundle                        *)
(***************************************************************************)
ReuseBundle == stamp = interpreter /\ Passes("stamp", "idle")

KeepStamp ==
    /\ At("stamp") /\ stamp # interpreter /\ To("copy")
    /\ UNCHANGED <<diskVars, cacheVars, devVars>>

DropStamp ==
    /\ At("stamp") /\ stamp # interpreter /\ stamp' = 0 /\ To("copy")
    /\ UNCHANGED <<diskVars, cacheVars, devBundle>>

CopyInterpreter ==
    /\ At("copy") /\ devBundle' = [copied |-> interpreter, signed |-> FALSE] /\ To("identify")
    /\ UNCHANGED <<diskVars, cacheVars, stamp>>

SignBundle ==
    /\ At("identify") /\ devBundle' = [devBundle EXCEPT !.signed = TRUE] /\ To("stampIt")
    /\ UNCHANGED <<diskVars, cacheVars, stamp>>

WriteStamp ==
    /\ At("stampIt") /\ stamp' = interpreter /\ To("idle")
    /\ UNCHANGED <<diskVars, cacheVars, devBundle>>

Builds ==
    \/ ResolveLocally \/ ResolveCached \/ DownloadRuntimePackage \/ FetchAddon \/ FetchNotices
    \/ Configure \/ RunBuildCommand \/ ResolveApplication \/ DoctorApplication
    \/ Prepare \/ PlanSidecars \/ PlanIngest \/ BuildStandalone
    \/ StageApplication \/ LinkBun \/ WriteSideLoadedAssets \/ ShipSidecars
    \/ PackageBuild \/ SignArtifact \/ ClearStaging

BuildNext ==
    \/ \E p \in Outputs : UserEdits(p)
    \/ \E w \in Wants \union {[kind |-> "develop"]} : Run(w)
    \/ Upgrade \/ Throw \/ KilledHalfWay \/ Builds
    \/ ReuseBundle \/ DropStamp \/ CopyInterpreter \/ SignBundle \/ WriteStamp

BuildSpec == BuildInit /\ [][BuildNext]_buildVars

(***************************************************************************)
(* Correctness                                                             *)
(***************************************************************************)
\* Without --force a build takes nothing that was there before it: it stops rather
\* than replace an existing output, however far it gets (docs/PACKAGING.md:23), and
\* a sidecar the user built in place is the only file of the user's it handles.
OnlyForceReplaces ==
    [][(stage \in {"link", "sideLoad", "ship", "package"} /\ ~want.force =>
            \A p \in Outputs : disk'[p] # disk[p] =>
                disk[p] \in {"none", "own"} \/ (p = "sidecar" /\ want.sidecar = "inPlace"))]_buildVars

\* A stamp vouches for a bundle that was copied from the interpreter it names and
\* signed, so a run that was killed, or whose signing failed, is never reused.
StampedIsSigned == stamp # 0 => devBundle = [copied |-> stamp, signed |-> TRUE]

\* Both: no build loses a file that is not its own, or ships one half made.
BuildsAreSafe == []StampedIsSigned /\ OnlyForceReplaces

\* The notices travel with the fetched binary (runtime.mjs:234): whenever the cache
\* answers, an export finds them beside the runtime it links.
NoticesTravel == stage = "idle" /\ cacheAddon => cacheNotices

\* A sidecar built in place stays where its author built it.
OwnSidecarStays ==
    [][(stage # "idle" /\ disk["sidecar"] = "user" => want.force \/ disk'["sidecar"] = "user")]_buildVars
=============================================================================
