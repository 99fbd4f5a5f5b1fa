--------------------------- MODULE ProcessesProofs --------------------------
(***************************************************************************)
(* What holds of builds of standalone applications, of the tests that      *)
(* drive an application, of the store its processes share and of the       *)
(* canvas, for every set of builds, files, commands, processes and sizes.  *)
(***************************************************************************)
EXTENDS StandaloneBuild, ApplicationTest, WebStorage, CanvasDrawing,
        FiniteSetTheorems, SequenceTheorems, FoldTheorems, TLAPS

-----------------------------------------------------------------------------
(* StandaloneBuild: a build replaces nothing it should not                 *)

\* The stages of a build once its outputs were looked at, and all its stages.
Prepared == {"sidecars", "plan", "ingest", "collect", "link", "sideLoad", "ship", "package"}
BuildStages == Prepared \cup {"runtime", "downloaded", "fetched", "configure", "command",
                              "resolve", "doctor", "prepare", "sign", "clear"}

\* Types, of what the proof needs.
BuildTyped ==
  /\ disk \in [Outputs -> {"none", "user", "earlier", "own"}]
  /\ stage \in BuildStages \cup {"idle", "stamp", "copy", "identify", "stampIt"}
  /\ interpreter \in Nat /\ commands \in Nat
  /\ stage \in BuildStages => want \in Wants

\* What a development run has done so far of the bundle it makes anew.
BundleAsFar ==
  /\ stage \in {"copy", "identify", "stampIt"} => stamp = 0
  /\ stage = "identify" => devBundle = [copied |-> interpreter, signed |-> FALSE]
  /\ stage = "stampIt" => devBundle = [copied |-> interpreter, signed |-> TRUE]

\* Without --force, what the build will write held nothing when it was looked at.
Mine(p) == want.force \/ disk[p] \in {"none", "own"}

\* The executable and the assets are looked at first, the sidecar after them.
LookedAt ==
  /\ stage \in Prepared => Mine("executable") /\ (want.sideLoaded => Mine("assets"))
  /\ stage \in Prepared \ {"sidecars"} /\ want.sidecar = "copied" => Mine("sidecar")

\* The inductive invariant of StandaloneBuild.
BuildInv == BuildTyped /\ BundleAsFar /\ LookedAt /\ StampedIsSigned

\* Before any command, the invariant holds.
LEMMA BuildInitially == BuildInit => BuildInv
  BY DEF BuildInit, BuildInv, BuildTyped, BundleAsFar, LookedAt, StampedIsSigned, Prepared,
     BuildStages

\* A step that only goes on to the next stage, of a build or of a development run.
LEMMA PassKeeps ==
  ASSUME BuildInv, NEW from, NEW next, Passes(from, next),
         \/ next = "idle"
         \/ /\ from \in BuildStages \ Prepared /\ next \in BuildStages \ Prepared
         \/ /\ from \in Prepared \ {"sidecars"} /\ next \in BuildStages \ {"sidecars"}
  PROVE  BuildInv'
  BY DEF Passes, At, To, BuildInv, BuildTyped, BundleAsFar, LookedAt, Mine, StampedIsSigned,
     Prepared, BuildStages, diskVars, cacheVars, devVars

\* A step of the export, which writes nothing but outputs of its own.
LEMMA ExportKeeps ==
  ASSUME BuildInv, NEW next \in (Prepared \ {"sidecars"}) \cup {"sign"},
         stage \in Prepared \ {"sidecars"}, To(next), UNCHANGED devVars,
         disk' \in [Outputs -> {"none", "user", "earlier", "own"}],
         \A p \in Outputs : disk'[p] \in {disk[p], "none", "own"}
  PROVE  BuildInv'
<1>1. want' = want /\ stage' = next /\ UNCHANGED <<commands, interpreter>>
  BY DEF To, Prepared
<1>2. {"executable", "assets", "sidecar"} \subseteq Outputs
  BY DEF Outputs
<1>3. QED BY <1>1, <1>2 DEF BuildInv, BuildTyped, BundleAsFar, LookedAt, Mine, StampedIsSigned,
             Prepared, BuildStages, devVars

\* Every step keeps the invariant.
LEMMA BuildKept == BuildInv /\ [BuildNext]_buildVars => BuildInv'
<1> SUFFICES ASSUME BuildInv, [BuildNext]_buildVars PROVE BuildInv'
  OBVIOUS
<1>1. ASSUME NEW p \in Outputs, UserEdits(p) PROVE BuildInv'
  BY <1>1 DEF UserEdits, BuildInv, BuildTyped, BundleAsFar, LookedAt, StampedIsSigned,
     Prepared, BuildStages, devVars
<1>2. ASSUME NEW w \in Wants \union {[kind |-> "develop"]}, Run(w) PROVE BuildInv'
  <2>1. w.kind = "build" => w \in Wants
    BY DEF Wants
  <2>2. disk' \in [Outputs -> {"none", "user", "earlier", "own"}]
    BY <1>2 DEF Run, BuildInv, BuildTyped
  <2>3. /\ stage' \in {"runtime", "stamp"} /\ (stage' = "runtime" => want' \in Wants)
        /\ commands' \in Nat /\ UNCHANGED <<interpreter, stamp, devBundle>>
    BY <1>2, <2>1 DEF Run, BuildInv, BuildTyped, devVars
  <2>4. QED BY <2>2, <2>3 DEF BuildInv, BuildTyped, BundleAsFar, LookedAt, StampedIsSigned,
               Prepared, BuildStages
<1>3. CASE Upgrade
  BY <1>3 DEF Upgrade, BuildInv, BuildTyped, BundleAsFar, LookedAt, StampedIsSigned,
     Prepared, BuildStages, diskVars, devVars
<1>4. CASE Throw \/ KilledHalfWay
  BY <1>4 DEF Throw, KilledHalfWay, To, BuildInv, BuildTyped, BundleAsFar, LookedAt,
     StampedIsSigned, Prepared, BuildStages, diskVars, devVars
<1>5. CASE ResolveLocally \/ ResolveCached \/ Configure \/ RunBuildCommand \/ ResolveApplication
           \/ DoctorApplication \/ PlanIngest \/ SignArtifact \/ ReuseBundle
  BY <1>5, PassKeeps DEF ResolveLocally, ResolveCached, Configure, RunBuildCommand,
     ResolveApplication, DoctorApplication, PlanIngest, SignArtifact, ReuseBundle, Prepared,
     BuildStages
<1>6. CASE Prepare
  BY <1>6 DEF Prepare, Passes, Free, At, To, BuildInv, BuildTyped, BundleAsFar, LookedAt, Mine,
     StampedIsSigned, Prepared, BuildStages, diskVars, devVars
<1>7. CASE PlanSidecars
  BY <1>7 DEF PlanSidecars, Passes, Free, At, To, BuildInv, BuildTyped, BundleAsFar, LookedAt,
     Mine, StampedIsSigned, Prepared, BuildStages, diskVars, devVars
<1>8. CASE DownloadRuntimePackage \/ FetchAddon \/ FetchNotices
  BY <1>8 DEF DownloadRuntimePackage, FetchAddon, FetchNotices, At, To, BuildInv, BuildTyped,
     BundleAsFar, LookedAt, StampedIsSigned, Prepared, BuildStages, diskVars, devVars
<1>9. CASE BuildStandalone \/ StageApplication
  BY <1>9, ExportKeeps DEF BuildStandalone, StageApplication, At, Prepared, BuildInv, BuildTyped
<1>10. CASE LinkBun \/ WriteSideLoadedAssets \/ ShipSidecars
  BY <1>10, ExportKeeps DEF LinkBun, WriteSideLoadedAssets, ShipSidecars, WriteOutputs, BuildInv,
     BuildTyped, At, Prepared
<1>11. CASE PackageBuild
  BY <1>11, ExportKeeps DEF PackageBuild, BuildInv, BuildTyped, At, Prepared
<1>12. CASE ClearStaging
  BY <1>12 DEF ClearStaging, To, BuildInv, BuildTyped, BundleAsFar, LookedAt,
     StampedIsSigned, Prepared, BuildStages, devVars
<1>13. CASE DropStamp \/ CopyInterpreter \/ SignBundle \/ WriteStamp
  <2>1. /\ stage \in {"stamp", "copy", "identify", "stampIt"}
        /\ stage' \in {"copy", "identify", "stampIt", "idle"}
        /\ UNCHANGED <<commands, interpreter, diskVars>>
        /\ want' = IF stage' = "idle" THEN Nothing ELSE want
    BY <1>13 DEF DropStamp, CopyInterpreter, SignBundle, WriteStamp, At, To
  <2>2. UNCHANGED disk /\ stage' \notin Prepared /\ stage' # "sign" /\ stage' \notin BuildStages
    BY <2>1 DEF diskVars, Prepared, BuildStages
  <2>3. BuildTyped' /\ LookedAt'
    BY <1>13, <2>1, <2>2 DEF DropStamp, CopyInterpreter, SignBundle, WriteStamp, At, To, BuildInv,
       BuildTyped, LookedAt, Prepared, BuildStages
  <2>4. BundleAsFar' /\ StampedIsSigned'
    <3>1. CASE DropStamp
      BY <3>1 DEF DropStamp, At, To, BuildInv, BuildTyped, BundleAsFar, StampedIsSigned
    <3>2. CASE CopyInterpreter
      BY <3>2 DEF CopyInterpreter, At, To, BuildInv, BuildTyped, BundleAsFar, StampedIsSigned
    <3>3. CASE SignBundle
      <4>1. /\ devBundle = [copied |-> interpreter, signed |-> FALSE] /\ stamp = 0
            /\ devBundle' = [devBundle EXCEPT !.signed = TRUE]
        BY <3>3 DEF SignBundle, At, BuildInv, BundleAsFar
      <4>2. devBundle' = [copied |-> interpreter, signed |-> TRUE]
        BY <4>1, Zenon
      <4>3. stamp' = 0 /\ stage' = "stampIt" /\ interpreter' = interpreter
        BY <3>3, <4>1 DEF SignBundle, To
      <4>4. QED BY <4>2, <4>3 DEF BundleAsFar, StampedIsSigned
    <3>4. CASE WriteStamp
      BY <3>4 DEF WriteStamp, At, To, BuildInv, BuildTyped, BundleAsFar, StampedIsSigned
    <3>5. QED BY <1>13, <3>1, <3>2, <3>3, <3>4
  <2>5. QED BY <2>3, <2>4 DEF BuildInv
<1>14. CASE UNCHANGED buildVars
  BY <1>14 DEF buildVars, BuildInv, BuildTyped, BundleAsFar, LookedAt, Mine, StampedIsSigned,
     diskVars, devVars
<1>15. QED BY <1>1, <1>2, <1>3, <1>4, <1>5, <1>6, <1>7, <1>8, <1>9, <1>10, <1>11, <1>12, <1>13,
              <1>14 DEF BuildNext, Builds

\* A step of the writing stages replaces what is the build's own, or was nothing.
Replaces ==
  stage \in {"link", "sideLoad", "ship", "package"} /\ ~want.force =>
    \A p \in Outputs : disk'[p] # disk[p] =>
      disk[p] \in {"none", "own"} \/ (p = "sidecar" /\ want.sidecar = "inPlace")

\* No step of a build without --force takes a file of the person.
LEMMA NothingIsTaken == BuildInv /\ [BuildNext]_buildVars => Replaces
<1> SUFFICES ASSUME BuildInv, [BuildNext]_buildVars,
                    stage \in {"link", "sideLoad", "ship", "package"}, ~want.force,
                    NEW p \in Outputs, disk'[p] # disk[p]
             PROVE  disk[p] \in {"none", "own"} \/ (p = "sidecar" /\ want.sidecar = "inPlace")
  BY DEF Replaces
<1>1. want \in Wants
  BY DEF BuildInv, BuildTyped, BuildStages, Prepared
<1>2. LinkBun \/ WriteSideLoadedAssets \/ ShipSidecars \/ PackageBuild
  BY DEF BuildNext, Builds, UserEdits, Run, Upgrade, Throw, KilledHalfWay, ResolveLocally,
     ResolveCached, DownloadRuntimePackage, FetchAddon, FetchNotices, Configure,
     RunBuildCommand, ResolveApplication, DoctorApplication, Prepare, PlanSidecars, PlanIngest,
     BuildStandalone, StageApplication, SignArtifact, ClearStaging, ReuseBundle, DropStamp,
     CopyInterpreter, SignBundle, WriteStamp, Passes, At, buildVars, diskVars
<1>3. CASE LinkBun
  BY <1>3 DEF LinkBun, WriteOutputs, At, BuildInv, BuildTyped, LookedAt, Mine, Prepared
<1>4. CASE WriteSideLoadedAssets
  BY <1>4 DEF WriteSideLoadedAssets, WriteOutputs, At, BuildInv, BuildTyped, LookedAt, Mine,
     Prepared
<1>5. CASE ShipSidecars
  BY <1>5 DEF ShipSidecars, WriteOutputs, At, BuildInv, BuildTyped, LookedAt, Mine, Prepared
<1>6. CASE PackageBuild
  <2>1. p \in Artifacts \/ p \in Moved
    BY <1>6 DEF PackageBuild
  <2>2. p \in Artifacts => disk[p] = "none"
    BY <1>6 DEF PackageBuild, Free
  <2>3. CASE p \in Moved
    BY <2>3, <1>1, <1>6 DEF Moved, Wants, PackageBuild, At, BuildInv, LookedAt, Mine, Prepared
  <2>4. QED BY <2>1, <2>2, <2>3
<1>7. QED BY <1>2, <1>3, <1>4, <1>5, <1>6

\* For every set of outputs and wants: the invariant holds throughout.
THEOREM BuildInvHolds == BuildSpec => []BuildInv
  BY BuildInitially, BuildKept, PTL DEF BuildSpec

\* BuildsAreSafe, an invariant and an action property: a stamp vouches for a signed copy
\* of its interpreter, and a build without --force replaces nothing that is not its own.
THEOREM BuildsHold == BuildSpec => BuildsAreSafe
<1>1. BuildInv => StampedIsSigned
  BY DEF BuildInv
<1>2. BuildInv /\ [BuildNext]_buildVars => [Replaces]_buildVars
  BY NothingIsTaken
<1>3. BuildSpec => []StampedIsSigned
  BY <1>1, BuildInvHolds, PTL
<1>4. BuildSpec => [][Replaces]_buildVars
  BY <1>2, BuildInvHolds, PTL DEF BuildSpec
<1>5. QED BY <1>3, <1>4 DEF BuildsAreSafe, OnlyForceReplaces, Replaces

-----------------------------------------------------------------------------
(* ApplicationTest: a step is what was asked                               *)

\* A request of the test, and a message of the host.
Command == [command : {"step", "settle", "close"},
            is : {"waiting", "resolved", "rejected", "late"}]
Message == [id : Nat, ok : BOOLEAN]

\* Types, of what the proof needs.
TestTyped ==
  /\ requests \in Seq(Command)
  /\ toHost \in Seq(Nat \ {0}) /\ fromHost \in Seq(Message) /\ performed \in Seq(Nat \ {0})
  /\ loop \in Nat /\ loop <= Len(requests)
  /\ \A k \in DOMAIN toHost : toHost[k] <= Len(requests)
  /\ \A n \in DOMAIN performed : performed[n] <= Len(requests)

\* How the start of the application went.
LaunchTyped ==
  launch \in [at : {"starting", "ready", "failed"}, closed : BOOLEAN, exited : BOOLEAN]

\* Each number is smaller than those that follow it.
Increasing(s) == \A n, m \in DOMAIN s : n < m => s[n] < s[m]

\* The loop's request comes after what is done, and the lines after both.
TakenInOrder ==
  /\ Increasing(toHost) /\ Increasing(performed)
  /\ process # "dead" =>
       /\ loop # 0 => \A n \in DOMAIN performed : performed[n] < loop
       /\ \A k \in DOMAIN toHost :
            loop < toHost[k] /\ \A n \in DOMAIN performed : performed[n] < toHost[k]

IsIn(i, s) == \E n \in DOMAIN s : s[n] = i

\* An answer, on its way or told, is of a request that was performed.
AnswersWerePerformed ==
  /\ \A k \in DOMAIN fromHost : fromHost[k].id # 0 => IsIn(fromHost[k].id, performed)
  /\ \A i \in DOMAIN requests : requests[i].is = "resolved" => IsIn(i, performed)

\* A connection that is over has a process that is dead.
EndedIsDead ==
  /\ lateness # OnTime => process = "dead" /\ Len(performed) = lateness
  /\ launch.exited => process = "dead" /\ Waiting = {}

\* The inductive invariant of ApplicationTest.
TestInv == TestTyped /\ LaunchTyped /\ TakenInOrder /\ AnswersWerePerformed /\ EndedIsDead

\* Before the first request, the invariant holds.
LEMMA TestInitially == TestInit => TestInv
  BY DEF TestInit, TestInv, TestTyped, LaunchTyped, TakenInOrder, Increasing,
     AnswersWerePerformed, EndedIsDead, OnTime, Waiting, Command, Message

\* What Append and Tail do to a sequence, position by position.
LEMMA AppendedAt ==
  ASSUME NEW S, NEW s \in Seq(S), NEW e \in S
  PROVE  /\ Append(s, e) \in Seq(S) /\ Len(Append(s, e)) = Len(s) + 1
         /\ DOMAIN Append(s, e) = DOMAIN s \cup {Len(s) + 1}
         /\ \A n \in DOMAIN s : Append(s, e)[n] = s[n] /\ n \in 1..Len(s)
         /\ Append(s, e)[Len(s) + 1] = e
  OBVIOUS

\* What is left of a sequence without its head.
LEMMA TailAt ==
  ASSUME NEW S, NEW s \in Seq(S), s # <<>>
  PROVE  /\ Tail(s) \in Seq(S) /\ Head(s) = s[1] /\ s[1] \in S /\ 1 \in DOMAIN s
         /\ Len(Tail(s)) = Len(s) - 1
         /\ \A n \in DOMAIN Tail(s) : Tail(s)[n] = s[n + 1] /\ n + 1 \in DOMAIN s /\ n \in Nat
                                      /\ 1 < n + 1
  OBVIOUS

\* Requests may only change what stands of their promises.
LEMMA SettledAt ==
  ASSUME TestTyped, NEW ids, NEW is \in {"waiting", "resolved", "rejected", "late"},
         requests' = Settled(ids, is)
  PROVE  /\ requests' \in Seq(Command) /\ Len(requests') = Len(requests)
         /\ DOMAIN requests' = DOMAIN requests
         /\ \A i \in DOMAIN requests :
              requests'[i].is = IF i \in ids THEN is ELSE requests[i].is
<1>1. DOMAIN requests = 1..Len(requests) /\ Len(requests) \in Nat
      /\ \A i \in DOMAIN requests : requests[i] \in Command
  BY DEF TestTyped
<1>2. \A i \in DOMAIN requests : requests'[i] \in Command
                                 /\ requests'[i].is = IF i \in ids THEN is ELSE requests[i].is
  BY <1>1 DEF Settled, Command
<1>3. requests' \in [1..Len(requests) -> Command]
  BY <1>1, <1>2 DEF Settled
<1>4. QED BY <1>1, <1>2, <1>3 DEF Settled

\* One more performed by the loop: it comes after all that were.
LEMMA PerformedInOrder ==
  ASSUME TestTyped, TakenInOrder, process # "dead", loop # 0,
         performed' = Append(performed, loop)
  PROVE  /\ performed' \in Seq(Nat \ {0}) /\ Increasing(performed)'
         /\ \A i \in Nat : IsIn(i, performed) => IsIn(i, performed')
         /\ IsIn(loop, performed')
         /\ \A n \in DOMAIN performed' : performed'[n] <= loop
<1>1. /\ performed' \in Seq(Nat \ {0})
      /\ DOMAIN performed' = DOMAIN performed \cup {Len(performed) + 1}
      /\ \A n \in DOMAIN performed : performed'[n] = performed[n] /\ n \in 1..Len(performed)
      /\ performed'[Len(performed) + 1] = loop
  BY AppendedAt DEF TestTyped
<1>2. /\ \A n \in DOMAIN performed : performed[n] < loop /\ performed[n] \in Nat
      /\ Len(performed) \in Nat /\ loop \in Nat
  BY DEF TakenInOrder, TestTyped
<1>3. Increasing(performed)'
  BY <1>1, <1>2 DEF Increasing, TakenInOrder
<1>4. QED BY <1>1, <1>2, <1>3 DEF IsIn

\* A message names a request by a number.
LEMMA MessageIds == TestTyped => \A k \in DOMAIN fromHost : fromHost[k].id \in Nat
<1>1. ASSUME TestTyped, NEW k \in DOMAIN fromHost PROVE fromHost[k] \in Message
  BY <1>1 DEF TestTyped
<1>2. QED BY <1>1 DEF Message

\* Every step keeps the invariant.
LEMMA TestKept == TestInv /\ [TestNext]_testVars => TestInv'
<1> SUFFICES ASSUME TestInv, [TestNext]_testVars PROVE TestInv'
  OBVIOUS
<1> USE DEF TestInv
<1>1. CASE StartApplicationTest \/ LinesEnd \/ LeaveTest \/ CloseTimesOut
  <2>1. UNCHANGED <<requests, launch, loop, wires, performed, lateness>>
        /\ process # "dead"
    BY <1>1 DEF StartApplicationTest, LinesEnd, LeaveTest, CloseTimesOut
  <2>2. QED BY <2>1 DEF TestTyped, LaunchTyped, TakenInOrder, Increasing, AnswersWerePerformed,
               EndedIsDead, Waiting, IsIn, wires, OnTime
<1>2. CASE Close
  <2>1. UNCHANGED <<requests, process, loop, wires, performed, lateness>>
    BY <1>2 DEF Close
  <2>2. LaunchTyped' /\ launch'.exited = launch.exited
    BY <1>2 DEF Close, LaunchTyped
  <2>3. QED BY <2>1, <2>2 DEF TestTyped, TakenInOrder, Increasing, AnswersWerePerformed,
               EndedIsDead, Waiting, IsIn, wires, OnTime
<1>3. CASE LaunchTimesOut
  <2>1. UNCHANGED <<requests, loop, wires, performed, lateness>> /\ process' = "dead"
    BY <1>3 DEF LaunchTimesOut, Kill
  <2>2. LaunchTyped' /\ launch'.exited = launch.exited
    BY <1>3 DEF LaunchTimesOut, LaunchTyped
  <2>3. QED BY <2>1, <2>2 DEF TestTyped, TakenInOrder, Increasing, AnswersWerePerformed,
               EndedIsDead, Waiting, IsIn, wires, OnTime
<1>4. CASE RespondReady
  <2>1. /\ UNCHANGED <<requests, launch, loop, toHost, performed, lateness>>
        /\ fromHost' = Append(fromHost, [id |-> 0, ok |-> TRUE])
        /\ process # "dead" /\ process' # "dead"
    BY <1>4 DEF RespondReady, Respond
  <2>2. [id |-> 0, ok |-> TRUE] \in Message
    BY DEF Message
  <2>3. /\ fromHost' \in Seq(Message)
        /\ \A k \in DOMAIN fromHost' :
             fromHost'[k].id = 0 \/ (k \in DOMAIN fromHost /\ fromHost'[k] = fromHost[k])
    BY <2>1, <2>2, AppendedAt DEF TestTyped
  <2>4. QED BY <2>1, <2>3 DEF TestTyped, LaunchTyped, TakenInOrder, Increasing,
               AnswersWerePerformed, EndedIsDead, Waiting, IsIn, OnTime
<1>5. CASE TakeLine
  <2>1. /\ process = "serving" /\ loop = 0 /\ toHost # <<>>
        /\ loop' = Head(toHost) /\ toHost' = Tail(toHost)
        /\ UNCHANGED <<requests, launch, process, fromHost, performed, lateness>>
    BY <1>5 DEF TakeLine
  <2>2. /\ toHost' \in Seq(Nat \ {0}) /\ loop' = toHost[1] /\ 1 \in DOMAIN toHost
        /\ loop' \in Nat \ {0}
        /\ \A n \in DOMAIN toHost' : /\ toHost'[n] = toHost[n + 1] /\ n + 1 \in DOMAIN toHost
                                     /\ n \in Nat /\ 1 < n + 1
    BY <2>1, TailAt DEF TestTyped
  <2>3. TestTyped'
    BY <2>1, <2>2 DEF TestTyped
  <2>4. TakenInOrder'
    BY <2>1, <2>2 DEF TakenInOrder, Increasing
  <2>5. QED BY <2>1, <2>3, <2>4 DEF LaunchTyped, AnswersWerePerformed, EndedIsDead, Waiting,
               IsIn, OnTime
<1>6. ASSUME NEW ok \in BOOLEAN, Answer(ok), process' \in {process, "leaving"} PROVE TestInv'
  <2>1. /\ process = "serving" /\ loop # 0 /\ loop' = 0 /\ process' # "dead"
        /\ fromHost' = Append(fromHost, [id |-> loop, ok |-> ok])
        /\ performed' = Append(performed, loop)
        /\ UNCHANGED <<requests, launch, toHost, lateness>>
    BY <1>6 DEF Answer, Respond
  <2>2. [id |-> loop, ok |-> ok] \in Message /\ [id |-> loop, ok |-> ok].id = loop
    BY DEF Message, TestTyped
  <2>3. /\ fromHost' \in Seq(Message)
        /\ \A k \in DOMAIN fromHost' :
             fromHost'[k].id = loop \/ (k \in DOMAIN fromHost /\ fromHost'[k] = fromHost[k])
        /\ \A k \in DOMAIN fromHost : fromHost[k].id \in Nat
    BY <2>1, <2>2, AppendedAt, MessageIds DEF TestTyped
  <2>4. /\ performed' \in Seq(Nat \ {0}) /\ Increasing(performed)'
        /\ \A i \in Nat : IsIn(i, performed) => IsIn(i, performed')
        /\ IsIn(loop, performed')
        /\ \A n \in DOMAIN performed' : performed'[n] <= loop
    BY <2>1, PerformedInOrder
  <2>5. TestTyped'
    BY <2>1, <2>3, <2>4 DEF TestTyped
  <2>6. TakenInOrder'
    <3>1. \A k \in DOMAIN toHost' : 0 < toHost'[k] /\ loop < toHost'[k] /\ toHost'[k] \in Nat
      BY <2>1 DEF TakenInOrder, TestTyped
    <3>2. \A n \in DOMAIN performed' : performed'[n] \in Nat
      BY <2>4
    <3>3. Increasing(toHost)'
      BY <2>1 DEF TakenInOrder, Increasing
    <3>4. QED BY <2>1, <2>4, <3>1, <3>2, <3>3 DEF TakenInOrder, TestTyped
  <2>7. AnswersWerePerformed'
    <3>1. \A i \in DOMAIN requests' : i \in Nat
      BY <2>1 DEF TestTyped
    <3>2. \A k \in DOMAIN fromHost' : fromHost'[k].id # 0 => IsIn(fromHost'[k].id, performed')
      BY <2>3, <2>4 DEF AnswersWerePerformed
    <3>3. \A i \in DOMAIN requests' : requests'[i].is = "resolved" => IsIn(i, performed')
      BY <2>1, <2>4, <3>1 DEF AnswersWerePerformed
    <3>4. QED BY <3>2, <3>3 DEF AnswersWerePerformed, IsIn
  <2>8. QED BY <2>1, <2>5, <2>6, <2>7 DEF LaunchTyped, EndedIsDead, Waiting, OnTime
<1>7. CASE ApplicationTestCommand \/ SettleAll \/ CloseCommand
  BY <1>6, <1>7 DEF ApplicationTestCommand, SettleAll, CloseCommand
<1>8. CASE Die
  <2>1. /\ process # "dead" /\ process' = "dead"
        /\ performed' = performed \/ (loop # 0 /\ performed' = Append(performed, loop))
        /\ UNCHANGED <<requests, launch, loop, wires, lateness>>
    BY <1>8 DEF Die
  <2>2. /\ performed' \in Seq(Nat \ {0}) /\ Increasing(performed)'
        /\ \A i \in Nat : IsIn(i, performed) => IsIn(i, performed')
        /\ \A n \in DOMAIN performed' : performed'[n] <= Len(requests)
    BY <2>1, PerformedInOrder DEF TestTyped, TakenInOrder, Increasing
  <2>3. /\ \A i \in DOMAIN requests : i \in Nat
        /\ \A k \in DOMAIN fromHost : fromHost[k].id \in Nat
    BY MessageIds DEF TestTyped
  <2>4. TestTyped' /\ LaunchTyped' /\ EndedIsDead'
    BY <2>1, <2>2 DEF TestTyped, LaunchTyped, EndedIsDead, Waiting, OnTime, wires
  <2>5. TakenInOrder'
    BY <2>1, <2>2 DEF TakenInOrder, Increasing, wires
  <2>6. /\ \A k \in DOMAIN fromHost' : fromHost'[k].id # 0 => IsIn(fromHost'[k].id, performed')
        /\ \A i \in DOMAIN requests' : requests'[i].is = "resolved" => IsIn(i, performed')
    BY <2>1, <2>2, <2>3 DEF AnswersWerePerformed, wires
  <2>7. QED BY <2>4, <2>5, <2>6 DEF AnswersWerePerformed, IsIn
<1>9. CASE ReadLine
  <2> DEFINE msg == Head(fromHost)
  <2>1. /\ fromHost # <<>> /\ ~launch.exited /\ fromHost' = Tail(fromHost)
        /\ UNCHANGED <<process, loop, toHost, performed, lateness>>
    BY <1>9 DEF ReadLine
  <2>2. /\ fromHost' \in Seq(Message) /\ msg \in Message /\ msg = fromHost[1]
        /\ 1 \in DOMAIN fromHost
        /\ \A n \in DOMAIN fromHost' : fromHost'[n] = fromHost[n + 1] /\ n + 1 \in DOMAIN fromHost
    BY <2>1, TailAt DEF TestTyped
  <2>3. msg.id \in Nat /\ (msg.id # 0 => IsIn(msg.id, performed))
    BY <2>2 DEF Message, AnswersWerePerformed
  <2>4. \A k \in DOMAIN fromHost' : fromHost'[k].id # 0 => IsIn(fromHost'[k].id, performed')
    BY <2>1, <2>2 DEF AnswersWerePerformed, IsIn
  <2>5. CASE msg.id = 0
    <3>1. /\ launch' = [launch EXCEPT !.at = IF @ = "starting" THEN "ready" ELSE @]
          /\ UNCHANGED requests
      BY <1>9, <2>5 DEF ReadLine
    <3>2. LaunchTyped' /\ launch'.exited = launch.exited
      BY <3>1 DEF LaunchTyped
    <3>3. QED BY <2>1, <2>2, <2>4, <3>1, <3>2 DEF TestTyped, TakenInOrder, Increasing,
                 AnswersWerePerformed, EndedIsDead, Waiting, IsIn, OnTime
  <2>6. CASE msg.id # 0
    <3> DEFINE is == IF msg.ok THEN "resolved" ELSE "rejected"
    <3>1. requests' = Settled({msg.id} \cap Waiting, is) /\ UNCHANGED launch
      BY <1>9, <2>6 DEF ReadLine
    <3>2. /\ requests' \in Seq(Command) /\ Len(requests') = Len(requests)
          /\ DOMAIN requests' = DOMAIN requests
          /\ \A i \in DOMAIN requests :
               requests'[i].is = IF i \in {msg.id} \cap Waiting THEN is ELSE requests[i].is
      <4> DEFINE ids == {msg.id} \cap Waiting
      <4>1. is \in {"waiting", "resolved", "rejected", "late"} /\ requests' = Settled(ids, is)
        BY <3>1
      <4> HIDE DEF is, ids
      <4>2. /\ requests' \in Seq(Command) /\ Len(requests') = Len(requests)
            /\ DOMAIN requests' = DOMAIN requests
            /\ \A i \in DOMAIN requests :
                 requests'[i].is = IF i \in ids THEN is ELSE requests[i].is
        BY <4>1, SettledAt
      <4>3. QED BY <4>2 DEF ids
    <3>3. \A i \in DOMAIN requests' : requests'[i].is = "resolved" => IsIn(i, performed')
      BY <2>1, <2>3, <2>6, <3>2 DEF AnswersWerePerformed, IsIn
    <3>4. QED BY <2>1, <2>2, <2>4, <3>1, <3>2, <3>3 DEF TestTyped, LaunchTyped, TakenInOrder,
                 Increasing, AnswersWerePerformed, EndedIsDead, OnTime
  <2>7. QED BY <2>5, <2>6
<1>10. CASE HostExited \/ BrokenPipe
  <2>1. /\ process = "dead" /\ requests' = Settled(Waiting, "rejected")
        /\ UNCHANGED <<process, loop, fromHost, performed, lateness>>
        /\ toHost' \in {toHost, <<>>}
    BY <1>10 DEF HostExited, BrokenPipe, RejectAll, wires
  <2>2. LaunchTyped'
    BY <1>10 DEF HostExited, BrokenPipe, LaunchTyped
  <2>3. /\ requests' \in Seq(Command) /\ Len(requests') = Len(requests)
        /\ DOMAIN requests' = DOMAIN requests
        /\ \A i \in DOMAIN requests :
             requests'[i].is = IF i \in Waiting THEN "rejected" ELSE requests[i].is
    BY <2>1, SettledAt
  <2>4. Waiting' = {}
    BY <2>3 DEF Waiting
  <2>5. TestTyped' /\ TakenInOrder'
    <3>1. CASE toHost' = toHost
      BY <2>1, <2>3, <3>1 DEF TestTyped, TakenInOrder, Increasing
    <3>2. CASE toHost' = <<>>
      BY <2>1, <2>3, <3>2 DEF TestTyped, TakenInOrder, Increasing
    <3>3. QED BY <2>1, <3>1, <3>2
  <2>6. AnswersWerePerformed' /\ EndedIsDead'
    BY <2>1, <2>3, <2>4 DEF AnswersWerePerformed, EndedIsDead, IsIn, OnTime
  <2>7. QED BY <2>2, <2>5, <2>6
<1>11. ASSUME NEW command \in {"step", "settle", "close"}, Request(command) PROVE TestInv'
  <2> DEFINE over == launch.closed \/ launch.exited
  <2> DEFINE new == [command |-> command, is |-> IF over THEN "rejected" ELSE "waiting"]
  <2>1. /\ requests' = Append(requests, new)
        /\ toHost' = IF over THEN toHost ELSE Append(toHost, Len(requests) + 1)
        /\ UNCHANGED <<launch, process, loop, fromHost, performed, lateness>>
    BY <1>11 DEF Request
  <2>2. new \in Command /\ new.is # "resolved" /\ (launch.exited => new.is # "waiting")
    BY DEF Command
  <2> HIDE DEF new, over
  <2>3. /\ requests' \in Seq(Command) /\ Len(requests') = Len(requests) + 1
        /\ DOMAIN requests' = DOMAIN requests \cup {Len(requests) + 1}
        /\ \A i \in DOMAIN requests : requests'[i] = requests[i]
        /\ requests'[Len(requests) + 1] = new
    BY <2>1, <2>2, AppendedAt DEF TestTyped
  <2>4. /\ toHost' \in Seq(Nat \ {0})
        /\ \A k \in DOMAIN toHost' : \/ toHost'[k] = Len(requests) + 1 /\ k = Len(toHost) + 1
                                     \/ k \in DOMAIN toHost /\ toHost'[k] = toHost[k]
                                        /\ k \in 1..Len(toHost)
    <3>1. CASE toHost' = toHost
      BY <3>1 DEF TestTyped
    <3>2. CASE toHost' = Append(toHost, Len(requests) + 1)
      BY <3>2, AppendedAt DEF TestTyped
    <3>3. QED BY <2>1, <3>1, <3>2
  <2>5. Len(requests) \in Nat /\ Len(toHost) \in Nat
        /\ \A k \in DOMAIN toHost : toHost[k] \in Nat /\ toHost[k] <= Len(requests)
    BY DEF TestTyped
  <2>6. TestTyped'
    BY <2>1, <2>3, <2>4, <2>5 DEF TestTyped
  <2>7. Increasing(toHost)'
    BY <2>4, <2>5 DEF TakenInOrder, Increasing
  <2>8. \A n \in DOMAIN performed : performed[n] \in Nat
    BY DEF TestTyped
  <2>9. TakenInOrder'
    <3>1. \A n \in DOMAIN performed : performed[n] < Len(requests) + 1
      BY <2>5, <2>8 DEF TestTyped
    <3>2. QED BY <2>1, <2>4, <2>5, <2>7, <2>8, <3>1 DEF TakenInOrder, TestTyped, Increasing
  <2>10. AnswersWerePerformed'
    BY <2>1, <2>2, <2>3 DEF AnswersWerePerformed, IsIn
  <2>11. EndedIsDead'
    BY <2>1, <2>2, <2>3 DEF EndedIsDead, Waiting, OnTime
  <2>12. QED BY <2>1, <2>6, <2>9, <2>10, <2>11 DEF LaunchTyped
<1>12. ASSUME NEW id \in Waiting, TimesOut(id) PROVE TestInv'
  <2>1. /\ requests' = Settled({id}, "late") /\ process' = "dead"
        /\ lateness' = IF lateness = OnTime THEN Len(performed) ELSE lateness
        /\ UNCHANGED <<launch, loop, wires, performed>>
    BY <1>12 DEF TimesOut, Kill
  <2>2. /\ requests' \in Seq(Command) /\ Len(requests') = Len(requests)
        /\ DOMAIN requests' = DOMAIN requests
        /\ \A i \in DOMAIN requests :
             requests'[i].is = IF i \in {id} THEN "late" ELSE requests[i].is
    BY <2>1, SettledAt
  <2>3. ~launch.exited
    BY <1>12 DEF EndedIsDead
  <2>4. EndedIsDead'
    BY <2>1, <2>3 DEF EndedIsDead, OnTime
  <2>5. QED BY <2>1, <2>2, <2>4 DEF TestTyped, LaunchTyped, TakenInOrder, Increasing,
               AnswersWerePerformed, IsIn, wires
<1>13. CASE UNCHANGED testVars
  BY <1>13 DEF testVars, wires, TestTyped, LaunchTyped, TakenInOrder, Increasing,
     AnswersWerePerformed, EndedIsDead, IsIn, Waiting, OnTime
<1>14. QED BY <1>1, <1>2, <1>3, <1>4, <1>5, <1>7, <1>8, <1>9, <1>10, <1>11, <1>12, <1>13
           DEF TestNext

\* For every number of requests: the invariant holds throughout.
THEOREM TestInvHolds == TestSpec => []TestInv
<1>1. QED BY TestInitially, TestKept, PTL DEF TestSpec

\* StepsAreTrue: a request of a test that resolved was performed, the requests are
\* performed in order and none after one has timed out, and none waits for a dead process.
THEOREM StepsHold == TestSpec => []StepsAreTrue
<1>1. TestInv => StepsAreTrue
  BY DEF TestInv, TakenInOrder, Increasing, AnswersWerePerformed, IsIn, EndedIsDead,
     StepsAreTrue
<1>2. QED BY <1>1, TestInvHolds, PTL

-----------------------------------------------------------------------------
(* WebStorage: every key reads as it was or as it was to become            *)

\* One file a process has left to write, and what becomes of it.
Write == [file : StoreKeys, to : Stored \cup {Missing}]
         \cup [file : {"index"}, to : {NoIndex} \cup SUBSET StoreKeys]

\* Types, of what the proof needs.
StoreTyped ==
  /\ keyIndex \in {NoIndex, BadIndex} \cup SUBSET StoreKeys
  /\ items \in [StoreKeys -> Stored \cup {Missing, Corrupt}]
  /\ sharer \in [Sharers -> [at : {"resting", "waiting", "breaking", "inside"},
                             request : StoreRequests, todo : Seq(Write)]]
  /\ kept \in [StoreKeys -> SUBSET (Stored \cup {Missing})]

\* Every key reads as something a reader may be told.
KeysRead == \A k \in StoreKeys : ToldOf(k) \in kept[k]

\* The last m of the writes are those of the operation itself, as far as it has come.
SetsAside(write) == write.file # "index" /\ write.to = Missing
OperationLeft(request, todo, m) ==
  LET k == request.key
      next == todo[Len(todo) - m + 1]
      last == todo[Len(todo)]
  IN  \/ /\ request.as \in Stored
         /\ \/ m = 0 /\ k \in IndexKeys /\ items[k] = request.as
            \/ m = 1 /\ k \in IndexKeys /\ last = WriteItem(k, request.as)
            \/ /\ m = 1 /\ items[k] = request.as
               /\ last = WriteIndex(IndexKeys \cup {k})
            \/ /\ m = 2 /\ k \notin IndexKeys /\ next = WriteItem(k, request.as)
               /\ last = WriteIndex(IndexKeys \cup {k})
      \/ /\ request.as \in {"remove", "get"}
         /\ \/ m = 0 /\ (request.as = "remove" => k \notin IndexKeys)
            \/ m = 1 /\ k \notin IndexKeys /\ last = WriteItem(k, Missing)
            \/ /\ m = 2 /\ k \in IndexKeys /\ next = WriteIndex(IndexKeys \ {k})
               /\ last = WriteItem(k, Missing)
               /\ request.as = "get" => items[k] = Corrupt

\* The index is made again first: what it takes away cannot be read anyhow, and the
\* last of it names what can.
RebuildLeft(todo, n) ==
  /\ n > 0 => ~Usable /\ todo[n] = WriteIndex(Rebuilt)
  /\ \A i \in 1 .. n - 1 :
       \/ todo[i] = WriteIndex(NoIndex)
       \/ SetsAside(todo[i]) /\ items[todo[i].file] \notin Stored

\* clear empties the index, and removes the files that nobody reads any more.
ClearLeft(todo) ==
  /\ todo # <<>> => todo[1] = WriteIndex({}) \/ (keyIndex = {} /\ SetsAside(todo[1]))
  /\ \A i \in 2 .. Len(todo) : SetsAside(todo[i])
  /\ todo = <<>> => keyIndex = {}

\* What an operation inside the lock has left to write.
Left(request, todo) ==
  IF request.as = "clear" THEN ClearLeft(todo)
  ELSE \E m \in 0 .. 2 :
         /\ m <= Len(todo) /\ RebuildLeft(todo, Len(todo) - m)
         /\ Len(todo) = m => Usable
         /\ OperationLeft(request, todo, m)

\* A reader may already be told what the operation makes of its key.
OutcomeIsKept(request) == \A k \in Touches(request) : Outcome(request) \in kept[k]

WritesAreSafe(p) ==
  OutcomeIsKept(sharer[p].request) /\ Left(sharer[p].request, sharer[p].todo)

OneHolder == \A p, q \in Holders : p = q

\* The inductive invariant of WebStorage.
StoreInv ==
  /\ StoreTyped
  /\ ~crowded => KeysRead /\ OneHolder /\ \A p \in Holders : WritesAreSafe(p)

\* Nothing is stored to begin with.
LEMMA StoreInvInit == StorageInit => StoreInv
<1> SUFFICES ASSUME StorageInit PROVE StoreInv
  OBVIOUS
<1> USE DEF StorageInit
<1>1. StoreTyped
  BY DEF StoreRequests, StoreKeys, Unoccupied, StoreTyped
<1>2. KeysRead
  BY DEF KeysRead, ToldOf, IndexKeys, Usable, Rebuilt, Stored, Missing
<1>3. Holders = {}
  BY DEF Holders, Unoccupied
<1> QED
  BY <1>1, <1>2, <1>3 DEF StoreInv, OneHolder

\* The files of some keys are a sequence of them.
LEMMA KeysAsSequence == ASSUME NEW S \in SUBSET StoreKeys PROVE SetToSeq(S) \in Seq(S)
<1>1. IsFiniteSet(S)
  <2>1. IsFiniteSet(StoreKeys)
    <3>1. StoreKeys = ({} \cup {"theme"}) \cup {"count"}
      BY DEF StoreKeys
    <3>2. IsFiniteSet({} \cup {"theme"})
      BY FS_EmptySet, FS_AddElement
    <3> QED
      BY <3>1, <3>2, FS_AddElement
  <2> QED
    BY <2>1, FS_Subset
<1>2. Cardinality(S) \in Nat /\ ExistsBijection(1 .. Cardinality(S), S)
  BY <1>1, FS_CardinalityType
<1>3. \E f \in [1 .. Cardinality(S) -> S] : IsInjective(f)
  BY <1>2 DEF ExistsBijection, Bijection, Injection
<1>4. SetToSeq(S) \in [1 .. Cardinality(S) -> S]
  BY <1>3 DEF SetToSeq
<1> QED
  BY <1>2, <1>4

\* Setting files aside removes them.
LEMMA SetAsideWrites ==
  ASSUME NEW S \in SUBSET StoreKeys
  PROVE  /\ SetAside(SetToSeq(S)) \in Seq(Write)
         /\ \A i \in 1 .. Len(SetAside(SetToSeq(S))) :
              SetsAside(SetAside(SetToSeq(S))[i]) /\ SetAside(SetToSeq(S))[i].file \in S
<1> DEFINE s == SetToSeq(S)
<1>1. s \in Seq(S)
  BY KeysAsSequence
<1> HIDE DEF s
<1>2. \A i \in 1 .. Len(s) : s[i] \in S
  BY <1>1
<1>3. \A i \in 1 .. Len(s) :
        WriteItem(s[i], Missing) \in Write /\ SetsAside(WriteItem(s[i], Missing))
        /\ WriteItem(s[i], Missing).file \in S
  BY <1>2 DEF WriteItem, Write, SetsAside, StoreKeys
<1>4. Len(s) \in Nat
  BY <1>1
<1>5. SetAside(s) = [i \in 1 .. Len(s) |-> WriteItem(s[i], Missing)]
  BY DEF SetAside
<1>6. SetAside(s) \in Seq(Write) /\ Len(SetAside(s)) = Len(s)
  BY <1>3, <1>4, <1>5
<1>7. \A i \in 1 .. Len(s) : SetsAside(SetAside(s)[i]) /\ SetAside(s)[i].file \in S
  BY <1>3, <1>5
<1> QED
  BY <1>6, <1>7 DEF s

\* The writes of a rebuild, which there are none of if the index can be used.
LEMMA RebuildBegins ==
  ASSUME StoreTyped
  PROVE  /\ Rebuilding \in Seq(Write) /\ RebuildLeft(Rebuilding, Len(Rebuilding))
         /\ Len(Rebuilding) = 0 => Usable
<1>1. CASE Usable
  BY <1>1 DEF Rebuilding, RebuildLeft
<1>2. CASE ~Usable
  <2> DEFINE a == IF keyIndex = BadIndex THEN <<WriteIndex(NoIndex)>> ELSE <<>>
             S == {k \in StoreKeys : items[k] = Corrupt}
             b == SetAside(SetToSeq(S))
             w == WriteIndex(Rebuilt)
  <2>1. Rebuilding = a \o b \o <<w>>
    BY <1>2 DEF Rebuilding
  <2>2. WriteIndex(NoIndex) \in Write /\ w \in Write
    BY DEF WriteIndex, Write, Rebuilt
  <2>3. a \in Seq(Write) /\ \A i \in 1 .. Len(a) : a[i] = WriteIndex(NoIndex)
    BY <2>2
  <2>4. S \in SUBSET StoreKeys
    OBVIOUS
  <2>5. /\ b \in Seq(Write)
        /\ \A i \in 1 .. Len(b) : SetsAside(b[i]) /\ b[i].file \in S
    BY <2>4, SetAsideWrites
  <2>6. \A i \in 1 .. Len(b) : SetsAside(b[i]) /\ items[b[i].file] \notin Stored
    BY <2>5 DEF Corrupt, Stored
  <2> HIDE DEF a, b, S, w
  <2>7. Rebuilding \in Seq(Write) /\ Len(Rebuilding) = Len(a) + Len(b) + 1
    BY <2>1, <2>2, <2>3, <2>5
  <2>8. /\ Rebuilding[Len(Rebuilding)] = w
        /\ \A i \in 1 .. Len(a) : Rebuilding[i] = a[i]
        /\ \A i \in 1 .. Len(b) : Rebuilding[Len(a) + i] = b[i]
    BY <2>1, <2>2, <2>3, <2>5
  <2>9. ASSUME NEW i \in 1 .. Len(Rebuilding) - 1
        PROVE  \/ Rebuilding[i] = WriteIndex(NoIndex)
               \/ SetsAside(Rebuilding[i]) /\ items[Rebuilding[i].file] \notin Stored
    <3>1. Len(a) \in Nat /\ Len(b) \in Nat
      BY <2>3, <2>5
    <3>2. CASE i <= Len(a)
      BY <3>1, <3>2, <2>3, <2>8
    <3>3. CASE i > Len(a)
      <4>1. i - Len(a) \in 1 .. Len(b) /\ i = Len(a) + (i - Len(a))
        BY <3>1, <3>3, <2>7
      <4>2. Rebuilding[i] = b[i - Len(a)]
        BY <4>1, <2>8
      <4> QED
        BY <4>1, <4>2, <2>6
    <3> QED
      BY <3>1, <3>2, <3>3
  <2>10. Len(Rebuilding) > 0
    BY <2>3, <2>5, <2>7
  <2> QED
    BY <1>2, <2>7, <2>8, <2>9, <2>10 DEF RebuildLeft, w
<1> QED
  BY <1>1, <1>2

\* What is left of the operation itself is its last writes.
LEMMA LastWrites ==
  ASSUME NEW request, NEW s, NEW t, NEW m \in 0 .. 2, OperationLeft(request, s, m),
         m > 0 => t[Len(t)] = s[Len(s)] /\ t[Len(t) - m + 1] = s[Len(s) - m + 1]
  PROVE  OperationLeft(request, t, m)
BY DEF OperationLeft

\* The writes of the operation itself follow those of a rebuild.
LEMMA OperationFollows ==
  ASSUME StoreTyped, NEW request, NEW o \in Seq(Write), Len(o) \in 0 .. 2,
         OperationLeft(request, o, Len(o)), request.as # "clear",
         WritesOf(request) = Rebuilding \o o
  PROVE  WritesOf(request) \in Seq(Write) /\ Left(request, WritesOf(request))
<1> DEFINE t == WritesOf(request)
           r == Rebuilding
           m == Len(o)
<1>1. r \in Seq(Write) /\ RebuildLeft(r, Len(r)) /\ (Len(r) = 0 => Usable)
  BY RebuildBegins
<1>2. t = r \o o
  OBVIOUS
<1> HIDE DEF t, r
<1>3. /\ t \in Seq(Write) /\ Len(t) = Len(r) + m
      /\ \A i \in 1 .. Len(r) : t[i] = r[i]
      /\ \A i \in 1 .. Len(o) : t[Len(r) + i] = o[i]
  BY <1>1, <1>2
<1>4. Len(r) \in Nat /\ m \in 0 .. 2
  BY <1>1
<1>5. m > 0 => t[Len(t)] = o[Len(o)] /\ t[Len(t) - m + 1] = o[Len(o) - m + 1]
  BY <1>3, <1>4
<1>6. OperationLeft(request, t, m)
  BY <1>4, <1>5, LastWrites
<1>7. RebuildLeft(t, Len(r))
  BY <1>1, <1>3, <1>4 DEF RebuildLeft
<1>8. m <= Len(t) /\ Len(t) - m = Len(r) /\ (Len(t) = m => Usable)
  BY <1>1, <1>3, <1>4
<1> HIDE DEF m
<1>9. Left(request, t)
  BY <1>4, <1>6, <1>7, <1>8 DEF Left
<1> QED
  BY <1>3, <1>9 DEF t

\* The writes of an operation, when it reads what there is.
LEMMA WritesBegin ==
  ASSUME StoreTyped, NEW request \in StoreRequests
  PROVE  WritesOf(request) \in Seq(Write) /\ Left(request, WritesOf(request))
<1> DEFINE k == request.key
           S == {j \in StoreKeys : items[j] # Missing}
<1>1. CASE request.as = "clear"
  <2> DEFINE b == SetAside(SetToSeq(S))
             t == WritesOf(request)
  <2>1. b \in Seq(Write) /\ \A i \in 1 .. Len(b) : SetsAside(b[i])
    BY SetAsideWrites
  <2>2. WriteIndex({}) \in Write
    BY DEF WriteIndex, Write
  <2>3. t = <<WriteIndex({})>> \o b
    BY <1>1 DEF WritesOf, Clearing
  <2> HIDE DEF b, t
  <2>4. /\ t \in Seq(Write) /\ Len(t) = Len(b) + 1 /\ t[1] = WriteIndex({})
        /\ \A i \in 1 .. Len(b) : t[i + 1] = b[i]
    BY <2>1, <2>2, <2>3
  <2>5. \A i \in 2 .. Len(t) : SetsAside(t[i])
    <3> SUFFICES ASSUME NEW i \in 2 .. Len(t) PROVE SetsAside(t[i])
      OBVIOUS
    <3>1. i - 1 \in 1 .. Len(b) /\ i = (i - 1) + 1
      BY <2>1, <2>4
    <3> QED
      BY <3>1, <2>1, <2>4
  <2>6. t # <<>>
    BY <2>1, <2>4
  <2>7. ClearLeft(t)
    BY <2>4, <2>5, <2>6 DEF ClearLeft
  <2> QED
    BY <1>1, <2>4, <2>7 DEF Left, t
<1>3. k \in StoreKeys /\ request.as \in Stored \cup {"get", "remove", "clear"}
  BY DEF StoreRequests
<1>4. IndexKeys \in SUBSET StoreKeys
  BY DEF StoreTyped, IndexKeys, Usable, Rebuilt
<1>5. /\ WriteIndex(IndexKeys \ {k}) \in Write /\ WriteItem(k, Missing) \in Write
      /\ WriteIndex(IndexKeys \cup {k}) \in Write
      /\ request.as \in Stored => WriteItem(k, request.as) \in Write
  BY <1>3, <1>4 DEF WriteIndex, WriteItem, Write
<1>7. ASSUME NEW x \in Write, NEW y \in Write
      PROVE  <<x, y>> \in Seq(Write) /\ Len(<<x, y>>) = 2
  BY <1>7
<1>8. CASE request.as = "remove"
  <2> DEFINE o == Removing(k)
  <2>1. WritesOf(request) = Rebuilding \o o
    BY <1>8 DEF WritesOf
  <2>2. /\ o \in Seq(Write) /\ Len(o) \in 0 .. 2
        /\ OperationLeft(request, o, Len(o))
    <3>1. CASE k \notin IndexKeys
      <4>1. o = <<>>
        BY <3>1 DEF Removing
      <4>2. o \in Seq(Write) /\ Len(o) = 0
        BY <4>1
      <4> HIDE DEF o
      <4> QED
        BY <1>8, <3>1, <4>2 DEF OperationLeft
    <3>2. CASE k \in IndexKeys
      <4> DEFINE x == WriteIndex(IndexKeys \ {k})
                 y == WriteItem(k, Missing)
      <4>1. o = <<x, y>>
        BY <3>2 DEF Removing
      <4>2. x \in Write /\ y \in Write
        BY <1>5
      <4> HIDE DEF o, x, y
      <4>3. o \in Seq(Write) /\ Len(o) = 2 /\ o[1] = x /\ o[2] = y
        BY <4>1, <4>2, <1>7
      <4>4. o[Len(o) - 2 + 1] = x /\ o[Len(o)] = y
        BY <4>3
      <4> QED
        BY <1>8, <3>2, <4>3, <4>4 DEF OperationLeft, x, y
    <3> QED
      BY <3>1, <3>2
  <2> HIDE DEF o
  <2>3. request.as # "clear"
    BY <1>8
  <2> QED
    BY <2>1, <2>2, <2>3, OperationFollows
<1>9. CASE request.as = "get"
  <2> DEFINE o == Dropping(k)
  <2>1. WritesOf(request) = Rebuilding \o o
    BY <1>9 DEF WritesOf
  <2>2. /\ o \in Seq(Write) /\ Len(o) \in 0 .. 2
        /\ OperationLeft(request, o, Len(o))
    <3>1. CASE ~(k \in IndexKeys /\ items[k] = Corrupt)
      <4>1. o = <<>>
        BY <3>1 DEF Dropping
      <4>2. o \in Seq(Write) /\ Len(o) = 0
        BY <4>1
      <4> HIDE DEF o
      <4> QED
        BY <1>9, <3>1, <4>2 DEF OperationLeft
    <3>2. CASE k \in IndexKeys /\ items[k] = Corrupt
      <4> DEFINE x == WriteIndex(IndexKeys \ {k})
                 y == WriteItem(k, Missing)
      <4>1. o = <<x, y>>
        BY <3>2 DEF Dropping
      <4>2. x \in Write /\ y \in Write
        BY <1>5
      <4> HIDE DEF o, x, y
      <4>3. o \in Seq(Write) /\ Len(o) = 2 /\ o[1] = x /\ o[2] = y
        BY <4>1, <4>2, <1>7
      <4>4. o[Len(o) - 2 + 1] = x /\ o[Len(o)] = y
        BY <4>3
      <4> QED
        BY <1>9, <3>2, <4>3, <4>4 DEF OperationLeft, x, y
    <3> QED
      BY <3>1, <3>2
  <2> HIDE DEF o
  <2>3. request.as # "clear"
    BY <1>9
  <2> QED
    BY <2>1, <2>2, <2>3, OperationFollows
<1>10. CASE request.as \in Stored
  <2>1. /\ WritesOf(request) = Rebuilding \o Setting(k, request.as)
        /\ request.as \notin {"clear", "remove", "get"}
    BY <1>10 DEF WritesOf, Stored
  <2> DEFINE x == WriteItem(k, request.as)
             y == WriteIndex(IndexKeys \cup {k})
             e == IF k \in IndexKeys THEN <<>> ELSE <<y>>
             o == Setting(k, request.as)
  <2>2. x \in Write /\ y \in Write
    BY <1>5, <1>10
  <2>3. o = <<x>> \o e
    BY DEF Setting
  <2> HIDE DEF x, y, o
  <2>4. <<x>> \in Seq(Write) /\ Len(<<x>>) = 1 /\ <<x>>[1] = x
    BY <2>2
  <2>5. /\ e \in Seq(Write) /\ Len(e) = (IF k \in IndexKeys THEN 0 ELSE 1)
        /\ k \notin IndexKeys => e[1] = y
    BY <2>2
  <2> HIDE DEF e
  <2>6. /\ o \in Seq(Write) /\ Len(o) = 1 + Len(e) /\ o[1] = x
        /\ Len(e) = 1 => o[2] = e[1]
    BY <2>3, <2>4, <2>5
  <2>7. OperationLeft(request, o, Len(o)) /\ Len(o) \in 0 .. 2
    BY <2>5, <2>6, <1>10 DEF x, OperationLeft, y
  <2>8. WritesOf(request) = Rebuilding \o o
    BY <2>1 DEF o
  <2> QED
    BY <2>1, <2>6, <2>7, <2>8, OperationFollows
<1> QED
  BY <1>1, <1>3, <1>8, <1>9, <1>10

\* A rebuild of the index tells readers nothing new.
LEMMA RebuildKeeps ==
  ASSUME StoreTyped, ~Usable,
         \/ keyIndex' \in {NoIndex, Rebuilt} /\ items' = items
         \/ /\ \E j \in StoreKeys : items[j] \notin Stored /\ items' = [items EXCEPT ![j] = Missing]
            /\ keyIndex' = keyIndex
  PROVE  /\ IndexKeys' = IndexKeys /\ Rebuilt' = Rebuilt /\ IndexKeys = Rebuilt
         /\ \A k \in StoreKeys : /\ ToldOf(k)' = ToldOf(k)
                                 /\ items[k] \in Stored => items'[k] = items[k]
                                 /\ items[k] \notin Stored => items'[k] \notin Stored
<1>1. \A k \in StoreKeys : /\ items[k] \in Stored => items'[k] = items[k]
                           /\ items[k] \notin Stored => items'[k] \notin Stored
  BY DEF StoreTyped, Missing, Stored
<1>2. Rebuilt' = Rebuilt
  BY <1>1 DEF Rebuilt
<1>3. IndexKeys = Rebuilt
  BY DEF IndexKeys
<1>4. IndexKeys' = Rebuilt
  BY <1>2 DEF IndexKeys, Usable, StoreTyped
<1>5. \A k \in StoreKeys : ToldOf(k)' = ToldOf(k)
  <2> SUFFICES ASSUME NEW k \in StoreKeys PROVE ToldOf(k)' = ToldOf(k)
    OBVIOUS
  <2>1. CASE k \in Rebuilt
    BY <1>1, <2>1, <1>3, <1>4 DEF Rebuilt, ToldOf
  <2>2. CASE k \notin Rebuilt
    BY <1>3, <1>4, <2>2 DEF ToldOf
  <2> QED
    BY <2>1, <2>2
<1> QED
  BY <1>1, <1>2, <1>3, <1>4, <1>5

\* An item is written while the index can be used.
LEMMA ItemWritten ==
  ASSUME StoreTyped, Usable, NEW j \in StoreKeys, NEW v,
         items' = [items EXCEPT ![j] = v], keyIndex' = keyIndex
  PROVE  /\ Usable' /\ IndexKeys' = IndexKeys /\ items'[j] = v
         /\ \A k \in StoreKeys \ {j} : ToldOf(k)' = ToldOf(k)
         /\ j \notin IndexKeys => ToldOf(j)' = Missing
         /\ j \in IndexKeys /\ v \in Stored => ToldOf(j)' = v
<1>1. Usable' /\ IndexKeys' = IndexKeys
  BY DEF Usable, IndexKeys
<1>2. items'[j] = v /\ \A k \in StoreKeys \ {j} : items'[k] = items[k]
  BY DEF StoreTyped
<1> QED
  BY <1>1, <1>2 DEF ToldOf, Stored, Missing, Corrupt

\* The index is written.
LEMMA IndexWritten ==
  ASSUME StoreTyped, NEW S \in SUBSET StoreKeys, keyIndex' = S, items' = items
  PROVE  /\ Usable' /\ IndexKeys' = S
         /\ \A k \in StoreKeys : /\ (k \in S <=> k \in IndexKeys) => ToldOf(k)' = ToldOf(k)
                                 /\ k \notin S => ToldOf(k)' = Missing
                                 /\ k \in S /\ items[k] \in Stored => ToldOf(k)' = items[k]
<1>1. Usable' /\ IndexKeys' = S
  BY DEF Usable, IndexKeys, NoIndex, BadIndex, Missing, Corrupt, StoreKeys
<1> QED
  BY <1>1 DEF ToldOf, Stored, Missing, Corrupt

\* The first of the writes that are left.
LEMMA TheRest ==
  ASSUME NEW todo \in Seq(Write), todo # <<>>
  PROVE  /\ Tail(todo) \in Seq(Write) /\ Len(todo) \in Nat \ {0} /\ Len(Tail(todo)) = Len(todo) - 1
         /\ Head(todo) = todo[1] /\ Head(todo) \in Write
         /\ \A i \in 1 .. Len(todo) - 1 : Tail(todo)[i] = todo[i + 1]
         /\ \A i \in 1 .. Len(todo) : todo[i] \in Write
  OBVIOUS

\* What a write does.
LEMMA WriteDoes ==
  ASSUME StoreTyped, NEW w \in Write, ApplyWrite(w)
  PROVE  /\ keyIndex' \in {NoIndex, BadIndex} \cup SUBSET StoreKeys
         /\ items' \in [StoreKeys -> Stored \cup {Missing, Corrupt}]
         /\ \A S : w = WriteIndex(S) => keyIndex' = S /\ items' = items
         /\ \A k \in StoreKeys : \A v :
              w = WriteItem(k, v) => items' = [items EXCEPT ![k] = v] /\ keyIndex' = keyIndex
         /\ SetsAside(w) => w.file \in StoreKeys /\ w = WriteItem(w.file, Missing)
<1>1. \/ /\ w.file = "index" /\ keyIndex' = w.to /\ items' = items
         /\ w.to \in {NoIndex} \cup SUBSET StoreKeys
      \/ /\ w.file \in StoreKeys /\ w.file # "index" /\ w.to \in Stored \cup {Missing}
         /\ items' = [items EXCEPT ![w.file] = w.to] /\ keyIndex' = keyIndex
  BY DEF ApplyWrite, Write, StoreKeys
<1>2. /\ keyIndex' \in {NoIndex, BadIndex} \cup SUBSET StoreKeys
      /\ items' \in [StoreKeys -> Stored \cup {Missing, Corrupt}]
  BY <1>1 DEF StoreTyped
<1>3. \A S : w = WriteIndex(S) => keyIndex' = S /\ items' = items
  BY DEF ApplyWrite, WriteIndex
<1>4. \A k \in StoreKeys : \A v :
        w = WriteItem(k, v) => items' = [items EXCEPT ![k] = v] /\ keyIndex' = keyIndex
  BY DEF ApplyWrite, WriteItem, StoreKeys
<1>5. SetsAside(w) => w.file \in StoreKeys /\ w = WriteItem(w.file, Missing)
  BY DEF SetsAside, WriteItem, Write
<1> QED
  BY <1>2, <1>3, <1>4, <1>5

\* A write of clear: every key reads as gone from the first one on.
LEMMA ClearWrites ==
  ASSUME StoreTyped, NEW todo \in Seq(Write), todo # <<>>, ClearLeft(todo),
         \A k \in StoreKeys : Missing \in kept[k], ApplyWrite(Head(todo)), kept' = kept
  PROVE  KeysRead' /\ ClearLeft(Tail(todo))'
<1> USE TheRest
<1>1. keyIndex' = {}
  BY WriteDoes DEF ClearLeft
<1>2. \A k \in StoreKeys : ToldOf(k)' = Missing
  BY <1>1 DEF ToldOf, IndexKeys, Usable, NoIndex, BadIndex
<1>3. KeysRead'
  BY <1>2 DEF KeysRead
<1>4. \A i \in 1 .. Len(Tail(todo)) : SetsAside(Tail(todo)[i])
  BY DEF ClearLeft
<1>5. Tail(todo) # <<>> => Len(Tail(todo)) \in Nat \ {0}
  OBVIOUS
<1> QED
  BY <1>1, <1>3, <1>4, <1>5 DEF ClearLeft, SetsAside

\* A write of a rebuild.
LEMMA RebuildWrites ==
  ASSUME StoreTyped, KeysRead, NEW request \in StoreRequests, NEW todo \in Seq(Write),
         todo # <<>>, ApplyWrite(Head(todo)), kept' = kept,
         NEW m \in 0 .. 2, m < Len(todo), RebuildLeft(todo, Len(todo) - m),
         OperationLeft(request, todo, m)
  PROVE  /\ KeysRead' /\ m <= Len(Tail(todo)) /\ RebuildLeft(Tail(todo), Len(Tail(todo)) - m)'
         /\ (Len(Tail(todo)) = m => Usable)' /\ OperationLeft(request, Tail(todo), m)'
<1> DEFINE n == Len(todo) - m
           t == Tail(todo)
           w == Head(todo)
<1>1. /\ t \in Seq(Write) /\ Len(todo) \in Nat /\ Len(t) = Len(todo) - 1 /\ n \in Nat /\ n > 0
      /\ w = todo[1] /\ w \in Write /\ Len(todo) = n + m /\ Len(t) - m = n - 1
      /\ \A i \in 1 .. Len(todo) - 1 : t[i] = todo[i + 1]
      /\ \A i \in 1 .. Len(todo) : todo[i] \in Write
  BY TheRest
<1>2. ~Usable /\ todo[n] = WriteIndex(Rebuilt)
  <2>1. RebuildLeft(todo, n)
    OBVIOUS
  <2> HIDE DEF n
  <2> QED
    BY <1>1, <2>1 DEF RebuildLeft
<1>3. \A i \in 1 .. n - 1 : \/ todo[i] = WriteIndex(NoIndex)
                            \/ SetsAside(todo[i]) /\ items[todo[i].file] \notin Stored
  BY DEF RebuildLeft
<1> HIDE DEF n, t, w
<1>4. \/ n = 1 /\ keyIndex' = Rebuilt /\ items' = items
      \/ n > 1 /\ keyIndex' = NoIndex /\ items' = items
      \/ /\ n > 1 /\ keyIndex' = keyIndex
         /\ \E j \in StoreKeys : items[j] \notin Stored /\ items' = [items EXCEPT ![j] = Missing]
  <2>1. CASE n = 1
    BY <1>1, <1>2, <2>1, WriteDoes DEF w
  <2>2. CASE n > 1
    BY <1>1, <1>3, <2>2, WriteDoes DEF w
  <2> QED
    BY <1>1, <2>1, <2>2
<1>5. /\ IndexKeys' = IndexKeys /\ Rebuilt' = Rebuilt /\ IndexKeys = Rebuilt
      /\ \A k \in StoreKeys : /\ ToldOf(k)' = ToldOf(k)
                              /\ items[k] \in Stored => items'[k] = items[k]
                              /\ items[k] \notin Stored => items'[k] \notin Stored
  BY <1>2, <1>4, RebuildKeeps
<1>6. KeysRead'
  BY <1>5 DEF KeysRead
<1>7. RebuildLeft(t, n - 1)'
  <2>1. n - 1 > 0 => ~Usable' /\ t[n - 1] = WriteIndex(Rebuilt')
    <3> SUFFICES ASSUME n > 1 PROVE ~Usable' /\ t[n - 1] = WriteIndex(Rebuilt')
      BY <1>1
    <3>1. ~Usable'
      BY <1>1, <1>2, <1>4 DEF Usable
    <3>2. t[n - 1] = todo[n]
      BY <1>1
    <3> QED
      BY <1>2, <1>5, <3>1, <3>2
  <2>2. ASSUME NEW i \in 1 .. n - 1 - 1
        PROVE  \/ t[i] = WriteIndex(NoIndex)
               \/ SetsAside(t[i]) /\ items'[t[i].file] \notin Stored
    <3>1. t[i] = todo[i + 1] /\ i + 1 \in 1 .. n - 1 /\ todo[i + 1] \in Write
      BY <1>1
    <3>2. SetsAside(t[i]) => t[i].file \in StoreKeys
      BY <3>1 DEF SetsAside, Write
    <3> QED
      BY <1>3, <1>5, <3>1, <3>2
  <2>3. WriteIndex(Rebuilt)' = WriteIndex(Rebuilt')
    BY DEF WriteIndex
  <2>4. (n > 1 => ~Usable /\ t[n - 1] = WriteIndex(Rebuilt))'
    BY <1>1, <2>1, <2>3
  <2> QED
    BY <1>1, <2>1, <2>2, <2>3 DEF RebuildLeft
<1>8. OperationLeft(request, t, m)
  <2>1. m > 0 => t[Len(t)] = todo[Len(todo)] /\ t[Len(t) - m + 1] = todo[Len(todo) - m + 1]
    BY <1>1
  <2> QED
    BY <2>1, LastWrites
<1>9. OperationLeft(request, t, m)'
  <2>1. request.key \in StoreKeys
    BY DEF StoreRequests
  <2>2. items[request.key] \in Stored => items'[request.key] = items[request.key]
    BY <1>5, <2>1
  <2>3. request.key \in IndexKeys => items[request.key] # Corrupt
    BY <1>5 DEF Rebuilt, Stored, Corrupt
  <2>4. CASE request.as \in Stored
    BY <2>4, <1>5, <1>8, <2>2 DEF Stored, OperationLeft, WriteIndex, WriteItem
  <2>5. CASE request.as \in {"remove", "get"}
    BY <2>5, <1>5, <1>8, <2>3 DEF Stored, OperationLeft, WriteIndex, WriteItem
  <2> QED
    BY <1>8, <2>4, <2>5 DEF OperationLeft
<1>10. Len(t) = m => Usable'
  <2> SUFFICES ASSUME Len(t) = m PROVE Usable'
    OBVIOUS
  <2>1. n = 1
    BY <1>1
  <2>2. keyIndex' = Rebuilt
    BY <1>4, <2>1
  <2> QED
    BY <2>2 DEF Usable, Rebuilt, NoIndex, BadIndex, Missing, Corrupt, StoreKeys
<1>11. m <= Len(t)
  BY <1>1
<1> QED
  BY <1>1, <1>6, <1>7, <1>9, <1>10, <1>11 DEF t

\* A write of the operation itself: its key reads as it did, or as it is to become.
LEMMA OperationWrites ==
  ASSUME StoreTyped, KeysRead, NEW request \in StoreRequests, OutcomeIsKept(request),
         NEW todo \in Seq(Write), todo # <<>>, ApplyWrite(Head(todo)), kept' = kept, Usable,
         NEW m \in 1 .. 2, m = Len(todo), OperationLeft(request, todo, m)
  PROVE  /\ KeysRead' /\ Usable' /\ Len(Tail(todo)) = m - 1
         /\ OperationLeft(request, Tail(todo), m - 1)'
<1> DEFINE t == Tail(todo)
           w == Head(todo)
           k == request.key
<1>1. /\ Len(t) = m - 1 /\ w = todo[1] /\ w \in Write
      /\ m = 2 => t[Len(t)] = todo[2]
  BY TheRest
<1>2. k \in StoreKeys /\ IndexKeys \in SUBSET StoreKeys
  BY DEF StoreRequests, StoreTyped, IndexKeys, Usable, Rebuilt
<1> HIDE DEF t, w
<1>3. ASSUME NEW S \in SUBSET StoreKeys, w = WriteIndex(S),
             \A j \in StoreKeys \ {k} : j \in S <=> j \in IndexKeys
      PROVE  /\ Usable' /\ IndexKeys' = S /\ items' = items
             /\ \A j \in StoreKeys \ {k} : ToldOf(j)' = ToldOf(j)
             /\ k \notin S => ToldOf(k)' = Missing
             /\ k \in S /\ items[k] \in Stored => ToldOf(k)' = items[k]
  BY <1>1, <1>3, WriteDoes, <1>2, IndexWritten DEF w
<1>4. ASSUME NEW v, w = WriteItem(k, v)
      PROVE  /\ Usable' /\ IndexKeys' = IndexKeys /\ items'[k] = v
             /\ \A j \in StoreKeys \ {k} : ToldOf(j)' = ToldOf(j)
             /\ k \notin IndexKeys => ToldOf(k)' = Missing
             /\ k \in IndexKeys /\ v \in Stored => ToldOf(k)' = v
  <2>1. items' = [items EXCEPT ![k] = v] /\ keyIndex' = keyIndex
    BY <1>1, <1>2, <1>4, WriteDoes DEF w
  <2> QED
    BY <1>2, <2>1, ItemWritten
<1>5. ASSUME \A j \in StoreKeys \ {k} : ToldOf(j)' = ToldOf(j), ToldOf(k)' \in kept[k]
      PROVE  KeysRead'
  BY <1>5 DEF KeysRead
<1>6. /\ k \notin IndexKeys => Missing \in kept[k]
      /\ items[k] = Corrupt => Missing \in kept[k]
  BY <1>2 DEF KeysRead, ToldOf
<1>7. CASE request.as \in Stored
  <2>1. request.as \notin {"remove", "get"} /\ request.as \in kept[k]
    BY <1>2, <1>7 DEF Stored, OutcomeIsKept, Touches, Outcome
  <2>2. \/ m = 1 /\ k \in IndexKeys /\ w = WriteItem(k, request.as)
        \/ m = 1 /\ items[k] = request.as /\ w = WriteIndex(IndexKeys \cup {k})
        \/ /\ m = 2 /\ k \notin IndexKeys /\ w = WriteItem(k, request.as)
           /\ todo[2] = WriteIndex(IndexKeys \cup {k})
    BY <1>1, <2>1 DEF OperationLeft
  <2>3. CASE m = 1 /\ k \in IndexKeys /\ w = WriteItem(k, request.as)
    <3>1. KeysRead' /\ Usable' /\ k \in IndexKeys' /\ items'[k] = request.as
      BY <1>4, <1>5, <1>7, <2>1, <2>3
    <3>2. OperationLeft(request, t, 0)'
      BY <1>7, <3>1 DEF OperationLeft
    <3> QED
      BY <1>1, <2>3, <3>1, <3>2 DEF t
  <2>4. CASE m = 1 /\ items[k] = request.as /\ w = WriteIndex(IndexKeys \cup {k})
    BY <1>2, <1>3, <1>7, <2>4, <1>5, <2>1, <1>1 DEF OperationLeft, t
  <2>5. CASE /\ m = 2 /\ k \notin IndexKeys /\ w = WriteItem(k, request.as)
             /\ todo[2] = WriteIndex(IndexKeys \cup {k})
    <3>1. KeysRead' /\ Usable' /\ IndexKeys' = IndexKeys /\ items'[k] = request.as
      BY <1>4, <1>5, <1>6, <2>5
    <3>2. t[Len(t)] = WriteIndex(IndexKeys \cup {k})
      BY <1>1, <2>5
    <3>3. OperationLeft(request, t, 1)'
      BY <1>7, <3>1, <3>2 DEF OperationLeft, WriteIndex
    <3> QED
      BY <1>1, <2>5, <3>1, <3>3 DEF t
  <2> QED
    BY <2>2, <2>3, <2>4, <2>5
<1>8. CASE request.as \in {"remove", "get"}
  <2>1. request.as \notin Stored /\ (request.as = "remove" => Missing \in kept[k])
    BY <1>2, <1>8 DEF Stored, OutcomeIsKept, Touches, Outcome
  <2>2. \/ m = 1 /\ k \notin IndexKeys /\ w = WriteItem(k, Missing)
        \/ /\ m = 2 /\ k \in IndexKeys /\ w = WriteIndex(IndexKeys \ {k})
           /\ todo[2] = WriteItem(k, Missing) /\ (request.as = "get" => items[k] = Corrupt)
    BY <1>1, <2>1 DEF OperationLeft
  <2>3. CASE m = 1 /\ k \notin IndexKeys /\ w = WriteItem(k, Missing)
    <3>1. KeysRead' /\ Usable' /\ k \notin IndexKeys'
      BY <1>4, <1>5, <1>6, <2>3
    <3>2. OperationLeft(request, t, 0)'
      BY <1>8, <3>1 DEF OperationLeft
    <3> QED
      BY <1>1, <2>3, <3>1, <3>2 DEF t
  <2>4. CASE /\ m = 2 /\ k \in IndexKeys /\ w = WriteIndex(IndexKeys \ {k})
             /\ todo[2] = WriteItem(k, Missing) /\ (request.as = "get" => items[k] = Corrupt)
    <3>1. KeysRead' /\ Usable' /\ k \notin IndexKeys'
      BY <1>2, <1>3, <2>4, <1>6, <1>8, <2>1, <1>5
    <3>2. t[Len(t)] = WriteItem(k, Missing)
      BY <1>1, <2>4
    <3>3. OperationLeft(request, t, 1)'
      BY <1>8, <3>1, <3>2 DEF OperationLeft, WriteItem
    <3> QED
      BY <1>1, <2>4, <3>1, <3>3 DEF t
  <2> QED
    BY <2>2, <2>3, <2>4
<1> QED
  BY <1>7, <1>8 DEF OperationLeft

\* Every write of every operation, the one it crashes after too.
LEMMA WriteKeeps ==
  ASSUME StoreTyped, KeysRead, NEW request \in StoreRequests, OutcomeIsKept(request),
         NEW todo \in Seq(Write), todo # <<>>, Left(request, todo),
         ApplyWrite(Head(todo)), kept' = kept
  PROVE  KeysRead' /\ Left(request, Tail(todo))'
<1>1. CASE request.as = "clear"
  BY <1>1, ClearWrites DEF OutcomeIsKept, Touches, Outcome, Stored, Left
<1>2. CASE request.as # "clear"
  <2>1. PICK m \in 0 .. 2 : /\ m <= Len(todo) /\ RebuildLeft(todo, Len(todo) - m)
                            /\ Len(todo) = m => Usable
                            /\ OperationLeft(request, todo, m)
    BY <1>2 DEF Left
  <2>2. Len(todo) \in Nat \ {0}
    BY TheRest
  <2>3. CASE m < Len(todo)
    BY <2>1, <2>3, RebuildWrites, <1>2 DEF Left
  <2>4. CASE m = Len(todo)
    <3>1. m \in 1 .. 2 /\ Usable
      BY <2>1, <2>2, <2>4
    <3>2. /\ KeysRead' /\ Usable' /\ Len(Tail(todo)) = m - 1
          /\ OperationLeft(request, Tail(todo), m - 1)'
      BY <2>1, <2>4, <3>1, OperationWrites
    <3>3. m - 1 \in 0 .. 2 /\ m - 1 <= Len(Tail(todo)) /\ Len(Tail(todo)) - (m - 1) = 0
      BY <3>1, <3>2
    <3>4. RebuildLeft(Tail(todo), 0)'
      BY DEF RebuildLeft
    <3> QED
      BY <1>2, <3>2, <3>3, <3>4 DEF Left
  <2> QED
    BY <2>1, <2>2, <2>3, <2>4
<1> QED
  BY <1>1, <1>2

\* An operation that has nothing left to write has done what it was asked.
LEMMA NothingLeft ==
  ASSUME StoreTyped, NEW request \in StoreRequests, Left(request, <<>>)
  PROVE  \A k \in Touches(request) : k \in StoreKeys /\ ToldOf(k) = Outcome(request)
<1> DEFINE k == request.key
<1>1. CASE request.as = "clear"
  <2>1. keyIndex = {}
    BY <1>1 DEF Left, ClearLeft
  <2>2. \A j \in StoreKeys : ToldOf(j) = Missing
    BY <2>1 DEF ToldOf, IndexKeys, Usable, NoIndex, BadIndex
  <2> QED
    BY <1>1, <2>2 DEF Touches, Outcome, Stored
<1>2. CASE request.as # "clear"
  <2>1. PICK m \in 0 .. 2 : /\ m <= Len(<<>>) /\ OperationLeft(request, <<>>, m)
    BY <1>2 DEF Left
  <2>2. m = 0
    BY <2>1
  <2>3. k \in StoreKeys
    BY DEF StoreRequests
  <2>4. CASE request.as \in Stored
    BY <2>1, <2>2, <2>4, <2>3 DEF OperationLeft, Stored, ToldOf, Missing, Corrupt, Touches,
       Outcome
  <2>5. CASE request.as = "remove"
    BY <2>1, <2>2, <2>5, <2>3 DEF OperationLeft, Stored, ToldOf, Touches, Outcome
  <2>6. CASE request.as = "get"
    BY <2>6 DEF Touches
  <2> QED
    BY <1>2, <2>4, <2>5, <2>6 DEF StoreRequests
<1> QED
  BY <1>1, <1>2

\* What is left of an operation stands as long as nobody writes a file.
LEMMA LeftKept ==
  ASSUME NEW request, NEW todo, Left(request, todo), UNCHANGED <<keyIndex, items>>
  PROVE  Left(request, todo)'
<1>1. IndexKeys' = IndexKeys /\ (Usable' <=> Usable) /\ Rebuilt' = Rebuilt
  BY DEF IndexKeys, Usable, Rebuilt
<1>2. ASSUME NEW m PROVE OperationLeft(request, todo, m) => OperationLeft(request, todo, m)'
  BY <1>1 DEF OperationLeft, WriteIndex, WriteItem
<1>3. ASSUME NEW n PROVE RebuildLeft(todo, n) => RebuildLeft(todo, n)'
  BY <1>1 DEF RebuildLeft, WriteIndex
<1>4. ClearLeft(todo) => ClearLeft(todo)'
  BY DEF ClearLeft
<1> QED
  BY <1>1, <1>2, <1>3, <1>4 DEF Left

\* A step that touches neither the files nor the holder of the lock.
LEMMA QuietStore ==
  ASSUME StoreInv, StoreTyped', UNCHANGED <<keyIndex, items, kept, crowded>>,
         \A q \in Holders' : q \in Holders /\ sharer'[q] = sharer[q]
  PROVE  StoreInv'
<1>1. KeysRead' <=> KeysRead
  BY DEF KeysRead, ToldOf, IndexKeys, Usable, Rebuilt
<1>2. OneHolder => OneHolder'
  BY DEF OneHolder
<1>3. ASSUME NEW q \in Holders', WritesAreSafe(q) PROVE WritesAreSafe(q)'
  <2>1. PICK request, todo : request = sharer[q].request /\ todo = sharer[q].todo
    OBVIOUS
  <2>2. sharer'[q] = sharer[q] /\ OutcomeIsKept(request) /\ Left(request, todo)
    BY <1>3, <2>1 DEF WritesAreSafe
  <2>3. OutcomeIsKept(request)'
    BY <2>2 DEF OutcomeIsKept
  <2>4. Left(request, todo)'
    BY <2>2, LeftKept
  <2> QED
    BY <2>1, <2>2, <2>3, <2>4 DEF WritesAreSafe
<1> QED
  BY <1>1, <1>2, <1>3 DEF StoreInv

\* What a step makes of one process keeps the types.
LEMMA SharerTyped ==
  ASSUME StoreTyped, NEW p \in Sharers, NEW s, sharer' = [sharer EXCEPT ![p] = s],
         s \in [at : {"resting", "waiting", "breaking", "inside"},
                request : StoreRequests, todo : Seq(Write)],
         UNCHANGED <<keyIndex, items, kept>>
  PROVE  /\ StoreTyped' /\ sharer'[p] = s
         /\ \A q \in Sharers \ {p} : sharer'[q] = sharer[q]
BY DEF StoreTyped

\* Asking, waiting, giving up and crashing touch no file.
LEMMA StoreWaits ==
  ASSUME StoreInv,
         \/ \E p \in Sharers : \/ AskStore(p) \/ JudgeStale(p) \/ BreakLock(p) \/ GiveUp(p)
                               \/ CrashSharer(p)
         \/ LockAges \/ UNCHANGED storeVars
  PROVE  StoreInv'
<1>1. UNCHANGED <<keyIndex, items, kept, crowded>>
  BY DEF AskStore, JudgeStale, BreakLock, GiveUp, CrashSharer, LockAges, storeVars
<1>2. CASE sharer' = sharer
  BY <1>1, <1>2, QuietStore DEF StoreInv, StoreTyped, Holders
<1>3. ASSUME NEW p \in Sharers, NEW s, sharer' = [sharer EXCEPT ![p] = s],
             s \in [at : {"resting", "waiting", "breaking"}, request : StoreRequests,
                    todo : Seq(Write)]
      PROVE  StoreInv'
  BY <1>3, <1>1, SharerTyped, QuietStore DEF StoreInv, Holders
<1>4. \A p \in Sharers : sharer[p] \in [at : {"resting", "waiting", "breaking", "inside"},
                                        request : StoreRequests, todo : Seq(Write)]
  BY DEF StoreInv, StoreTyped
<1>5. Unoccupied \in [at : {"resting", "waiting", "breaking"}, request : StoreRequests,
                      todo : Seq(Write)]
  BY DEF StoreRequests, StoreKeys, Unoccupied
<1>6. ASSUME NEW p \in Sharers, GiveUp(p) \/ CrashSharer(p) PROVE StoreInv'
  BY <1>3, <1>5, <1>6 DEF GiveUp, CrashSharer
<1>7. ASSUME NEW p \in Sharers, AskStore(p) PROVE StoreInv'
  <2>1. PICK request \in StoreRequests :
          sharer' = [sharer EXCEPT ![p] = [@ EXCEPT !.at = "waiting", !.request = request]]
    BY <1>7 DEF AskStore
  <2> DEFINE s == [sharer[p] EXCEPT !.at = "waiting", !.request = request]
  <2>2. s \in [at : {"resting", "waiting", "breaking"}, request : StoreRequests,
               todo : Seq(Write)]
    BY <1>4
  <2>3. sharer' = [sharer EXCEPT ![p] = s]
    BY <2>1
  <2> HIDE DEF s
  <2> QED
    BY <1>3, <2>2, <2>3
<1>8. ASSUME NEW p \in Sharers, JudgeStale(p) \/ BreakLock(p) PROVE StoreInv'
  <2>1. PICK at \in {"breaking", "waiting"} :
          sharer' = [sharer EXCEPT ![p] = [sharer[p] EXCEPT !.at = at]]
    BY <1>8 DEF JudgeStale, BreakLock
  <2> DEFINE s == [sharer[p] EXCEPT !.at = at]
  <2>2. s \in [at : {"resting", "waiting", "breaking"}, request : StoreRequests,
               todo : Seq(Write)]
    BY <1>4
  <2>3. sharer' = [sharer EXCEPT ![p] = s]
    BY <2>1
  <2> HIDE DEF s
  <2> QED
    BY <1>3, <2>2, <2>3
<1>9. LockAges \/ UNCHANGED storeVars => sharer' = sharer
  BY DEF LockAges, storeVars
<1> QED
  BY <1>2, <1>6, <1>7, <1>8, <1>9

\* The lock admits a process where it kept the others out.
LEMMA StoreTakes == ASSUME StoreInv, NEW p \in Sharers, TakeLock(p) PROVE StoreInv'
<1>1. StoreTyped /\ sharer[p].request \in StoreRequests
  BY DEF StoreInv, StoreTyped
<1>2. PICK request \in StoreRequests, todo \in Seq(Write) :
        request = sharer[p].request /\ todo = WritesOf(request) /\ Left(request, todo)
  BY <1>1, WritesBegin
<1> DEFINE s == [sharer[p] EXCEPT !.at = "inside", !.todo = todo]
<1>3. /\ sharer' = [sharer EXCEPT ![p] = s] /\ UNCHANGED <<keyIndex, items>>
      /\ kept' = [k \in StoreKeys |-> IF k \in Touches(request)
                                      THEN kept[k] \cup {Outcome(request)} ELSE kept[k]]
      /\ crowded' = (crowded \/ Holders # {})
  BY <1>2 DEF TakeLock
<1>4. s.at = "inside" /\ s.request = request /\ s.todo = todo
  BY <1>1, <1>2 DEF StoreTyped
<1>5. s \in [at : {"resting", "waiting", "breaking", "inside"}, request : StoreRequests,
             todo : Seq(Write)]
  BY <1>1, <1>2 DEF StoreTyped
<1> HIDE DEF s
<1>6. kept' \in [StoreKeys -> SUBSET (Stored \cup {Missing})]
  BY <1>1, <1>3 DEF Outcome, StoreTyped
<1>7. sharer'[p] = s /\ \A q \in Sharers \ {p} : sharer'[q] = sharer[q]
  BY <1>1, <1>3 DEF StoreTyped
<1>8. StoreTyped'
  BY <1>1, <1>3, <1>5, <1>6 DEF StoreTyped
<1>9. ASSUME ~crowded' PROVE KeysRead' /\ OneHolder' /\ \A q \in Holders' : WritesAreSafe(q)'
  <2>1. ~crowded /\ Holders = {}
    BY <1>3, <1>9
  <2>2. Holders' = {p}
    BY <1>4, <1>7, <2>1 DEF Holders
  <2>3. KeysRead'
    BY <1>3, <2>1 DEF ToldOf, IndexKeys, Usable, Rebuilt, StoreInv, KeysRead
  <2>4. OutcomeIsKept(request)'
    BY <1>3 DEF Touches, StoreRequests, OutcomeIsKept, Outcome
  <2>5. Left(request, todo)'
    BY <1>2, <1>3, LeftKept
  <2>6. WritesAreSafe(p)'
    BY <1>4, <1>7, <2>4, <2>5 DEF WritesAreSafe
  <2> QED
    BY <2>2, <2>3, <2>6 DEF OneHolder
<1> QED
  BY <1>8, <1>9 DEF StoreInv

\* One write of the process inside, which another may be waiting to follow.
LEMMA StoreWrites == ASSUME StoreInv, NEW p \in Sharers, PerformWrite(p) PROVE StoreInv'
<1>1. /\ StoreTyped /\ sharer[p].request \in StoreRequests /\ sharer[p].todo \in Seq(Write)
      /\ sharer[p].at = "inside" /\ sharer[p].todo # <<>>
  BY DEF StoreInv, StoreTyped, PerformWrite
<1>2. PICK request \in StoreRequests, todo \in Seq(Write) :
        request = sharer[p].request /\ todo = sharer[p].todo
  BY <1>1
<1> DEFINE s == [sharer[p] EXCEPT !.todo = Tail(todo)]
<1>3. /\ ApplyWrite(Head(todo)) /\ sharer' = [sharer EXCEPT ![p] = s]
      /\ kept' = kept /\ crowded' = crowded
  BY <1>2 DEF PerformWrite
<1>4. s.at = "inside" /\ s.request = request /\ s.todo = Tail(todo)
  BY <1>1, <1>2 DEF StoreTyped
<1>5. s \in [at : {"resting", "waiting", "breaking", "inside"}, request : StoreRequests,
             todo : Seq(Write)]
  BY <1>1, <1>2, TheRest DEF StoreTyped
<1>6. /\ keyIndex' \in {NoIndex, BadIndex} \cup SUBSET StoreKeys
      /\ items' \in [StoreKeys -> Stored \cup {Missing, Corrupt}]
  BY <1>1, <1>2, <1>3, TheRest, WriteDoes
<1> HIDE DEF s
<1>7. sharer'[p] = s /\ \A q \in Sharers \ {p} : sharer'[q] = sharer[q]
  BY <1>1, <1>3 DEF StoreTyped
<1>8. StoreTyped'
  BY <1>1, <1>3, <1>5, <1>6 DEF StoreTyped
<1>9. ASSUME ~crowded' PROVE KeysRead' /\ OneHolder' /\ \A q \in Holders' : WritesAreSafe(q)'
  <2>1. KeysRead /\ OneHolder /\ p \in Holders /\ WritesAreSafe(p)
    BY <1>1, <1>3, <1>9 DEF StoreInv, Holders
  <2>2. Holders' = {p}
    BY <2>1, <1>4, <1>7 DEF OneHolder, Holders
  <2>3. OutcomeIsKept(request) /\ Left(request, todo)
    BY <1>2, <2>1 DEF WritesAreSafe
  <2>4. KeysRead' /\ Left(request, Tail(todo))'
    BY <1>1, <1>2, <1>3, <2>1, <2>3, WriteKeeps
  <2>5. OutcomeIsKept(request)'
    BY <1>3, <2>3 DEF OutcomeIsKept
  <2>6. WritesAreSafe(p)'
    BY <1>4, <1>7, <2>4, <2>5 DEF WritesAreSafe
  <2> QED
    BY <2>2, <2>4, <2>6 DEF OneHolder
<1> QED
  BY <1>8, <1>9 DEF StoreInv

\* The process inside is done, or gives up at a write that fails.
LEMMA StoreLeaves ==
  ASSUME StoreInv, NEW p \in Sharers, FinishStore(p) \/ WriteFails(p) PROVE StoreInv'
<1>1. /\ StoreTyped /\ sharer[p].request \in StoreRequests /\ sharer[p].todo \in Seq(Write)
      /\ sharer[p].at = "inside"
  BY DEF StoreInv, StoreTyped, FinishStore, WriteFails
<1>2. PICK request \in StoreRequests, todo \in Seq(Write) :
        request = sharer[p].request /\ todo = sharer[p].todo
  BY <1>1
<1>3. sharer' = [sharer EXCEPT ![p] = Unoccupied] /\ crowded' = crowded
  BY DEF FinishStore, WriteFails, Leave
<1>4. /\ Unoccupied \in [at : {"resting", "waiting", "breaking", "inside"},
                         request : StoreRequests, todo : Seq(Write)]
      /\ Unoccupied.at # "inside"
  BY DEF StoreRequests, StoreKeys, Unoccupied
<1>5. sharer'[p] = Unoccupied /\ \A q \in Sharers \ {p} : sharer'[q] = sharer[q]
  BY <1>1, <1>3 DEF StoreTyped
<1>6. /\ keyIndex' \in {NoIndex, BadIndex} \cup SUBSET StoreKeys
      /\ items' \in [StoreKeys -> Stored \cup {Missing, Corrupt}]
  BY <1>1, TheRest, WriteDoes, <1>2 DEF StoreTyped, FinishStore, WriteFails
<1>7. Outcome(request) \in Stored \cup {Missing} /\ Touches(request) \subseteq StoreKeys
  BY DEF Outcome, Touches, StoreRequests
<1>8. kept' \in [StoreKeys -> SUBSET (Stored \cup {Missing})]
  BY <1>1, <1>7, <1>2 DEF StoreTyped, FinishStore, WriteFails
<1>9. StoreTyped'
  BY <1>1, <1>3, <1>4, <1>6, <1>8 DEF StoreTyped
<1>10. ASSUME ~crowded' PROVE KeysRead' /\ OneHolder' /\ \A q \in Holders' : WritesAreSafe(q)'
  <2>1. KeysRead /\ OneHolder /\ p \in Holders /\ WritesAreSafe(p)
    BY <1>1, <1>3, <1>10 DEF StoreInv, Holders
  <2>2. Holders' = {}
    BY <2>1, <1>4, <1>5 DEF OneHolder, Holders
  <2>3. OutcomeIsKept(request) /\ Left(request, todo)
    BY <1>2, <2>1 DEF WritesAreSafe
  <2> SUFFICES KeysRead'
    BY <2>2 DEF OneHolder
  <2>4. CASE FinishStore(p)
    BY <1>2, <2>4, <1>1, <2>3, NothingLeft, <2>1 DEF FinishStore, ToldOf, IndexKeys, Usable,
       Rebuilt, KeysRead
  <2>5. CASE WriteFails(p)
    BY <1>2, <2>5, <1>1, <2>1, <2>3, WriteKeeps DEF WriteFails, KeysRead, ToldOf, IndexKeys,
       Usable, Rebuilt
  <2> QED
    BY <2>4, <2>5
<1> QED
  BY <1>9, <1>10 DEF StoreInv

\* Damage to a file is forgiven what it costs, and nothing else.
LEMMA StoreDamaged == ASSUME StoreInv, Damage PROVE StoreInv'
<1>1. StoreTyped /\ Holders = {} /\ UNCHANGED <<sharer, crowded>>
  BY DEF StoreInv, Damage
<1>2. Holders' = {}
  BY <1>1 DEF Holders
<1>3. CASE /\ keyIndex' = BadIndex /\ items' = items
           /\ kept' = [k \in StoreKeys |-> IF items[k] \in Stored
                                           THEN kept[k] \cup {items[k]} ELSE kept[k]]
  <2>1. StoreTyped'
    BY <1>1, <1>3 DEF StoreTyped
  <2>2. KeysRead => KeysRead'
    <3> SUFFICES ASSUME KeysRead, NEW k \in StoreKeys PROVE ToldOf(k)' \in kept'[k]
      BY DEF KeysRead
    <3>1. IndexKeys' = Rebuilt
      BY <1>3 DEF IndexKeys, Usable, Rebuilt
    <3>2. CASE items[k] \in Stored
      BY <1>3, <3>1, <3>2 DEF ToldOf, Rebuilt, Stored, Missing, Corrupt
    <3>3. CASE items[k] \notin Stored
      BY <3>1, <3>3, <1>1, <1>3 DEF ToldOf, Rebuilt, KeysRead, StoreTyped, Stored
    <3> QED
      BY <3>2, <3>3
  <2> QED
    BY <1>1, <1>2, <2>1, <2>2 DEF StoreInv, OneHolder
<1>4. ASSUME NEW j \in StoreKeys, items' = [items EXCEPT ![j] = Corrupt], keyIndex' = keyIndex,
             kept' = [kept EXCEPT ![j] = @ \cup {Missing}]
      PROVE  StoreInv'
  <2>1. StoreTyped'
    BY <1>1, <1>4 DEF StoreTyped
  <2>2. KeysRead => KeysRead'
    <3> SUFFICES ASSUME KeysRead, NEW k \in StoreKeys PROVE ToldOf(k)' \in kept'[k]
      BY DEF KeysRead
    <3>1. CASE k = j
      BY <1>1, <1>4, <3>1 DEF ToldOf, StoreTyped
    <3>2. CASE k # j
      BY <1>1, <1>4, <3>2 DEF StoreTyped, IndexKeys, Usable, Rebuilt, ToldOf, KeysRead
    <3> QED
      BY <3>1, <3>2
  <2> QED
    BY <1>1, <1>2, <2>1, <2>2 DEF StoreInv, OneHolder
<1> QED
  BY <1>3, <1>4 DEF Damage

\* The invariant of WebStorage holds in every reachable state.
THEOREM StoreInvHolds == StorageSpec => []StoreInv
<1>1. StoreInv /\ [StorageNext]_storeVars => StoreInv'
  BY StoreWaits, StoreTakes, StoreWrites, StoreLeaves, StoreDamaged DEF StorageNext
<1> QED
  BY <1>1, StoreInvInit, PTL DEF StorageSpec

\* A STORED VALUE IS OLD OR NEW.  While the lock has kept the processes of an identity
\* apart, every key reads as the last finished operation left it, or as one that failed
\* or crashed was to leave it, however the writes, the crashes and the breaking of a
\* stale lock fall: for any number of processes, operations and damaged files.
THEOREM StoredValuesHold == StorageSpec => []OldOrNew
<1>1. StoreInv => OldOrNew
  BY DEF StoreInv, KeysRead, OldOrNew
<1> QED
  BY <1>1, StoreInvHolds, PTL

-----------------------------------------------------------------------------
(* CanvasDrawing: a canvas shows what was drawn on it                       *)

\* The styles a context may have, and those a mark or a layer may carry.
Styles == {"plain", "faint", "copy"}
Inks == Styles \cup {"put", "out"}

\* The layers a batch opens, the marks and all the commands.
ClipLayers == [op : {"clip"}, clip : Nat]
BlendLayers == [op : {"layer"}, style : Inks]
Layers == ClipLayers \cup BlendLayers
MarkCommands == [op : {"mark"}, id : Nat, style : Inks]
Commands == Layers \cup MarkCommands \cup [op : {"pop"}] \cup [op : {"reset"}]

\* What the renderer goes on with: the scene, and the layers that are open.
Records == [id : Nat, style : Inks, under : Seq(ClipLayers)]
Renderings == [scene : Seq(Records), destructive : BOOLEAN, refused : BOOLEAN,
               open : Seq(Layers)]

\* What is kept of the open layers has the types of its kind.
LEMMA LayersOfAKind ==
  ASSUME NEW open \in Seq(Layers)
  PROVE  Clips(open) \in Seq(ClipLayers) /\ Blends(open) \in Seq(BlendLayers)
<1>1. ASSUME NEW K, NEW Kind, \A layer \in Layers : layer \in K => layer \in Kind
      PROVE  ItemsIn(open, K) \in Seq(Kind)
  <2>1. ItemsIn(open, K) \in Seq(Layers) /\ Kept(ItemsIn(open, K), open, K)
    BY ItemsAreKept
  <2> DEFINE r == ItemsIn(open, K)
  <2> HIDE DEF r
  <2>2. r \in Seq(Layers) /\ \A i \in DOMAIN r : r[i] \in K
    BY <2>1 DEF Kept, r
  <2>3. \A i \in DOMAIN r : r[i] \in Kind
    BY <2>2, <1>1
  <2>4. r \in Seq(Kind)
    BY <2>2, <2>3
  <2>5. QED BY <2>4 DEF r
<1>2. \A layer \in Layers : IsClip(layer) => layer \in ClipLayers
  BY DEF Layers, ClipLayers, BlendLayers, IsClip
<1>3. \A layer \in Layers : ~IsClip(layer) => layer \in BlendLayers
  BY DEF Layers, ClipLayers, BlendLayers, IsClip
<1>4. QED BY <1>1, <1>2, <1>3 DEF Clips, Blends

\* A list without its last item is a list of the same.
LEMMA FrontIs ==
  ASSUME NEW S, NEW s \in Seq(S), s # <<>>
  PROVE  /\ Front(s) \in Seq(S) /\ Len(Front(s)) = Len(s) - 1 /\ Last(s) \in S
         /\ Front(s) = SubSeq(s, 1, Len(s) - 1) /\ Last(s) = s[Len(s)]
<1>1. Front(s) = SubSeq(s, 1, Len(s) - 1) /\ Last(s) = s[Len(s)]
  BY DEF Front, Last
<1>2. Len(s) \in Nat \ {0}
  OBVIOUS
<1>3. SubSeq(s, 1, Len(s) - 1) \in Seq(S) /\ Len(SubSeq(s, 1, Len(s) - 1)) = Len(s) - 1
  <2>1. \A i \in 1 .. (Len(s) - 1) : s[i] \in S
    OBVIOUS
  <2>2. s \in Seq(S) /\ 1 \in Int /\ Len(s) - 1 \in Int
    BY <1>2
  <2>4. /\ SubSeq(s, 1, Len(s) - 1) \in Seq(S)
        /\ Len(SubSeq(s, 1, Len(s) - 1)) = IF 1 <= Len(s) - 1 THEN (Len(s) - 1) - 1 + 1 ELSE 0
    BY <2>1, <2>2, SubSeqProperties
  <2> DEFINE f == SubSeq(s, 1, Len(s) - 1)
             n == Len(s)
  <2> HIDE DEF f, n
  <2>5. f \in Seq(S) /\ Len(f) = (IF 1 <= n - 1 THEN (n - 1) - 1 + 1 ELSE 0) /\ n \in Nat \ {0}
    BY <1>2, <2>4 DEF f, n
  <2>6. Len(f) = n - 1
    BY <2>5
  <2>3. QED BY <2>5, <2>6 DEF f, n
<1>4. s[Len(s)] \in S
  BY <1>2
<1>5. QED BY <1>1, <1>3, <1>4

\* What is recorded is a record.
LEMMA RecordIs ==
  ASSUME NEW a \in Renderings, NEW c \in MarkCommands
  PROVE  Record(a, c) \in Records
<1>1. a.open \in Seq(Layers) /\ c.id \in Nat /\ c.style \in Inks
  BY DEF Renderings, MarkCommands
<1>2. Clips(a.open) \in Seq(ClipLayers) /\ Blends(a.open) \in Seq(BlendLayers)
  BY <1>1, LayersOfAKind
<1>3. Composite(a.open, c.style) \in Inks
  <2>1. CASE Blends(a.open) = <<>>
    BY <2>1, <1>1 DEF Composite
  <2>2. CASE Blends(a.open) # <<>>
    <3>1. Last(Blends(a.open)) \in BlendLayers
      BY <2>2, <1>2, FrontIs
    <3>2. QED BY <2>2, <3>1 DEF Composite, BlendLayers
  <2>3. QED BY <2>1, <2>2
<1>4. QED BY <1>1, <1>2, <1>3 DEF Record, Records

\* Each command makes a rendering of a rendering.
LEMMA ReplayIs ==
  ASSUME NEW a \in Renderings, NEW c \in Commands
  PROVE  Replay(a, c) \in Renderings
<1>1. CASE c \in MarkCommands
  <2>1. Record(a, c) \in Records
    BY <1>1, RecordIs
  <2>2. Replay(a, c) = [a EXCEPT !.scene = Append(@, Record(a, c))]
    BY <1>1 DEF Replay, Marked, MarkCommands
  <2>3. Append(a.scene, Record(a, c)) \in Seq(Records)
    BY <2>1 DEF Renderings
  <2> HIDE DEF Records
  <2>4. QED BY <2>2, <2>3 DEF Renderings
<1>2. CASE c \in ClipLayers
  <2>1. Replay(a, c) = [a EXCEPT !.open = Append(@, c)] /\ c \in Layers
    BY <1>2 DEF Replay, ClipLayers, Layers
  <2>2. Append(a.open, c) \in Seq(Layers)
    BY <2>1 DEF Renderings
  <2>3. QED BY <2>1, <2>2 DEF Renderings
<1>3. CASE c \in BlendLayers
  <2>1. /\ Replay(a, c) = [a EXCEPT !.open = Append(@, c), !.destructive = @ \/ c.style = "copy"]
        /\ c \in Layers
    BY <1>3 DEF Replay, BlendLayers, Layers
  <2>2. (a.destructive \/ c.style = "copy") \in BOOLEAN
    OBVIOUS
  <2>3. Append(a.open, c) \in Seq(Layers)
    BY <2>1 DEF Renderings
  <2>4. QED BY <2>1, <2>2, <2>3 DEF Renderings
<1>4. CASE c \in [op : {"pop"}]
  BY <1>4, FrontIs DEF Replay, Renderings
<1>5. CASE c \in [op : {"reset"}]
  <2>1. Replay(a, c) = [a EXCEPT !.scene = <<>>, !.destructive = FALSE]
    BY <1>5 DEF Replay
  <2>2. <<>> \in Seq(Records)
    OBVIOUS
  <2>3. QED BY <2>1, <2>2 DEF Renderings
<1>6. QED BY <1>1, <1>2, <1>3, <1>4, <1>5 DEF Commands, Layers

\* A batch is replayed one command after the other.
Rendered(base, s) == FoldLeft(Replay, base, s)

\* One after the other: h tells what there is after each.
ReplayTurns(h, D, base, s) ==
  /\ h \in [0 .. Len(s) -> D] /\ h[0] = base /\ h[Len(s)] = Rendered(base, s)
  /\ \A k \in 1 .. Len(s) : h[k] = Replay(h[k - 1], s[k])

\* A batch is replayed one command after the other.
LEMMA ReplayTurnsExist ==
  ASSUME NEW D, NEW base \in D, NEW X, NEW s \in Seq(X),
         \A a \in D, x \in X : Replay(a, x) \in D
  PROVE  \E h : ReplayTurns(h, D, base, s)
<1> DEFINE n == Len(s)
           G == [p \in D \X (1 .. n) |-> Replay(p[1], s[p[2]])]
           Then(f, t) == Replay(f[t \ {Max(t)}], s[Max(t)])
           c == CHOOSE f : f = [t \in SUBSET (DOMAIN s) |-> IF t = {} THEN base ELSE Then(f, t)]
<1>1. n \in Nat /\ DOMAIN s = 1 .. n /\ \A i \in 1 .. n : s[i] \in X
  OBVIOUS
<1>2. ASSUME NEW a \in D, NEW i \in 1 .. n
      PROVE  G[<<a, i>>] = Replay(a, s[i]) /\ G[<<a, i>>] \in D
  BY <1>1
<1>3. G \in [D \X (1 .. n) -> D]
  BY <1>1
<1>4. PICK it \in [SUBSET (1 .. n) -> D] : Folding(it, n, base, G)
  <2> HIDE DEF G, n
  <2>1. QED BY <1>1, <1>3, FoldExists
<1>5. ASSUME NEW t \in SUBSET (1 .. n), t # {}
      PROVE  Max(t) \in 1 .. n /\ t \ {Max(t)} \in SUBSET (1 .. n)
  BY <1>1, <1>5, LargestIsIn
<1>6. it = [t \in SUBSET (DOMAIN s) |-> IF t = {} THEN base ELSE Then(it, t)]
  <2>1. ASSUME NEW t \in SUBSET (1 .. n) PROVE it[t] = IF t = {} THEN base ELSE Then(it, t)
    <3>1. CASE t = {}
      BY <3>1, <1>4 DEF Folding
    <3>2. CASE t # {}
      <4> HIDE DEF G
      <4>1. Max(t) \in 1 .. n /\ it[t \ {Max(t)}] \in D
        BY <3>2, <1>4, <1>5
      <4>2. it[t] = G[<<it[t \ {Max(t)}], Max(t)>>]
        BY <3>2, <1>4 DEF Folding
      <4>3. QED BY <3>2, <4>1, <4>2, <1>2
    <3>3. QED BY <3>1, <3>2
  <2> HIDE DEF Then
  <2>2. QED BY <2>1, <1>1, <1>4
<1>7. c = [t \in SUBSET (DOMAIN s) |-> IF t = {} THEN base ELSE Then(c, t)]
  <2> HIDE DEF Then
  <2>1. QED BY <1>6
<1>8. Rendered(base, s) = c[1 .. n]
  BY <1>1 DEF Rendered, FoldLeft, MapThenFoldSet
<1>9. PICK h \in [0 .. n -> D] : h[n] = c[1 .. n] /\ Stepping(h, n, base, G)
  <2>1. FoldingIn(c, n, D, base, G)
    <3>1. c[{}] = base
      <4> HIDE DEF c, Then
      <4>1. {} \in SUBSET (DOMAIN s)
        OBVIOUS
      <4>2. QED BY <1>7, <4>1
    <3>2. ASSUME NEW t \in SUBSET (1 .. n), t # {}, c[t \ {Max(t)}] \in D
          PROVE  c[t] = G[<<c[t \ {Max(t)}], Max(t)>>]
      <4> HIDE DEF G, c
      <4>1. c[t] = Then(c, t)
        <5> HIDE DEF Then
        <5>1. QED BY <1>1, <1>7, <3>2
      <4>2. Max(t) \in 1 .. n
        BY <1>5, <3>2
      <4>3. QED BY <1>2, <3>2, <4>1, <4>2
    <3>3. QED BY <3>1, <3>2 DEF FoldingIn
  <2> HIDE DEF G, n, c
  <2>2. QED BY <2>1, <1>1, <1>3, FoldSteps
<1>10. ASSUME NEW k \in 1 .. n PROVE h[k] = Replay(h[k - 1], s[k])
  <2> HIDE DEF G, c
  <2>1. h[k] = G[<<h[k - 1], k>>] /\ k - 1 \in 0 .. n
    BY <1>1, <1>9 DEF Stepping
  <2>2. QED BY <2>1, <1>2
<1>11. h[0] = base /\ h[n] = Rendered(base, s)
  <2>1. h[n] = Rendered(base, s)
    BY <1>8, <1>9
  <2> HIDE DEF G, c
  <2>2. h[0] = base
    BY <1>9 DEF Stepping
  <2>3. QED BY <2>1, <2>2
<1>12. ReplayTurns(h, D, base, s)
  <2> HIDE DEF G, c
  <2>1. QED BY <1>9, <1>10, <1>11 DEF ReplayTurns
<1>13. QED BY <1>12

\* The renderer goes on with a batch where it left off.
LEMMA ReplayGoesOn ==
  ASSUME NEW b \in Renderings, NEW s \in Seq(Commands), NEW t \in Seq(Commands)
  PROVE  Rendered(b, s) \in Renderings /\ Rendered(b, s \o t) = Rendered(Rendered(b, s), t)
<1> DEFINE D == Renderings
           m == Len(s)
           n == Len(t)
           u == s \o t
<1>1. /\ m \in Nat /\ n \in Nat /\ u \in Seq(Commands) /\ Len(u) = m + n
      /\ \A k \in 1 .. m : u[k] = s[k] /\ k \in 1 .. (m + n)
      /\ \A k \in 1 .. n : u[m + k] = t[k] /\ m + k \in 1 .. (m + n)
  OBVIOUS
<1>2. \A a \in D, x \in Commands : Replay(a, x) \in D
  BY ReplayIs
<1>3. PICK g : ReplayTurns(g, D, b, s)
  BY <1>2, ReplayTurnsExist
<1>4. Rendered(b, s) \in D /\ g[m] = Rendered(b, s)
  BY <1>1, <1>3 DEF ReplayTurns
<1>5. PICK j : ReplayTurns(j, D, Rendered(b, s), t)
  BY <1>2, <1>4, ReplayTurnsExist
<1>6. PICK h : ReplayTurns(h, D, b, u)
  BY <1>1, <1>2, ReplayTurnsExist
<1> HIDE DEF D, m, n, u
<1>7. /\ g[0] = b /\ h[0] = b /\ j[0] = Rendered(b, s)
      /\ h[m + n] = Rendered(b, u) /\ j[n] = Rendered(Rendered(b, s), t)
      /\ \A k \in 1 .. m : g[k] = Replay(g[k - 1], s[k])
      /\ \A k \in 1 .. n : j[k] = Replay(j[k - 1], t[k])
      /\ \A k \in 1 .. (m + n) : h[k] = Replay(h[k - 1], u[k])
  BY <1>1, <1>3, <1>5, <1>6 DEF ReplayTurns, m, n
<1>8. h[m] = g[m]
  <2> DEFINE T == {k \in 0 .. m : h[k] = g[k]}
  <2>1. 0 \in T
    BY <1>1, <1>7
  <2>2. ASSUME NEW k \in 1 .. m, k - 1 \in T PROVE k \in T
    BY <1>1, <1>7, <2>2
  <2> HIDE DEF T
  <2>3. \A k \in 0 .. m : k \in T
    BY <1>1, <2>1, <2>2, StepsStay
  <2>4. m \in 0 .. m
    BY <1>1
  <2>5. QED BY <2>3, <2>4 DEF T
<1>9. h[m + n] = j[n]
  <2> DEFINE T == {k \in 0 .. n : h[m + k] = j[k]}
  <2>1. 0 \in T
    BY <1>1, <1>4, <1>7, <1>8
  <2>2. ASSUME NEW k \in 1 .. n, k - 1 \in T PROVE k \in T
    BY <1>1, <1>7, <2>2
  <2> HIDE DEF T
  <2>3. \A k \in 0 .. n : k \in T
    BY <1>1, <2>1, <2>2, StepsStay
  <2>4. n \in 0 .. n
    BY <1>1
  <2>5. QED BY <2>3, <2>4 DEF T
<1>10. QED BY <1>4, <1>7, <1>9 DEF D, u

\* No command and one command.
LEMMA ReplayOne ==
  ASSUME NEW b \in Renderings, NEW c \in Commands
  PROVE  Rendered(b, <<>>) = b /\ Rendered(b, <<c>>) = Replay(b, c)
<1>1. \A a \in Renderings, x \in Commands : Replay(a, x) \in Renderings
  BY ReplayIs
<1>2. <<>> \in Seq(Commands) /\ Len(<<>>) = 0
  OBVIOUS
<1>3. <<c>> \in Seq(Commands) /\ Len(<<c>>) = 1 /\ <<c>>[1] = c
  OBVIOUS
<1>4. PICK g : ReplayTurns(g, Renderings, b, <<>>)
  BY <1>1, <1>2, ReplayTurnsExist
<1>5. PICK h : ReplayTurns(h, Renderings, b, <<c>>)
  BY <1>1, <1>3, ReplayTurnsExist
<1>6. Rendered(b, <<>>) = b
  BY <1>2, <1>4 DEF ReplayTurns
<1>7. h[0] = b /\ h[1] = Rendered(b, <<c>>) /\ h[1] = Replay(h[1 - 1], <<c>>[1])
  BY <1>3, <1>5 DEF ReplayTurns
<1>8. QED BY <1>3, <1>6, <1>7


\* The layers of the first k clips.
Opened(list, k) == [i \in 1 .. k |-> PushClip(list[i])]

\* One clip more, and one less.
LEMMA OpenedIs ==
  ASSUME NEW list \in Seq(Nat), NEW k \in 0 .. Len(list)
  PROVE  /\ Opened(list, k) \in Seq(ClipLayers) /\ Opened(list, k) \in Seq(Layers)
         /\ Len(Opened(list, k)) = k /\ Opened(list, 0) = <<>>
         /\ k < Len(list) => /\ PushClip(list[k + 1]) \in ClipLayers
                             /\ Append(Opened(list, k), PushClip(list[k + 1])) = Opened(list, k + 1)
         /\ k > 0 => Opened(list, k) # <<>> /\ Front(Opened(list, k)) = Opened(list, k - 1)
<1>1. \A i \in 1 .. Len(list) : PushClip(list[i]) \in ClipLayers
  BY DEF PushClip, ClipLayers
<1>2. \A i \in 1 .. k : i \in 1 .. Len(list)
  OBVIOUS
<1> HIDE DEF PushClip
<1>3. Opened(list, k) \in Seq(ClipLayers) /\ Len(Opened(list, k)) = k
  BY <1>1, <1>2 DEF Opened
<1>4. ClipLayers \subseteq Layers
  BY DEF Layers
<1>5. Opened(list, k) \in Seq(Layers)
  BY <1>3, <1>4
<1>6. Opened(list, 0) = <<>>
  BY DEF Opened
<1>7. ASSUME k < Len(list)
      PROVE  /\ PushClip(list[k + 1]) \in ClipLayers
             /\ Append(Opened(list, k), PushClip(list[k + 1])) = Opened(list, k + 1)
  <2>1. k + 1 \in 1 .. Len(list)
    BY <1>7
  <2>2. PushClip(list[k + 1]) \in ClipLayers
    BY <1>1, <2>1
  <2>3. /\ Append(Opened(list, k), PushClip(list[k + 1])) \in Seq(ClipLayers)
        /\ Len(Append(Opened(list, k), PushClip(list[k + 1]))) = k + 1
        /\ \A i \in 1 .. k : Append(Opened(list, k), PushClip(list[k + 1]))[i] = PushClip(list[i])
        /\ Append(Opened(list, k), PushClip(list[k + 1]))[k + 1] = PushClip(list[k + 1])
    BY <1>3, <2>2, AppendProperties DEF Opened
  <2>4. Opened(list, k + 1) \in Seq(ClipLayers) /\ Len(Opened(list, k + 1)) = k + 1
    BY <1>1, <2>1 DEF Opened
  <2>5. \A i \in 1 .. (k + 1) : Opened(list, k + 1)[i] = PushClip(list[i])
    BY DEF Opened
  <2> HIDE DEF Opened
  <2> DEFINE a == Append(Opened(list, k), PushClip(list[k + 1]))
  <2>6. \A i \in 1 .. (k + 1) : a[i] = Opened(list, k + 1)[i]
    BY <2>3, <2>5
  <2> HIDE DEF a
  <2>7. a = Opened(list, k + 1)
    BY <2>3, <2>4, <2>6, SeqEqual DEF a
  <2>8. QED BY <2>2, <2>7 DEF a
<1>8. ASSUME k > 0 PROVE Opened(list, k) # <<>> /\ Front(Opened(list, k)) = Opened(list, k - 1)
  <2>1. Opened(list, k) # <<>>
    BY <1>3, <1>8
  <2>2. Front(Opened(list, k)) = [i \in 1 .. (k - 1) |-> Opened(list, k)[i]]
    <3>1. Front(Opened(list, k)) = SubSeq(Opened(list, k), 1, k - 1)
      BY <1>3, <2>1, FrontIs
    <3>2. SubSeq(Opened(list, k), 1, k - 1) = [i \in 1 .. (k - 1) |-> Opened(list, k)[i]]
      BY <1>3
    <3>3. QED BY <3>1, <3>2
  <2>3. \A i \in 1 .. (k - 1) : Opened(list, k)[i] = PushClip(list[i])
    BY DEF Opened
  <2>4. QED BY <2>1, <2>2, <2>3 DEF Opened
<1>9. QED BY <1>3, <1>5, <1>6, <1>7, <1>8

\* Under clips alone nothing composites; a layer above them does, and lies under them.
LEMMA UnderTheClips ==
  ASSUME NEW list \in Seq(Nat), NEW k \in 0 .. Len(list), NEW layer \in BlendLayers
  PROVE  /\ Clips(Opened(list, k)) = Opened(list, k) /\ Blends(Opened(list, k)) = <<>>
         /\ Clips(Append(Opened(list, k), layer)) = Opened(list, k)
         /\ Blends(Append(Opened(list, k), layer)) = <<layer>>
         /\ Append(Opened(list, k), layer) \in Seq(Layers)
         /\ Append(Opened(list, k), layer) # <<>>
         /\ Front(Append(Opened(list, k), layer)) = Opened(list, k)
<1> DEFINE o == Opened(list, k)
           a == Append(o, layer)
<1>1. o \in Seq(ClipLayers) /\ o \in Seq(Layers) /\ Len(o) = k /\ k \in Nat
  BY OpenedIs
<1>2. layer \in Layers /\ ~IsClip(layer)
  BY DEF Layers, BlendLayers, IsClip
<1>3. /\ a \in Seq(Layers) /\ Len(a) = k + 1 /\ a[k + 1] = layer
      /\ \A i \in 1 .. k : a[i] = o[i]
  <2> HIDE DEF o
  <2>1. QED BY <1>1, <1>2, AppendProperties
<1>4. \A i \in 1 .. k : IsClip(o[i])
  <2> HIDE DEF o
  <2>1. \A i \in 1 .. k : o[i] \in ClipLayers
    BY <1>1
  <2>2. QED BY <2>1 DEF ClipLayers, IsClip
<1> HIDE DEF o, a
<1>5. /\ DOMAIN o = 1 .. k /\ DOMAIN a = 1 .. (k + 1)
      /\ \A i \in 1 .. (k + 1) : i \in 1 .. k \/ i = k + 1
      /\ k \in 0 .. k /\ 0 \in 0 .. k /\ k \in 0 .. (k + 1)
  BY <1>1, <1>3
<1>6. SubSeq(o, 1, k) = o /\ SubSeq(o, 1, 0) = <<>> /\ SubSeq(a, 1, k) = o
  BY <1>1, SubSeqFull, SubSeqEmpty, <1>3
<1>7. Clips(o) = o
  <2> DEFINE K == {l \in Range(o) : IsClip(l)}
  <2>1. \A i \in 1 .. Len(o) : o[i] \in K <=> i <= k
    BY <1>1, <1>4, <1>5 DEF Range
  <2> HIDE DEF K
  <2>2. ItemsIn(o, K) = SubSeq(o, 1, k)
    BY <2>1, <1>1, <1>5, FirstAreKept
  <2>3. QED BY <2>2, <1>6 DEF Clips, K
<1>8. Blends(o) = <<>>
  <2> DEFINE K == {l \in Range(o) : ~IsClip(l)}
  <2>1. \A i \in 1 .. Len(o) : o[i] \in K <=> i <= 0
    BY <1>1, <1>4, <1>5 DEF Range
  <2> HIDE DEF K
  <2>2. ItemsIn(o, K) = SubSeq(o, 1, 0)
    BY <2>1, <1>1, <1>5, FirstAreKept
  <2>3. QED BY <2>2, <1>6 DEF Blends, K
<1>9. Clips(a) = o
  <2> DEFINE K == {l \in Range(a) : IsClip(l)}
  <2>1. ASSUME NEW i \in 1 .. (k + 1) PROVE a[i] \in K <=> i <= k
    <3>1. CASE i \in 1 .. k
      BY <3>1, <1>3, <1>4, <1>5 DEF Range
    <3>2. CASE i = k + 1
      BY <3>2, <1>2, <1>3, <1>1
    <3>3. QED BY <3>1, <3>2, <1>5
  <2> HIDE DEF K
  <2>2. ItemsIn(a, K) = SubSeq(a, 1, k)
    BY <2>1, <1>3, <1>5, FirstAreKept
  <2>3. QED BY <2>2, <1>6 DEF Clips, K
<1>10. Blends(a) = <<layer>>
  <2> DEFINE K == {l \in Range(a) : ~IsClip(l)}
  <2>1. ASSUME NEW i \in 1 .. (k + 1) PROVE a[i] \in K <=> i = k + 1
    BY <1>3, <1>4, <1>2, <1>5 DEF Range
  <2> HIDE DEF K
  <2>2. ItemsIn(a, K) = <<a[Len(a)]>>
    BY <1>1, <1>3, <2>1, LastIsKept
  <2>3. QED BY <2>2, <1>3 DEF Blends, K
<1>11. a # <<>> /\ Front(a) = o
  <2>1. a # <<>>
    BY <1>1, <1>3
  <2>4. Front(a) = SubSeq(a, 1, Len(a) - 1)
    BY <2>1, <1>3, FrontIs
  <2>2. Front(a) = SubSeq(a, 1, k)
    BY <1>1, <1>3, <2>4
  <2>3. QED BY <2>1, <2>2, <1>6
<1>12. QED BY <1>3, <1>7, <1>8, <1>9, <1>10, <1>11 DEF a, o

\* Layers that are closed again, the last one first.
LEMMA PopsClose ==
  ASSUME NEW b \in Renderings, NEW list \in Seq(Nat), NEW k \in 0 .. Len(list), NEW n \in 0 .. k,
         b.open = Opened(list, k)
  PROVE  /\ PopLayers(n) \in Seq(Commands)
         /\ Rendered(b, PopLayers(n)) = [b EXCEPT !.open = Opened(list, k - n)]
<1> DEFINE s == PopLayers(n)
<1>1. s \in Seq(Commands) /\ Len(s) = n /\ \A i \in 1 .. n : s[i] = [op |-> "pop"]
  BY DEF Commands, PopLayers
<1>2. \A a \in Renderings, x \in Commands : Replay(a, x) \in Renderings
  BY ReplayIs
<1> HIDE DEF s
<1>3. PICK h : ReplayTurns(h, Renderings, b, s)
  BY <1>1, <1>2, ReplayTurnsExist
<1>4. /\ h[0] = b /\ h[n] = Rendered(b, s)
      /\ \A i \in 1 .. n : h[i] = Replay(h[i - 1], [op |-> "pop"])
  BY <1>1, <1>3 DEF ReplayTurns
<1> DEFINE T == {i \in 0 .. n : h[i] = [b EXCEPT !.open = Opened(list, k - i)]}
<1>5. 0 \in T
  BY <1>4 DEF Renderings
<1>6. ASSUME NEW i \in 1 .. n, i - 1 \in T PROVE i \in T
  <2>1. h[i] = Replay([b EXCEPT !.open = Opened(list, k - (i - 1))], [op |-> "pop"])
    BY <1>4, <1>6
  <2>2. k - (i - 1) \in 0 .. Len(list) /\ k - (i - 1) > 0 /\ (k - (i - 1)) - 1 = k - i
    OBVIOUS
  <2>3. /\ Opened(list, k - (i - 1)) # <<>>
        /\ Front(Opened(list, k - (i - 1))) = Opened(list, k - i)
    BY <2>2, OpenedIs
  <2>4. h[i] = [b EXCEPT !.open = Opened(list, k - i)]
    BY <2>1, <2>3 DEF Replay, Renderings
  <2>5. QED BY <2>4
<1>7. n \in T
  <2>1. n \in Nat /\ n \in 0 .. n
    OBVIOUS
  <2> HIDE DEF T
  <2>2. \A i \in 0 .. n : i \in T
    BY <2>1, <1>5, <1>6, StepsStay
  <2>3. QED BY <2>1, <2>2
<1>8. QED BY <1>1, <1>4, <1>7 DEF s

\* Clips that are opened, the one after the other.
LEMMA ClipsOpen ==
  ASSUME NEW b \in Renderings, NEW list \in Seq(Nat), NEW k \in 0 .. Len(list),
         b.open = Opened(list, k)
  PROVE  /\ [i \in 1 .. (Len(list) - k) |-> PushClip(list[k + i])] \in Seq(Commands)
         /\ Rendered(b, [i \in 1 .. (Len(list) - k) |-> PushClip(list[k + i])])
              = [b EXCEPT !.open = Opened(list, Len(list))]
<1> DEFINE n == Len(list) - k
           s == [i \in 1 .. n |-> PushClip(list[k + i])]
<1>0. n \in Nat /\ k + n = Len(list)
  OBVIOUS
<1>1. s \in Seq(Commands) /\ Len(s) = n /\ \A i \in 1 .. n : s[i] = PushClip(list[k + i])
  <2>1. \A i \in 1 .. n : PushClip(list[k + i]) \in Commands
    BY DEF Commands, Layers, ClipLayers, PushClip
  <2> HIDE DEF n, PushClip
  <2>2. s \in [1 .. n -> Commands]
    BY <2>1
  <2>3. s \in Seq(Commands)
    <3> HIDE DEF s
    <3>1. QED BY <2>2, <1>0
  <2>4. Len(s) = n /\ DOMAIN s = 1 .. n
    <3>1. DOMAIN s = 1 .. n
      OBVIOUS
    <3> HIDE DEF s
    <3>2. DOMAIN s = 1 .. Len(s) /\ Len(s) \in Nat
      BY <2>3
    <3>3. QED BY <1>0, <3>1, <3>2
  <2>5. \A i \in 1 .. n : s[i] = PushClip(list[k + i])
    OBVIOUS
  <2>6. QED BY <2>3, <2>4, <2>5
<1>2. \A a \in Renderings, x \in Commands : Replay(a, x) \in Renderings
  BY ReplayIs
<1> HIDE DEF s
<1>3. PICK h : ReplayTurns(h, Renderings, b, s)
  BY <1>1, <1>2, ReplayTurnsExist
<1> HIDE DEF n
<1>4. /\ h[0] = b /\ h[n] = Rendered(b, s)
      /\ \A i \in 1 .. n : h[i] = Replay(h[i - 1], PushClip(list[k + i]))
  BY <1>1, <1>3 DEF ReplayTurns
<1> DEFINE T == {i \in 0 .. n : h[i] = [b EXCEPT !.open = Opened(list, k + i)]}
<1>5. 0 \in T
  BY <1>4, <1>0 DEF Renderings
<1>6. ASSUME NEW i \in 1 .. n, i - 1 \in T PROVE i \in T
  <2>1. h[i] = Replay([b EXCEPT !.open = Opened(list, k + (i - 1))], PushClip(list[k + i]))
    BY <1>4, <1>6
  <2>2. k + (i - 1) \in 0 .. Len(list) /\ k + (i - 1) < Len(list) /\ (k + (i - 1)) + 1 = k + i
    BY <1>0
  <2>3. Append(Opened(list, k + (i - 1)), PushClip(list[k + i])) = Opened(list, k + i)
    BY <2>2, OpenedIs
  <2>4. h[i] = [b EXCEPT !.open = Opened(list, k + i)]
    BY <2>1, <2>3 DEF Replay, Renderings, PushClip
  <2>5. QED BY <2>4
<1>7. n \in T
  <2>1. n \in 0 .. n
    BY <1>0
  <2> HIDE DEF T
  <2>2. \A i \in 0 .. n : i \in T
    BY <1>0, <1>5, <1>6, StepsStay
  <2>3. QED BY <2>1, <2>2
<1>8. QED BY <1>0, <1>1, <1>4, <1>7 DEF s, n


\* What is painted of a scene, without the layers it was recorded in.
Shown(scene) ==
  [i \in DOMAIN scene |-> [scene[i] EXCEPT !.under = [j \in DOMAIN @ |-> @[j].clip]]]

Pictured == [id : Nat, style : Inks, under : Seq(Nat)]

\* A record more is a mark more.
LEMMA ShownGains ==
  ASSUME NEW scene \in Seq(Records), NEW list \in Seq(Nat), NEW k \in 0 .. Len(list),
         NEW id \in Nat, NEW style \in Inks
  PROVE  /\ [id |-> id, style |-> style, under |-> Opened(list, k)] \in Records
         /\ [id |-> id, style |-> style, under |-> SubSeq(list, 1, k)] \in Pictured
         /\ Shown(Append(scene, [id |-> id, style |-> style, under |-> Opened(list, k)]))
              = Append(Shown(scene), [id |-> id, style |-> style, under |-> SubSeq(list, 1, k)])
<1> DEFINE e == [id |-> id, style |-> style, under |-> Opened(list, k)]
           p == [id |-> id, style |-> style, under |-> SubSeq(list, 1, k)]
           One(x) == [x EXCEPT !.under = [j \in DOMAIN @ |-> @[j].clip]]
           a == Append(scene, e)
           n == Len(scene)
<1>1. Opened(list, k) \in Seq(ClipLayers) /\ Len(Opened(list, k)) = k /\ k \in Nat
  BY OpenedIs
<1>2. e \in Records
  BY <1>1 DEF Records
<1>3. SubSeq(list, 1, k) = [j \in 1 .. k |-> list[j]] /\ SubSeq(list, 1, k) \in Seq(Nat)
  OBVIOUS
<1>4. p \in Pictured
  BY <1>3 DEF Pictured
<1>5. One(e) = p
  <2>1. DOMAIN Opened(list, k) = 1 .. k /\ \A j \in 1 .. k : Opened(list, k)[j].clip = list[j]
    BY DEF Opened, PushClip
  <2>2. [j \in DOMAIN Opened(list, k) |-> Opened(list, k)[j].clip] = [j \in 1 .. k |-> list[j]]
    BY <2>1
  <2> DEFINE f == [j \in DOMAIN e.under |-> e.under[j].clip]
  <2>3. One(e) = [e EXCEPT !.under = f]
    OBVIOUS
  <2>4. f = SubSeq(list, 1, k)
    BY <2>2, <1>3
  <2> HIDE DEF f
  <2>5. [e EXCEPT !.under = f] = [id |-> id, style |-> style, under |-> f]
    OBVIOUS
  <2> HIDE DEF One, e
  <2>6. QED BY <2>3, <2>4, <2>5
<1>6. /\ n \in Nat /\ DOMAIN scene = 1 .. n /\ DOMAIN a = 1 .. (n + 1)
      /\ \A i \in 1 .. n : a[i] = scene[i]
      /\ a[n + 1] = e /\ \A i \in 1 .. (n + 1) : i \in 1 .. n \/ i = n + 1
  <2> HIDE DEF e
  <2>1. a \in Seq(Records) /\ Len(a) = n + 1
    BY <1>2
  <2>2. QED BY <1>2, <2>1
<1> HIDE DEF e, p, One, a
<1>7. \A x : Shown(x) = [i \in DOMAIN x |-> One(x[i])]
  BY DEF Shown, One
<1>8. Shown(scene) = [i \in 1 .. n |-> One(scene[i])]
  BY <1>6, <1>7
<1>9. Shown(a) = [i \in 1 .. (n + 1) |-> One(a[i])]
  BY <1>6, <1>7
<1> DEFINE v == Shown(scene)
<1> HIDE DEF n
<1>10. Append(v, p) = [i \in 1 .. (n + 1) |-> IF i = n + 1 THEN p ELSE v[i]]
  <2> DEFINE V == {One(scene[i]) : i \in 1 .. n} \cup {p}
  <2>1. v = [i \in 1 .. n |-> v[i]] /\ \A i \in 1 .. n : v[i] \in V
    BY <1>8
  <2>2. p \in V
    OBVIOUS
  <2> HIDE DEF v, V
  <2>3. v \in Seq(V) /\ Len(v) = n
    BY <2>1, <1>6
  <2> DEFINE w == Append(v, p)
  <2>4. /\ w \in Seq(V) /\ Len(w) = n + 1 /\ w[n + 1] = p
        /\ \A i \in 1 .. n : w[i] = v[i]
    BY <2>2, <2>3, AppendProperties
  <2> HIDE DEF w
  <2>5. w = [i \in 1 .. (n + 1) |-> w[i]]
    BY <2>4
  <2>6. \A i \in 1 .. (n + 1) : w[i] = IF i = n + 1 THEN p ELSE v[i]
    BY <2>4, <1>6
  <2>7. w = [i \in 1 .. (n + 1) |-> IF i = n + 1 THEN p ELSE v[i]]
    BY <2>5, <2>6
  <2>8. QED BY <2>7 DEF w
<1>11. \A i \in 1 .. (n + 1) : One(a[i]) = IF i = n + 1 THEN p ELSE v[i]
  <2>1. \A i \in 1 .. n : v[i] = One(scene[i]) /\ i # n + 1
    BY <1>8, <1>6
  <2> HIDE DEF v
  <2>2. QED BY <2>1, <1>5, <1>6
<1>12. Shown(a) = Append(v, p)
  <2> HIDE DEF v
  <2>1. QED BY <1>9, <1>10, <1>11
<1>13. QED BY <1>2, <1>4, <1>12 DEF a, e, p

\* A rendering shows the picture, with the first k of the clips open.
Renders(r, list, k, picture) ==
  /\ r.open = Opened(list, k) /\ ~r.refused /\ Shown(r.scene) = picture
  /\ (\E i \in DOMAIN r.scene : r.scene[i].style = "copy") => r.destructive

\* A scene gains a record.
LEMMA SceneGains ==
  ASSUME NEW scene \in Seq(Records), NEW e \in Records, NEW destructive,
         (\E i \in DOMAIN scene : scene[i].style = "copy") => destructive
  PROVE  (\E i \in DOMAIN Append(scene, e) : Append(scene, e)[i].style = "copy")
           => (destructive \/ e.style = "copy")
<1> DEFINE a == Append(scene, e)
           n == Len(scene)
<1>1. /\ a \in Seq(Records) /\ DOMAIN a = 1 .. (n + 1) /\ a[n + 1] = e
      /\ DOMAIN scene = 1 .. n /\ n \in Nat
      /\ \A i \in 1 .. n : a[i] = scene[i]
      /\ \A i \in 1 .. (n + 1) : i \in 1 .. n \/ i = n + 1
  OBVIOUS
<1> HIDE DEF a, n
<1>2. ASSUME NEW i \in 1 .. (n + 1), a[i].style = "copy" PROVE destructive \/ e.style = "copy"
  BY <1>1, <1>2
<1>3. QED BY <1>1, <1>2 DEF a

\* A mark under clips alone shows as it is.
LEMMA MarkShows ==
  ASSUME NEW r \in Renderings, NEW list \in Seq(Nat), NEW k \in 0 .. Len(list), NEW picture,
         Renders(r, list, k, picture), NEW id \in Nat, NEW style \in Inks, style # "copy"
  PROVE  /\ Mark(id, style) \in Seq(Commands)
         /\ Renders(Rendered(r, Mark(id, style)), list, k,
                    Append(picture, [id |-> id, style |-> style, under |-> SubSeq(list, 1, k)]))
<1> DEFINE c == [op |-> "mark", id |-> id, style |-> style]
           e == [id |-> id, style |-> style, under |-> Opened(list, k)]
<1>1. c \in MarkCommands /\ c \in Commands /\ Mark(id, style) = <<c>> /\ <<c>> \in Seq(Commands)
  <2>1. c \in MarkCommands
    BY DEF MarkCommands
  <2>2. c \in Commands
    BY <2>1 DEF Commands
  <2> HIDE DEF c
  <2>3. <<c>> \in Seq(Commands)
    BY <2>2
  <2>4. QED BY <2>1, <2>2, <2>3 DEF c, Mark
<1>2. Rendered(r, <<c>>) = Replay(r, c)
  <2> HIDE DEF c
  <2>1. QED BY <1>1, ReplayOne
<1>3. Replay(r, c) = [r EXCEPT !.scene = Append(@, Record(r, c))]
  BY DEF Replay, Marked
<1>4. Clips(r.open) = Opened(list, k) /\ Blends(r.open) = <<>>
  <2>1. [op |-> "layer", style |-> "plain"] \in BlendLayers
    BY DEF BlendLayers, Inks, Styles
  <2>2. QED BY <2>1, UnderTheClips DEF Renders
<1>5. Record(r, c) = e
  BY <1>4 DEF Record, Composite
<1>6. e \in Records /\ Shown(Append(r.scene, e)) = Append(Shown(r.scene), [id |-> id, style |-> style, under |-> SubSeq(list, 1, k)])
  BY ShownGains DEF Renderings
<1> DEFINE q == [r EXCEPT !.scene = Append(@, e)]
<1>7. q.scene = Append(r.scene, e) /\ q.open = r.open /\ q.refused = r.refused /\ q.destructive = r.destructive
  BY DEF Renderings
<1>8. e.style # "copy"
  OBVIOUS
<1> HIDE DEF e, q, c
<1>9. Renders(q, list, k, Append(picture, [id |-> id, style |-> style, under |-> SubSeq(list, 1, k)]))
  <2>1. r.scene \in Seq(Records)
    BY DEF Renderings
  <2>2. (\E i \in DOMAIN q.scene : q.scene[i].style = "copy") => (r.destructive \/ e.style = "copy")
    BY <2>1, <1>6, <1>7, SceneGains DEF Renders
  <2>3. (\E i \in DOMAIN q.scene : q.scene[i].style = "copy") => q.destructive
    BY <2>2, <1>7, <1>8
  <2>4. q.open = Opened(list, k) /\ ~q.refused
    BY <1>7 DEF Renders
  <2>5. Shown(q.scene) = Append(picture, [id |-> id, style |-> style, under |-> SubSeq(list, 1, k)])
    BY <1>6, <1>7 DEF Renders
  <2>6. QED BY <2>3, <2>4, <2>5 DEF Renders
<1>10. QED BY <1>1, <1>2, <1>3, <1>5, <1>9 DEF q

\* A mark in a layer of its own shows with the style of the layer.
LEMMA LayerShows ==
  ASSUME NEW r \in Renderings, NEW list \in Seq(Nat), NEW k \in 0 .. Len(list), NEW picture,
         Renders(r, list, k, picture), NEW id \in Nat, NEW style \in Inks
  PROVE  /\ PushLayer(style) \o Mark(id, "plain") \o PopLayers(1) \in Seq(Commands)
         /\ Renders(Rendered(r, PushLayer(style) \o Mark(id, "plain") \o PopLayers(1)), list, k,
                    Append(picture, [id |-> id, style |-> style, under |-> SubSeq(list, 1, k)]))
<1> DEFINE l == [op |-> "layer", style |-> style]
           c == [op |-> "mark", id |-> id, style |-> "plain"]
           x == [op |-> "pop"]
           e == [id |-> id, style |-> style, under |-> Opened(list, k)]
<1>1. l \in BlendLayers /\ c \in MarkCommands /\ x \in [op : {"pop"}]
  BY DEF BlendLayers, MarkCommands, Inks, Styles
<1>2. l \in Commands /\ c \in Commands /\ x \in Commands /\ l \in Layers
  BY <1>1 DEF Commands, Layers
<1>3. PushLayer(style) = <<l>> /\ Mark(id, "plain") = <<c>>
  BY DEF PushLayer, Mark
<1>4. PopLayers(1) = <<x>>
  <2>1. PopLayers(1) = [i \in 1 .. 1 |-> x]
    BY DEF PopLayers
  <2> HIDE DEF x
  <2>2. QED BY <2>1
<1> DEFINE r1 == [r EXCEPT !.open = Append(@, l), !.destructive = @ \/ l.style = "copy"]
           r2 == [r1 EXCEPT !.scene = Append(@, e)]
           r3 == [r2 EXCEPT !.open = Opened(list, k)]
<1>5. Replay(r, l) = r1
  BY DEF Replay
<1>6. r1 \in Renderings
  BY <1>2, <1>5, ReplayIs
<1>7. r1.open = Append(Opened(list, k), l) /\ r1.scene = r.scene /\ r1.refused = r.refused
  BY DEF Renderings, Renders
<1>8. r1.destructive = (r.destructive \/ style = "copy")
  BY DEF Renderings
<1> HIDE DEF r1
<1>9. Clips(r1.open) = Opened(list, k) /\ Blends(r1.open) = <<l>>
  <2> HIDE DEF l
  <2>1. QED BY <1>1, <1>7, UnderTheClips
<1>10. Replay(r1, c) = r2
  <2>1. Last(<<l>>) = l /\ <<l>> # <<>>
    BY DEF Last
  <2>2. Record(r1, c) = e
    BY <1>9, <2>1 DEF Record, Composite
  <2>3. QED BY <2>2 DEF Replay, Marked
<1>11. r2 \in Renderings
  BY <1>2, <1>6, <1>10, ReplayIs
<1>12. /\ r2.scene = Append(r1.scene, e) /\ r2.open = r1.open /\ r2.refused = r1.refused
       /\ r2.destructive = r1.destructive
  BY <1>6 DEF Renderings
<1> HIDE DEF r2
<1>13. Replay(r2, x) = r3
  <2>1. r2.open # <<>> /\ Front(r2.open) = Opened(list, k)
    <3> HIDE DEF l
    <3>1. QED BY <1>1, <1>7, <1>12, UnderTheClips
  <2>2. QED BY <2>1 DEF Replay
<1>14. /\ r3.scene = r2.scene /\ r3.open = Opened(list, k) /\ r3.refused = r2.refused
       /\ r3.destructive = r2.destructive
  BY <1>11 DEF Renderings
<1> HIDE DEF r3, l, c, x
<1>15. <<l>> \in Seq(Commands) /\ <<c>> \in Seq(Commands) /\ <<x>> \in Seq(Commands)
       /\ <<l>> \o <<c>> \in Seq(Commands) /\ <<l>> \o <<c>> \o <<x>> \in Seq(Commands)
  BY <1>2, ConcatProperties
<1>16. Rendered(r, <<l>> \o <<c>> \o <<x>>) = r3
  <2>1. Rendered(r, <<l>>) = r1
    BY <1>2, <1>5, ReplayOne
  <2>2. Rendered(r, <<l>> \o <<c>>) = Rendered(r1, <<c>>)
    BY <2>1, <1>15, ReplayGoesOn
  <2>3. Rendered(r1, <<c>>) = r2
    BY <1>2, <1>6, <1>10, ReplayOne
  <2>4. Rendered(r, <<l>> \o <<c>> \o <<x>>) = Rendered(r2, <<x>>)
    <3> DEFINE s == <<l>> \o <<c>>
    <3>1. s \in Seq(Commands) /\ <<x>> \in Seq(Commands) /\ Rendered(r, s) = r2
      BY <2>2, <2>3, <1>15
    <3> HIDE DEF s
    <3>2. Rendered(r, s \o <<x>>) = Rendered(r2, <<x>>)
      BY <3>1, ReplayGoesOn
    <3>3. QED BY <3>2 DEF s
  <2>5. Rendered(r2, <<x>>) = r3
    BY <1>2, <1>11, <1>13, ReplayOne
  <2>6. QED BY <2>4, <2>5
<1> DEFINE p == [id |-> id, style |-> style, under |-> SubSeq(list, 1, k)]
<1>17. e \in Records /\ Shown(Append(r.scene, e)) = Append(Shown(r.scene), p) /\ e.style = style
  BY ShownGains DEF Renderings
<1> HIDE DEF e, p
<1>18. Renders(r3, list, k, Append(picture, p))
  <2>1. r.scene \in Seq(Records) /\ r3.scene = Append(r.scene, e)
    BY <1>7, <1>12, <1>14 DEF Renderings
  <2>2. (\E i \in DOMAIN r3.scene : r3.scene[i].style = "copy") => (r.destructive \/ e.style = "copy")
    BY <2>1, <1>17, SceneGains DEF Renders
  <2>3. (\E i \in DOMAIN r3.scene : r3.scene[i].style = "copy") => r3.destructive
    BY <2>2, <1>8, <1>12, <1>14, <1>17
  <2>4. r3.open = Opened(list, k) /\ ~r3.refused
    BY <1>7, <1>12, <1>14 DEF Renders
  <2>5. Shown(r3.scene) = Append(picture, p)
    BY <2>1, <1>17 DEF Renders
  <2>6. QED BY <2>3, <2>4, <2>5 DEF Renders
<1>19. QED BY <1>3, <1>4, <1>15, <1>16, <1>18 DEF p


\* Layers that are closed or opened show nothing.
LEMMA LayersShow ==
  ASSUME NEW r \in Renderings, NEW list \in Seq(Nat), NEW k \in 0 .. Len(list), NEW picture,
         Renders(r, list, k, picture), NEW n \in 0 .. k
  PROVE  /\ PopLayers(n) \in Seq(Commands)
         /\ Renders(Rendered(r, PopLayers(n)), list, k - n, picture)
         /\ [i \in 1 .. (Len(list) - k) |-> PushClip(list[k + i])] \in Seq(Commands)
         /\ Renders(Rendered(r, [i \in 1 .. (Len(list) - k) |-> PushClip(list[k + i])]), list,
                    Len(list), picture)
<1>1. r.open = Opened(list, k)
  BY DEF Renders
<1>2. ASSUME NEW o PROVE LET q == [r EXCEPT !.open = o] IN
        q.open = o /\ q.refused = r.refused /\ q.scene = r.scene /\ q.destructive = r.destructive
  BY DEF Renderings
<1>3. Renders([r EXCEPT !.open = Opened(list, k - n)], list, k - n, picture)
  <2> HIDE DEF Opened, Shown
  <2>1. QED BY <1>2 DEF Renders
<1>4. Renders([r EXCEPT !.open = Opened(list, Len(list))], list, Len(list), picture)
  BY <1>2 DEF Renders
<1>5. /\ PopLayers(n) \in Seq(Commands)
      /\ Rendered(r, PopLayers(n)) = [r EXCEPT !.open = Opened(list, k - n)]
  BY <1>1, PopsClose
<1> DEFINE more == [i \in 1 .. (Len(list) - k) |-> PushClip(list[k + i])]
<1>6. more \in Seq(Commands) /\ Rendered(r, more) = [r EXCEPT !.open = Opened(list, Len(list))]
  BY <1>1, ClipsOpen
<1> HIDE DEF more
<1>7. Renders(Rendered(r, more), list, Len(list), picture)
  BY <1>4, <1>6
<1>8. QED BY <1>3, <1>5, <1>6, <1>7 DEF more

-----------------------------------------------------------------------------
\* Types.
CanvasTyped ==
  /\ context \in [style : Styles, saved : Seq([style : Styles, depth : Nat]), clips : Seq(Nat),
                  applied : Nat, size : {0} \cup Sizes]
  /\ stream \in Seq(Commands)
  /\ flushes \in [drawn : BOOLEAN, microtask : BOOLEAN]
  /\ surface \in [size : Sizes, scene : Seq(Records), destructive : BOOLEAN, refused : BOOLEAN]
  /\ attribute \in {0} \cup Sizes
  /\ ideal \in [style : Styles, saved : Seq([style : Styles, clips : Seq(Nat)]),
                clips : Seq(Nat), picture : Seq(Pictured)]
  /\ marks \in Nat /\ clips \in Nat

\* A batch that is not empty has its flush, in the task and in the frame.
BatchIsOwed == stream # EmptyBatch => flushes.drawn /\ flushes.microtask

\* The context has the state of the canvas, and at most its own backing store.
StatesAgree ==
  /\ context.style = ideal.style /\ context.clips = ideal.clips
  /\ context.applied <= Len(context.clips)
  /\ context.size \in {0, surface.size} /\ ~surface.refused

\* The states that are saved are those of the canvas, each with no more clips than the next.
SavedAgree(saved, states, list) ==
  /\ Len(states) = Len(saved)
  /\ \A i \in 1 .. Len(saved) :
       /\ saved[i].depth <= Len(list) /\ states[i].style = saved[i].style
       /\ states[i].clips = SubSeq(list, 1, saved[i].depth)
  /\ \A i, j \in 1 .. Len(saved) : i <= j => saved[i].depth <= saved[j].depth

\* What the renderer goes on with, and what it has once the batch is replayed.
LeftOff == [scene |-> surface.scene, destructive |-> surface.destructive,
            refused |-> surface.refused, open |-> <<>>]
SoFar == Rendered(LeftOff, stream)

\* The inductive invariant of CanvasDrawing.
CanvasInv ==
  /\ CanvasTyped /\ BatchIsOwed /\ StatesAgree
  /\ SavedAgree(context.saved, ideal.saved, context.clips)
  /\ Renders(SoFar, context.clips, context.applied, ideal.picture)

\* What it says, one by one.
LEMMA CanvasIs ==
  ASSUME CanvasInv
  PROVE  /\ context.style \in Styles /\ context.clips \in Seq(Nat) /\ context.applied \in Nat
         /\ context.saved \in Seq([style : Styles, depth : Nat])
         /\ context.size \in {0} \cup Sizes /\ surface.size \in Sizes
         /\ surface.scene \in Seq(Records) /\ surface.destructive \in BOOLEAN
         /\ surface.refused \in BOOLEAN
         /\ ideal.saved \in Seq([style : Styles, clips : Seq(Nat)])
         /\ ideal.picture \in Seq(Pictured)
         /\ context.applied \in 0 .. Len(context.clips)
         /\ LeftOff \in Renderings /\ SoFar \in Renderings
<1>1. /\ context.style \in Styles /\ context.clips \in Seq(Nat) /\ context.applied \in Nat
      /\ context.saved \in Seq([style : Styles, depth : Nat])
      /\ context.size \in {0} \cup Sizes
  BY DEF CanvasInv, CanvasTyped
<1>2. /\ surface.size \in Sizes
      /\ surface.scene \in Seq(Records) /\ surface.destructive \in BOOLEAN
      /\ surface.refused \in BOOLEAN
  BY DEF CanvasInv, CanvasTyped
<1>3. /\ ideal.saved \in Seq([style : Styles, clips : Seq(Nat)])
      /\ ideal.picture \in Seq(Pictured)
  BY DEF CanvasInv, CanvasTyped
<1>4. context.applied \in 0 .. Len(context.clips)
  BY <1>1 DEF CanvasInv, StatesAgree
<1>5. LeftOff \in Renderings
  BY <1>2 DEF LeftOff, Renderings
<1>6. SoFar \in Renderings
  BY <1>5, ReplayGoesOn DEF CanvasInv, CanvasTyped, SoFar
<1>7. QED BY <1>1, <1>2, <1>3, <1>4, <1>5, <1>6

\* Commands that are written follow those of the batch.
LEMMA BatchGrows ==
  ASSUME CanvasInv, NEW t \in Seq(Commands), stream' = stream \o t, UNCHANGED surface
  PROVE  stream' \in Seq(Commands) /\ SoFar' = Rendered(SoFar, t)
<1>1. stream \in Seq(Commands) /\ LeftOff \in Renderings /\ LeftOff' = LeftOff
  BY CanvasIs DEF CanvasInv, CanvasTyped, LeftOff
<1>2. SoFar' = Rendered(LeftOff, stream \o t)
  BY <1>1 DEF SoFar
<1>3. QED BY <1>1, <1>2, ReplayGoesOn, ConcatProperties DEF SoFar

\* What is flushed.
FlushedSurface == IF stream = EmptyBatch THEN surface ELSE Submitted(Built)

\* A surface shows the picture, and no batch of it was refused.
SurfaceShows(s, picture) ==
  /\ ~s.refused /\ Shown(s.scene) = picture
  /\ (\E i \in DOMAIN s.scene : s.scene[i].style = "copy") => s.destructive

\* A flush leaves the picture on the surface.
LEMMA FlushShows ==
  ASSUME CanvasInv
  PROVE  /\ FlushedSurface \in [size : Sizes, scene : Seq(Records), destructive : BOOLEAN,
                                refused : BOOLEAN]
         /\ FlushedSurface.size = surface.size /\ SurfaceShows(FlushedSurface, ideal.picture)
<1>1. CASE stream = EmptyBatch
  <2>1. FlushedSurface = surface
    BY <1>1 DEF FlushedSurface
  <2>2. SoFar = LeftOff
    <3>1. [op |-> "pop"] \in Commands
      BY DEF Commands
    <3>2. QED BY <1>1, <3>1, CanvasIs, ReplayOne DEF SoFar, EmptyBatch
  <2>3. SurfaceShows(surface, ideal.picture)
    BY <2>2 DEF CanvasInv, Renders, LeftOff, SurfaceShows
  <2>4. surface \in [size : Sizes, scene : Seq(Records), destructive : BOOLEAN, refused : BOOLEAN]
    BY DEF CanvasInv, CanvasTyped
  <2>5. QED BY <2>1, <2>3, <2>4
<1>2. CASE stream # EmptyBatch
  <2> DEFINE r == Rendered(LeftOff, stream \o PopLayers(context.applied))
  <2>1. PopLayers(context.applied) \in Seq(Commands) /\ r = Rendered(SoFar, PopLayers(context.applied))
    <3>1. PopLayers(context.applied) \in Seq(Commands)
      <4>1. context.applied \in 0 .. context.applied
        BY CanvasIs
      <4>2. QED BY <4>1, CanvasIs, LayersShow DEF CanvasInv
    <3>2. QED BY <3>1, CanvasIs, ReplayGoesOn DEF SoFar, CanvasInv, CanvasTyped
  <2>2. Renders(r, context.clips, 0, ideal.picture) /\ r \in Renderings
    <3>1. context.applied \in 0 .. context.applied /\ context.applied - context.applied = 0
      BY CanvasIs
    <3>2. Renders(Rendered(SoFar, PopLayers(context.applied)), context.clips,
                  context.applied - context.applied, ideal.picture)
      BY <3>1, CanvasIs, LayersShow DEF CanvasInv
    <3>3. Rendered(SoFar, PopLayers(context.applied)) \in Renderings
      BY <2>1, CanvasIs, ReplayGoesOn
    <3>4. QED BY <2>1, <3>1, <3>2, <3>3
  <2>3. Replayed(Built) = r
    BY DEF Replayed, Built, Rendered, LeftOff
  <2> HIDE DEF r
  <2>4. r.open = <<>> /\ ~r.refused
    BY CanvasIs, OpenedIs, <2>2 DEF Renders
  <2>5. FlushedSurface = [surface EXCEPT !.scene = r.scene, !.destructive = r.destructive,
                                         !.refused = FALSE]
    BY <2>2, <2>4, <1>2, <2>3 DEF Renderings, FlushedSurface, Submitted
  <2>6. surface \in [size : Sizes, scene : Seq(Records), destructive : BOOLEAN, refused : BOOLEAN]
    BY DEF CanvasInv, CanvasTyped
  <2>7. r.scene \in Seq(Records) /\ r.destructive \in BOOLEAN
    BY <2>2 DEF Renderings
  <2>8. FlushedSurface \in [size : Sizes, scene : Seq(Records), destructive : BOOLEAN, refused : BOOLEAN]
    <3> HIDE DEF Records
    <3>1. QED BY <2>5, <2>6, <2>7
  <2>9. /\ FlushedSurface.size = surface.size /\ FlushedSurface.scene = r.scene
        /\ FlushedSurface.destructive = r.destructive /\ FlushedSurface.refused = FALSE
    BY <2>5, <2>6
  <2>10. SurfaceShows(FlushedSurface, ideal.picture)
    <3> HIDE DEF FlushedSurface
    <3>1. QED BY <2>2, <2>9 DEF Renders, SurfaceShows
  <2>11. QED BY <2>8, <2>9, <2>10
<1>3. QED BY <1>1, <1>2

\* With an empty batch, what the surface shows is what there is.
LEMMA EmptyShows ==
  ASSUME NEW s \in [size : Sizes, scene : Seq(Records), destructive : BOOLEAN, refused : BOOLEAN],
         NEW picture, SurfaceShows(s, picture), NEW list \in Seq(Nat)
  PROVE  /\ EmptyBatch \in Seq(Commands)
         /\ Renders(Rendered([scene |-> s.scene, destructive |-> s.destructive,
                              refused |-> s.refused, open |-> <<>>], EmptyBatch), list, 0, picture)
<1> DEFINE q == [scene |-> s.scene, destructive |-> s.destructive, refused |-> s.refused, open |-> <<>>]
<1>1. q \in Renderings
  BY DEF Renderings
<1>2. Rendered(q, EmptyBatch) = q
  <2>1. [op |-> "pop"] \in Commands
    BY DEF Commands
  <2> HIDE DEF q
  <2>2. QED BY <1>1, <2>1, ReplayOne DEF EmptyBatch
<1>3. Opened(list, 0) = <<>>
  BY OpenedIs
<1>4. Renders(q, list, 0, picture)
  BY <1>3 DEF Renders, SurfaceShows
<1>5. EmptyBatch \in Seq(Commands)
  BY DEF EmptyBatch
<1> HIDE DEF q
<1>6. QED BY <1>2, <1>4, <1>5 DEF q


-----------------------------------------------------------------------------
(* CanvasDrawing: the states that are saved.                               *)

\* Another state is saved.
LEMMA SavedGains ==
  ASSUME NEW saved \in Seq([style : Styles, depth : Nat]),
         NEW states \in Seq([style : Styles, clips : Seq(Nat)]),
         NEW list \in Seq(Nat), SavedAgree(saved, states, list), NEW style \in Styles
  PROVE  LET one == [style |-> style, depth |-> Len(list)]
             state == [style |-> style, clips |-> list] IN
         /\ Append(saved, one) \in Seq([style : Styles, depth : Nat])
         /\ Append(states, state) \in Seq([style : Styles, clips : Seq(Nat)])
         /\ SavedAgree(Append(saved, one), Append(states, state), list)
<1> DEFINE one == [style |-> style, depth |-> Len(list)]
           state == [style |-> style, clips |-> list]
           a == Append(saved, one)
           b == Append(states, state)
           n == Len(saved)
<1>1. n \in Nat /\ Len(states) = n
  BY DEF SavedAgree
<1>2. /\ one \in [style : Styles, depth : Nat] /\ one.style = style /\ one.depth = Len(list)
      /\ state \in [style : Styles, clips : Seq(Nat)] /\ state.style = style /\ state.clips = list
  OBVIOUS
<1> HIDE DEF one, state, n
<1>3. /\ a \in Seq([style : Styles, depth : Nat]) /\ Len(a) = n + 1 /\ a[n + 1] = one
      /\ \A i \in 1 .. n : a[i] = saved[i]
  BY <1>2, AppendProperties DEF n
<1>4. /\ b \in Seq([style : Styles, clips : Seq(Nat)]) /\ Len(b) = n + 1 /\ b[n + 1] = state
      /\ \A i \in 1 .. n : b[i] = states[i]
  BY <1>1, <1>2, AppendProperties
<1>5. \A i \in 1 .. (n + 1) : i \in 1 .. n \/ i = n + 1
  BY <1>1
<1>6. /\ \A i \in 1 .. n : /\ saved[i].depth \in Nat /\ saved[i].depth <= Len(list)
                           /\ states[i].style = saved[i].style
                           /\ states[i].clips = SubSeq(list, 1, saved[i].depth)
      /\ \A i, j \in 1 .. n : i <= j => saved[i].depth <= saved[j].depth
  <2>1. \A i \in 1 .. n : saved[i].depth \in Nat
    <3>1. \A i \in 1 .. n : saved[i] \in [style : Styles, depth : Nat]
      BY ElementOfSeq DEF n
    <3>2. QED BY <3>1
  <2>2. /\ \A i \in 1 .. n : /\ saved[i].depth <= Len(list) /\ states[i].style = saved[i].style
                              /\ states[i].clips = SubSeq(list, 1, saved[i].depth)
        /\ \A i, j \in 1 .. n : i <= j => saved[i].depth <= saved[j].depth
    BY DEF SavedAgree, n
  <2>3. QED BY <2>1, <2>2
<1>7. Len(list) \in Nat /\ SubSeq(list, 1, Len(list)) = list
  BY SubSeqFull
<1> HIDE DEF a, b
<1>8. ASSUME NEW i \in 1 .. (n + 1)
      PROVE  /\ a[i].depth <= Len(list) /\ b[i].style = a[i].style
             /\ b[i].clips = SubSeq(list, 1, a[i].depth)
  <2>1. CASE i \in 1 .. n
    BY <2>1, <1>3, <1>4, <1>6
  <2>2. CASE i = n + 1
    BY <2>2, <1>2, <1>3, <1>4, <1>7
  <2>3. QED BY <2>1, <2>2, <1>5
<1>9. ASSUME NEW i \in 1 .. (n + 1), NEW j \in 1 .. (n + 1), i <= j
      PROVE  a[i].depth <= a[j].depth
  <2>1. CASE j = n + 1
    BY <2>1, <1>2, <1>3, <1>8
  <2>2. CASE j \in 1 .. n
    <3>1. i \in 1 .. n
      BY <2>2, <1>1, <1>9
    <3>2. QED BY <2>2, <3>1, <1>3, <1>6, <1>9
  <2>3. QED BY <2>1, <2>2, <1>5
<1>10. SavedAgree(a, b, list)
  BY <1>3, <1>4, <1>8, <1>9 DEF SavedAgree
<1>11. QED BY <1>3, <1>4, <1>10 DEF a, b, one, state

\* The latest is restored: the others have no clips but its own.
LEMMA SavedLoses ==
  ASSUME NEW saved \in Seq([style : Styles, depth : Nat]), saved # <<>>,
         NEW states \in Seq([style : Styles, clips : Seq(Nat)]),
         NEW list \in Seq(Nat), SavedAgree(saved, states, list)
  PROVE  /\ Last(saved) \in [style : Styles, depth : Nat] /\ Last(saved).depth \in 0 .. Len(list)
         /\ Last(states).style = Last(saved).style
         /\ Last(states).clips = SubSeq(list, 1, Last(saved).depth)
         /\ Front(saved) \in Seq([style : Styles, depth : Nat])
         /\ Front(states) \in Seq([style : Styles, clips : Seq(Nat)])
         /\ SubSeq(list, 1, Last(saved).depth) \in Seq(Nat)
         /\ Len(SubSeq(list, 1, Last(saved).depth)) = Last(saved).depth
         /\ SavedAgree(Front(saved), Front(states), SubSeq(list, 1, Last(saved).depth))
<1> DEFINE n == Len(saved)
           d == Last(saved).depth
           less == SubSeq(list, 1, d)
<1>1. n \in Nat \ {0} /\ Len(states) = n /\ states # <<>>
  BY DEF SavedAgree
<1>2. /\ Front(saved) \in Seq([style : Styles, depth : Nat]) /\ Len(Front(saved)) = n - 1
      /\ Last(saved) = saved[n] /\ Last(saved) \in [style : Styles, depth : Nat]
      /\ Front(saved) = SubSeq(saved, 1, n - 1)
  BY FrontIs
<1>3. /\ Front(states) \in Seq([style : Styles, clips : Seq(Nat)]) /\ Len(Front(states)) = n - 1
      /\ Last(states) = states[n] /\ Front(states) = SubSeq(states, 1, n - 1)
  <2> HIDE DEF n
  <2>1. QED BY <1>1, FrontIs
<1>4. /\ \A i \in 1 .. n : /\ saved[i].depth \in Nat /\ saved[i].depth <= Len(list)
                           /\ states[i].style = saved[i].style
                           /\ states[i].clips = SubSeq(list, 1, saved[i].depth)
      /\ \A i, j \in 1 .. n : i <= j => saved[i].depth <= saved[j].depth
  <2>1. \A i \in 1 .. n : saved[i].depth \in Nat
    <3>1. \A i \in 1 .. n : saved[i] \in [style : Styles, depth : Nat]
      BY ElementOfSeq DEF n
    <3>2. QED BY <3>1
  <2>2. /\ \A i \in 1 .. n : /\ saved[i].depth <= Len(list) /\ states[i].style = saved[i].style
                              /\ states[i].clips = SubSeq(list, 1, saved[i].depth)
        /\ \A i, j \in 1 .. n : i <= j => saved[i].depth <= saved[j].depth
    BY DEF SavedAgree, n
  <2>3. QED BY <2>1, <2>2
<1> HIDE DEF n
<1>5. \A i \in 1 .. (n - 1) : Front(saved)[i] = saved[i] /\ Front(states)[i] = states[i]
  BY <1>1, <1>2, <1>3 DEF n
<1>6. n \in 1 .. n /\ \A i \in 1 .. (n - 1) : i \in 1 .. n /\ i <= n
  BY <1>1
<1>7. d \in Nat /\ d <= Len(list) /\ Last(states).style = Last(saved).style /\ Last(states).clips = less
  BY <1>2, <1>3, <1>4, <1>6
<1>8. Len(list) \in Nat /\ d \in 0 .. Len(list)
  BY <1>7
<1>9. less \in Seq(Nat) /\ Len(less) = d
  <2> HIDE DEF d
  <2>1. QED BY <1>8
<1>10. ASSUME NEW i \in 1 .. (n - 1)
       PROVE  /\ saved[i].depth <= d
              /\ SubSeq(less, 1, saved[i].depth) = SubSeq(list, 1, saved[i].depth)
  <2>1. saved[i].depth <= d /\ saved[i].depth \in Nat
    BY <1>2, <1>4, <1>6
  <2> DEFINE e == saved[i].depth
  <2> HIDE DEF d, e
  <2>2. SubSeq(SubSeq(list, 1, d), 1, e) = SubSeq(list, 1, e)
    BY <2>1, <1>8 DEF e
  <2>3. QED BY <2>1, <2>2 DEF e
<1> HIDE DEF d, less
<1>11. SavedAgree(Front(saved), Front(states), less)
  BY <1>4, <1>5, <1>6, <1>9, <1>10, <1>2, <1>3 DEF SavedAgree
<1>12. QED BY <1>2, <1>3, <1>7, <1>8, <1>9, <1>11 DEF d, less

\* Another clip: the states that are saved do not have it.
LEMMA SavedBefore ==
  ASSUME NEW saved \in Seq([style : Styles, depth : Nat]),
         NEW states \in Seq([style : Styles, clips : Seq(Nat)]),
         NEW list \in Seq(Nat), SavedAgree(saved, states, list), NEW clip \in Nat
  PROVE  SavedAgree(saved, states, Append(list, clip))
<1> DEFINE more == Append(list, clip)
<1>1. more \in Seq(Nat) /\ Len(more) = Len(list) + 1 /\ Len(list) \in Nat
  OBVIOUS
<1>2. ASSUME NEW e \in 0 .. Len(list) PROVE SubSeq(more, 1, e) = SubSeq(list, 1, e)
  <2>1. \A i \in 1 .. e : more[i] = list[i]
    OBVIOUS
  <2>2. SubSeq(more, 1, e) = [i \in 1 .. e |-> more[i]]
    <3> HIDE DEF more
    <3>1. QED BY <1>1
  <2>3. SubSeq(list, 1, e) = [i \in 1 .. e |-> list[i]]
    OBVIOUS
  <2> HIDE DEF more
  <2>4. QED BY <2>1, <2>2, <2>3
<1> HIDE DEF more
<1>3. ASSUME NEW i \in 1 .. Len(saved)
      PROVE  /\ saved[i].depth <= Len(more) /\ states[i].style = saved[i].style
             /\ states[i].clips = SubSeq(more, 1, saved[i].depth)
  <2>1. /\ saved[i].depth \in Nat /\ saved[i].depth <= Len(list)
        /\ states[i].style = saved[i].style
        /\ states[i].clips = SubSeq(list, 1, saved[i].depth)
    <3>1. saved[i] \in [style : Styles, depth : Nat]
      BY ElementOfSeq
    <3>2. /\ saved[i].depth <= Len(list) /\ states[i].style = saved[i].style
          /\ states[i].clips = SubSeq(list, 1, saved[i].depth)
      BY DEF SavedAgree
    <3>3. QED BY <3>1, <3>2
  <2>2. saved[i].depth \in 0 .. Len(list)
    BY <1>1, <2>1
  <2>3. saved[i].depth <= Len(more)
    BY <1>1, <2>1
  <2>4. QED BY <1>2, <2>1, <2>2, <2>3
<1>4. SavedAgree(saved, states, more)
  BY <1>3 DEF SavedAgree
<1>5. QED BY <1>4 DEF more


-----------------------------------------------------------------------------
(* CanvasDrawing: the steps.                                               *)

Contexts == [style : Styles, saved : Seq([style : Styles, depth : Nat]), clips : Seq(Nat),
             applied : Nat, size : {0} \cup Sizes]
Ideals == [style : Styles, saved : Seq([style : Styles, clips : Seq(Nat)]), clips : Seq(Nat),
           picture : Seq(Pictured)]
Surfaces == [size : Sizes, scene : Seq(Records), destructive : BOOLEAN, refused : BOOLEAN]

\* Clips and layers do not change a rendering that is only looked at with other clips.
LEMMA OpenedAlike ==
  ASSUME NEW list \in Seq(Nat), NEW k \in 0 .. Len(list)
  PROVE  /\ \A d \in k .. Len(list) : Opened(SubSeq(list, 1, d), k) = Opened(list, k)
         /\ \A clip \in Nat : Opened(Append(list, clip), k) = Opened(list, k)
<1>1. ASSUME NEW d \in k .. Len(list) PROVE Opened(SubSeq(list, 1, d), k) = Opened(list, k)
  BY DEF Opened
<1>2. ASSUME NEW clip \in Nat PROVE Opened(Append(list, clip), k) = Opened(list, k)
  BY DEF Opened
<1>3. QED BY <1>1, <1>2

\* Nothing was saved.
LEMMA NoneSaved ==
  /\ <<>> \in Seq([style : Styles, depth : Nat]) /\ <<>> \in Seq([style : Styles, clips : Seq(Nat)])
  /\ <<>> \in Seq(Nat) /\ <<>> \in Seq(Pictured) /\ Len(<<>>) = 0
  /\ \A list : SavedAgree(<<>>, <<>>, list)
<1>1. <<>> \in Seq([style : Styles, depth : Nat])
  OBVIOUS
<1>2. <<>> \in Seq([style : Styles, clips : Seq(Nat)])
  OBVIOUS
<1>3. <<>> \in Seq(Nat) /\ <<>> \in Seq(Pictured) /\ Len(<<>>) = 0
  OBVIOUS
<1>4. \A list : SavedAgree(<<>>, <<>>, list)
  BY <1>3 DEF SavedAgree
<1>5. QED BY <1>1, <1>2, <1>3, <1>4

\* What a fresh context and canvas are.
LEMMA FreshIs ==
  /\ FreshContext \in Contexts /\ IdealCanvas \in Ideals
  /\ FreshContext.style = "plain" /\ FreshContext.saved = <<>> /\ FreshContext.clips = <<>>
  /\ FreshContext.applied = 0 /\ FreshContext.size = 0
  /\ IdealCanvas.style = "plain" /\ IdealCanvas.saved = <<>> /\ IdealCanvas.clips = <<>>
  /\ IdealCanvas.picture = <<>>
<1>1. FreshContext \in Contexts
  BY NoneSaved DEF FreshContext, Contexts, Styles
<1>2. IdealCanvas \in Ideals
  BY NoneSaved DEF IdealCanvas, Ideals, Styles
<1>3. QED BY <1>1, <1>2 DEF FreshContext, IdealCanvas

\* Sizes are numbers, and every extent is one of them.
LEMMA ExtentIs ==
  ASSUME NEW a \in {0} \cup Sizes
  PROVE  Extent(a) \in Sizes /\ Sizes \subseteq Nat /\ 0 \notin Sizes
BY CanvasAssumption DEF Extent

\* Before any call, the invariant holds.
LEMMA CanvasStarts == CanvasInit => CanvasInv
<1> SUFFICES ASSUME CanvasInit PROVE CanvasInv
  OBVIOUS
<1>1. /\ context = FreshContext /\ stream = <<>> /\ ideal = IdealCanvas
      /\ flushes = [drawn |-> FALSE, microtask |-> FALSE] /\ attribute \in {0} \cup Sizes
      /\ surface = [size |-> Extent(attribute), scene |-> <<>>, destructive |-> FALSE, refused |-> FALSE]
      /\ marks = 0 /\ clips = 0
  BY DEF CanvasInit, EmptyBatch
<1>2. surface \in Surfaces /\ SurfaceShows(surface, <<>>)
  BY <1>1, ExtentIs DEF Shown, Surfaces, SurfaceShows
<1>3. stream \in Seq(Commands) /\ Renders(SoFar, <<>>, 0, <<>>)
  BY <1>1, <1>2, NoneSaved, EmptyShows DEF Surfaces, EmptyBatch, SoFar, LeftOff
<1>4. CanvasTyped
  BY <1>1, <1>2, <1>3, FreshIs DEF CanvasTyped, Contexts, Ideals, Surfaces
<1>5. BatchIsOwed
  BY <1>1 DEF BatchIsOwed, EmptyBatch
<1>6. StatesAgree
  BY <1>1, FreshIs, NoneSaved DEF StatesAgree
<1>7. SavedAgree(context.saved, ideal.saved, context.clips)
  BY <1>1, FreshIs, NoneSaved
<1>8. Renders(SoFar, context.clips, context.applied, ideal.picture)
  BY <1>1, <1>3, FreshIs
<1>9. QED BY <1>4, <1>5, <1>6, <1>7, <1>8 DEF CanvasInv

\* Two lists of commands that are written, the one after the other.
LEMMA BothAreWritten ==
  ASSUME CanvasInv, NEW t \in Seq(Commands), NEW u \in Seq(Commands),
         stream' = stream \o t \o u, UNCHANGED surface
  PROVE  /\ stream' \in Seq(Commands) /\ Rendered(SoFar, t) \in Renderings
         /\ SoFar' = Rendered(Rendered(SoFar, t), u)
<1>1. stream \in Seq(Commands) /\ SoFar \in Renderings
  BY CanvasIs DEF CanvasInv, CanvasTyped
<1>2. stream' = stream \o (t \o u) /\ t \o u \in Seq(Commands)
  BY <1>1, ConcatAssociative, ConcatProperties
<1>3. stream' \in Seq(Commands) /\ SoFar' = Rendered(SoFar, t \o u)
  BY <1>2, BatchGrows
<1>4. QED BY <1>1, <1>3, ReplayGoesOn

\* The clips that are opened now.
LEMMA ClipsAreOpened ==
  ASSUME CanvasInv
  PROVE  /\ OpenedClips \in Seq(Commands) /\ Rendered(SoFar, OpenedClips) \in Renderings
         /\ Renders(Rendered(SoFar, OpenedClips), context.clips, Len(context.clips), ideal.picture)
<1>1. 0 \in 0 .. context.applied
  BY CanvasIs
<1>2. OpenedClips \in Seq(Commands) /\ Renders(Rendered(SoFar, OpenedClips), context.clips, Len(context.clips), ideal.picture)
  BY <1>1, CanvasIs, LayersShow DEF CanvasInv, OpenedClips
<1>3. QED BY <1>2, CanvasIs, ReplayGoesOn

\* All the clips, and none.
LEMMA AllAndNone ==
  ASSUME NEW list \in Seq(Nat)
  PROVE  /\ SubSeq(list, 1, Len(list)) = list /\ SubSeq(list, 1, 0) = <<>>
         /\ Len(list) \in 0 .. Len(list) /\ 0 \in 0 .. Len(list) /\ Len(list) \in Nat
BY SubSeqFull, SubSeqEmpty

\* A forgotten scene shows nothing.
LEMMA ResetShows ==
  ASSUME CanvasInv, stream' = ResetAll, UNCHANGED surface, NEW list \in Seq(Nat)
  PROVE  stream' \in Seq(Commands) /\ Renders(SoFar', list, 0, <<>>)
<1> DEFINE c == [op |-> "reset"]
<1>1. c \in Commands /\ ResetAll = <<c>>
  BY DEF Commands, ResetAll
<1>2. LeftOff \in Renderings /\ LeftOff' = LeftOff
  BY CanvasIs DEF LeftOff
<1> HIDE DEF c
<1>3. <<c>> \in Seq(Commands)
  BY <1>1
<1>4. SoFar' = Replay(LeftOff, c)
  BY <1>1, <1>2, ReplayOne DEF SoFar
<1>5. Replay(LeftOff, c) = [LeftOff EXCEPT !.scene = <<>>, !.destructive = FALSE]
  BY DEF Replay, c
<1>6. ~surface.refused
  BY DEF CanvasInv, StatesAgree
<1> DEFINE q == [LeftOff EXCEPT !.scene = <<>>, !.destructive = FALSE]
<1>7. q.open = <<>> /\ q.scene = <<>> /\ q.refused = surface.refused
  BY DEF LeftOff
<1> HIDE DEF q
<1>8. Shown(<<>>) = <<>> /\ Opened(list, 0) = <<>>
  BY DEF Shown, Opened
<1>9. Renders(q, list, 0, <<>>)
  BY <1>6, <1>7, <1>8 DEF Renders
<1>10. QED BY <1>1, <1>3, <1>4, <1>5, <1>9 DEF q

\* What has not to do with the renderer leaves what there is.
LEMMA SoFarStays ==
  ASSUME UNCHANGED <<surface, stream>> PROVE SoFar' = SoFar
BY DEF SoFar, LeftOff

\* The size a draw that composites takes is that of the surface.
LEMMA StoreIs ==
  ASSUME CanvasInv PROVE BackingStore = surface.size
BY DEF CanvasInv, StatesAgree, BackingStore


\* A style waits for the next draw.
LEMMA StyleKeeps ==
  ASSUME CanvasInv, NEW style \in Styles, SetStyle(style) PROVE CanvasInv'
<1>1. /\ context' = [context EXCEPT !.style = style] /\ ideal' = [ideal EXCEPT !.style = style]
      /\ UNCHANGED <<stream, flushes, surface, attribute, marks, clips>>
  BY DEF SetStyle
<1>2. context \in Contexts /\ ideal \in Ideals
  BY DEF CanvasInv, CanvasTyped, Contexts, Ideals
<1>3. /\ context' \in Contexts /\ context'.style = style /\ context'.clips = context.clips
      /\ context'.applied = context.applied /\ context'.size = context.size
      /\ context'.saved = context.saved
  BY <1>1, <1>2 DEF Contexts
<1>4. /\ ideal' \in Ideals /\ ideal'.style = style /\ ideal'.clips = ideal.clips
      /\ ideal'.saved = ideal.saved /\ ideal'.picture = ideal.picture
  BY <1>1, <1>2 DEF Ideals
<1>5. CanvasTyped'
  BY <1>1, <1>3, <1>4 DEF CanvasInv, CanvasTyped, Contexts, Ideals
<1>6. BatchIsOwed'
  BY <1>1 DEF CanvasInv, BatchIsOwed, EmptyBatch
<1>7. StatesAgree'
  BY <1>1, <1>3, <1>4 DEF CanvasInv, StatesAgree
<1>8. SavedAgree(context'.saved, ideal'.saved, context'.clips)
  BY <1>3, <1>4 DEF CanvasInv
<1>9. Renders(SoFar', context'.clips, context'.applied, ideal'.picture)
  BY <1>1, <1>3, <1>4, SoFarStays DEF CanvasInv
<1>10. QED BY <1>5, <1>6, <1>7, <1>8, <1>9 DEF CanvasInv

\* A state is saved with the clips of its moment.
LEMMA SaveKeeps ==
  ASSUME CanvasInv, Save PROVE CanvasInv'
<1> DEFINE one == [style |-> context.style, depth |-> Len(context.clips)]
           state == [style |-> context.style, clips |-> context.clips]
<1>1. /\ context' = [context EXCEPT !.saved = Append(@, one)]
      /\ ideal' = [ideal EXCEPT !.saved = Append(@, state)]
      /\ UNCHANGED <<stream, flushes, surface, attribute, marks, clips>>
  BY DEF Save, CanvasInv, StatesAgree
<1>2. context \in Contexts /\ ideal \in Ideals
  BY DEF CanvasInv, CanvasTyped, Contexts, Ideals
<1>3. /\ Append(context.saved, one) \in Seq([style : Styles, depth : Nat])
      /\ Append(ideal.saved, state) \in Seq([style : Styles, clips : Seq(Nat)])
      /\ SavedAgree(Append(context.saved, one), Append(ideal.saved, state), context.clips)
  BY CanvasIs, SavedGains DEF CanvasInv
<1> HIDE DEF one, state
<1>4. /\ context' \in Contexts /\ context'.style = context.style /\ context'.clips = context.clips
      /\ context'.applied = context.applied /\ context'.size = context.size
      /\ context'.saved = Append(context.saved, one)
  BY <1>1, <1>2, <1>3 DEF Contexts
<1>5. /\ ideal' \in Ideals /\ ideal'.style = ideal.style /\ ideal'.clips = ideal.clips
      /\ ideal'.saved = Append(ideal.saved, state) /\ ideal'.picture = ideal.picture
  BY <1>1, <1>2, <1>3 DEF Ideals
<1>6. CanvasTyped'
  BY <1>1, <1>4, <1>5 DEF CanvasInv, CanvasTyped, Contexts, Ideals
<1>7. BatchIsOwed'
  BY <1>1 DEF CanvasInv, BatchIsOwed, EmptyBatch
<1>8. StatesAgree'
  BY <1>1, <1>4, <1>5 DEF CanvasInv, StatesAgree
<1>9. SavedAgree(context'.saved, ideal'.saved, context'.clips)
  BY <1>3, <1>4, <1>5
<1>10. Renders(SoFar', context'.clips, context'.applied, ideal'.picture)
  BY <1>1, <1>4, <1>5, SoFarStays DEF CanvasInv
<1>11. QED BY <1>6, <1>7, <1>8, <1>9, <1>10 DEF CanvasInv

\* A clip waits for the next draw.
LEMMA ClipKeeps ==
  ASSUME CanvasInv, Clip PROVE CanvasInv'
<1> DEFINE more == Append(context.clips, clips + 1)
<1>1. /\ context' = [context EXCEPT !.clips = more] /\ ideal' = [ideal EXCEPT !.clips = more]
      /\ clips' = clips + 1 /\ UNCHANGED <<stream, flushes, surface, attribute, marks>>
  BY DEF Clip, CanvasInv, StatesAgree
<1>2. context \in Contexts /\ ideal \in Ideals /\ clips + 1 \in Nat
  BY DEF CanvasInv, CanvasTyped, Contexts, Ideals
<1>3. more \in Seq(Nat) /\ Len(more) = Len(context.clips) + 1 /\ Len(context.clips) \in Nat
  BY <1>2, CanvasIs
<1>4. /\ SavedAgree(context.saved, ideal.saved, more)
      /\ Opened(more, context.applied) = Opened(context.clips, context.applied)
  BY <1>2, CanvasIs, SavedBefore, OpenedAlike DEF CanvasInv
<1> HIDE DEF more
<1>5. /\ context' \in Contexts /\ context'.style = context.style /\ context'.clips = more
      /\ context'.applied = context.applied /\ context'.size = context.size
      /\ context'.saved = context.saved
  BY <1>1, <1>2, <1>3 DEF Contexts
<1>6. /\ ideal' \in Ideals /\ ideal'.style = ideal.style /\ ideal'.clips = more
      /\ ideal'.saved = ideal.saved /\ ideal'.picture = ideal.picture
  BY <1>1, <1>2, <1>3 DEF Ideals
<1>7. CanvasTyped'
  BY <1>1, <1>2, <1>5, <1>6 DEF CanvasInv, CanvasTyped, Contexts, Ideals
<1>8. BatchIsOwed'
  BY <1>1 DEF CanvasInv, BatchIsOwed, EmptyBatch
<1>9. StatesAgree'
  BY <1>3, CanvasIs, <1>1, <1>5, <1>6 DEF CanvasInv, StatesAgree
<1>10. SavedAgree(context'.saved, ideal'.saved, context'.clips)
  BY <1>4, <1>5, <1>6
<1>11. Renders(SoFar', context'.clips, context'.applied, ideal'.picture)
  BY <1>1, <1>4, <1>5, <1>6, SoFarStays DEF CanvasInv, Renders
<1>12. QED BY <1>7, <1>8, <1>9, <1>10, <1>11 DEF CanvasInv

\* A restore closes the layers of the clips its state had not.
LEMMA RestoreKeeps ==
  ASSUME CanvasInv, Restore PROVE CanvasInv'
<1> DEFINE to == Last(context.saved)
           n == Lifted(to)
           less == SubSeq(context.clips, 1, to.depth)
<1>1. /\ context.saved # <<>>
      /\ context' = [context EXCEPT !.style = to.style, !.saved = Front(@), !.applied = @ - n,
                                    !.clips = less]
      /\ stream' = stream \o PopLayers(n)
      /\ flushes' = IF n > 0 THEN OwedFlush ELSE flushes
      /\ ideal' = [ideal EXCEPT !.saved = Front(@), !.style = Last(ideal.saved).style,
                                !.clips = Last(ideal.saved).clips]
      /\ UNCHANGED <<surface, attribute, marks, clips>>
  BY DEF Restore
<1>2. context \in Contexts /\ ideal \in Ideals
  BY DEF CanvasInv, CanvasTyped, Contexts, Ideals
<1>3. /\ to \in [style : Styles, depth : Nat] /\ to.depth \in 0 .. Len(context.clips)
      /\ Last(ideal.saved).style = to.style /\ Last(ideal.saved).clips = less
      /\ Front(context.saved) \in Seq([style : Styles, depth : Nat])
      /\ Front(ideal.saved) \in Seq([style : Styles, clips : Seq(Nat)])
      /\ less \in Seq(Nat) /\ Len(less) = to.depth
      /\ SavedAgree(Front(context.saved), Front(ideal.saved), less)
  BY <1>1, CanvasIs, SavedLoses DEF CanvasInv
<1>4. /\ n \in 0 .. context.applied /\ context.applied - n \in 0 .. to.depth
      /\ context.applied - n \in 0 .. Len(context.clips) /\ context.applied - n \in Nat
      /\ to.depth \in context.applied - n .. Len(context.clips)
  <2> HIDE DEF to
  <2>1. context.applied \in Nat /\ to.depth \in Nat /\ context.applied <= Len(context.clips)
        /\ to.depth <= Len(context.clips) /\ Len(context.clips) \in Nat
    BY <1>3, CanvasIs
  <2>2. QED BY <2>1 DEF Lifted
<1>5. Opened(less, context.applied - n) = Opened(context.clips, context.applied - n)
  <2> HIDE DEF n, to
  <2>1. QED BY <1>4, CanvasIs, OpenedAlike
<1> HIDE DEF to, n, less
<1>6. /\ PopLayers(n) \in Seq(Commands)
      /\ Renders(Rendered(SoFar, PopLayers(n)), context.clips, context.applied - n, ideal.picture)
  BY <1>4, CanvasIs, LayersShow DEF CanvasInv
<1>7. stream' \in Seq(Commands) /\ SoFar' = Rendered(SoFar, PopLayers(n))
  BY <1>1, <1>6, BatchGrows
<1>8. /\ context' \in Contexts /\ context'.style = to.style /\ context'.clips = less
      /\ context'.applied = context.applied - n /\ context'.size = context.size
      /\ context'.saved = Front(context.saved)
  BY <1>1, <1>2, <1>3, <1>4 DEF Contexts
<1>9. /\ ideal' \in Ideals /\ ideal'.style = to.style /\ ideal'.clips = less
      /\ ideal'.saved = Front(ideal.saved) /\ ideal'.picture = ideal.picture
  BY <1>1, <1>2, <1>3 DEF Ideals
<1>10. flushes' \in [drawn : BOOLEAN, microtask : BOOLEAN]
  BY <1>1 DEF CanvasInv, CanvasTyped, OwedFlush
<1>11. CanvasTyped'
  BY <1>1, <1>7, <1>8, <1>9, <1>10 DEF CanvasInv, CanvasTyped, Contexts, Ideals
<1>12. BatchIsOwed'
  <2>1. CASE n > 0
    BY <1>1, <2>1 DEF BatchIsOwed, OwedFlush
  <2>2. CASE ~(n > 0)
    <3>1. n = 0 /\ flushes' = flushes
      BY <1>1, <1>4, <2>2
    <3>2. PopLayers(0) = <<>>
      BY DEF PopLayers
    <3>3. stream \in Seq(Commands)
      BY DEF CanvasInv, CanvasTyped
    <3>4. stream' = stream
      BY <1>1, <3>1, <3>2, <3>3
    <3>5. QED BY <3>1, <3>4 DEF CanvasInv, BatchIsOwed, EmptyBatch
  <2>3. QED BY <2>1, <2>2
<1>13. StatesAgree'
  BY <1>3, <1>4, <1>8, <1>1, <1>9 DEF CanvasInv, StatesAgree
<1>14. SavedAgree(context'.saved, ideal'.saved, context'.clips)
  BY <1>3, <1>8, <1>9
<1>15. Renders(SoFar', context'.clips, context'.applied, ideal'.picture)
  BY <1>5, <1>6, <1>7, <1>8, <1>9 DEF Renders
<1>16. QED BY <1>11, <1>12, <1>13, <1>14, <1>15 DEF CanvasInv

\* A flush that is owed is owed by the task and by the frame.
LEMMA OwedIs == OwedFlush \in [drawn : BOOLEAN, microtask : BOOLEAN]
                /\ OwedFlush.drawn /\ OwedFlush.microtask
BY DEF OwedFlush

\* A mark opens the clips it needs, and is drawn under all of them.
LEMMA DrawKeeps ==
  ASSUME CanvasInv, NEW kind \in {"paint", "image"}, DrawMark(kind) PROVE CanvasInv'
<1> DEFINE L == Len(context.clips)
           p == [id |-> marks + 1, style |-> ideal.style, under |-> ideal.clips]
           size == IF Layered(kind) THEN BackingStore ELSE context.size
           W == IF Layered(kind)
                THEN PushLayer(context.style) \o Mark(marks + 1, "plain") \o PopLayers(1)
                ELSE Mark(marks + 1, context.style)
<1>1. /\ stream' = stream \o OpenedClips \o W /\ marks' = marks + 1
      /\ context' = [context EXCEPT !.applied = L, !.size = size]
      /\ flushes' = OwedFlush /\ ideal' = [ideal EXCEPT !.picture = Append(@, p)]
      /\ UNCHANGED <<surface, attribute, clips>>
  BY DEF DrawMark, WriteMark, Drawn
<1>2. context \in Contexts /\ ideal \in Ideals /\ marks + 1 \in Nat
  BY DEF CanvasInv, CanvasTyped, Contexts, Ideals
<1>3. /\ context.style = ideal.style /\ context.clips = ideal.clips /\ context.style \in Styles
      /\ context.style \in Inks
  BY <1>2 DEF CanvasInv, StatesAgree, Contexts, Inks
<1>4. /\ OpenedClips \in Seq(Commands) /\ Rendered(SoFar, OpenedClips) \in Renderings
      /\ Renders(Rendered(SoFar, OpenedClips), context.clips, L, ideal.picture)
  BY ClipsAreOpened
<1>5. SubSeq(context.clips, 1, L) = context.clips /\ L \in 0 .. L /\ L \in Nat
  BY CanvasIs, AllAndNone
<1>6. /\ W \in Seq(Commands)
      /\ Renders(Rendered(Rendered(SoFar, OpenedClips), W), context.clips, L, Append(ideal.picture, p))
  <2> DEFINE q == [id |-> marks + 1, style |-> context.style, under |-> SubSeq(context.clips, 1, L)]
  <2>1. q = p
    BY <1>3, <1>5
  <2>2. /\ W \in Seq(Commands)
        /\ Renders(Rendered(Rendered(SoFar, OpenedClips), W), context.clips, L, Append(ideal.picture, q))
    <3> DEFINE r == Rendered(SoFar, OpenedClips)
    <3> HIDE DEF r
    <3>0. r \in Renderings /\ Renders(r, context.clips, L, ideal.picture)
      BY <1>4 DEF r
    <3>1. CASE Layered(kind)
      BY <3>0, <3>1, <1>2, <1>3, <1>5, CanvasIs, LayerShows DEF r
    <3>2. CASE ~Layered(kind)
      BY <3>2, <3>0, <1>2, <1>3, <1>5, CanvasIs, MarkShows DEF Layered, r
    <3>3. QED BY <3>1, <3>2
  <2>3. QED BY <2>1, <2>2
<1>7. p \in Pictured /\ Append(ideal.picture, p) \in Seq(Pictured)
  <2>1. p \in Pictured
    BY <1>2, <1>3, CanvasIs DEF Pictured
  <2> HIDE DEF p
  <2>2. QED BY <2>1, CanvasIs
<1>8. size \in {0, surface.size} /\ size \in {0} \cup Sizes
  BY StoreIs, CanvasIs DEF CanvasInv, StatesAgree
<1> HIDE DEF W, p, size, L
<1>9. stream' \in Seq(Commands) /\ SoFar' = Rendered(Rendered(SoFar, OpenedClips), W)
  BY <1>1, <1>4, <1>6, BothAreWritten
<1>10. /\ context' \in Contexts /\ context'.style = context.style /\ context'.clips = context.clips
       /\ context'.applied = L /\ context'.size = size /\ context'.saved = context.saved
  BY <1>1, <1>2, <1>5, <1>8 DEF Contexts
<1>11. /\ ideal' \in Ideals /\ ideal'.style = ideal.style /\ ideal'.clips = ideal.clips
       /\ ideal'.saved = ideal.saved /\ ideal'.picture = Append(ideal.picture, p)
  <2> HIDE DEF Pictured
  <2>1. QED BY <1>1, <1>2, <1>7 DEF Ideals
<1>12. CanvasTyped'
  BY <1>1, <1>2, <1>9, <1>10, <1>11, OwedIs DEF CanvasInv, CanvasTyped, Contexts, Ideals
<1>13. BatchIsOwed'
  BY <1>1, OwedIs DEF BatchIsOwed
<1>14. StatesAgree'
  BY <1>1, <1>5, <1>8, <1>10, <1>11 DEF CanvasInv, StatesAgree, L
<1>15. SavedAgree(context'.saved, ideal'.saved, context'.clips)
  BY <1>10, <1>11 DEF CanvasInv
<1>16. Renders(SoFar', context'.clips, context'.applied, ideal'.picture)
  BY <1>6, <1>9, <1>10, <1>11
<1>17. QED BY <1>12, <1>13, <1>14, <1>15, <1>16 DEF CanvasInv

\* An image that is put closes every layer first, and lies under no clip.
LEMMA PutKeeps ==
  ASSUME CanvasInv, PutImageData PROVE CanvasInv'
<1> DEFINE p == [id |-> marks + 1, style |-> "put", under |-> <<>>]
           m == Mark(marks + 1, "put")
           t == PopLayers(context.applied)
<1>1. /\ stream' = stream \o t \o m /\ marks' = marks + 1
      /\ context' = [context EXCEPT !.applied = 0]
      /\ flushes' = OwedFlush /\ ideal' = [ideal EXCEPT !.picture = Append(@, p)]
      /\ UNCHANGED <<surface, attribute, clips>>
  BY DEF PutImageData, Drawn
<1>2. context \in Contexts /\ ideal \in Ideals /\ marks + 1 \in Nat
  BY DEF CanvasInv, CanvasTyped, Contexts, Ideals
<1>3. /\ SubSeq(context.clips, 1, 0) = <<>> /\ 0 \in 0 .. Len(context.clips) /\ "put" \in Inks
      /\ context.applied \in 0 .. context.applied /\ context.applied - context.applied = 0
  BY CanvasIs, AllAndNone DEF Inks
<1>4. /\ t \in Seq(Commands) /\ Renders(Rendered(SoFar, t), context.clips, 0, ideal.picture)
  BY <1>3, CanvasIs, LayersShow DEF CanvasInv
<1> HIDE DEF t
<1>5. Rendered(SoFar, t) \in Renderings
  BY <1>4, CanvasIs, ReplayGoesOn
<1>6. /\ m \in Seq(Commands)
      /\ Renders(Rendered(Rendered(SoFar, t), m), context.clips, 0, Append(ideal.picture, p))
  <2> DEFINE r == Rendered(SoFar, t)
  <2> HIDE DEF r
  <2>0. r \in Renderings /\ Renders(r, context.clips, 0, ideal.picture) /\ context.clips \in Seq(Nat)
    BY <1>4, <1>5, CanvasIs DEF r
  <2>1. /\ m \in Seq(Commands)
        /\ Renders(Rendered(r, m), context.clips, 0,
                   Append(ideal.picture, [id |-> marks + 1, style |-> "put", under |-> SubSeq(context.clips, 1, 0)]))
    BY <2>0, <1>2, <1>3, MarkShows
  <2>2. QED BY <2>1, <1>3 DEF r
<1>7. p \in Pictured /\ Append(ideal.picture, p) \in Seq(Pictured)
  <2>1. p \in Pictured
    BY <1>2, <1>3, NoneSaved DEF Pictured
  <2> HIDE DEF p
  <2>2. QED BY <2>1, CanvasIs
<1> HIDE DEF m, p
<1>9. stream' \in Seq(Commands) /\ SoFar' = Rendered(Rendered(SoFar, t), m)
  BY <1>1, <1>4, <1>6, BothAreWritten
<1>10. /\ context' \in Contexts /\ context'.style = context.style /\ context'.clips = context.clips
       /\ context'.applied = 0 /\ context'.size = context.size /\ context'.saved = context.saved
  BY <1>1, <1>2 DEF Contexts
<1>11. /\ ideal' \in Ideals /\ ideal'.style = ideal.style /\ ideal'.clips = ideal.clips
       /\ ideal'.saved = ideal.saved /\ ideal'.picture = Append(ideal.picture, p)
  <2> HIDE DEF Pictured
  <2>1. QED BY <1>1, <1>2, <1>7 DEF Ideals
<1>12. CanvasTyped'
  BY <1>1, <1>2, <1>9, <1>10, <1>11, OwedIs DEF CanvasInv, CanvasTyped, Contexts, Ideals
<1>13. BatchIsOwed'
  BY <1>1, OwedIs DEF BatchIsOwed
<1>14. StatesAgree'
  BY <1>1, <1>10, <1>11, CanvasIs, AllAndNone DEF CanvasInv, StatesAgree
<1>15. SavedAgree(context'.saved, ideal'.saved, context'.clips)
  BY <1>10, <1>11 DEF CanvasInv
<1>16. Renders(SoFar', context'.clips, context'.applied, ideal'.picture)
  BY <1>6, <1>9, <1>10, <1>11
<1>17. QED BY <1>12, <1>13, <1>14, <1>15, <1>16 DEF CanvasInv


\* A clear forgets the scene or erases with a mark; either way the picture is the same.
LEMMA ClearKeeps ==
  ASSUME CanvasInv, NEW extent \in {0} \cup Sizes, ClearRect(extent) PROVE CanvasInv'
<1>0. /\ context \in Contexts /\ ideal \in Ideals /\ marks + 1 \in Nat
      /\ context.style = ideal.style /\ context.clips = ideal.clips
      /\ BackingStore = surface.size
  BY StoreIs DEF CanvasInv, StatesAgree, CanvasTyped, Contexts, Ideals
<1>1. Unclipped <=> ideal.clips = <<>>
  BY CanvasIs, <1>0 DEF Unclipped
<1>2. CASE Unclipped /\ Covers(extent)
  <2>1. /\ stream' = ResetAll /\ marks' = marks + 1
        /\ context' = [context EXCEPT !.size = BackingStore]
        /\ flushes' = OwedFlush /\ ideal' = [ideal EXCEPT !.picture = <<>>]
        /\ UNCHANGED <<surface, attribute, clips>>
    BY <1>0, <1>1, <1>2 DEF ClearRect, Covers
  <2>2. context.applied = 0
    BY <1>2 DEF Unclipped
  <2>3. stream' \in Seq(Commands) /\ Renders(SoFar', context.clips, 0, <<>>)
    BY <2>1, CanvasIs, ResetShows
  <2>4. /\ context' \in Contexts /\ context'.style = context.style /\ context'.clips = context.clips
        /\ context'.applied = context.applied /\ context'.size = surface.size
        /\ context'.saved = context.saved
    BY <2>1, <1>0, CanvasIs DEF Contexts
  <2>5. /\ ideal' \in Ideals /\ ideal'.style = ideal.style /\ ideal'.clips = ideal.clips
        /\ ideal'.saved = ideal.saved /\ ideal'.picture = <<>>
    <3> HIDE DEF Pictured
    <3>1. QED BY <2>1, <1>0, NoneSaved DEF Ideals
  <2>6. CanvasTyped'
    BY <2>1, <1>0, <2>3, <2>4, <2>5, OwedIs DEF CanvasInv, CanvasTyped, Contexts, Ideals
  <2>7. BatchIsOwed'
    BY <2>1, OwedIs DEF BatchIsOwed
  <2>8. StatesAgree'
    BY <2>1, <2>4, <2>5 DEF CanvasInv, StatesAgree
  <2>9. SavedAgree(context'.saved, ideal'.saved, context'.clips)
    BY <2>4, <2>5 DEF CanvasInv
  <2>10. Renders(SoFar', context'.clips, context'.applied, ideal'.picture)
    BY <2>2, <2>3, <2>4, <2>5
  <2>11. QED BY <2>6, <2>7, <2>8, <2>9, <2>10 DEF CanvasInv
<1>3. CASE ~(Unclipped /\ Covers(extent))
  <2> DEFINE L == Len(context.clips)
             p == [id |-> marks + 1, style |-> "out", under |-> ideal.clips]
             size == IF Unclipped THEN BackingStore ELSE context.size
             W == PushLayer("out") \o Mark(marks + 1, "plain") \o PopLayers(1)
  <2>1. /\ stream' = stream \o OpenedClips \o PushLayer("out") \o Mark(marks + 1, "plain") \o PopLayers(1)
        /\ marks' = marks + 1
        /\ context' = [context EXCEPT !.applied = L, !.size = size]
        /\ flushes' = OwedFlush /\ ideal' = [ideal EXCEPT !.picture = Append(@, p)]
        /\ UNCHANGED <<surface, attribute, clips>>
    BY <1>0, <1>1, <1>3 DEF ClearRect, Covers, Drawn
  <2>3. SubSeq(context.clips, 1, L) = context.clips /\ L \in 0 .. L /\ L \in Nat
    BY CanvasIs, AllAndNone
  <2>4. /\ OpenedClips \in Seq(Commands) /\ Rendered(SoFar, OpenedClips) \in Renderings
        /\ Renders(Rendered(SoFar, OpenedClips), context.clips, L, ideal.picture)
    BY ClipsAreOpened
  <2>5. "out" \in Inks /\ context.style \in Styles
    BY <1>0 DEF Inks, Contexts
  <2>6. /\ W \in Seq(Commands)
        /\ Renders(Rendered(Rendered(SoFar, OpenedClips), W), context.clips, L, Append(ideal.picture, p))
    <3> DEFINE r == Rendered(SoFar, OpenedClips)
    <3> HIDE DEF r
    <3>0. r \in Renderings /\ Renders(r, context.clips, L, ideal.picture)
      BY <2>4 DEF r
    <3>1. /\ W \in Seq(Commands)
          /\ Renders(Rendered(r, W), context.clips, L,
                     Append(ideal.picture, [id |-> marks + 1, style |-> "out", under |-> SubSeq(context.clips, 1, L)]))
      BY <3>0, <1>0, <2>3, <2>5, CanvasIs, LayerShows
    <3>2. QED BY <3>1, <2>3, <1>0 DEF r
  <2>7. p \in Pictured /\ Append(ideal.picture, p) \in Seq(Pictured)
    <3>1. p \in Pictured
      BY <1>0, <2>5, CanvasIs DEF Pictured
    <3> HIDE DEF p
    <3>2. QED BY <3>1, CanvasIs
  <2>8. size \in {0, surface.size} /\ size \in {0} \cup Sizes
    BY StoreIs, CanvasIs DEF CanvasInv, StatesAgree
  <2>9. stream' = stream \o OpenedClips \o W
    <3> DEFINE a == PushLayer("out")
               b == Mark(marks + 1, "plain")
               c == PopLayers(1)
    <3>1. a \in Seq(Commands) /\ b \in Seq(Commands) /\ c \in Seq(Commands)
      <4>1. [op |-> "layer", style |-> "out"] \in Commands
        BY DEF Commands, Layers, BlendLayers, Inks
      <4>2. [op |-> "mark", id |-> marks + 1, style |-> "plain"] \in Commands
        BY <1>0 DEF Commands, MarkCommands, Inks, Styles
      <4>3. [op |-> "pop"] \in Commands
        BY DEF Commands
      <4>4. a \in Seq(Commands)
        BY <4>1 DEF PushLayer
      <4>5. b \in Seq(Commands)
        BY <4>2 DEF Mark
      <4>6. c \in Seq(Commands)
        <5> DEFINE x == [op |-> "pop"]
        <5>1. c = [i \in 1 .. 1 |-> x]
          BY DEF PopLayers
        <5>2. x \in Commands
          BY <4>3
        <5> HIDE DEF x, c
        <5>3. QED BY <5>1, <5>2
      <4>7. QED BY <4>4, <4>5, <4>6
    <3> HIDE DEF a, b, c
    <3>2. stream \o OpenedClips \in Seq(Commands)
      BY <2>4, ConcatProperties DEF CanvasInv, CanvasTyped
    <3> DEFINE s == stream \o OpenedClips
    <3> HIDE DEF s
    <3>3. s \in Seq(Commands) /\ s \o a \o b \o c = s \o (a \o b \o c)
      <4>1. s \in Seq(Commands) /\ a \o b \in Seq(Commands)
        BY <3>1, <3>2, ConcatProperties DEF s
      <4>2. s \o a \o b = s \o (a \o b)
        BY <4>1, <3>1, ConcatAssociative
      <4>3. (s \o (a \o b)) \o c = s \o ((a \o b) \o c)
        <5> DEFINE ab == a \o b
        <5>1. ab \in Seq(Commands)
          BY <4>1
        <5> HIDE DEF ab
        <5>2. (s \o ab) \o c = s \o (ab \o c)
          BY <4>1, <3>1, <5>1, ConcatAssociative
        <5>3. QED BY <5>2 DEF ab
      <4>4. QED BY <4>1, <4>2, <4>3
    <3>4. QED BY <2>1, <3>3 DEF s, a, b, c
  <2> HIDE DEF W, p, size, L
  <2>10. stream' \in Seq(Commands) /\ SoFar' = Rendered(Rendered(SoFar, OpenedClips), W)
    BY <2>1, <2>4, <2>6, <2>9, BothAreWritten
  <2>11. /\ context' \in Contexts /\ context'.style = context.style /\ context'.clips = context.clips
         /\ context'.applied = L /\ context'.size = size /\ context'.saved = context.saved
    BY <2>1, <1>0, <2>3, <2>8 DEF Contexts
  <2>12. /\ ideal' \in Ideals /\ ideal'.style = ideal.style /\ ideal'.clips = ideal.clips
         /\ ideal'.saved = ideal.saved /\ ideal'.picture = Append(ideal.picture, p)
    <3> HIDE DEF Pictured
    <3>1. QED BY <2>1, <1>0, <2>7 DEF Ideals
  <2>13. CanvasTyped'
    BY <2>1, <1>0, <2>10, <2>11, <2>12, OwedIs DEF CanvasInv, CanvasTyped, Contexts, Ideals
  <2>14. BatchIsOwed'
    BY <2>1, OwedIs DEF BatchIsOwed
  <2>15. StatesAgree'
    BY <2>1, <2>3, <2>8, <2>11, <2>12 DEF CanvasInv, StatesAgree, L
  <2>16. SavedAgree(context'.saved, ideal'.saved, context'.clips)
    BY <2>11, <2>12 DEF CanvasInv
  <2>17. Renders(SoFar', context'.clips, context'.applied, ideal'.picture)
    BY <2>6, <2>10, <2>11, <2>12
  <2>18. QED BY <2>13, <2>14, <2>15, <2>16, <2>17 DEF CanvasInv
<1>4. QED BY <1>2, <1>3

\* A reset forgets the scene, and the state of the context with it.
LEMMA ResetKeeps ==
  ASSUME CanvasInv, Reset PROVE CanvasInv'
<1>1. /\ stream' = ResetAll /\ context' = [FreshContext EXCEPT !.size = context.size]
      /\ flushes' = OwedFlush /\ ideal' = IdealCanvas
      /\ UNCHANGED <<surface, attribute, marks, clips>>
  BY DEF Reset
<1>2. stream' \in Seq(Commands) /\ Renders(SoFar', <<>>, 0, <<>>)
  BY <1>1, NoneSaved, ResetShows
<1>3. /\ context' \in Contexts /\ context'.style = "plain" /\ context'.clips = <<>>
      /\ context'.applied = 0 /\ context'.size = context.size /\ context'.saved = <<>>
  BY <1>1, FreshIs, CanvasIs DEF Contexts
<1>4. CanvasTyped'
  BY <1>1, <1>2, <1>3, FreshIs, OwedIs DEF CanvasInv, CanvasTyped, Contexts, Ideals
<1>5. BatchIsOwed'
  BY <1>1, OwedIs DEF BatchIsOwed
<1>6. StatesAgree'
  BY <1>1, <1>3, FreshIs, NoneSaved DEF CanvasInv, StatesAgree
<1>7. SavedAgree(context'.saved, ideal'.saved, context'.clips)
  BY <1>1, <1>3, FreshIs, NoneSaved
<1>8. Renders(SoFar', context'.clips, context'.applied, ideal'.picture)
  BY <1>1, <1>2, <1>3, FreshIs
<1>9. QED BY <1>4, <1>5, <1>6, <1>7, <1>8 DEF CanvasInv

\* A context whose batch was submitted.
LEMMA SettledIs ==
  ASSUME CanvasInv
  PROVE  LET c == SettledContext(context) IN
         /\ c \in Contexts /\ c.style = context.style /\ c.clips = context.clips
         /\ c.applied = 0 /\ c.size = 0 /\ c.saved = context.saved
<1>1. context \in Contexts
  BY DEF CanvasInv, CanvasTyped, Contexts
<1>2. QED BY <1>1 DEF SettledContext, Contexts

\* A flush leaves the batch empty, and nothing owed.
LEMMA FlushKeeps ==
  ASSUME CanvasInv, FlushStream, context' = SettledContext(context),
         flushes' \in [drawn : BOOLEAN, microtask : BOOLEAN],
         UNCHANGED <<attribute, ideal, marks, clips>>
  PROVE  CanvasInv'
<1>1. surface' = FlushedSurface /\ stream' = EmptyBatch
  BY DEF FlushStream, FlushedSurface
<1>2. surface' \in Surfaces /\ surface'.size = surface.size /\ SurfaceShows(surface', ideal.picture)
  BY <1>1, FlushShows DEF Surfaces
<1>3. /\ context' \in Contexts /\ context'.style = context.style /\ context'.clips = context.clips
      /\ context'.applied = 0 /\ context'.size = 0 /\ context'.saved = context.saved
  BY SettledIs
<1>4. PICK picture : picture = ideal.picture
  OBVIOUS
<1>5. PICK list \in Seq(Nat) : list = context.clips
  BY CanvasIs
<1>6. stream' \in Seq(Commands) /\ Renders(SoFar', list, 0, picture)
  BY <1>1, <1>2, <1>4, EmptyShows DEF Surfaces, SoFar, LeftOff
<1>7. CanvasTyped'
  BY <1>2, <1>3, <1>6 DEF CanvasInv, CanvasTyped, Contexts, Surfaces
<1>8. BatchIsOwed'
  BY <1>1 DEF BatchIsOwed, EmptyBatch
<1>9. StatesAgree'
  BY <1>2, <1>3, CanvasIs, AllAndNone DEF SurfaceShows, CanvasInv, StatesAgree
<1>10. SavedAgree(context'.saved, ideal'.saved, context'.clips)
  BY <1>3 DEF CanvasInv
<1>11. Renders(SoFar', context'.clips, context'.applied, ideal'.picture)
  BY <1>3, <1>4, <1>5, <1>6
<1>12. QED BY <1>7, <1>8, <1>9, <1>10, <1>11 DEF CanvasInv

\* The flush of a task, of a frame and of a read.
LEMMA FlushesKeep ==
  ASSUME CanvasInv, FlushMicrotask \/ FrameFlush \/ ReadBack PROVE CanvasInv'
<1>1. /\ UNCHANGED <<attribute, ideal, marks, clips>>
      /\ flushes' = [flushes EXCEPT !.microtask = FALSE, !.drawn = FALSE]
         \/ flushes' = [flushes EXCEPT !.drawn = FALSE]
  BY DEF FlushMicrotask, FrameFlush, ReadBack
<1>2. flushes \in [drawn : BOOLEAN, microtask : BOOLEAN]
  BY DEF CanvasInv, CanvasTyped
<1>3. flushes' \in [drawn : BOOLEAN, microtask : BOOLEAN]
  BY <1>1, <1>2
<1>4. CASE FlushStream /\ context' = SettledContext(context)
  BY <1>1, <1>3, <1>4, FlushKeeps
<1>5. CASE ~flushes.drawn /\ UNCHANGED <<surface, stream, context>>
  <2>1. stream = EmptyBatch
    BY <1>5 DEF CanvasInv, BatchIsOwed
  <2>2. CanvasTyped'
    BY <1>1, <1>3, <1>5 DEF CanvasInv, CanvasTyped
  <2>3. BatchIsOwed'
    BY <2>1, <1>5 DEF BatchIsOwed, EmptyBatch
  <2>4. StatesAgree'
    BY <1>1, <1>5 DEF CanvasInv, StatesAgree
  <2>5. SavedAgree(context'.saved, ideal'.saved, context'.clips)
    BY <1>1, <1>5 DEF CanvasInv
  <2>6. Renders(SoFar', context'.clips, context'.applied, ideal'.picture)
    BY <1>1, <1>5, SoFarStays DEF CanvasInv
  <2>7. QED BY <2>2, <2>3, <2>4, <2>5, <2>6 DEF CanvasInv
<1>6. QED BY <1>4, <1>5 DEF FlushMicrotask, FrameFlush, ReadBack

\* A size that is written flushes first; a new size, or none, forgets the state.
LEMMA SizeKeeps ==
  ASSUME CanvasInv, NEW a \in {0} \cup Sizes, NEW forgets \in BOOLEAN, WriteSize(a, forgets)
  PROVE  CanvasInv'
<1> DEFINE lost == FlushedSurface.size # Extent(a)
<1>1. /\ attribute' = a /\ surface' = Resized(FlushedSurface, Extent(a)) /\ stream' = EmptyBatch
      /\ context' = (IF lost \/ forgets THEN FreshContext ELSE SettledContext(context))
      /\ flushes' = [flushes EXCEPT !.drawn = FALSE]
      /\ ideal' = [(IF lost \/ forgets THEN IdealCanvas ELSE ideal)
                      EXCEPT !.picture = IF lost THEN <<>> ELSE ideal.picture]
      /\ UNCHANGED <<marks, clips>>
  BY DEF WriteSize, FlushedSurface
<1>2. FlushedSurface \in Surfaces /\ SurfaceShows(FlushedSurface, ideal.picture)
  BY FlushShows DEF Surfaces
<1>3. flushes' \in [drawn : BOOLEAN, microtask : BOOLEAN]
  BY <1>1 DEF CanvasInv, CanvasTyped
<1>4. surface' \in Surfaces /\ SurfaceShows(surface', IF lost THEN <<>> ELSE ideal.picture)
  <2>1. CASE lost
    <3>1. surface' = [FlushedSurface EXCEPT !.size = Extent(a), !.scene = <<>>, !.destructive = FALSE]
      BY <1>1, <2>1 DEF Resized
    <3>2. <<>> \in Seq(Records) /\ Shown(<<>>) = <<>> /\ Extent(a) \in Sizes
      BY ExtentIs DEF Shown
    <3>3. surface' \in Surfaces /\ surface'.scene = <<>> /\ surface'.refused = FlushedSurface.refused
      <4> HIDE DEF Records, FlushedSurface
      <4>1. QED BY <3>1, <3>2, <1>2 DEF Surfaces
    <3>4. SurfaceShows(surface', <<>>)
      BY <1>2, <3>2, <3>3 DEF SurfaceShows
    <3>5. QED BY <2>1, <3>3, <3>4
  <2>2. CASE ~lost
    BY <1>1, <2>2, <1>2 DEF Resized
  <2>3. QED BY <2>1, <2>2
<1>5. context \in Contexts /\ ideal \in Ideals
  BY DEF CanvasInv, CanvasTyped, Contexts, Ideals
<1>6. /\ context' \in Contexts /\ ideal' \in Ideals /\ context'.applied = 0 /\ context'.size = 0
      /\ context'.style = ideal'.style /\ context'.clips = ideal'.clips
      /\ ideal'.picture = (IF lost THEN <<>> ELSE ideal.picture)
      /\ SavedAgree(context'.saved, ideal'.saved, context'.clips)
  <2> DEFINE picture == IF lost THEN <<>> ELSE ideal.picture
  <2>0. picture \in Seq(Pictured)
    BY <1>5, NoneSaved DEF Ideals
  <2> HIDE DEF picture
  <2>1. CASE lost \/ forgets
    <3>1. context' = FreshContext /\ ideal' = [IdealCanvas EXCEPT !.picture = picture]
      BY <1>1, <2>1 DEF picture
    <3>2. /\ ideal' \in Ideals /\ ideal'.style = "plain" /\ ideal'.clips = <<>>
          /\ ideal'.saved = <<>> /\ ideal'.picture = picture
      <4> HIDE DEF Pictured
      <4>1. QED BY <3>1, <2>0, FreshIs DEF Ideals
    <3>3. QED BY <3>1, <3>2, FreshIs, NoneSaved DEF picture
  <2>2. CASE ~(lost \/ forgets)
    <3>1. context' = SettledContext(context) /\ ideal' = [ideal EXCEPT !.picture = picture]
      BY <1>1, <2>2 DEF picture
    <3>2. /\ ideal' \in Ideals /\ ideal'.style = ideal.style /\ ideal'.clips = ideal.clips
          /\ ideal'.saved = ideal.saved /\ ideal'.picture = picture
      <4> HIDE DEF Pictured
      <4>1. QED BY <3>1, <2>0, <1>5 DEF Ideals
    <3>3. QED BY <3>1, <3>2, SettledIs DEF CanvasInv, StatesAgree, picture
  <2>3. QED BY <2>1, <2>2
<1> HIDE DEF lost
<1>7. PICK picture : picture = IF lost THEN <<>> ELSE ideal.picture
  OBVIOUS
<1>8. PICK list \in Seq(Nat) : list = context'.clips
  BY <1>6 DEF Contexts
<1>9. stream' \in Seq(Commands) /\ Renders(SoFar', list, 0, picture)
  BY <1>1, <1>4, <1>7, EmptyShows DEF Surfaces, SoFar, LeftOff
<1>10. CanvasTyped'
  BY <1>1, <1>3, <1>4, <1>6, <1>9 DEF CanvasInv, CanvasTyped, Contexts, Ideals, Surfaces
<1>11. BatchIsOwed'
  BY <1>1 DEF BatchIsOwed, EmptyBatch
<1>12. StatesAgree'
  BY <1>4, <1>8, <1>6, AllAndNone DEF SurfaceShows, StatesAgree
<1>13. Renders(SoFar', context'.clips, context'.applied, ideal'.picture)
  BY <1>6, <1>7, <1>8, <1>9
<1>14. QED BY <1>6, <1>10, <1>11, <1>12, <1>13 DEF CanvasInv

\* A step that leaves the canvas alone.
LEMMA CanvasRests ==
  ASSUME CanvasInv, UNCHANGED canvasVars PROVE CanvasInv'
BY DEF canvasVars, CanvasInv, CanvasTyped, BatchIsOwed, EmptyBatch, StatesAgree, SavedAgree,
   Renders, SoFar, LeftOff

\* Every step keeps the invariant.
LEMMA CanvasSteps == CanvasInv /\ [CanvasNext]_canvasVars => CanvasInv'
<1> SUFFICES ASSUME CanvasInv, [CanvasNext]_canvasVars PROVE CanvasInv'
  OBVIOUS
<1>1. CASE \E style \in {"plain", "faint", "copy"} : SetStyle(style)
  BY <1>1, StyleKeeps DEF Styles
<1>2. CASE \E kind \in {"paint", "image"} : DrawMark(kind)
  BY <1>2, DrawKeeps
<1>3. CASE \E extent \in {0} \cup Sizes : ClearRect(extent)
  BY <1>3, ClearKeeps
<1>4. CASE \E size \in Sizes : SetSize(size)
  BY <1>4, SizeKeeps DEF SetSize
<1>5. CASE RemoveSize
  BY <1>5, SizeKeeps DEF RemoveSize
<1>6. CASE Save \/ Restore \/ Clip \/ PutImageData \/ Reset
  BY <1>6, SaveKeeps, RestoreKeeps, ClipKeeps, PutKeeps, ResetKeeps
<1>7. CASE FlushMicrotask \/ FrameFlush \/ ReadBack
  BY <1>7, FlushesKeep
<1>8. CASE UNCHANGED canvasVars
  BY <1>8, CanvasRests
<1>9. QED BY <1>1, <1>2, <1>3, <1>4, <1>5, <1>6, <1>7, <1>8 DEF CanvasNext

\* The invariant says that the picture is the same.
LEMMA CanvasSays == CanvasInv => PictureAgrees
<1> SUFFICES ASSUME CanvasInv PROVE PictureAgrees
  OBVIOUS
<1>1. Replayed(stream) = SoFar
  BY DEF Replayed, SoFar, Rendered, LeftOff
<1>2. Renders(SoFar, context.clips, context.applied, ideal.picture)
  BY DEF CanvasInv
<1>3. Len(SoFar.open) = context.applied
  BY <1>2, CanvasIs, OpenedIs DEF Renders
<1>4. stream # EmptyBatch => flushes.drawn /\ flushes.microtask
  BY DEF CanvasInv, BatchIsOwed
<1>5. Shown(SoFar.scene) = ideal.picture /\ ~SoFar.refused
      /\ ((\E i \in DOMAIN SoFar.scene : SoFar.scene[i].style = "copy") => SoFar.destructive)
  BY <1>2 DEF Renders
<1> HIDE DEF SoFar
<1>6. QED BY <1>1, <1>3, <1>4, <1>5 DEF PictureAgrees, Shown

\* Whatever is drawn, clipped, saved, restored, cleared, read back and resized, and
\* wherever the batches are cut between, the canvas shows the picture of one that is drawn
\* on at once (blitsen-blitz/src/canvas/record.rs:3-8, bootstrap/canvas_context.js).
THEOREM PictureHolds == CanvasSpec => []PictureAgrees
<1>1. CanvasSpec => []CanvasInv
  BY CanvasStarts, CanvasSteps, PTL DEF CanvasSpec
<1>2. QED BY <1>1, CanvasSays, PTL

=============================================================================
