--------------------------- MODULE MCProcesses ---------------------------
(* Model checking of what processes do to each other and leave behind: the *)
(* children of a document, the builds and runs of the command line, and    *)
(* the processes that share a store.  The components share no state, so a  *)
(* behaviour exercises one of them, chosen by its first state.             *)
EXTENDS StandaloneBuild, WebStorage, MCProcessSupervisor, CanvasDrawing,
        ApplicationTest, BundleFormat, WorkerPorts

VARIABLE under   \* the component this behaviour exercises

allVars == <<under, buildVars, storeVars, vars, canvasVars, testVars,
             bundleVars, portVars>>

\* Two names the writers order differently stand in front of one that escapes.
PathsByUnit == <<"a", "b", "../c">>
PathsByByte == <<"b", "a", "../c">>

AllInit ==
    /\ under \in {"build", "storage", "children", "canvas", "test",
                  "bundle", "ports"}
    /\ BuildInit /\ StorageInit /\ Init /\ CanvasInit /\ TestInit
    /\ BundleInit /\ PortsInit
    \* One beginning for the parts a behaviour does not exercise.
    /\ under = "canvas" \/ (attribute = 0)
    /\ under = "bundle" \/ (file = Mach(TRUE, 1))

\* A step of one part leaves the others as they were.
Only(part) ==
    /\ under = part /\ UNCHANGED under
    /\ IF part = "build" THEN TRUE ELSE UNCHANGED buildVars
    /\ IF part = "storage" THEN TRUE ELSE UNCHANGED storeVars
    /\ IF part = "children" THEN TRUE ELSE UNCHANGED vars
    /\ IF part = "canvas" THEN TRUE ELSE UNCHANGED canvasVars
    /\ IF part = "test" THEN TRUE ELSE UNCHANGED testVars
    /\ IF part = "bundle" THEN TRUE ELSE UNCHANGED bundleVars
    /\ IF part = "ports" THEN TRUE ELSE UNCHANGED portVars

AllNext ==
    \/ Only("build") /\ BuildNext
    \/ Only("storage") /\ StorageNext
    \/ Only("children") /\ Next
    \/ Only("canvas") /\ CanvasNext
    \/ Only("test") /\ TestNext
    \/ Only("bundle") /\ BundleNext
    \/ Only("ports") /\ PortsNext

AllSpec == AllInit /\ [][AllNext]_allVars
=============================================================================
