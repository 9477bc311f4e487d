-------------------------------- MODULE Offline --------------------------------
(***************************************************************************)
(* The offline tools of the command line.  They are separate processes     *)
(* that share no state, so a behaviour of this module is the work around   *)
(* one of them: importing a case, sealing and gating a bundle, publishing  *)
(* and verifying an experiment, replaying a workload.  The planners, which *)
(* keep no state, are in Planning.                                         *)
(***************************************************************************)
EXTENDS CaseImport, SealedBundle, ExperimentDir, ReplayRegression

CONSTANT Tools   \* the tools that may be used

ASSUME ToolsAssumption == Tools \subseteq {"import", "bundle", "experiment", "replay"}

VARIABLE tool

vars == <<tool, importVars, bundleVars, dirVars, replayVars>>

\* A tool that is not used keeps its variables at one value.
ImportIdle ==
    /\ disk = "unused" /\ case = "unused" /\ import = [pc |-> "unused"]
    /\ bundle = NoBundle /\ edits = [count |-> 0, torn |-> FALSE]
BundleIdle ==
    /\ file = [version |-> "v0.1", wellformed |-> FALSE, payload |-> NoPayload]
    /\ sealed = {} /\ signed = {} /\ edited = 0
ReplayIdle == replaying = "unused" /\ artifact = "unused" /\ ruling = NoRuling

Init ==
    /\ tool \in Tools
    /\ IF tool = "import" THEN ImportInit ELSE ImportIdle
    /\ IF tool = "bundle" THEN BundleInit ELSE BundleIdle
    /\ DirInit
    /\ IF tool = "replay" THEN ReplayInit ELSE ReplayIdle

Next ==
    /\ UNCHANGED tool
    /\ \/ tool = "import" /\ ImportNext /\ UNCHANGED <<bundleVars, dirVars, replayVars>>
       \/ tool = "bundle" /\ BundleNext /\ UNCHANGED <<importVars, dirVars, replayVars>>
       \/ tool = "experiment" /\ DirNext /\ UNCHANGED <<importVars, bundleVars, replayVars>>
       \/ tool = "replay" /\ ReplayNext /\ UNCHANGED <<importVars, bundleVars, dirVars>>

Spec == Init /\ [][Next]_vars

=============================================================================
