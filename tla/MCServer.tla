------------------------------ MODULE MCServer ------------------------------
(* The production host: a shared interview with its server; a deployment   *)
(* with two migrate runs and one replica; the backups; and the two stores   *)
(* of the API, side by side.  They share no state here, so a behaviour is   *)
(* of one of them, and of one table of the stores.                          *)
EXTENDS MCInterviewSession, Startup, Backups, ControlStores

CONSTANTS old, new, a
VARIABLE part

\* The older image has two migrations, the newer one three.
MCFiles == (old :> 2) @@ (new :> 3)

MCInit ==
  /\ part \in {"interview", "deployment", "backups",
               "stored runs", "stored scenarios", "stored budget"}
  /\ Init /\ StartupInit /\ HostInit /\ StoresInit
MCNext ==
  /\ UNCHANGED part
  /\ \/ part = "interview" /\ Next /\ UNCHANGED <<startupVars, hostVars, storeVars>>
     \/ part = "deployment" /\ StartupNext /\ UNCHANGED <<vars, hostVars, storeVars>>
     \/ part = "backups" /\ HostNext /\ UNCHANGED <<vars, startupVars, storeVars>>
     \/ /\ \/ part = "stored runs" /\ RunCalls
           \/ part = "stored scenarios" /\ ScenarioCalls
           \/ part = "stored budget" /\ BudgetCalls
        /\ UNCHANGED <<vars, startupVars, hostVars>>
MCSpec == MCInit /\ [][MCNext]_<<part, vars, startupVars, hostVars, storeVars>>
=============================================================================
