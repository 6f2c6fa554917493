---------------------------- MODULE ScriptEngine ----------------------------
(***************************************************************************)
(* The script engine (src/adk/src/topologies/common/script_engine): runs   *)
(* the procedures of one scripted goal after the other.  The state is the  *)
(* static tws_topology_proc_script_engine; "proc" is the scripted goal     *)
(* whose script runs.  The callbacks into the goals engine are left to the *)
(* modules that compose it.                                                *)
(***************************************************************************)
EXTENDS Integers, Sequences, FiniteSets

CONSTANTS Goals,  \* goal_ids of the goals table, the numbers from 1
          Script, \* [scripted goals -> sequence of the kinds of its steps]
          SlowCancel \* kinds of steps that a service has to stop

ASSUME ScriptAssumption ==
    /\ IsFiniteSet(Goals) /\ Goals = 1 .. Cardinality(Goals)
    /\ DOMAIN Script \subseteq Goals
    /\ \A g \in DOMAIN Script : Len(Script[g]) \in Nat \ {0}

VARIABLES script, \* [state, next_step, proc]
          panic   \* the assertion that reset the device, or "none"

GOAL_ID_NONE == 0

IsScriptedGoal(goal) == goal \in DOMAIN Script

ScriptInit ==
    /\ script = [state |-> "idle", next_step |-> 0, proc |-> GOAL_ID_NONE]
    /\ panic = "none"

CurrentStep == Script[script.proc][script.next_step + 1]

EngineReset == [script EXCEPT !.state = "idle", !.next_step = 0]

(* ScriptEngine_StartScript: the engine must be idle. *)
StartScript(goal) ==
    IF script.state = "idle"
    THEN /\ script' = [state |-> "active", next_step |-> 0, proc |-> goal]
         /\ UNCHANGED panic
    ELSE /\ panic' = "script engine busy"
         /\ UNCHANGED script

(* ScriptEngine_CancelScript: only a script in progress can be cancelled. *)
CancelScriptTakesEffect == script.state = "active"

CancellingScript ==
    IF CancelScriptTakesEffect THEN [script EXCEPT !.state = "cancelling"] ELSE script

(* scriptEngine_ProcCompleteCfm for a step with the given result: whether  *)
(* it ends the script, and the engine's state after it.                    *)
EndsScript(result) ==
    /\ script.state = "active"
    /\ result = "success" => script.next_step + 1 = Len(Script[script.proc])

(* Mutant: a step that fails ends the goal, but the engine is not reset. *)
FailureKeepsScript(result) ==
    IF script.state # "active" \/ result # "success" THEN script
    ELSE IF EndsScript(result) THEN EngineReset
    ELSE [script EXCEPT !.next_step = @ + 1]

AfterStep(result) ==
    IF script.state # "active" THEN script
    ELSE IF EndsScript(result) THEN EngineReset
    ELSE [script EXCEPT !.next_step = @ + 1]
=============================================================================
