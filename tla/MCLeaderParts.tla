---------------------------- MODULE MCLeaderParts ----------------------------
(***************************************************************************)
(* The parts of the leader that share no variable, side by side: each of   *)
(* them meets the others as inputs that take every value.  Each property   *)
(* reads the variables of one part, so an instance in which only the part  *)
(* named by part moves shows what their product would, and its states are  *)
(* the sum of theirs.  A part that does not move keeps one initial state.  *)
(***************************************************************************)
EXTENDS LeaderApp, OledMenu, XboxController, Haptic, ServoBus

VARIABLE part  \* the part that moves

PartsInit ==
    /\ part \in {"app", "menu", "pad", "haptic", "bus"}
    /\ Init /\ MenuInit /\ PadInit /\ HapticInit /\ BusInit
    /\ part # "pad" => ~padOn
    /\ part # "haptic" => gripLoad = CHOOSE l \in Loads : TRUE
    /\ part # "bus" => busSession = CHOOSE s \in BusSessions : TRUE

PartsNext ==
    /\ UNCHANGED part
    /\ \/ part = "app" /\ Next /\ UNCHANGED <<menuVars, padVars, hapticVars, busVars>>
       \/ part = "menu" /\ MenuNext /\ UNCHANGED <<vars, padVars, hapticVars, busVars>>
       \/ part = "pad" /\ PadNext /\ UNCHANGED <<vars, menuVars, hapticVars, busVars>>
       \/ part = "haptic" /\ HapticNext /\ UNCHANGED <<vars, menuVars, padVars, busVars>>
       \/ part = "bus" /\ BusNext /\ UNCHANGED <<vars, menuVars, padVars, hapticVars>>

partsVars == <<part, vars, menuVars, padVars, hapticVars, busVars>>

\* PadFairness, HapticFairness and BusFairness, each for the part that moves.
PartsFairness ==
    /\ WF_padVars(part = "pad" /\ PadTask) /\ WF_padVars(part = "pad" /\ PadTick)
    /\ WF_padVars(part = "pad" /\ PadReported)
    /\ WF_padVars(part = "pad" /\ PadTake) /\ WF_padVars(part = "pad" /\ PadTaken)
    /\ WF_hapticVars(part = "haptic" /\ LoadSample) /\ WF_hapticVars(part = "haptic" /\ HapticTick)
    /\ WF_hapticVars(part = "haptic" /\ HoldElapses)
    /\ WF_busVars(part = "bus" /\ TaskBegins)
    /\ \A t \in BusTasks :
        /\ WF_busVars(part = "bus" /\ (BusTake(t) \/ BusBusy(t)))
        /\ WF_busVars(part = "bus" /\ BusWork(t))

PartsSpec == PartsInit /\ [][PartsNext]_partsVars /\ PartsFairness
==============================================================================
