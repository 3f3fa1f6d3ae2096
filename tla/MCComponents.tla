----------------------------- MODULE MCComponents -----------------------------
(***************************************************************************)
(* Four components that share nothing, checked side by side: `part' is     *)
(* chosen once and for all, and only the variables of that component are   *)
(* in use.  Components bind constants and variables by their names.        *)
(***************************************************************************)
EXTENDS Credentials, Lifecycle, RealtimeSession

CONSTANTS
    Ids, FittingIds, Capacity, MaxMessages, MaxRuns, MaxEdits   \* RunHistory

VARIABLES
    part,
    messages, anonymous, repeated, deferred, sent, runs, edits, cut, split, pc  \* RunHistory

runVars == <<messages, anonymous, repeated, deferred, sent, runs, edits, cut, split, pc>>
allVars == <<part, vars, runVars, realtimeVars, lifecycleVars>>

Run == INSTANCE RunHistory WITH history <- messages

MCProcess  == [a |-> "p", b |-> "p", c |-> "q"]
MCRequests == DOMAIN MCProcess
MCIds      == {1, 2}
MCParts    == <<2, 1>>
MCSize     == [plain |-> 0, single |-> 1, fallback |-> 2]
MCModels   == DOMAIN MCSize

-----------------------------------------------------------------------------

Unused == "unused"

NoCredentials == Init /\ \A p \in Processes : held[p] = 0
NoRun ==
    /\ anonymous = Unused /\ repeated = Unused /\ deferred = Unused /\ sent = Unused
    /\ runs = Unused /\ pc = Unused /\ edits = Unused /\ cut = Unused /\ split = Unused
    /\ messages = Unused
NoResource == LifeInit /\ model = "plain"

PartsInit ==
    \/ /\ part = "credentials" /\ Init
       /\ NoRun /\ RealtimeInit /\ NoResource
    \/ /\ part = "run" /\ Run!Init
       /\ NoCredentials /\ RealtimeInit /\ NoResource
    \/ /\ part = "realtime" /\ RealtimeInit
       /\ NoCredentials /\ NoRun /\ NoResource
    \/ /\ part = "resources" /\ LifeInit
       /\ NoCredentials /\ NoRun /\ RealtimeInit

PartsNext ==
    \/ part = "credentials" /\ Next /\ UNCHANGED <<part, runVars, realtimeVars, lifecycleVars>>
    \/ part = "run" /\ Run!Next /\ UNCHANGED <<part, vars, realtimeVars, lifecycleVars>>
    \/ part = "realtime" /\ RealtimeNext /\ UNCHANGED <<part, vars, runVars, lifecycleVars>>
    \/ part = "resources" /\ LifeNext /\ UNCHANGED <<part, vars, runVars, realtimeVars>>

PartsSpec == PartsInit /\ [][PartsNext]_allVars

-----------------------------------------------------------------------------
(* The properties of the other parts, stated and explained in their modules. *)

\* The variables of the component in use have their types.
AllTypesOK ==
    /\ TypeOK /\ RealtimeTyped
    /\ part = "run" => Run!TypeOK
    /\ part = "resources" => ResourcesTyped

\* A run sends its provider a history that the provider accepts, and RepairMessages returns
\* one with nothing left to repair.
HistoriesValid == part = "run" => Run!SentValid /\ Run!RepairStable

\* What a provider is sent grows at its end only.
CacheStable == [][part = "run" => Run!CacheStep]_allVars
=============================================================================
