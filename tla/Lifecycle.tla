------------------------------ MODULE Lifecycle ------------------------------
(***************************************************************************)
(* What a run opens and closes (src/ai/loop.go, toolset_open.go,           *)
(* toolset_lifecycle.go and OpenModel of fallback.go).  The toolsets are   *)
(* opened before the run, each model when a step first selects it or a     *)
(* hook switches to it, and what was opened is closed when the run ends,   *)
(* or at once when something else that belongs to it fails to open.        *)
(*                                                                         *)
(* A toolset made of others and a fallback model open their parts one by   *)
(* one and have one closer for all.  Wrappers hand both on unchanged.  A   *)
(* resource is the number of its opening.                                  *)
(***************************************************************************)
EXTENDS Naturals, Sequences, FiniteSets

CONSTANTS
    Parts,          \* how many parts each toolset of the run has: a sequence
    Models,
    Size,           \* how many models a model opens: none when it is no ModelOpener
    MaxSteps,       \* bound: steps of the run
    MaxAgain        \* bound: how often wrappers ask a model again

ASSUME LifecycleAssumption ==
    /\ Parts \in Seq(Nat)
    /\ Size \in [Models -> Nat]
    /\ MaxSteps \in Nat /\ MaxAgain \in Nat

VARIABLES
    stage,          \* where the run is
    nth,            \* of the toolset or model being opened: parts seen so far
    opening,        \* resources of that one opened so far (closers, in openToolset)
    toolsets,       \* toolsets opened so far
    toolsetClosers, modelClosers,  \* the resources of each closer, in the order of opening
    model,          \* the run's model
    entered,        \* enteredModels
    switched,       \* the model was chosen by a hook, in this call of the wrapped request
    closing,        \* the resources the closer that is running has yet to close
    result,         \* the run has a result
    failed,         \* a closer failed
    left,           \* the consumer of a stream left after the run had its result
    steps, again,
    opened,         \* how many resources were ever opened
    live,           \* resources that are open
    lost,           \* resources whose closer came with a nil toolset and was dropped
    refused         \* models that were not opened when a wrapper called next again with them

books     == <<opened, live, lost>>
closers   == <<toolsetClosers, modelClosers>>
selection == <<model, entered, switched, steps, again, refused>>
outcome   == <<result, failed, left>>

lifecycleVars == <<stage, nth, opening, toolsets, closers, closing, books, selection, outcome>>

Stages == {"resolve", "toolsets", "step", "model", "hooks", "request", "rollback", "error",
           "closing", "ended"}

(* ---- opening ------------------------------------------------------------ *)

\* A part without a closer, or one that is no opener.
NothingOpened == opening' = opening /\ UNCHANGED books

\* A part is opened and hands over its closer.
PartOpened ==
    /\ opened' = opened + 1
    /\ live' = live \cup {opened'}
    /\ opening' = Append(opening, opened')
    /\ UNCHANGED lost

\* OpenToolset returned a closer with a nil toolset: an error, and no closer.
PartLost ==
    /\ opened' = opened + 1
    /\ live' = live \cup {opened'}
    /\ lost' = lost \cup {opened'}

\* toolsetForRun of every toolset, before the first is opened.
Resolve ==
    /\ stage = "resolve"
    /\ stage' \in {"toolsets", "closing"}
    /\ UNCHANGED <<nth, opening, toolsets, closers, closing, books, selection, outcome>>

ToolsetOpening == stage = "toolsets" /\ toolsets < Len(Parts)

OpenPart ==
    /\ ToolsetOpening
    /\ nth < Parts[toolsets + 1]
    /\ nth' = nth + 1
    /\ NothingOpened \/ PartOpened
    /\ UNCHANGED <<stage, toolsets, closers, closing, selection, outcome>>

\* A part does not open: its siblings are closed, then the toolsets before it.
OpenPartFails ==
    /\ ToolsetOpening
    /\ nth < Parts[toolsets + 1]
    /\ \/ UNCHANGED books
       \/ PartLost
    /\ closing' = opening
    /\ opening' = <<>>
    /\ stage' = "closing"
    /\ UNCHANGED <<nth, toolsets, closers, selection, outcome>>

ToolsetOpened ==
    /\ ToolsetOpening
    /\ nth = Parts[toolsets + 1]
    /\ toolsets' = toolsets + 1
    /\ toolsetClosers' = Append(toolsetClosers, opening)
    /\ opening' = <<>>
    /\ nth' = 0
    /\ UNCHANGED <<stage, modelClosers, closing, books, selection, outcome>>

ToolsetsOpened ==
    /\ stage = "toolsets"
    /\ toolsets = Len(Parts)
    /\ stage' = "step"
    /\ UNCHANGED <<nth, opening, toolsets, closers, closing, books, selection, outcome>>

(* ---- a model request ---------------------------------------------------- *)

\* openSelectedModel: a model that was entered is not opened again.
Enter(m, next) ==
    /\ model' = m
    /\ stage' = IF m \in entered THEN next ELSE "model"

\* selectModel: the model of the run stays, or a selector names another.
Select ==
    /\ stage = "step"
    /\ steps < MaxSteps
    /\ steps' = steps + 1
    /\ \E m \in Models : Enter(m, "hooks")
    /\ switched' = FALSE
    /\ refused' = {}
    /\ UNCHANGED <<nth, opening, toolsets, closers, closing, books, entered, again, outcome>>

\* A selector fails, perhaps after another one has named a model.
SelectFails ==
    /\ stage = "step"
    /\ stage' = "error"
    /\ \E m \in Models : model' = m
    /\ switched' = FALSE
    /\ UNCHANGED <<nth, opening, toolsets, closers, closing, books, entered, steps, again,
                   refused, outcome>>

OpenModel ==
    /\ stage = "model"
    /\ nth < Size[model]
    /\ nth' = nth + 1
    /\ NothingOpened \/ PartOpened
    /\ UNCHANGED <<stage, toolsets, closers, closing, selection, outcome>>

\* Mutant: a fallback model that cannot open a member forgets those it has opened.
OpenModelFailsOnly ==
    /\ stage = "model"
    /\ nth < Size[model]
    /\ closing' = <<>>
    /\ opening' = <<>>
    /\ nth' = 0
    /\ stage' = "rollback"
    /\ UNCHANGED <<toolsets, closers, books, selection, outcome>>

\* Mutant: openSelectedModel remembers the model before it opens it.
OpenModelFailsRemembered ==
    /\ stage = "model"
    /\ nth < Size[model]
    /\ closing' = opening
    /\ opening' = <<>>
    /\ nth' = 0
    /\ stage' = "rollback"
    /\ entered' = entered \cup {model}
    /\ UNCHANGED <<toolsets, closers, books, model, switched, steps, again, refused, outcome>>

\* A member of the model does not open: FallbackModel.OpenModel closes those before it.
OpenModelFails ==
    /\ stage = "model"
    /\ nth < Size[model]
    /\ closing' = opening
    /\ opening' = <<>>
    /\ nth' = 0
    /\ stage' = "rollback"
    /\ UNCHANGED <<toolsets, closers, books, selection, outcome>>

ModelOpened ==
    /\ stage = "model"
    /\ nth = Size[model]
    /\ entered' = entered \cup {model}
    /\ modelClosers' = Append(modelClosers, opening)
    /\ opening' = <<>>
    /\ nth' = 0
    /\ stage' = IF switched THEN "request" ELSE "hooks"
    /\ UNCHANGED <<toolsets, toolsetClosers, closing, books, model, switched, steps, again,
                   refused, outcome>>

\* The before hooks of the request: it is opened when they named another model than the run's.
Hooks ==
    /\ stage = "hooks"
    /\ \E m \in Models :
         IF m = model THEN model' = m /\ stage' = "request" ELSE Enter(m, "request")
    /\ switched' = TRUE
    /\ UNCHANGED <<nth, opening, toolsets, closers, closing, books, entered, steps, again,
                   refused, outcome>>

\* A hook fails, or, outside the wrappers, what is prepared for it (a toolset of the step).
HooksFail ==
    /\ stage = "hooks"
    /\ stage' = "error"
    /\ switched' \in {switched, TRUE}
    /\ UNCHANGED <<nth, opening, toolsets, closers, closing, books, model, entered, steps,
                   again, refused, outcome>>

\* The loop is left, with a result or an error.  What follows of a stream may still be
\* wrapped in events, at one of which its consumer leaves.
Leave ==
    /\ stage' = "closing"
    /\ left' \in {FALSE, result'}
    /\ UNCHANGED <<nth, opening, toolsets, closers, closing, books, selection, failed>>

\* The model answers: with tool calls, finally, or not at all.
Respond ==
    /\ stage = "request"
    /\ \/ /\ stage' \in {"step", "error"}
          /\ UNCHANGED <<nth, opening, toolsets, closers, closing, books, selection, outcome>>
       \/ result' = TRUE /\ Leave

\* A wrapper of the request gets its error and calls next again.
AskAgain ==
    /\ stage = "error"
    /\ switched
    /\ again < MaxAgain
    /\ again' = again + 1
    /\ refused' = {model} \ entered
    /\ stage' = "hooks"
    /\ UNCHANGED <<nth, opening, toolsets, closers, closing, books, model, entered, switched,
                   steps, outcome>>

\* An error ends the run, also with what an error hook makes of it, or is a RetryError.
GiveUp ==
    /\ stage = "error"
    /\ \/ /\ stage' = "step"
          /\ UNCHANGED <<nth, opening, toolsets, closers, closing, books, selection, outcome>>
       \/ result' \in BOOLEAN /\ Leave

(* ---- closing ------------------------------------------------------------ *)

\* A closer closes the last of its resources, whether or not one before it failed.
CloseOne ==
    /\ stage \in {"closing", "rollback"}
    /\ closing # <<>>
    /\ live' = live \ {closing[Len(closing)]}
    /\ closing' = SubSeq(closing, 1, Len(closing) - 1)
    /\ failed' \in IF stage = "closing" THEN {failed, TRUE} ELSE {failed}
    /\ UNCHANGED <<stage, nth, opening, toolsets, closers, opened, lost, selection, result, left>>

RolledBack ==
    /\ stage = "rollback"
    /\ closing = <<>>
    /\ stage' = "error"
    /\ UNCHANGED <<nth, opening, toolsets, closers, closing, books, selection, outcome>>

\* closeRunResources: the last model that was opened first, then the last toolset.
CloseNext ==
    /\ stage = "closing"
    /\ closing = <<>>
    /\ \/ /\ modelClosers # <<>>
          /\ closing' = modelClosers[Len(modelClosers)]
          /\ modelClosers' = SubSeq(modelClosers, 1, Len(modelClosers) - 1)
          /\ UNCHANGED toolsetClosers
       \/ /\ modelClosers = <<>>
          /\ toolsetClosers # <<>>
          /\ closing' = toolsetClosers[Len(toolsetClosers)]
          /\ toolsetClosers' = SubSeq(toolsetClosers, 1, Len(toolsetClosers) - 1)
          /\ UNCHANGED modelClosers
    /\ UNCHANGED <<stage, nth, opening, toolsets, books, selection, outcome>>

\* A run that could not close all it had opened has no result, but a stream whose consumer
\* has left is closed without anybody to be told of an error.
EndRun ==
    /\ stage = "closing"
    /\ closing = <<>> /\ modelClosers = <<>> /\ toolsetClosers = <<>>
    /\ stage' = "ended"
    /\ result' = (result /\ (left \/ ~failed))
    /\ UNCHANGED <<nth, opening, toolsets, closers, closing, books, selection, failed, left>>

-----------------------------------------------------------------------------

LifeInit ==
    /\ stage = "resolve"
    /\ nth = 0 /\ opening = <<>> /\ toolsets = 0
    /\ toolsetClosers = <<>> /\ modelClosers = <<>> /\ closing = <<>>
    /\ model \in Models /\ entered = {} /\ switched = FALSE /\ refused = {}
    /\ result = FALSE /\ failed = FALSE /\ left = FALSE
    /\ steps = 0 /\ again = 0
    /\ opened = 0 /\ live = {} /\ lost = {}

LifeNext ==
    \/ Resolve \/ OpenPart \/ OpenPartFails \/ ToolsetOpened \/ ToolsetsOpened
    \/ Select \/ SelectFails \/ OpenModel \/ OpenModelFails \/ ModelOpened
    \/ Hooks \/ HooksFail \/ Respond \/ AskAgain \/ GiveUp
    \/ CloseOne \/ RolledBack \/ CloseNext \/ EndRun

LifeSpec == LifeInit /\ [][LifeNext]_lifecycleVars

-----------------------------------------------------------------------------

Resources == 1..opened
Elems(s)  == {s[i] : i \in DOMAIN s}
Held(c)   == UNION {Elems(c[i]) : i \in DOMAIN c}

\* The variables have their types.
ResourcesTyped ==
    /\ stage \in Stages
    /\ nth \in Nat /\ toolsets \in 0..Len(Parts)
    /\ opening \in Seq(Resources) /\ closing \in Seq(Resources)
    /\ toolsetClosers \in Seq(Seq(Resources)) /\ modelClosers \in Seq(Seq(Resources))
    /\ model \in Models /\ entered \subseteq Models
    /\ refused \subseteq Models
    /\ {switched, result, failed, left} \subseteq BOOLEAN
    /\ steps \in 0..MaxSteps /\ again \in 0..MaxAgain
    /\ opened \in Nat /\ live \subseteq Resources /\ lost \subseteq Resources

\* What is closed is what was opened last, across toolsets, models and their parts, in
\* rollbacks as at the end; a run ends with everything closed, and with a result only when no
\* closer failed (toolset.go:38, model.go:163).  Exempt are a closer that came with a nil
\* toolset, which is dropped, and a stream whose consumer left with the result.
ReleaseStep ==
    /\ \A r \in live \ live' : \A other \in live \ lost : other <= r /\ r \notin lost
    /\ stage' = "ended" =>
         /\ live' = lost'
         /\ result' => left' \/ ~failed'

\* Every step of a run keeps to it.
Released == [][ReleaseStep]_lifecycleVars

\* Opening and asking agree, wherever a model comes from and whatever failed to open before.
\* A request reaches a model that this run remembers as opened; every model it remembers has
\* its closer; what is open is what the closers will close, no more (the rest of a chain whose
\* opening failed) and no less; and no model is opened twice ("An agent opens each distinct
\* selected model once per run", docs/model-wrappers.md:92).  Exempt is one model, for one
\* call: the one a hook had switched to and that did not open, when a wrapper calls next
\* again and no hook switches to another.  r.model names it already, so that the second call
\* sees no change and does not open it (loop.go:1292).
UsedWhileOpen ==
    /\ stage = "request" =>
         /\ model \in entered \cup refused
         /\ Len(modelClosers) = Cardinality(entered)
         /\ live = Held(toolsetClosers) \cup Held(modelClosers)
    /\ stage = "model" => model \notin entered
=============================================================================
