------------------------------- MODULE MCRemote -------------------------------
(***************************************************************************)
(* What an application waits for: a slot of a limiter, a model request     *)
(* that is resumed until it is complete, and the replies of a realtime     *)
(* session.  They share nothing; `part' chooses one, and the variables of  *)
(* the others rest.                                                        *)
(***************************************************************************)
EXTENDS MCConcurrencyLimiter, SuspendedResponses

CONSTANTS
    Calls, Texts, Prompts, Users, MaxInputs, MaxSpeech, MaxDrops     \* RealtimeSession

VARIABLES
    part,
    history, replies, progress, open, batch, of, tool, stopped, conn, wire, server, made,
    link, drops, pump, ended, text, woken, waiter

sessionVars == <<history, replies, progress, open, batch, of, tool, stopped, conn, wire,
                 server, made, link, drops, pump, ended, text, woken, waiter>>
allVars == <<part, vars, requestVars, sessionVars>>

Realtime == INSTANCE RealtimeSession WITH cancelled <- stopped, Waiters <- Users

MCChain == <<"gpt", "claude", "grok">>

-----------------------------------------------------------------------------

Unused == "unused"

\* No request is made: it is over before it began.
NoRequest ==
    /\ place = "ended" /\ outcome = "none" /\ jobs = <<>> /\ rejected = {} /\ foreign = {}
    /\ run = Unused /\ streamed = Unused /\ cause = Unused /\ resumed = Unused
    /\ response = Unused /\ lastMode = Unused /\ counts = Unused /\ asking = Unused
    /\ pinned = Unused /\ rewound = Unused /\ attempts = Unused /\ detached = Unused
    /\ usage = 0 /\ counted = 0 /\ replaced = FALSE
NoSession ==
    /\ history = Unused /\ replies = Unused /\ progress = Unused /\ open = Unused
    /\ batch = Unused /\ stopped = Unused /\ of = Unused /\ tool = Unused
    /\ conn = Unused /\ wire = Unused /\ server = Unused /\ made = Unused
    /\ link = Unused /\ drops = Unused /\ pump = Unused
    /\ ended = Unused /\ text = Unused /\ woken = Unused /\ waiter = Unused

PartsInit ==
    /\ Init
    /\ \/ part = "slots" /\ NoRequest /\ NoSession
       \/ part = "request" /\ RequestInit /\ NoSession
       \/ part = "session" /\ Realtime!RealtimeInit /\ NoRequest

ForSlots(action)  == part = "slots" /\ action /\ UNCHANGED <<part, requestVars, sessionVars>>
InRequest(action) == part = "request" /\ action /\ UNCHANGED <<part, vars, sessionVars>>
InSession(action) == part = "session" /\ action /\ UNCHANGED <<part, vars, requestVars>>

\* A limiter never stops; the other two may.
PartsNext ==
    \/ ForSlots(Next) \/ InRequest(RequestNext) \/ InSession(Realtime!RealtimeNext)
    \/ part # "slots" /\ UNCHANGED allVars

\* The fairness of the three specifications.
Fairness ==
    /\ \A o \in Ops : WF_allVars(ForSlots(Run(o)))
    /\ WF_allVars(InRequest(Request))
    /\ WF_allVars(InSession(Realtime!Pump))
    /\ WF_allVars(InSession(Realtime!Answering))
    /\ WF_allVars(InSession(Realtime!Delivering))
    /\ \A c \in Calls : WF_allVars(InSession(Realtime!Tool(c)))
    /\ \A t \in Texts : WF_allVars(InSession(Realtime!Sending(t)))
    /\ \A w \in Users : WF_allVars(InSession(Realtime!Waiting(w)))

PartsSpec == PartsInit /\ [][PartsNext]_allVars /\ Fairness

-----------------------------------------------------------------------------
(* The property of the sessions; the others are in the modules they come from. *)

\* WaitForReply comes back.
WaitReturns ==
    \A w \in Users : part = "session" /\ waiter[w] = "check"
                       ~> part = "session" /\ waiter[w] = "back"
=============================================================================
