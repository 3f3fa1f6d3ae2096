--------------------------- MODULE RealtimeSession ---------------------------
(***************************************************************************)
(* A realtime session and the websocket protocol under it:                 *)
(* realtime/session.go counts the replies the model still owes,            *)
(* realtime/session_control.go waits for them and delivers queued prompts, *)
(* realtime/internal/openaiprotocol/connection.go asks for at most one     *)
(* response at a time and redials a dropped socket.                        *)
(*                                                                         *)
(* Goroutines: the pump reads one event of the socket after the other      *)
(* through the connection into Session.handle; one goroutine per tool      *)
(* call; callers of Send, Enqueue, WaitForReply and Close; and the         *)
(* deliveries of queued prompts.  Most steps are one critical section of   *)
(* session.mu or connection.stateMu.  These have several, and a moment     *)
(* between two of them is not a state of the model: an event the pump      *)
(* hands first to the connection and then to the session (HandleStarted,   *)
(* HandleCall, HandleDone, HandleRejected); SessionReconnected, which      *)
(* cancels the tools, ends the response and resets the counters            *)
(* (HandleReconnected); and writes that count or ask afterwards            *)
(* (ToolSends, SendWrites, DeliverWrites).  Whether a batch is answered is *)
(* decided in one section, which deletes it (answerToolBatch), so that one *)
(* goroutine asks in any order of them.                                    *)
(*                                                                         *)
(* The provider answers a frame when it is written, and its events wait in *)
(* "wire" until the pump reads them.  It also starts responses of its own, *)
(* when it hears the user stop.                                            *)
(***************************************************************************)
EXTENDS Naturals, Sequences, FiniteSets

CONSTANTS
    Calls,      \* tool calls the model may make
    Texts,      \* texts the application sends with Send
    Prompts,    \* texts the application hands to Enqueue
    Waiters,    \* callers of WaitForReply
    MaxInputs,  \* bound on the texts and prompts of a behaviour
    MaxSpeech,  \* bound on the responses the provider starts by itself
    MaxDrops    \* bound on the dropped sockets

\* A call, a text and a prompt are told apart by their names.
ASSUME RealtimeAssumption ==
    /\ IsFiniteSet(Calls) /\ IsFiniteSet(Texts) /\ IsFiniteSet(Prompts)
    /\ Calls \cap Texts = {} /\ Calls \cap Prompts = {} /\ Texts \cap Prompts = {}
    /\ MaxSpeech \in Nat

VARIABLES
    replies,    \* the session's counters of what the model owes
    progress,   \* replyProgress holds a notification
    open,       \* response whose parts the session collects, 0 for none
    batch,      \* the session's toolBatch of each response
    of,         \* response that made a call, 0 before the call
    tool,       \* where the goroutine of a call is in completeTool
    cancelled,  \* session.cancelledTools
    history,    \* responses and tool results in the history, results held back
    conn,       \* the connection's view of the responses
    wire,       \* events the provider sent and the pump has not read
    server,     \* response the provider generates, 0 for none
    made,       \* responses the provider has started, and those by itself
    link,       \* the socket works
    drops,      \* dropped sockets so far
    pump,       \* where the pump is
    ended,      \* why the session ends, "no" while it does not
    text,       \* progress of each text and prompt
    woken,      \* a goroutine runs deliverEnqueued
    waiter      \* where each WaitForReply is

realtimeVars ==
    <<replies, progress, open, batch, of, tool, cancelled, history, conn, wire, server, made,
      link, drops, pump, ended, text, woken, waiter>>
session == <<replies, progress, open, batch, of, tool, cancelled, history>>
channel == <<conn, wire, server, made>>
socket == <<link, drops, pump, ended>>
callers == <<text, woken, waiter>>

Responses == 1 .. MaxSpeech + Cardinality(Calls) + Cardinality(Texts) + Cardinality(Prompts)
Inputs == Calls \cup Texts \cup Prompts
NoBatch == [left |-> 0, closed |-> FALSE, counted |-> FALSE, abandoned |-> FALSE]
NoReplies == [active |-> FALSE, exchange |-> FALSE, pending |-> 0, tools |-> 0]
FreshConn ==
    [active |-> FALSE, started |-> FALSE, inputs |-> <<>>, deferred |-> <<>>,
     batches |-> [n \in {} |-> {}]]

RealtimeInit ==
    /\ replies = NoReplies /\ progress = FALSE /\ open = 0
    /\ batch = [n \in Responses |-> NoBatch]
    /\ of = [c \in Calls |-> 0] /\ tool = [c \in Calls |-> "none"] /\ cancelled = {}
    /\ history = [responses |-> {}, results |-> {}, held |-> {}]
    /\ conn = FreshConn /\ wire = <<>> /\ server = 0
    /\ made = [all |-> 0, alone |-> 0]
    /\ link = TRUE /\ drops = 0 /\ pump = "read" /\ ended = "no"
    /\ text = [t \in Texts \cup Prompts |-> "new"] /\ woken = FALSE
    /\ waiter = [w \in Waiters |-> "idle"]

Minus(n, k) == IF n > k THEN n - k ELSE 0
CallsOf(n) == {c \in Calls : of[c] = n}

-----------------------------------------------------------------------------
(* What the session does to its counters. *)

Begin(r) ==
    [r EXCEPT !.active = TRUE, !.pending = IF r.active THEN @ ELSE Minus(@, 1)]
Reserved(r) == [r EXCEPT !.pending = @ + 1]
GiveBack(r) == [r EXCEPT !.pending = Minus(@, 1)]
Outstanding(r) == r.active \/ r.exchange \/ r.pending > 0 \/ r.tools > 0

\* countAnswer: the response is over, every result is in, and nobody counted it before.
Answerable(b) == b.left = 0 /\ b.closed /\ ~b.counted /\ ~b.abandoned

\* The history once response n and its calls are over: results held back follow it.
Recorded(h, n, calls) ==
    [responses |-> h.responses \cup ({n} \ {0}),
     results   |-> h.results \cup (h.held \cap calls),
     held      |-> h.held \ calls]

\* finishResponse of response n, which may be one the session saw no part of (0).
Finish(n, cut) ==
    LET calls == IF n = 0 THEN {} ELSE CallsOf(n)
        over  == [batch[n] EXCEPT !.closed = TRUE]
        asks  == calls # {} /\ Answerable(over)
        begun == Begin(replies)
        owed  == begun.pending + (IF asks THEN 1 ELSE 0)
        more  == calls # {} /\ ~cut
    IN  /\ replies' = [begun EXCEPT !.active = FALSE, !.exchange = more, !.pending = owed]
        /\ progress' = TRUE
        /\ open' = 0
        /\ batch' = IF calls = {} THEN batch
                    ELSE [batch EXCEPT ![n] = [over EXCEPT !.counted = @ \/ asks]]
        /\ history' = Recorded(history, n, calls)
        /\ woken' = (woken \/ cut \/ (~more /\ owed = 0 /\ begun.tools = 0))

-----------------------------------------------------------------------------
(* What the connection does with a request for a response. *)

\* requestResponse for these inputs: deferred while a response is active, and else
\* written.  The provider refuses it when it has just started a response by itself.
Requested(c, inputs, events) ==
    IF c.active
    THEN /\ conn' = [c EXCEPT !.deferred = @ \o inputs]
         /\ wire' = events
         /\ UNCHANGED <<server, made>>
    ELSE /\ conn' = [c EXCEPT !.active = TRUE, !.inputs = inputs]
         /\ \/ /\ server = 0
               /\ server' = made.all + 1
               /\ made' = [made EXCEPT !.all = @ + 1]
               /\ wire' = Append(events, [kind |-> "started", n |-> made.all + 1])
            \/ /\ server # 0
               /\ wire' = events \o
                    [i \in 1 .. Len(inputs) |-> [kind |-> "rejected", input |-> inputs[i]]]
               /\ UNCHANGED <<server, made>>

Quiet(c, events) == conn' = c /\ wire' = events /\ UNCHANGED <<server, made>>

\* sendDeferredResponse: what was deferred is asked for in one request.
SentDeferred(c, events) ==
    IF c.active \/ c.deferred = <<>> THEN Quiet(c, events)
    ELSE Requested([c EXCEPT !.deferred = <<>>], c.deferred, events)

Without(f, n) == [m \in DOMAIN f \ {n} |-> f[m]]

\* Mutant: the answer is asked for while the response can still make calls.
ReadyEarly(c, n) == n \in DOMAIN c.batches /\ c.batches[n].unanswered = {}

Ready(c, n) == n \in DOMAIN c.batches /\ c.batches[n].done /\ c.batches[n].unanswered = {}

\* answerToolBatch, and after the end of a response sendDeferredResponse too.
Answered(c, n, events) ==
    IF Ready(c, n)
    THEN Requested([c EXCEPT !.batches = Without(@, n)], <<c.batches[n].input>>, events)
    ELSE SentDeferred(c, events)

-----------------------------------------------------------------------------
(* The provider.  Once the session ends nobody reads what it sends. *)

Listened == ended = "no"

\* Server-side voice detection starts a response nobody asked for.
SpeechResponse ==
    /\ Listened /\ link /\ server = 0 /\ made.alone < MaxSpeech
    /\ server' = made.all + 1
    /\ made' = [all |-> made.all + 1, alone |-> made.alone + 1]
    /\ wire' = Append(wire, [kind |-> "started", n |-> made.all + 1])
    /\ UNCHANGED <<session, conn, socket, callers>>

\* The response calls a tool.
ServerCalls(c) ==
    /\ Listened /\ server # 0
    /\ of[c] = 0 /\ \A i \in 1 .. Len(wire) : wire[i].kind = "call" => wire[i].call # c
    /\ wire' = Append(wire, [kind |-> "call", call |-> c, n |-> server])
    /\ UNCHANGED <<session, conn, server, made, socket, callers>>

\* The response ends, or it is cut off by the user's speech or by Interrupt.
ServerEnds(cut) ==
    /\ Listened /\ server # 0
    /\ wire' = Append(wire, [kind |-> "done", n |-> server, cut |-> cut])
    /\ server' = 0
    /\ UNCHANGED <<session, conn, made, socket, callers>>

\* The socket drops: what was on the wire is lost, and so is the provider's conversation.
Drop ==
    /\ link /\ pump = "read" /\ ended = "no" /\ drops < MaxDrops
    /\ link' = FALSE /\ drops' = drops + 1 /\ wire' = <<>> /\ server' = 0
    /\ UNCHANGED <<session, conn, made, pump, ended, callers>>

-----------------------------------------------------------------------------
(* The pump: Connection.Events and Session.handle. *)

Reads(kind) == pump = "read" /\ ended = "no" /\ wire # <<>> /\ Head(wire).kind = kind

\* ResponseStarted: requests that were merged into one are released first.
HandleStarted ==
    /\ Reads("started")
    /\ LET merged == Minus(Len(conn.inputs), 1)
       IN replies' = Begin([replies EXCEPT !.pending = Minus(@, merged)])
    /\ progress' = TRUE
    /\ open' = Head(wire).n
    /\ Quiet([conn EXCEPT !.active = TRUE, !.started = TRUE], Tail(wire))
    /\ UNCHANGED <<batch, of, tool, cancelled, history, socket, callers>>

\* ToolCall: both sides add the call to the batch of its response and the tool starts.
HandleCall ==
    /\ Reads("call")
    /\ LET c == Head(wire).call
           n == Head(wire).n
           known == IF n \in DOMAIN conn.batches THEN conn.batches[n].unanswered ELSE {}
           added == [unanswered |-> known \cup {c}, done |-> FALSE, input |-> c]
       IN  /\ Quiet([conn EXCEPT !.batches =
                        [m \in DOMAIN @ \cup {n} |-> IF m = n THEN added ELSE @[m]]],
                    Tail(wire))
           /\ replies' = [Begin(replies) EXCEPT !.tools = @ + 1]
           /\ batch' = [batch EXCEPT ![n].left = @ + 1]
           /\ of' = [of EXCEPT ![c] = n]
           /\ tool' = [tool EXCEPT ![c] = "run"]
    /\ progress' = TRUE
    /\ UNCHANGED <<open, cancelled, history, socket, callers>>

\* ResponseDone: the connection asks for the answer of the response's tools, or for
\* what it deferred, before the session hears that the response is over.
HandleDone ==
    /\ Reads("done")
    /\ LET n  == Head(wire).n
           c1 == [conn EXCEPT !.active = FALSE, !.started = FALSE, !.inputs = <<>>]
           c2 == IF n \in DOMAIN conn.batches THEN [c1 EXCEPT !.batches[n].done = TRUE] ELSE c1
       IN Answered(c2, n, Tail(wire))
    /\ Finish(open, Head(wire).cut)
    /\ UNCHANGED <<of, tool, cancelled, socket, text, waiter>>

\* InputRejected for a request: the connection is free again if the request was its own.
HandleRejected ==
    /\ Reads("rejected")
    /\ LET own == conn.active /\ ~conn.started /\
                  \E i \in 1 .. Len(conn.inputs) : conn.inputs[i] = Head(wire).input
       IN IF own
          THEN SentDeferred([conn EXCEPT !.active = FALSE, !.inputs = <<>>], Tail(wire))
          ELSE Quiet(conn, Tail(wire))
    /\ replies' = GiveBack(replies)
    /\ progress' = (progress \/ replies.pending > 0)
    /\ UNCHANGED <<open, batch, of, tool, cancelled, history, socket, callers>>

\* redial: an unfinished response is reported as cut off before dialing.
Redial ==
    /\ pump = "read" /\ ended = "no" /\ ~link
    /\ pump' = "dial"
    /\ IF conn.active THEN Finish(open, TRUE)
       ELSE UNCHANGED <<replies, progress, open, batch, history, woken>>
    /\ UNCHANGED <<of, tool, cancelled, channel, link, drops, ended, text, waiter>>

\* reconnect succeeds: the new conversation owes nothing, whatever was deferred.
Reconnects ==
    /\ pump = "dial" /\ ended = "no"
    /\ link' = TRUE /\ pump' = "resume"
    /\ Quiet(FreshConn, wire)
    /\ UNCHANGED <<session, drops, ended, callers>>

\* reconnect gives up.
GivesUp ==
    /\ pump = "dial" /\ ended = "no"
    /\ ended' = "dial"
    /\ progress' = TRUE
    /\ UNCHANGED <<replies, open, batch, of, tool, cancelled, history, channel, link, drops,
                   pump, callers>>

Running == {c \in Calls : tool[c] \notin {"none", "done"}}

\* SessionReconnected without restored state: tools are cancelled, a partial response
\* ends and the counters start over.
HandleReconnected ==
    /\ pump = "resume" /\ ended = "no"
    /\ pump' = "read"
    /\ cancelled' = cancelled \cup Running
    /\ LET abandoned == {of[c] : c \in {d \in Calls : tool[d] = "run"}}
           calls == IF open = 0 THEN {} ELSE CallsOf(open)
       IN  /\ batch' = [n \in Responses |->
                          [batch[n] EXCEPT !.abandoned = @ \/ n \in abandoned,
                                           !.closed = @ \/ (n = open /\ calls # {})]]
           /\ history' = Recorded(history, open, calls)
    /\ woken' = (woken \/ open # 0)
    /\ open' = 0
    /\ replies' = [NoReplies EXCEPT !.tools = replies.tools]
    /\ progress' = TRUE
    /\ UNCHANGED <<of, tool, channel, link, drops, ended, text, waiter>>

\* The pump's deferred function, up to the wait for the tools.
PumpEnds ==
    /\ pump \in {"read", "dial", "resume"} /\ ended # "no"
    /\ pump' = "ending"
    /\ IF open # 0 THEN Finish(open, TRUE)
       ELSE UNCHANGED <<replies, progress, open, batch, history, woken>>
    /\ UNCHANGED <<of, tool, cancelled, channel, link, drops, ended, text, waiter>>

\* Mutant: closing does not wake the callers of WaitForReply.
PumpClosesSilently ==
    /\ pump = "ending" /\ Running = {}
    /\ pump' = "closed"
    /\ replies' = NoReplies
    /\ UNCHANGED <<progress, open, batch, of, tool, cancelled, history, channel, link, drops,
                   ended, callers>>

\* Every tool has returned: the session is closed.
PumpCloses ==
    /\ pump = "ending" /\ Running = {}
    /\ pump' = "closed"
    /\ replies' = NoReplies /\ progress' = TRUE
    /\ UNCHANGED <<open, batch, of, tool, cancelled, history, channel, link, drops, ended,
                   callers>>

-----------------------------------------------------------------------------
(* The goroutine of one tool call: completeTool. *)

\* The tool returned: its batch counts it, and the last one asks for the answer.
ToolReturns(c) ==
    /\ tool[c] = "run"
    /\ LET n == of[c]
           gone == c \in cancelled
           b == [batch[n] EXCEPT !.left = @ - 1]
           asks == ~gone /\ Answerable(b)
       IN  /\ batch' = [batch EXCEPT ![n] = [b EXCEPT !.counted = @ \/ asks]]
           /\ tool' = [tool EXCEPT ![c] = IF gone THEN "record"
                                         ELSE IF asks THEN "reserve" ELSE "send"]
    /\ cancelled' = cancelled \ {c}
    /\ UNCHANGED <<replies, progress, open, of, history, channel, socket, callers>>

ToolReserves(c) ==
    /\ tool[c] = "reserve"
    /\ tool' = [tool EXCEPT ![c] = "send"]
    /\ replies' = Reserved(replies) /\ progress' = TRUE
    /\ UNCHANGED <<open, batch, of, cancelled, history, channel, socket, callers>>

\* The result is written; the connection asks for the answer once the response is over
\* and its last result is in.  A call it no longer knows asks for an answer of its own.
ToolSends(c) ==
    /\ tool[c] = "send" /\ link /\ ended = "no"
    /\ tool' = [tool EXCEPT ![c] = "record"]
    /\ LET n == of[c]
           c1 == [conn EXCEPT !.batches[n].unanswered = @ \ {c}, !.batches[n].input = c]
       IN IF n \notin DOMAIN conn.batches THEN Requested(conn, <<c>>, wire)
          ELSE IF Ready(c1, n) THEN Answered(c1, n, wire)
          ELSE Quiet(c1, wire)
    /\ UNCHANGED <<replies, progress, open, batch, of, cancelled, history, socket, callers>>

\* The write fails: the reservation is given back and the session fails.
ToolSendFails(c) ==
    /\ tool[c] = "send" /\ (~link \/ ended # "no")
    /\ tool' = [tool EXCEPT ![c] = "done"]
    /\ replies' = [GiveBack(replies) EXCEPT !.tools = Minus(@, 1)] /\ progress' = TRUE
    /\ ended' = IF ended = "no" THEN "send" ELSE ended
    /\ UNCHANGED <<open, batch, of, cancelled, history, channel, link, drops, pump, callers>>

\* The result enters the history after its response, or waits for the response to end.
ToolRecords(c) ==
    /\ tool[c] = "record"
    /\ tool' = [tool EXCEPT ![c] = "done"]
    /\ history' = IF of[c] \in history.responses
                  THEN [history EXCEPT !.results = @ \cup {c}]
                  ELSE [history EXCEPT !.held = @ \cup {c}]
    /\ replies' = [replies EXCEPT !.tools = Minus(@, 1)] /\ progress' = TRUE
    /\ UNCHANGED <<open, batch, of, cancelled, channel, socket, callers>>

-----------------------------------------------------------------------------
(* The application: Send, Enqueue, WaitForReply, Close. *)

Given == Cardinality({t \in DOMAIN text : text[t] # "new"})

\* Send reserves a reply before it writes.
SendText(t) ==
    /\ text[t] = "new" /\ Given < MaxInputs
    /\ text' = [text EXCEPT ![t] = "reserved"]
    /\ replies' = Reserved(replies) /\ progress' = TRUE
    /\ UNCHANGED <<open, batch, of, tool, cancelled, history, channel, socket, woken, waiter>>

SendWrites(t) ==
    /\ text[t] = "reserved" /\ link /\ ended = "no"
    /\ text' = [text EXCEPT ![t] = "sent"]
    /\ Requested(conn, <<t>>, wire)
    /\ UNCHANGED <<session, socket, woken, waiter>>

\* Send returns the error to its caller and gives the reservation back.
SendFails(t) ==
    /\ text[t] = "reserved" /\ (~link \/ ended # "no")
    /\ text' = [text EXCEPT ![t] = "lost"]
    /\ replies' = GiveBack(replies) /\ progress' = TRUE
    /\ UNCHANGED <<open, batch, of, tool, cancelled, history, channel, socket, woken, waiter>>

\* Enqueue, refused once Close was called or the pump is ending.
Enqueue(p) ==
    /\ text[p] = "new" /\ Given < MaxInputs /\ ended # "close" /\ pump \notin {"ending", "closed"}
    /\ text' = [text EXCEPT ![p] = "queued"]
    /\ woken' = TRUE
    /\ UNCHANGED <<session, channel, socket, waiter>>

Taken == {p \in Prompts : text[p] = "taken"}
Queued == {p \in Prompts : text[p] = "queued"}

\* deliverEnqueued: nothing while the model is busy, else every queued prompt; the last
\* one asks for a reply.
Deliver ==
    /\ woken /\ Taken = {}
    /\ woken' = FALSE
    /\ IF replies.active \/ replies.pending > 0 \/ replies.tools > 0 \/ pump = "closed"
          \/ Queued = {}
       THEN UNCHANGED <<replies, progress, text>>
       ELSE /\ text' = [t \in DOMAIN text |-> IF t \in Queued THEN "taken" ELSE text[t]]
            /\ replies' = Reserved(replies) /\ progress' = TRUE
    /\ UNCHANGED <<open, batch, of, tool, cancelled, history, channel, socket, waiter>>

Delivered(state) == text' = [t \in DOMAIN text |-> IF t \in Taken THEN state ELSE text[t]]

DeliverWrites ==
    /\ Taken # {} /\ link /\ ended = "no"
    /\ Delivered("sent")
    /\ Requested(conn, <<CHOOSE p \in Taken : TRUE>>, wire)
    /\ UNCHANGED <<session, socket, woken, waiter>>

\* The write fails: the prompts are gone and the session fails.
DeliverFails ==
    /\ Taken # {} /\ (~link \/ ended # "no")
    /\ Delivered("lost")
    /\ replies' = GiveBack(replies) /\ progress' = TRUE
    /\ ended' = IF ended = "no" THEN "send" ELSE ended
    /\ UNCHANGED <<open, batch, of, tool, cancelled, history, channel, link, drops, pump,
                   woken, waiter>>

Close ==
    /\ ended = "no"
    /\ ended' = "close"
    /\ UNCHANGED <<session, channel, link, drops, pump, callers>>

WaitForReply(w) ==
    /\ waiter[w] = "idle" /\ Outstanding(replies)
    /\ waiter' = [waiter EXCEPT ![w] = "check"]
    /\ UNCHANGED <<session, channel, socket, text, woken>>

WaitChecks(w) ==
    /\ waiter[w] = "check"
    /\ waiter' = [waiter EXCEPT ![w] =
          IF Outstanding(replies) /\ pump # "closed" /\ ended \notin {"send", "dial"}
          THEN "blocked" ELSE "back"]
    /\ UNCHANGED <<session, channel, socket, text, woken>>

WaitWakes(w) ==
    /\ waiter[w] = "blocked" /\ progress
    /\ progress' = FALSE
    /\ waiter' = [waiter EXCEPT ![w] = "check"]
    /\ UNCHANGED <<replies, open, batch, of, tool, cancelled, history, channel, socket, text,
                   woken>>

-----------------------------------------------------------------------------

Pump == HandleStarted \/ HandleCall \/ HandleDone \/ HandleRejected \/ Redial \/ Reconnects
          \/ GivesUp \/ HandleReconnected \/ PumpEnds \/ PumpCloses
Tool(c) == ToolReturns(c) \/ ToolReserves(c) \/ ToolSends(c) \/ ToolSendFails(c) \/ ToolRecords(c)
Sending(t) == SendWrites(t) \/ SendFails(t)
Delivering == Deliver \/ DeliverWrites \/ DeliverFails
Waiting(w) == WaitChecks(w) \/ WaitWakes(w)
Answering == \E cut \in BOOLEAN : ServerEnds(cut)

RealtimeNext ==
    \/ SpeechResponse \/ Drop \/ Answering
    \/ \E c \in Calls : ServerCalls(c) \/ Tool(c)
    \/ Pump
    \/ \E t \in Texts : SendText(t) \/ Sending(t)
    \/ \E p \in Prompts : Enqueue(p)
    \/ Delivering
    \/ Close
    \/ \E w \in Waiters : WaitForReply(w) \/ Waiting(w)

\* The scheduler runs every goroutine that can move; a provider ends each response it
\* starts, and a tool returns (its context is cancelled when the session ends).
Fairness ==
    /\ WF_realtimeVars(Pump) /\ WF_realtimeVars(Answering) /\ WF_realtimeVars(Delivering)
    /\ \A c \in Calls : WF_realtimeVars(Tool(c))
    /\ \A t \in Texts : WF_realtimeVars(Sending(t))
    /\ \A w \in Waiters : WF_realtimeVars(Waiting(w))

RealtimeSpec == RealtimeInit /\ [][RealtimeNext]_realtimeVars /\ Fairness

-----------------------------------------------------------------------------

RealtimeTyped ==
    /\ replies \in [active : BOOLEAN, exchange : BOOLEAN, pending : 0 .. Cardinality(Inputs),
                    tools : 0 .. Cardinality(Calls)]
    /\ open \in {0} \cup Responses /\ server \in {0} \cup Responses
    /\ of \in [Calls -> {0} \cup Responses]
    /\ tool \in [Calls -> {"none", "run", "reserve", "send", "record", "done"}]
    /\ DOMAIN conn.batches \subseteq Responses
    /\ pump \in {"read", "dial", "resume", "ending", "closed"}
    /\ ended \in {"no", "dial", "send", "close"}

\* A tool that has returned has its result in the history as soon as its response is
\* there, whichever of the two came first, and never before it (session.go, completeTool
\* and finishResponse; pendingToolResults).
ResultsFollowResponses ==
    /\ \A c \in history.results : of[c] \in history.responses
    /\ ended = "no" => \A c \in Calls :
         tool[c] = "done" => c \in IF of[c] = open THEN history.held ELSE history.results

Asked == {conn.inputs[i] : i \in DOMAIN conn.inputs}
           \cup {conn.deferred[i] : i \in DOMAIN conn.deferred}

\* The session and the connection decide separately, under different locks, when the
\* tools of a response have been answered: once the response and its tools are over the
\* session has counted one reply and the connection has asked for one, and not before.
\* (A redial reports the response cut off to the session alone, and forgets both counts
\* when it is done.)
BatchesAgree ==
    ended = "no" /\ pump = "read" => \A n \in Responses :
       /\ ( /\ CallsOf(n) # {} /\ batch[n].closed /\ ~batch[n].abandoned
            /\ \A c \in CallsOf(n) : tool[c] = "done" )
          => batch[n].counted /\ n \notin DOMAIN conn.batches
       /\ n \in DOMAIN conn.batches => CallsOf(n) \cap Asked = {}

\* Everything the session promises about the tools of a response.
BatchesSound == BatchesAgree /\ ResultsFollowResponses

\* WaitForReply comes back: no counter is left standing after everything that was asked
\* for has been answered, refused, dropped or cancelled.
WaitReturns == \A w \in Waiters : waiter[w] = "check" ~> waiter[w] = "back"
=============================================================================
