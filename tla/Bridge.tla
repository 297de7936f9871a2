------------------------------- MODULE Bridge -------------------------------
(***************************************************************************)
(* WebSocketBridge (ib_gateway_app/websocket_bridge.py): one asyncio loop  *)
(* runs the broadcaster, the monitor and a handler for each client, while  *)
(* the gateway's threads emit events.                                      *)
(*                                                                         *)
(* A task runs until it awaits, so a step of the loop is a task between    *)
(* two awaits; only a dispatched command is cut in two, because the        *)
(* gateway's threads run on while it is inside the API.  A send writes its *)
(* message at once and then waits until the client's buffer has room.      *)
(***************************************************************************)
EXTENDS Naturals, FiniteSets, Sequences, SequencesExt

CONSTANTS
    Clients,      \* the connections, each of which is made once
    NoClient,
    MaxRequests,  \* bound: requests the clients make
    MaxCommands,  \* bound: commands a connection sends
    MaxEvents     \* bound: events emitted

ASSUME ClientAssumption == NoClient \notin Clients
ASSUME BoundAssumption == {MaxRequests, MaxCommands, MaxEvents} \subseteq Nat

VARIABLES
    emitted,   \* the events put on _event_queue: the request each is about, or 0
    taken,     \* how many of them the broadcaster took off it
    failed,    \* the gateway's _failure_event
    listening, \* the listener is registered with the gateway
    requests,  \* how many requests were handed to the API
    stage,     \* how far serve_forever is
    reason,    \* what ended it: the monitor's error or an interrupt
    clients,   \* _clients
    open,      \* the connections that are open
    handler,   \* what the handler of each connection is doing
    inbox,     \* how many commands of each connection wait for its handler
    asking,    \* the last request of each connection, 0 for none
    busy,      \* the client whose command the loop is dispatching
    caster,    \* the broadcaster: its step, event, clients left to serve, and
               \* the client whose send it waits for
    stale,     \* the broadcaster's stale_clients
    out        \* the messages written to each connection

gateway_vars == <<emitted, failed, listening, requests>>
caster_vars  == <<taken, caster, stale>>
client_vars  == <<clients, open, handler, inbox, asking, busy, out>>
stage_vars   == <<stage, reason>>
vars == <<gateway_vars, caster_vars, client_vars, stage_vars>>

Events == 0 .. MaxRequests
Stages == {"serving", "closing", "cleanup", "stopped"}

\* A message is the greeting, an event or the reply to a command.
Greeting == [type |-> "connected", n |-> 0]
Event(n) == [type |-> "event", n |-> n]
Ack(r) == [type |-> "ack", n |-> r]

Getting == [step |-> "get", event |-> 0, targets |-> {}, at |-> NoClient]

Init ==
    /\ emitted = <<>> /\ taken = 0
    /\ failed = FALSE /\ listening = TRUE /\ requests = 0
    /\ stage = "serving" /\ reason = "none"
    /\ clients = {} /\ open = {}
    /\ handler = [c \in Clients |-> "none"]
    /\ inbox = [c \in Clients |-> 0] /\ asking = [c \in Clients |-> 0]
    /\ busy = NoClient
    /\ caster = Getting /\ stale = {}
    /\ out = [c \in Clients |-> <<>>]

----------------------------------------------------------------------------
(* The gateway's threads.                                                  *)

\* _enqueue_gateway_event: a listener that is gone is not called.
Emit(e) == emitted' = IF listening THEN Append(emitted, e) ELSE emitted

\* An answer of IBKR, for a request it has been handed.
DataArrives(r) ==
    /\ r \in 1 .. requests /\ Len(emitted) < MaxEvents
    /\ Emit(r)
    /\ UNCHANGED <<failed, listening, requests, caster_vars, client_vars, stage_vars>>

GatewayFails ==
    /\ ~failed /\ failed' = TRUE
    /\ UNCHANGED <<emitted, listening, requests, caster_vars, client_vars, stage_vars>>

----------------------------------------------------------------------------
(* A client's connection.  The loop runs a task only while no command is   *)
(* in the middle of its dispatch.                                          *)

LoopFree == busy = NoClient

Write(c, message) == out' = [out EXCEPT ![c] = Append(@, message)]

\* _handle_client: the connection joins the broadcast and is greeted; the
\* greeting is what connect() of the Python client returns.
Connect(c) ==
    /\ LoopFree /\ stage = "serving"
    /\ handler[c] = "none"
    /\ open' = open \cup {c} /\ clients' = clients \cup {c}
    /\ handler' = [handler EXCEPT ![c] = "reading"]
    /\ Write(c, Greeting)
    /\ UNCHANGED <<inbox, asking, busy, gateway_vars, caster_vars, stage_vars>>

Answered(c) == Len(SelectSeq(out[c], LAMBDA message : message.type = "ack"))

\* send of the Python client, and every method of it that builds a command:
\* it does not wait for the answer, so commands may queue up.
Send(c) ==
    /\ c \in open /\ inbox[c] + Answered(c) < MaxCommands
    /\ inbox' = [inbox EXCEPT ![c] = @ + 1]
    /\ UNCHANGED <<clients, open, handler, asking, busy, out, gateway_vars, caster_vars, stage_vars>>

\* The finally block of _handle_client.
Ended(c) ==
    /\ handler' = [handler EXCEPT ![c] = "done"]
    /\ clients' = clients \ {c}
    /\ inbox' = [inbox EXCEPT ![c] = 0] /\ asking' = [asking EXCEPT ![c] = 0]

\* The last step of a command: the reply, or an exception that ends the
\* handler if the client has left.
Finish(c, message, waiting) ==
    IF c \in open
    THEN /\ Write(c, message)
         /\ handler' = [handler EXCEPT ![c] = "reading"]
         /\ inbox' = [inbox EXCEPT ![c] = waiting]
         /\ UNCHANGED <<clients, asking>>
    ELSE Ended(c) /\ UNCHANGED out

\* A handler takes its next command, also one whose client left after it.
Reads(c) == LoopFree /\ handler[c] = "reading" /\ inbox[c] > 0

\* A command that has no effect: a ping, or one the bridge or the gateway
\* refuses (ensure_ready: every request once the gateway failed).
Refuse(c) ==
    /\ Reads(c)
    /\ Finish(c, Ack(0), inbox[c] - 1)
    /\ UNCHANGED <<open, busy, gateway_vars, caster_vars, stage_vars>>

\* Mutant: the command is dispatched on a thread, and the loop runs on.
DispatchAwaits(c, r) ==
    /\ Reads(c) /\ ~failed /\ Len(emitted) < MaxEvents
    /\ IF r = 0 THEN UNCHANGED requests ELSE requests' = r
    /\ asking' = [asking EXCEPT ![c] = r]
    /\ inbox' = [inbox EXCEPT ![c] = @ - 1]
    /\ handler' = [handler EXCEPT ![c] = "dispatching"]
    /\ UNCHANGED <<emitted, failed, listening, clients, open, busy, out, caster_vars, stage_vars>>

\* _dispatch_command, up to and with the API call.  A request gets a fresh
\* id; r is 0 for the subscriptions and cancellations that have none.
Dispatch(c, r) ==
    /\ Reads(c) /\ ~failed /\ Len(emitted) < MaxEvents
    /\ IF r = 0 THEN UNCHANGED requests ELSE requests' = r
    /\ asking' = [asking EXCEPT ![c] = r]
    /\ inbox' = [inbox EXCEPT ![c] = @ - 1]
    /\ busy' = c
    /\ handler' = [handler EXCEPT ![c] = "dispatching"]
    /\ UNCHANGED <<emitted, failed, listening, clients, open, out, caster_vars, stage_vars>>

DispatchNext(c) ==
    \/ Dispatch(c, 0)
    \/ requests < MaxRequests /\ Dispatch(c, requests + 1)

\* The rest of the command: the gateway emits the request, the client gets
\* its reply.
Reply(c) ==
    /\ busy \in {c, NoClient} /\ handler[c] = "dispatching"
    /\ Emit(asking[c])
    /\ busy' = NoClient
    /\ Finish(c, Ack(asking[c]), inbox[c])
    /\ UNCHANGED <<failed, listening, requests, open, caster_vars, stage_vars>>

\* The connection ends: close() of the client, or the library's keepalive,
\* or the server's close.  What was written to it is no matter any more.
Drop(c) ==
    /\ LoopFree /\ c \in open
    /\ open' = open \ {c}
    /\ out' = [out EXCEPT ![c] = <<>>]
    /\ UNCHANGED <<clients, handler, inbox, asking, busy, gateway_vars, caster_vars, stage_vars>>

\* Mutant: the handler does not take its client off the broadcast.
StaysRegistered(c) ==
    /\ LoopFree /\ c \notin open /\ handler[c] = "reading" /\ inbox[c] = 0
    /\ handler' = [handler EXCEPT ![c] = "done"]
    /\ UNCHANGED <<clients, open, inbox, asking, busy, out, gateway_vars, caster_vars, stage_vars>>

\* The handler has read what its client sent before it left.
HandlerEnds(c) ==
    /\ LoopFree /\ c \notin open /\ handler[c] = "reading" /\ inbox[c] = 0
    /\ Ended(c)
    /\ UNCHANGED <<open, busy, out, gateway_vars, caster_vars, stage_vars>>

----------------------------------------------------------------------------
(* _broadcast_events.                                                      *)

\* An event that finds no client is dropped; the others go to the clients of
\* the moment, in the order of a snapshot of the set.
TakeEvent ==
    /\ LoopFree /\ caster.step = "get" /\ taken < Len(emitted)
    /\ taken' = taken + 1
    /\ caster' = IF clients = {} THEN caster
                 ELSE [step |-> "send", event |-> taken + 1, targets |-> clients, at |-> NoClient]
    /\ UNCHANGED <<stale, gateway_vars, client_vars, stage_vars>>

\* Mutant: a client that keeps a send waiting is passed over.
SendOrSkip(c) ==
    /\ LoopFree /\ caster.step = "send" /\ c \in caster.targets /\ c \in open
    /\ out' \in {out, [out EXCEPT ![c] = Append(@, Event(caster.event))]}
    /\ caster' = [caster EXCEPT !.targets = @ \ {c}]
    /\ UNCHANGED <<taken, stale, clients, open, handler, inbox, asking, busy, gateway_vars, stage_vars>>

\* The send to one client; the next client has to wait for it to return.
SendTo(c) ==
    /\ LoopFree /\ caster.step = "send" /\ c \in caster.targets /\ c \in open
    /\ Write(c, Event(caster.event))
    /\ \E waits \in BOOLEAN :
           caster' = [caster EXCEPT !.step = IF waits THEN "waiting" ELSE "send",
                                    !.targets = @ \ {c},
                                    !.at = IF waits THEN c ELSE NoClient]
    /\ UNCHANGED <<taken, stale, clients, open, handler, inbox, asking, busy, gateway_vars, stage_vars>>

\* The send has returned, for its client has read.
SendReturns ==
    /\ LoopFree /\ caster.step = "waiting" /\ caster.at \in open
    /\ caster' = [caster EXCEPT !.step = "send", !.at = NoClient]
    /\ UNCHANGED <<taken, stale, gateway_vars, client_vars, stage_vars>>

\* Mutant: an exception of a send ends the broadcaster.
SendEndsCaster(c) ==
    /\ LoopFree /\ c \notin open
    /\ \/ caster.step = "send" /\ c \in caster.targets
       \/ caster.step = "waiting" /\ c = caster.at
    /\ caster' = [caster EXCEPT !.step = "ended"]
    /\ UNCHANGED <<taken, stale, gateway_vars, client_vars, stage_vars>>

\* The send raises, at once or while it waits: its client is gone.
SendRaises(c) ==
    /\ LoopFree /\ c \notin open
    /\ \/ caster.step = "send" /\ c \in caster.targets
       \/ caster.step = "waiting" /\ c = caster.at
    /\ caster' = [caster EXCEPT !.step = "send", !.targets = @ \ {c}, !.at = NoClient]
    /\ stale' = stale \cup {c}
    /\ UNCHANGED <<taken, gateway_vars, client_vars, stage_vars>>

\* The clients whose send raised are taken off the broadcast.
Discard ==
    /\ LoopFree /\ caster.step = "send" /\ caster.targets = {}
    /\ clients' = clients \ stale /\ stale' = {}
    /\ caster' = Getting
    /\ UNCHANGED <<taken, open, handler, inbox, asking, busy, out, gateway_vars, stage_vars>>

----------------------------------------------------------------------------
(* serve_forever.                                                          *)

\* Mutant: the monitor looks at the gateway once, when it starts.
MonitorSleeps ==
    /\ LoopFree /\ stage = "serving" /\ failed /\ emitted = <<>>
    /\ stage' = "closing" /\ reason' = "failed"
    /\ UNCHANGED <<gateway_vars, caster_vars, client_vars>>

\* _monitor_gateway raises the gateway's failure, and gather passes it on.
MonitorRaises ==
    /\ LoopFree /\ stage = "serving" /\ failed
    /\ stage' = "closing" /\ reason' = "failed"
    /\ UNCHANGED <<gateway_vars, caster_vars, client_vars>>

\* Ctrl-C cancels the task.
Interrupt ==
    /\ LoopFree /\ stage = "serving"
    /\ stage' = "closing" /\ reason' = "interrupted"
    /\ UNCHANGED <<gateway_vars, caster_vars, client_vars>>

\* The server is left once its connections are closed and their handlers
\* have ended; then the listener and the broadcaster go.
CleanUp ==
    /\ LoopFree /\ stage = "closing"
    /\ \A c \in Clients : handler[c] \in {"none", "done"}
    /\ stage' = "cleanup"
    /\ listening' = FALSE
    /\ caster' = [caster EXCEPT !.step = "ended"]
    /\ UNCHANGED <<emitted, failed, requests, taken, stale, client_vars, reason>>

\* Awaiting the monitor raises its error again, past _close_clients; the
\* cancelled monitor of an interrupt does not.
Stop ==
    /\ stage = "cleanup"
    /\ stage' = "stopped"
    /\ clients' = IF reason = "failed" THEN clients ELSE {}
    /\ UNCHANGED <<reason, gateway_vars, caster_vars, open, handler, inbox, asking, busy, out>>

CasterStep ==
    \/ TakeEvent \/ Discard
    \/ \E c \in Clients : SendTo(c) \/ SendRaises(c)

HandlerStep(c) == Refuse(c) \/ DispatchNext(c) \/ Reply(c) \/ HandlerEnds(c)

ServeStep == MonitorRaises \/ CleanUp \/ Stop

Stopped == stage = "stopped" /\ UNCHANGED vars

Next ==
    \/ GatewayFails \/ \E r \in 1 .. requests : DataArrives(r)
    \/ CasterStep \/ SendReturns \/ ServeStep \/ Interrupt
    \/ \E c \in Clients : Connect(c) \/ Send(c) \/ Drop(c) \/ HandlerStep(c)
    \/ Stopped

Spec == Init /\ [][Next]_vars

\* The loop runs its tasks; a client that does not read is dropped by the
\* library's keepalive, and the server closes every connection it leaves.
Fairness ==
    /\ WF_vars(CasterStep) /\ WF_vars(ServeStep)
    /\ WF_vars(caster.step = "waiting" /\ (SendReturns \/ Drop(caster.at)))
    /\ \A c \in Clients :
          /\ WF_vars(HandlerStep(c))
          /\ WF_vars(stage = "closing" /\ Drop(c))

FairSpec == Spec /\ Fairness

----------------------------------------------------------------------------
\* The event a connection gets next: the broadcaster has yet to send it the
\* one it took, or is done with it.
Due(c) ==
    IF c \notin open THEN 0 ELSE IF c \in caster.targets THEN taken ELSE taken + 1

Promise ==
    INSTANCE Broadcast WITH
        Entries <- Events, Answers <- {Ack(r) : r \in 0 .. MaxRequests},
        log <- emitted, position <- taken, due <- [c \in Clients |-> Due(c)], channel <- out

\* README.md:150, "forwards the normal IBKR events ... to every connected
\* WebSocket client": what a client gets is the greeting and then, between the
\* answers to its commands, an uninterrupted piece of what the gateway emitted,
\* in that order, however long other clients block the broadcaster and whoever
\* joins or leaves meanwhile; the broadcaster never goes on without a client.
ImplementsBroadcast == Promise!Spec

\* A client learns the id of its request before any event of that request
\* reaches it, although the answer may come while the request is being made.
AckFirst ==
    \A c \in Clients : \A i \in 1 .. Len(out[c]) :
        out[c][i].type = "event" /\ asking[c] # 0 /\ asking[c] = emitted[out[c][i].n] =>
            \E j \in 1 .. (i - 1) : out[c][j] = Ack(asking[c])

\* No client is left registered when the bridge has stopped, although the
\* error of the monitor skips _close_clients.
ClientsReleased == stage = "stopped" => clients = {}

\* However slow one client is, the broadcaster gets round to all of them: again
\* and again, every client that is there has all that has been emitted.
EventsReachClients == []<>(\A c \in open : Due(c) > Len(emitted))

\* A failure of the gateway stops the bridge, whatever its clients do.
FailureStopsBridge == failed ~> stage = "stopped"
=============================================================================
