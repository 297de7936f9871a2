----------------------------- MODULE Broadcast -----------------------------
(***************************************************************************)
(* What a client of the WebSocket bridge may rely on, without the tasks,   *)
(* the queue and the blocking of the bridge: one log of events is read at  *)
(* one position, and whoever has joined gets every event from the one      *)
(* after that position on, in the order of the log, none twice and none    *)
(* left out, between the answers to its own commands.                      *)
(***************************************************************************)
EXTENDS Naturals, Sequences

CONSTANTS
    Clients,
    Entries,   \* what an event may be
    Event(_),  \* the message that carries the event at a place of the log
    Answers,   \* the messages that answer a command
    Greeting

VARIABLES
    log,      \* the events published
    position, \* how many of them are being or have been handed out
    due,      \* the event each client gets next, 0 for a client that is not there
    channel   \* what has been written to each client since it joined

bvars == <<log, position, due, channel>>

Init ==
    /\ log = <<>> /\ position = 0
    /\ due = [c \in Clients |-> 0]
    /\ channel = [c \in Clients |-> <<>>]

Published == \E e \in Entries : log' = Append(log, e)

Publish == Published /\ UNCHANGED <<position, due, channel>>

\* The position moves on once everyone there has what it stands at.
Advance ==
    /\ position < Len(log)
    /\ \A c \in Clients : due[c] = 0 \/ due[c] > position
    /\ position' = position + 1
    /\ UNCHANGED <<log, due, channel>>

\* A newcomer is greeted before anything else reaches it.
Join(c) ==
    /\ due[c] = 0
    /\ due' = [due EXCEPT ![c] = position + 1]
    /\ channel' = [channel EXCEPT ![c] = <<Greeting>>]
    /\ UNCHANGED <<log, position>>

Deliver(c) ==
    /\ due[c] \in 1 .. position
    /\ channel' = [channel EXCEPT ![c] = Append(@, Event(due[c]))]
    /\ due' = [due EXCEPT ![c] = @ + 1]
    /\ UNCHANGED <<log, position>>

\* A command is answered by an acknowledgement; it may have been an event too.
Answer(c) ==
    /\ due[c] # 0
    /\ log' = log \/ Published
    /\ \E a \in Answers : channel' = [channel EXCEPT ![c] = Append(@, a)]
    /\ UNCHANGED <<position, due>>

Leave(c) ==
    /\ due[c] # 0
    /\ due' = [due EXCEPT ![c] = 0]
    /\ channel' = [channel EXCEPT ![c] = <<>>]
    /\ UNCHANGED <<log, position>>

Next ==
    \/ Publish \/ Advance
    \/ \E c \in Clients : Join(c) \/ Deliver(c) \/ Answer(c) \/ Leave(c)

Spec == Init /\ [][Next]_bvars
=============================================================================
