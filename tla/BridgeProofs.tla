---------------------------- MODULE BridgeProofs ----------------------------
(***************************************************************************)
(* What the bridge promises, for any number of clients, requests and       *)
(* events: it is a broadcast, it acknowledges a request before it forwards *)
(* anything about it, and it leaves no client registered.                  *)
(*                                                                         *)
(* IInv is needed because each promise depends on tasks elsewhere: that a  *)
(* client is owed the event being sent, say, on who had registered when it *)
(* was taken, and that an acknowledgement comes first on no event being    *)
(* sent while a command is dispatched.                                     *)
(***************************************************************************)
EXTENDS Bridge, TLAPS

Messages ==
    {Greeting} \cup {Event(n) : n \in Nat} \cup {Ack(r) : r \in 0 .. MaxRequests}

TypeOK ==
    /\ emitted \in Seq(Events) /\ taken \in 0 .. Len(emitted)
    /\ requests \in 0 .. MaxRequests
    /\ stage \in Stages /\ reason \in {"none", "failed", "interrupted"}
    /\ clients \subseteq Clients /\ open \subseteq Clients
    /\ handler \in [Clients -> {"none", "reading", "dispatching", "done"}]
    /\ inbox \in [Clients -> Nat] /\ asking \in [Clients -> 0 .. MaxRequests]
    /\ busy \in Clients \cup {NoClient}
    /\ caster \in [step : {"get", "send", "waiting", "ended"}, event : Nat,
                   targets : SUBSET Clients, at : Clients \cup {NoClient}]
    /\ stale \subseteq Clients
    /\ out \in [Clients -> Seq(Messages)]

\* An open connection is registered, and a registered one has a handler.
Registered ==
    /\ open \subseteq clients
    /\ \A c \in clients : handler[c] \in {"reading", "dispatching"}
    /\ \A c \in caster.targets \cup stale : handler[c] # "none"
    /\ caster.step = "waiting" => caster.at \in Clients /\ handler[caster.at] # "none"
    /\ stale \cap open = {}
    /\ stage \in {"cleanup", "stopped"} => \A c \in Clients : handler[c] \in {"none", "done"}

\* The broadcaster sends the last event it took, to those it has yet to serve.
Sending ==
    /\ caster.step \in {"send", "waiting"} => caster.event = taken /\ taken > 0
    /\ caster.step = "get" => caster.targets = {}
    /\ caster.targets # {} => taken > 0

\* Nothing is kept for a connection that is not open, and nothing is written
\* to one that was not taken from the queue.
Written ==
    /\ \A c \in Clients \ open : out[c] = <<>>
    /\ \A c \in Clients : \A i \in 1 .. Len(out[c]) :
           out[c][i].type = "event" => out[c][i].n \in 1 .. taken

\* Ids are given in order, so no event is about a request not yet made, and a
\* connection that is yet to come has made none.
Numbered ==
    /\ \A n \in 1 .. Len(emitted) : emitted[n] <= requests
    /\ \A c \in Clients : asking[c] <= requests /\ (handler[c] = "none" => asking[c] = 0)

\* While a request is made no client has got an event about it; once it is
\* made, its client has got the acknowledgement.
Acknowledged ==
    \A c \in Clients :
        /\ handler[c] = "dispatching" => busy = c
        /\ handler[c] = "dispatching" /\ asking[c] # 0 =>
               \A i \in 1 .. Len(out[c]) :
                   out[c][i].type = "event" => emitted[out[c][i].n] # asking[c]
        /\ c \in open /\ handler[c] = "reading" /\ asking[c] # 0 =>
               \E i \in 1 .. Len(out[c]) : out[c][i] = Ack(asking[c])

IInv == TypeOK /\ Registered /\ Sending /\ Written /\ Numbered /\ Acknowledged /\ AckFirst

USE ClientAssumption, BoundAssumption
USE DEF gateway_vars, caster_vars, client_vars, stage_vars

\* The parts of the types that the steps below count with.
LEMMA Counts ==
  ASSUME IInv
  PROVE  /\ taken \in Nat /\ Len(emitted) \in Nat /\ taken <= Len(emitted)
         /\ requests \in Nat /\ \A c \in Clients : Len(out[c]) \in Nat /\ asking[c] \in Nat
         /\ \A n \in 1 .. Len(emitted) : emitted[n] \in Nat
<1>1. taken \in Nat /\ Len(emitted) \in Nat /\ taken <= Len(emitted) /\ requests \in Nat
  BY DEF IInv, TypeOK
<1>2. \A c \in Clients : Len(out[c]) \in Nat /\ asking[c] \in Nat BY DEF IInv, TypeOK
<1>3. \A n \in 1 .. Len(emitted) : emitted[n] \in Nat BY SMTT(30) DEF IInv, TypeOK, Events
<1> QED BY <1>1, <1>2, <1>3

\* What Write appends, place by place.
LEMMA Appended ==
  ASSUME TypeOK, NEW c \in Clients, NEW m \in Messages, Write(c, m)
  PROVE  /\ out' \in [Clients -> Seq(Messages)]
         /\ \A d \in Clients \ {c} : out'[d] = out[d]
         /\ Len(out'[c]) = Len(out[c]) + 1 /\ Len(out[c]) \in Nat
         /\ \A i \in 1 .. Len(out[c]) : out'[c][i] = out[c][i]
         /\ out'[c][Len(out[c]) + 1] = m
<1>1. out \in [Clients -> Seq(Messages)] BY DEF TypeOK
<1>2. out'[c] = Append(out[c], m) /\ \A d \in Clients \ {c} : out'[d] = out[d] BY <1>1 DEF Write
<1>3. out[c] \in Seq(Messages) BY <1>1
<1>4. out'[c] \in Seq(Messages) BY <1>2, <1>3
<1>5. out' \in [Clients -> Seq(Messages)] BY <1>1, <1>4 DEF Write
<1> QED BY <1>2, <1>3, <1>5

\* What Emit puts on the queue leaves the events already there.
LEMMA Queued ==
  ASSUME TypeOK, NEW e \in Events, Emit(e)
  PROVE  /\ emitted' \in Seq(Events) /\ Len(emitted') >= Len(emitted)
         /\ \A n \in 1 .. Len(emitted) : emitted'[n] = emitted[n]
         /\ \A n \in 1 .. Len(emitted') : n \in 1 .. Len(emitted) \/ emitted'[n] = e
         /\ taken \in 0 .. Len(emitted')
<1>1. emitted \in Seq(Events) /\ taken \in 0 .. Len(emitted) BY DEF TypeOK
<1>2. CASE listening BY <1>1, <1>2 DEF Emit
<1>3. CASE ~listening BY <1>1, <1>3 DEF Emit
<1> QED BY <1>2, <1>3

\* The reply is no event, and only its client gets it.
LEMMA Finished ==
  ASSUME TypeOK, NEW c \in Clients, NEW r \in 0 .. MaxRequests, NEW w \in Nat, Finish(c, Ack(r), w)
  PROVE  /\ Ack(r) \in Messages /\ Ack(r).type = "ack"
         /\ clients' \subseteq clients
         /\ handler' = [handler EXCEPT ![c] = IF c \in open THEN "reading" ELSE "done"]
         /\ c \in open => Write(c, Ack(r)) /\ clients' = clients /\ asking' = asking
         /\ c \notin open => out' = out /\ clients' = clients \ {c} /\ asking' = [asking EXCEPT ![c] = 0]
         /\ inbox' \in [Clients -> Nat] /\ asking' \in [Clients -> 0 .. MaxRequests]
         /\ out' \in [Clients -> Seq(Messages)]
<1>1. Ack(r) \in Messages /\ Ack(r).type = "ack" BY DEF Messages, Ack
<1>a. /\ handler \in [Clients -> {"none", "reading", "dispatching", "done"}]
      /\ inbox \in [Clients -> Nat] /\ asking \in [Clients -> 0 .. MaxRequests]
      /\ out \in [Clients -> Seq(Messages)] /\ MaxRequests \in Nat
  BY BoundAssumption DEF TypeOK
<1>2. CASE c \in open
  <2>1. Write(c, Ack(r)) BY <1>2 DEF Finish
  <2>2. out' \in [Clients -> Seq(Messages)] BY <1>1, <2>1, Appended
  <2> QED BY <1>a, <1>1, <1>2, <2>1, <2>2 DEF Finish
<1>3. CASE c \notin open
  <2>1. Ended(c) /\ out' = out BY <1>3 DEF Finish
  <2> QED BY <1>a, <1>1, <1>3, <2>1 DEF Ended
<1> QED BY <1>2, <1>3

\* An answer of IBKR is a new last event: no client has got it yet.
LEMMA StepDataArrives ==
  ASSUME IInv, NEW r \in 1 .. requests, DataArrives(r) PROVE IInv'
<1>0. r \in Events /\ Emit(r) /\ TypeOK BY SMTT(30) DEF IInv, TypeOK, Events, DataArrives
<1>e. /\ emitted' \in Seq(Events) /\ Len(emitted') >= Len(emitted)
      /\ \A n \in 1 .. Len(emitted) : emitted'[n] = emitted[n]
      /\ \A n \in 1 .. Len(emitted') : n \in 1 .. Len(emitted) \/ emitted'[n] = r
      /\ taken \in 0 .. Len(emitted')
  BY <1>0, Queued
<1>f. \A c \in Clients : \A i \in 1 .. Len(out[c]) :
         out[c][i].type = "event" => emitted'[out[c][i].n] = emitted[out[c][i].n]
  BY <1>e, Counts, SMTT(30) DEF IInv, Written
<1>1. TypeOK'
  <2>1. emitted' \in Seq(Events)
    BY <1>e
  <2>2. taken' \in 0 .. Len(emitted')
    BY <1>e DEF DataArrives
  <2>3. UNCHANGED <<taken, requests, stage, reason, clients, open, handler, inbox, asking, busy, caster, stale, out>> BY DEF DataArrives, Emit
  <2> QED BY <2>1, <2>2, <2>3, Zenon DEF IInv, TypeOK
<1>2. Registered' BY DEF IInv, Registered, DataArrives, Emit
<1>3. Sending' BY DEF IInv, Sending, DataArrives, Emit
<1>4. Written' BY DEF IInv, Written, DataArrives, Emit
<1>5. Numbered' BY <1>0, <1>e, Counts DEF IInv, Numbered, DataArrives
<1>6. Acknowledged' BY <1>f DEF IInv, Acknowledged, DataArrives, Ack
<1>7. AckFirst' BY <1>f, SMTT(30) DEF IInv, AckFirst, DataArrives, Ack
<1> QED BY <1>1, <1>2, <1>3, <1>4, <1>5, <1>6, <1>7 DEF IInv

\* Only the failure flag changes.
LEMMA StepGatewayFails ==
  ASSUME IInv, GatewayFails PROVE IInv'
<1>1. TypeOK'
  <2>1. UNCHANGED <<emitted, taken, requests, stage, reason, clients, open, handler, inbox, asking, busy, caster, stale, out>> BY DEF GatewayFails
  <2> QED BY <2>1, Zenon DEF IInv, TypeOK
<1>2. Registered' BY DEF IInv, Registered, GatewayFails
<1>3. Sending' BY DEF IInv, Sending, GatewayFails
<1>4. Written' BY DEF IInv, Written, GatewayFails
<1>5. Numbered' BY DEF IInv, Numbered, GatewayFails
<1>6. Acknowledged' BY DEF IInv, Acknowledged, GatewayFails, Ack
<1>7. AckFirst' BY DEF IInv, AckFirst, GatewayFails, Ack
<1> QED BY <1>1, <1>2, <1>3, <1>4, <1>5, <1>6, <1>7 DEF IInv

\* A newcomer had nothing before the greeting.
LEMMA StepConnect ==
  ASSUME IInv, NEW c \in Clients, Connect(c) PROVE IInv'
<1>0. Greeting \in Messages /\ Greeting.type # "event" /\ Write(c, Greeting) /\ TypeOK
  BY DEF IInv, Messages, Greeting, Connect
<1>w. /\ out' \in [Clients -> Seq(Messages)]
      /\ \A d \in Clients \ {c} : out'[d] = out[d]
      /\ Len(out'[c]) = Len(out[c]) + 1 /\ Len(out[c]) \in Nat
      /\ \A i \in 1 .. Len(out[c]) : out'[c][i] = out[c][i]
      /\ out'[c][Len(out[c]) + 1] = Greeting
  BY <1>0, Appended
<1>f. Len(out[c]) = 0 /\ c \notin open
  <2>1. c \notin open BY DEF IInv, Registered, Connect
  <2>2. out[c] = <<>> BY <2>1 DEF IInv, Written
  <2> QED BY <2>1, <2>2
<1>g. \A i \in 1 .. Len(out'[c]) : out'[c][i] = Greeting
  BY <1>w, <1>f
<1>1. TypeOK'
  <2>1. clients' \subseteq Clients
    BY DEF IInv, TypeOK, Connect, Write, Greeting
  <2>2. open' \subseteq Clients
    BY DEF IInv, TypeOK, Connect, Write, Greeting
  <2>3. handler' \in [Clients -> {"none", "reading", "dispatching", "done"}]
    BY DEF IInv, TypeOK, Connect, Write, Greeting
  <2>4. out' \in [Clients -> Seq(Messages)]
    BY <1>w
  <2>5. UNCHANGED <<emitted, taken, requests, stage, reason, inbox, asking, busy, caster, stale>> BY DEF Connect, Write, Greeting
  <2> QED BY <2>1, <2>2, <2>3, <2>4, <2>5, Zenon DEF IInv, TypeOK
<1>2. Registered' BY SMTT(30) DEF IInv, TypeOK, LoopFree, Registered, Sending,
      Acknowledged, Connect, Write, Greeting
<1>3. Sending' BY DEF IInv, Sending, Connect, Write, Greeting
<1>4. Written'
  <2>1. UNCHANGED taken /\ open' = open \cup {c} BY DEF Connect
  <2> QED BY <1>0, <1>w, <1>g, <2>1 DEF IInv, Written
<1>5. Numbered' BY SMTT(30) DEF IInv, TypeOK, Events, Numbered, Connect, Write, Greeting
<1>6. Acknowledged'
  <2>1. \A d \in Clients \ {c} :
           out'[d] = out[d] /\ handler'[d] = handler[d] /\ (d \in open' <=> d \in open)
    BY <1>0, <1>w DEF TypeOK, Connect
  <2>2. UNCHANGED <<emitted, asking, busy>> /\ handler'[c] = "reading" BY <1>0 DEF TypeOK, Connect
  <2>3. asking[c] = 0 BY <1>0 DEF IInv, Numbered, Connect
  <2> QED BY <2>1, <2>2, <2>3 DEF IInv, Acknowledged, Ack
<1>7. AckFirst'
  <2>1. UNCHANGED <<emitted, asking>> BY DEF Connect
  <2>2. \A d \in Clients \ {c} : out'[d] = out[d] BY <1>w
  <2>3. \A i \in 1 .. Len(out'[c]) : out'[c][i].type # "event" BY <1>0, <1>g
  <2> QED BY <2>1, <2>2, <2>3, SMTT(30) DEF IInv, AckFirst, Ack
<1> QED BY <1>1, <1>2, <1>3, <1>4, <1>5, <1>6, <1>7 DEF IInv

\* Only the inbox changes.
LEMMA StepSend ==
  ASSUME IInv, NEW c \in Clients, Send(c) PROVE IInv'
<1>1. TypeOK'
  <2>1. inbox' \in [Clients -> Nat]
    <3>1. inbox \in [Clients -> Nat] BY DEF IInv, TypeOK
    <3> QED BY <3>1 DEF Send
  <2>2. UNCHANGED <<emitted, taken, requests, stage, reason, clients, open, handler, asking, busy, caster, stale, out>> BY DEF Send
  <2> QED BY <2>1, <2>2, Zenon DEF IInv, TypeOK
<1>2. Registered' BY DEF IInv, Registered, Send
<1>3. Sending' BY DEF IInv, Sending, Send
<1>4. Written' BY DEF IInv, Written, Send
<1>5. Numbered' BY DEF IInv, Numbered, Send
<1>6. Acknowledged' BY DEF IInv, Acknowledged, Send, Ack
<1>7. AckFirst' BY DEF IInv, AckFirst, Send, Ack
<1> QED BY <1>1, <1>2, <1>3, <1>4, <1>5, <1>6, <1>7 DEF IInv

\* The reply is no event; a client that is gone loses its handler.
LEMMA StepRefuse ==
  ASSUME IInv, NEW c \in Clients, Refuse(c) PROVE IInv'
<1>0. TypeOK /\ 0 \in 0 .. MaxRequests /\ inbox[c] - 1 \in Nat /\ Finish(c, Ack(0), inbox[c] - 1)
  <2>1. inbox[c] \in Nat /\ inbox[c] > 0 BY DEF IInv, TypeOK, Refuse, Reads
  <2> QED BY <2>1 DEF IInv, Refuse
<1>c. /\ clients' \subseteq clients
      /\ handler' = [handler EXCEPT ![c] = IF c \in open THEN "reading" ELSE "done"]
      /\ c \in open => Write(c, Ack(0)) /\ clients' = clients /\ asking' = asking
      /\ c \notin open => out' = out /\ clients' = clients \ {c} /\ asking' = [asking EXCEPT ![c] = 0]
      /\ inbox' \in [Clients -> Nat] /\ asking' \in [Clients -> 0 .. MaxRequests]
      /\ out' \in [Clients -> Seq(Messages)]
      /\ Ack(0) \in Messages /\ Ack(0).type = "ack"
  BY <1>0, Finished
<1>w. c \in open =>
         /\ \A d \in Clients \ {c} : out'[d] = out[d]
         /\ Len(out'[c]) = Len(out[c]) + 1 /\ Len(out[c]) \in Nat
         /\ \A i \in 1 .. Len(out[c]) : out'[c][i] = out[c][i]
         /\ out'[c][Len(out[c]) + 1] = Ack(0)
  BY <1>0, <1>c, Appended
<1>x. c \in open => \A i \in 1 .. Len(out'[c]) :
         out'[c][i].type = "event" => i \in 1 .. Len(out[c]) /\ out'[c][i] = out[c][i]
  <2>1. c \in open => \A i \in 1 .. Len(out'[c]) : i \in 1 .. Len(out[c]) \/ out'[c][i] = Ack(0)
    BY <1>w
  <2>2. Ack(0).type # "event" BY DEF Ack
  <2> QED BY <1>w, <2>1, <2>2
<1>t. handler \in [Clients -> {"none", "reading", "dispatching", "done"}] /\ asking \in [Clients -> 0 .. MaxRequests]
  BY <1>0 DEF TypeOK
<1>e. \A d \in Clients : \A i \in 1 .. Len(out[d]) :
         out[d][i].type = "event" => emitted'[out[d][i].n] = emitted[out[d][i].n]
  BY DEF Refuse
<1>1. TypeOK'
  <2>1. clients' \subseteq Clients
    BY <1>0, <1>c DEF TypeOK
  <2>2. handler' \in [Clients -> {"none", "reading", "dispatching", "done"}]
    BY <1>0, <1>c DEF TypeOK
  <2>3. inbox' \in [Clients -> Nat]
    BY <1>c
  <2>4. asking' \in [Clients -> 0 .. MaxRequests]
    BY <1>c
  <2>5. out' \in [Clients -> Seq(Messages)]
    BY <1>c
  <2>6. UNCHANGED <<emitted, taken, requests, stage, reason, open, busy, caster, stale>> BY DEF Refuse, Reads, Finish, Ended, Write, Ack, Event
  <2> QED BY <2>1, <2>2, <2>3, <2>4, <2>5, <2>6, Zenon DEF IInv, TypeOK
<1>2. Registered'
  <2>1. \A d \in Clients : d # c => handler'[d] = handler[d] BY <1>c, <1>t
  <2>2. handler[c] \in {"reading", "dispatching"} /\ handler'[c] = IF c \in open THEN "reading" ELSE "done"
    BY <1>c, <1>t DEF Refuse, Reads, caster_vars, gateway_vars
  <2>3. UNCHANGED <<open, caster, stale, stage>> BY DEF Refuse, Reads, caster_vars, gateway_vars
  <2>4. stage \notin {"cleanup", "stopped"} BY <2>2 DEF IInv, Registered
  <2>5. clients \subseteq Clients /\ caster.targets \cup stale \subseteq Clients BY <1>0 DEF TypeOK
  <2>6. open \subseteq clients' BY <1>c DEF IInv, Registered
  <2>7. \A d \in clients' : handler'[d] \in {"reading", "dispatching"}
    BY <1>c, <2>1, <2>2, <2>5 DEF IInv, Registered
  <2>8. \A d \in Clients : handler[d] # "none" => handler'[d] # "none" BY <2>1, <2>2
  <2>9. clients' \subseteq clients BY <1>c
  <2> QED BY <2>3, <2>4, <2>5, <2>6, <2>7, <2>8, <2>9 DEF IInv, Registered
<1>3. Sending' BY DEF IInv, Sending, Refuse, Reads, Finish, Ended, Write, Ack, Event
<1>4. Written'
  <2>1. UNCHANGED <<open, taken>> BY DEF Refuse, Reads, caster_vars, gateway_vars
  <2>2. CASE c \in open BY <1>w, <1>x, <2>1, <2>2 DEF IInv, Written
  <2>3. CASE c \notin open BY <1>c, <2>1, <2>3 DEF IInv, Written
  <2> QED BY <2>2, <2>3
<1>5. Numbered'
  <2>1. UNCHANGED <<emitted, requests>> BY DEF Refuse
  <2>2. \A d \in Clients : asking'[d] \in {0, asking[d]} BY <1>c, <1>t
  <2>3. handler'[c] # "none" /\ \A d \in Clients : d # c => handler'[d] = handler[d] BY <1>c, <1>t
  <2> QED BY <2>1, <2>2, <2>3, Counts DEF IInv, Numbered
<1>6. Acknowledged'
  <2>1. UNCHANGED <<open, busy, emitted>> BY DEF Refuse
  <2>2. \A d \in Clients : d # c => handler'[d] = handler[d] /\ asking'[d] = asking[d] /\ out'[d] = out[d]
    BY <1>c, <1>w, <1>t
  <2>3. handler'[c] # "dispatching" BY <1>c, <1>t
  <2>4. c \in open /\ asking[c] # 0 => \E i \in 1 .. Len(out'[c]) : out'[c][i] = Ack(asking[c])
    BY <1>w DEF IInv, Acknowledged, Refuse, Reads
  <2>5. c \in open => asking'[c] = asking[c] BY <1>c
  <2> QED BY <2>1, <2>2, <2>3, <2>4, <2>5 DEF IInv, Acknowledged, Ack
<1>7. AckFirst'
  <2>2. \A d \in Clients : d # c => asking'[d] = asking[d] /\ out'[d] = out[d]
    BY <1>c, <1>w, <1>t
  <2>3. CASE c \notin open
    <3>1. asking'[c] = 0 BY <1>c, <1>t, <2>3
    <3> QED BY <1>e, <2>2, <3>1, SMTT(30) DEF IInv, AckFirst, Ack
  <2>4. CASE c \in open
    <3>1. asking'[c] = asking[c] BY <1>c, <2>4
    <3>2. ASSUME NEW i \in 1 .. Len(out'[c]), out'[c][i].type = "event", asking[c] # 0,
                 asking[c] = emitted'[out'[c][i].n]
          PROVE  \E j \in 1 .. (i - 1) : out'[c][j] = Ack(asking[c])
      <4>1. i \in 1 .. Len(out[c]) /\ out'[c][i] = out[c][i] /\ asking[c] = emitted[out[c][i].n]
        BY <1>e, <1>x, <2>4, <3>2
      <4>2. PICK j \in 1 .. (i - 1) : out[c][j] = Ack(asking[c]) BY <3>2, <4>1 DEF IInv, AckFirst
      <4>3. j \in 1 .. Len(out[c]) BY <1>w, <2>4, <4>1
      <4> QED BY <1>w, <2>4, <4>2, <4>3
    <3>3. \A d \in Clients : d # c => \A i \in 1 .. Len(out'[d]) :
             out'[d][i].type = "event" => emitted'[out'[d][i].n] = emitted[out[d][i].n]
      BY <1>e, <2>2
    <3> QED BY <2>2, <3>1, <3>2, <3>3, SMTT(30) DEF IInv, AckFirst, Ack
  <2> QED BY <2>3, <2>4
<1> QED BY <1>1, <1>2, <1>3, <1>4, <1>5, <1>6, <1>7 DEF IInv

\* The id is above every id an event was about.
LEMMA StepDispatch ==
  ASSUME IInv, NEW c \in Clients, NEW r \in {0, requests + 1}, r <= MaxRequests, Dispatch(c, r) PROVE IInv'
<1>1. TypeOK'
  <2>1. requests' \in 0 .. MaxRequests
    BY SMTT(30) DEF IInv, TypeOK, Dispatch, Reads
  <2>2. handler' \in [Clients -> {"none", "reading", "dispatching", "done"}]
    BY DEF IInv, TypeOK, Dispatch, Reads
  <2>3. inbox' \in [Clients -> Nat]
    <3>1. inbox \in [Clients -> Nat] BY DEF IInv, TypeOK
    <3> QED BY <3>1 DEF Dispatch, Reads
  <2>4. asking' \in [Clients -> 0 .. MaxRequests]
    <3>1. asking \in [Clients -> 0 .. MaxRequests] /\ requests \in Nat BY DEF IInv, TypeOK
    <3>2. r \in 0 .. MaxRequests BY <3>1
    <3> QED BY <3>1, <3>2 DEF Dispatch
  <2>5. busy' \in Clients \cup {NoClient}
    BY DEF IInv, TypeOK, Dispatch, Reads
  <2>6. UNCHANGED <<emitted, taken, stage, reason, clients, open, caster, stale, out>> BY DEF Dispatch, Reads
  <2> QED BY <2>1, <2>2, <2>3, <2>4, <2>5, <2>6, Zenon DEF IInv, TypeOK
<1>2. Registered' BY SMTT(30) DEF IInv, TypeOK, LoopFree, Registered, Sending,
      Acknowledged, Dispatch, Reads
<1>3. Sending' BY DEF IInv, Sending, Dispatch, Reads
<1>4. Written' BY DEF IInv, Written, Dispatch, Reads
<1>5. Numbered'
  <2>1. requests \in Nat /\ requests' \in {requests, requests + 1} /\ emitted' = emitted
        /\ (r # 0 => requests' = r)
    BY DEF IInv, TypeOK, Dispatch
  <2>2. \A n \in 1 .. Len(emitted) : emitted[n] \in Nat /\ emitted[n] <= requests
    BY Counts DEF IInv, Numbered
  <2>3. \A d \in Clients :
            /\ asking[d] \in Nat /\ asking[d] <= requests
            /\ handler[d] = "none" => asking[d] = 0
    BY DEF IInv, TypeOK, Numbered
  <2>4. \A d \in Clients :
            /\ d # c => asking'[d] = asking[d] /\ handler'[d] = handler[d]
            /\ d = c => asking'[d] = r /\ handler'[d] = "dispatching"
    BY DEF IInv, TypeOK, Dispatch
  <2>5. r <= requests'
    BY <2>1
  <2> QED BY <2>1, <2>2, <2>3, <2>4, <2>5 DEF Numbered
<1>6. Acknowledged'
  <2>1. UNCHANGED <<out, emitted, open>> /\ busy' = c
        /\ \A d \in Clients : d # c => asking'[d] = asking[d] /\ handler'[d] = handler[d]
    BY DEF IInv, TypeOK, Dispatch
  <2>2. asking'[c] = r /\ handler'[c] = "dispatching" BY DEF IInv, TypeOK, Dispatch
  <2>3. \A d \in Clients : handler[d] # "dispatching"
    BY ClientAssumption DEF IInv, Acknowledged, Dispatch, Reads, LoopFree
  <2>4. \A i \in 1 .. Len(out[c]) :
           out[c][i].type = "event" => emitted[out[c][i].n] <= requests /\ emitted[out[c][i].n] \in Nat
    BY Counts, SMTT(30) DEF IInv, Written, Numbered
  <2>5. r # 0 => \A i \in 1 .. Len(out[c]) : out[c][i].type = "event" => emitted[out[c][i].n] # r
    BY <2>4, Counts
  <2> QED BY <2>1, <2>2, <2>3, <2>5 DEF IInv, Acknowledged, Ack
<1>7. AckFirst'
  <2>1. UNCHANGED <<out, emitted>> /\ \A d \in Clients : d # c => asking'[d] = asking[d]
    BY DEF IInv, TypeOK, Dispatch
  <2>2. asking'[c] = r BY DEF IInv, TypeOK, Dispatch
  <2>3. \A i \in 1 .. Len(out[c]) :
           out[c][i].type = "event" => emitted[out[c][i].n] <= requests /\ emitted[out[c][i].n] \in Nat
    BY Counts, SMTT(30) DEF IInv, Written, Numbered
  <2>4. requests \in Nat BY DEF IInv, TypeOK
  <2> QED BY <2>1, <2>2, <2>3, <2>4, SMTT(30) DEF IInv, AckFirst, Ack
<1> QED BY <1>1, <1>2, <1>3, <1>4, <1>5, <1>6, <1>7 DEF IInv

\* The acknowledgement is written; what the gateway emitted waits in the queue.
LEMMA StepReply ==
  ASSUME IInv, NEW c \in Clients, Reply(c) PROVE IInv'
<1>0. TypeOK /\ asking[c] \in 0 .. MaxRequests /\ inbox[c] \in Nat /\ asking[c] \in Events
      /\ Finish(c, Ack(asking[c]), inbox[c]) /\ Emit(asking[c])
  BY DEF IInv, TypeOK, Events, Reply
<1>c. /\ clients' \subseteq clients
      /\ handler' = [handler EXCEPT ![c] = IF c \in open THEN "reading" ELSE "done"]
      /\ c \in open => Write(c, Ack(asking[c])) /\ clients' = clients /\ asking' = asking
      /\ c \notin open => out' = out /\ clients' = clients \ {c} /\ asking' = [asking EXCEPT ![c] = 0]
      /\ inbox' \in [Clients -> Nat] /\ asking' \in [Clients -> 0 .. MaxRequests]
      /\ out' \in [Clients -> Seq(Messages)]
      /\ Ack(asking[c]) \in Messages /\ Ack(asking[c]).type = "ack"
  BY <1>0, Finished
<1>w. c \in open =>
         /\ \A d \in Clients \ {c} : out'[d] = out[d]
         /\ Len(out'[c]) = Len(out[c]) + 1 /\ Len(out[c]) \in Nat
         /\ \A i \in 1 .. Len(out[c]) : out'[c][i] = out[c][i]
         /\ out'[c][Len(out[c]) + 1] = Ack(asking[c])
  BY <1>0, <1>c, Appended
<1>x. c \in open => \A i \in 1 .. Len(out'[c]) :
         out'[c][i].type = "event" => i \in 1 .. Len(out[c]) /\ out'[c][i] = out[c][i]
  <2>1. c \in open => \A i \in 1 .. Len(out'[c]) : i \in 1 .. Len(out[c]) \/ out'[c][i] = Ack(asking[c])
    BY <1>w
  <2>2. Ack(asking[c]).type # "event" BY DEF Ack
  <2> QED BY <1>w, <2>1, <2>2
<1>t. handler \in [Clients -> {"none", "reading", "dispatching", "done"}] /\ asking \in [Clients -> 0 .. MaxRequests]
  BY <1>0 DEF TypeOK
<1>q. /\ emitted' \in Seq(Events) /\ Len(emitted') >= Len(emitted)
      /\ \A n \in 1 .. Len(emitted) : emitted'[n] = emitted[n]
      /\ \A n \in 1 .. Len(emitted') : n \in 1 .. Len(emitted) \/ emitted'[n] = asking[c]
      /\ taken \in 0 .. Len(emitted')
  BY <1>0, Queued
<1>e. \A d \in Clients : \A i \in 1 .. Len(out[d]) :
         out[d][i].type = "event" => emitted'[out[d][i].n] = emitted[out[d][i].n]
  <2>1. \A n \in 1 .. taken : emitted'[n] = emitted[n] BY <1>q, Counts
  <2> QED BY <2>1 DEF IInv, Written
<1>1. TypeOK'
  <2>1. emitted' \in Seq(Events)
    BY <1>q
  <2>2. taken' \in 0 .. Len(emitted')
    BY <1>q DEF Reply
  <2>3. clients' \subseteq Clients
    BY <1>0, <1>c DEF TypeOK
  <2>4. handler' \in [Clients -> {"none", "reading", "dispatching", "done"}]
    BY <1>0, <1>c DEF TypeOK
  <2>5. inbox' \in [Clients -> Nat]
    BY <1>c
  <2>6. asking' \in [Clients -> 0 .. MaxRequests]
    BY <1>c
  <2>7. busy' \in Clients \cup {NoClient}
    BY DEF IInv, TypeOK, Reply, Finish, Ended, Write, Emit, Ack, Event
  <2>8. out' \in [Clients -> Seq(Messages)]
    BY <1>c
  <2>9. UNCHANGED <<taken, requests, stage, reason, open, caster, stale>> BY DEF Reply, Finish, Ended, Write, Emit, Ack, Event
  <2> QED BY <2>1, <2>2, <2>3, <2>4, <2>5, <2>6, <2>7, <2>8, <2>9, Zenon DEF IInv, TypeOK
<1>2. Registered'
  <2>1. \A d \in Clients : d # c => handler'[d] = handler[d] BY <1>c, <1>t
  <2>2. handler[c] \in {"reading", "dispatching"} /\ handler'[c] = IF c \in open THEN "reading" ELSE "done"
    BY <1>c, <1>t DEF Reply, caster_vars
  <2>3. UNCHANGED <<open, caster, stale, stage>> BY DEF Reply, caster_vars
  <2>4. stage \notin {"cleanup", "stopped"} BY <2>2 DEF IInv, Registered
  <2>5. clients \subseteq Clients /\ caster.targets \cup stale \subseteq Clients BY <1>0 DEF TypeOK
  <2>6. open \subseteq clients' BY <1>c DEF IInv, Registered
  <2>7. \A d \in clients' : handler'[d] \in {"reading", "dispatching"}
    BY <1>c, <2>1, <2>2, <2>5 DEF IInv, Registered
  <2>8. \A d \in Clients : handler[d] # "none" => handler'[d] # "none" BY <2>1, <2>2
  <2>9. clients' \subseteq clients BY <1>c
  <2> QED BY <2>3, <2>4, <2>5, <2>6, <2>7, <2>8, <2>9 DEF IInv, Registered
<1>3. Sending' BY DEF IInv, Sending, Reply, Finish, Ended, Write, Emit, Ack, Event
<1>4. Written'
  <2>1. UNCHANGED <<open, taken>> BY DEF Reply, caster_vars
  <2>2. CASE c \in open BY <1>w, <1>x, <2>1, <2>2 DEF IInv, Written
  <2>3. CASE c \notin open BY <1>c, <2>1, <2>3 DEF IInv, Written
  <2> QED BY <2>2, <2>3
<1>5. Numbered'
  <2>1. requests' = requests /\ asking[c] <= requests BY DEF Reply, IInv, Numbered
  <2>2. \A d \in Clients : asking'[d] <= requests /\ (handler'[d] = "none" => asking'[d] = 0) BY <1>0, <1>c, <1>t, SMTT(30) DEF IInv, TypeOK, Numbered
  <2> QED BY <1>q, <2>1, <2>2 DEF IInv, Numbered
<1>6. Acknowledged'
  <2>1. UNCHANGED open /\ busy' = NoClient BY DEF Reply
  <2>2. \A d \in Clients : d # c => handler'[d] = handler[d] /\ asking'[d] = asking[d] /\ out'[d] = out[d]
    BY <1>c, <1>w, <1>t
  <2>3. handler'[c] # "dispatching" BY <1>c, <1>t
  <2>4. c \in open => \E i \in 1 .. Len(out'[c]) : out'[c][i] = Ack(asking[c]) BY <1>w
  <2>5. c \in open => asking'[c] = asking[c] BY <1>c
  <2>6. \A d \in Clients : d # c => handler[d] # "dispatching"
    BY <1>0 DEF IInv, Acknowledged, Reply
  <2> QED BY <2>1, <2>2, <2>3, <2>4, <2>5, <2>6 DEF IInv, Acknowledged, Ack
<1>7. AckFirst'
  <2>2. \A d \in Clients : d # c => asking'[d] = asking[d] /\ out'[d] = out[d]
    BY <1>c, <1>w, <1>t
  <2>3. CASE c \notin open
    <3>1. asking'[c] = 0 BY <1>c, <1>t, <2>3
    <3> QED BY <1>e, <2>2, <3>1, SMTT(30) DEF IInv, AckFirst, Ack
  <2>4. CASE c \in open
    <3>1. asking'[c] = asking[c] BY <1>c, <2>4
    <3>2. ASSUME NEW i \in 1 .. Len(out'[c]), out'[c][i].type = "event", asking[c] # 0,
                 asking[c] = emitted'[out'[c][i].n]
          PROVE  \E j \in 1 .. (i - 1) : out'[c][j] = Ack(asking[c])
      <4>1. i \in 1 .. Len(out[c]) /\ out'[c][i] = out[c][i] /\ asking[c] = emitted[out[c][i].n]
        BY <1>e, <1>x, <2>4, <3>2
      <4>2. PICK j \in 1 .. (i - 1) : out[c][j] = Ack(asking[c]) BY <3>2, <4>1 DEF IInv, AckFirst
      <4>3. j \in 1 .. Len(out[c]) BY <1>w, <2>4, <4>1
      <4> QED BY <1>w, <2>4, <4>2, <4>3
    <3>3. \A d \in Clients : d # c => \A i \in 1 .. Len(out'[d]) :
             out'[d][i].type = "event" => emitted'[out'[d][i].n] = emitted[out[d][i].n]
      BY <1>e, <2>2
    <3> QED BY <2>2, <3>1, <3>2, <3>3, SMTT(30) DEF IInv, AckFirst, Ack
  <2> QED BY <2>3, <2>4
<1> QED BY <1>1, <1>2, <1>3, <1>4, <1>5, <1>6, <1>7 DEF IInv

\* What was written is forgotten with the connection.
LEMMA StepDrop ==
  ASSUME IInv, NEW c \in Clients, Drop(c) PROVE IInv'
<1>1. TypeOK'
  <2>1. open' \subseteq Clients
    BY DEF IInv, TypeOK, Drop
  <2>2. out' \in [Clients -> Seq(Messages)]
    BY DEF IInv, TypeOK, Drop
  <2>3. UNCHANGED <<emitted, taken, requests, stage, reason, clients, handler, inbox, asking, busy, caster, stale>> BY DEF Drop
  <2> QED BY <2>1, <2>2, <2>3, Zenon DEF IInv, TypeOK
<1>2. Registered' BY SMTT(30) DEF IInv, TypeOK, LoopFree, Registered, Sending,
      Acknowledged, Drop
<1>3. Sending' BY DEF IInv, Sending, Drop
<1>4. Written' BY SMTT(30) DEF IInv, TypeOK, Registered, Sending, Written, Drop
<1>5. Numbered' BY DEF IInv, Numbered, Drop
<1>6. Acknowledged' BY SMTT(30) DEF IInv, TypeOK, Events, LoopFree, Registered, Written,
      Numbered, Acknowledged, Drop
<1>7. AckFirst'
  <2>1. UNCHANGED <<asking, emitted>> /\ \A d \in Clients : d # c => out'[d] = out[d]
    BY DEF IInv, TypeOK, Drop
  <2>2. Len(out'[c]) = 0 BY DEF IInv, TypeOK, Drop
  <2> QED BY <2>1, <2>2, SMTT(30) DEF IInv, AckFirst, Ack
<1> QED BY <1>1, <1>2, <1>3, <1>4, <1>5, <1>6, <1>7 DEF IInv

\* The connection is closed, so nothing is owed to it.
LEMMA StepHandlerEnds ==
  ASSUME IInv, NEW c \in Clients, HandlerEnds(c) PROVE IInv'
<1>1. TypeOK'
  <2>1. clients' \subseteq Clients
    BY DEF IInv, TypeOK, HandlerEnds, Ended
  <2>2. handler' \in [Clients -> {"none", "reading", "dispatching", "done"}]
    BY DEF IInv, TypeOK, HandlerEnds, Ended
  <2>3. inbox' \in [Clients -> Nat]
    BY DEF IInv, TypeOK, HandlerEnds, Ended
  <2>4. asking' \in [Clients -> 0 .. MaxRequests]
    BY DEF IInv, TypeOK, HandlerEnds, Ended
  <2>5. UNCHANGED <<emitted, taken, requests, stage, reason, open, busy, caster, stale, out>> BY DEF HandlerEnds, Ended
  <2> QED BY <2>1, <2>2, <2>3, <2>4, <2>5, Zenon DEF IInv, TypeOK
<1>2. Registered' BY SMTT(30) DEF IInv, TypeOK, LoopFree, Registered, Sending,
      Acknowledged, HandlerEnds, Ended
<1>3. Sending' BY DEF IInv, Sending, HandlerEnds, Ended
<1>4. Written' BY DEF IInv, Written, HandlerEnds, Ended
<1>5. Numbered' BY SMTT(30) DEF IInv, TypeOK, Events, Numbered, HandlerEnds, Ended
<1>6. Acknowledged'
  <2>1. UNCHANGED <<out, emitted, open, busy>>
        /\ \A d \in Clients : d # c => asking'[d] = asking[d] /\ handler'[d] = handler[d]
    BY DEF IInv, TypeOK, HandlerEnds, Ended
  <2>2. handler'[c] = "done" BY DEF IInv, TypeOK, HandlerEnds, Ended
  <2> QED BY <2>1, <2>2 DEF IInv, Acknowledged, Ack
<1>7. AckFirst'
  <2>1. UNCHANGED <<out, emitted>> /\ \A d \in Clients : d # c => asking'[d] = asking[d]
    BY DEF IInv, TypeOK, HandlerEnds, Ended
  <2>2. asking'[c] = 0 BY DEF IInv, TypeOK, HandlerEnds, Ended
  <2> QED BY <2>1, <2>2 DEF IInv, AckFirst, Ack
<1> QED BY <1>1, <1>2, <1>3, <1>4, <1>5, <1>6, <1>7 DEF IInv

\* The next event of the queue is about to be sent.
LEMMA StepTakeEvent ==
  ASSUME IInv, TakeEvent PROVE IInv'
<1>1. TypeOK'
  <2>1. taken' \in 0 .. Len(emitted')
    BY DEF IInv, TypeOK, TakeEvent
  <2>2. caster' \in [step : {"get", "send", "waiting", "ended"}, event : Nat,
                        targets : SUBSET Clients, at : Clients \cup {NoClient}]
    BY DEF IInv, TypeOK, TakeEvent
  <2>3. UNCHANGED <<emitted, requests, stage, reason, clients, open, handler, inbox, asking, busy, stale, out>> BY DEF TakeEvent
  <2> QED BY <2>1, <2>2, <2>3, Zenon DEF IInv, TypeOK
<1>2. Registered'
  <2>1. caster'.targets \subseteq clients /\ caster'.step # "waiting"
    BY DEF IInv, TypeOK, Sending, TakeEvent
  <2>2. UNCHANGED <<clients, open, handler, stale, stage>> BY DEF TakeEvent
  <2> QED BY <2>1, <2>2 DEF IInv, Registered
<1>3. Sending' BY SMTT(30) DEF IInv, TypeOK, Sending, TakeEvent
<1>4. Written' BY SMTT(60) DEF IInv, TypeOK, Registered, Sending, Written, TakeEvent
<1>5. Numbered' BY DEF IInv, Numbered, TakeEvent
<1>6. Acknowledged' BY DEF IInv, Acknowledged, TakeEvent, Ack
<1>7. AckFirst' BY DEF IInv, AckFirst, TakeEvent, Ack
<1> QED BY <1>1, <1>2, <1>3, <1>4, <1>5, <1>6, <1>7 DEF IInv

\* The client is registered and the loop free: its request, if any, has been
\* acknowledged.
LEMMA StepSendTo ==
  ASSUME IInv, NEW c \in Clients, SendTo(c) PROVE IInv'
<1>0. /\ TypeOK /\ Event(caster.event) \in Messages /\ Write(c, Event(caster.event))
      /\ caster.event = taken /\ taken > 0 /\ c \in open /\ handler[c] = "reading"
      /\ Event(caster.event).type = "event" /\ Event(caster.event).n = taken
  BY DEF IInv, TypeOK, Messages, Event, SendTo, LoopFree, Sending, Registered, Acknowledged
<1>w. /\ out' \in [Clients -> Seq(Messages)]
      /\ \A d \in Clients \ {c} : out'[d] = out[d]
      /\ Len(out'[c]) = Len(out[c]) + 1 /\ Len(out[c]) \in Nat
      /\ \A i \in 1 .. Len(out[c]) : out'[c][i] = out[c][i]
      /\ out'[c][Len(out[c]) + 1] = Event(caster.event)
  BY <1>0, Appended
<1>u. UNCHANGED <<emitted, asking, handler, open, taken, busy>> BY DEF SendTo
<1>k. asking[c] # 0 => \E j \in 1 .. Len(out[c]) : out[c][j] = Ack(asking[c])
  BY <1>0 DEF IInv, Acknowledged
<1>1. TypeOK'
  <2>1. caster' \in [step : {"get", "send", "waiting", "ended"}, event : Nat,
                        targets : SUBSET Clients, at : Clients \cup {NoClient}]
    <3>1. PICK waits \in BOOLEAN :
            caster' = [caster EXCEPT !.step = IF waits THEN "waiting" ELSE "send",
                                     !.targets = @ \ {c},
                                     !.at = IF waits THEN c ELSE NoClient]
      BY DEF SendTo
    <3> QED BY <3>1 DEF IInv, TypeOK
  <2>2. out' \in [Clients -> Seq(Messages)]
    BY <1>w
  <2>3. UNCHANGED <<emitted, taken, requests, stage, reason, clients, open, handler, inbox, asking, busy, stale>> BY DEF SendTo, Write, Event, Ack
  <2> QED BY <2>1, <2>2, <2>3, Zenon DEF IInv, TypeOK
<1>2. Registered' BY SMTT(30) DEF IInv, TypeOK, LoopFree, Registered, Sending,
      Acknowledged, SendTo, Write, Event, Ack
<1>3. Sending' BY SMTT(30) DEF IInv, TypeOK, Sending, SendTo, Write, Event, Ack
<1>4. Written'
  <2>1. \A i \in 1 .. Len(out'[c]) :
           (i \in 1 .. Len(out[c]) /\ out'[c][i] = out[c][i]) \/ out'[c][i] = Event(caster.event)
    BY <1>w
  <2>2. taken \in 1 .. taken BY <1>0, Counts
  <2>3. \A i \in 1 .. Len(out'[c]) : out'[c][i].type = "event" => out'[c][i].n \in 1 .. taken
    BY <1>0, <1>w, <2>1, <2>2 DEF IInv, Written
  <2>4. \A d \in Clients : d # c => out'[d] = out[d] BY <1>w
  <2> QED BY <1>0, <1>u, <2>3, <2>4 DEF IInv, Written
<1>5. Numbered' BY DEF IInv, Numbered, SendTo, Write, Event, Ack
<1>6. Acknowledged'
  <2>1. asking[c] # 0 => \E j \in 1 .. Len(out'[c]) : out'[c][j] = Ack(asking[c]) BY <1>w, <1>k
  <2> QED BY <1>0, <1>w, <1>u, <2>1, SMTT(30) DEF IInv, Acknowledged, Ack
<1>7. AckFirst'
  <2>1. ASSUME NEW i \in 1 .. Len(out'[c]), asking[c] = emitted[out'[c][i].n], asking[c] # 0,
               out'[c][i].type = "event"
        PROVE  \E j \in 1 .. (i - 1) : out'[c][j] = Ack(asking[c])
    <3>1. CASE i \in 1 .. Len(out[c])
      <4>1. PICK j \in 1 .. (i - 1) : out[c][j] = Ack(asking[c]) BY <1>w, <2>1, <3>1 DEF IInv, AckFirst
      <4>2. j \in 1 .. Len(out[c]) BY <1>w, <3>1
      <4> QED BY <1>w, <4>1, <4>2
    <3>2. CASE i = Len(out[c]) + 1 BY <1>w, <1>k, <2>1, <3>2
    <3> QED BY <1>w, <3>1, <3>2
  <2>2. \A d \in Clients : d # c => out'[d] = out[d] BY <1>w
  <2>3. \A d \in Clients : d # c => \A i \in 1 .. Len(out'[d]) :
           out'[d][i].type = "event" /\ asking[d] # 0 /\ asking[d] = emitted[out'[d][i].n] =>
               \E j \in 1 .. (i - 1) : out'[d][j] = Ack(asking[d])
    BY <2>2, SMTT(30) DEF IInv, AckFirst
  <2> QED BY <1>u, <2>1, <2>3 DEF AckFirst, Ack
<1> QED BY <1>1, <1>2, <1>3, <1>4, <1>5, <1>6, <1>7 DEF IInv

\* Only the broadcaster's step changes.
LEMMA StepSendReturns ==
  ASSUME IInv, SendReturns PROVE IInv'
<1>1. TypeOK'
  <2>1. caster' \in [step : {"get", "send", "waiting", "ended"}, event : Nat,
                        targets : SUBSET Clients, at : Clients \cup {NoClient}]
    BY DEF IInv, TypeOK, SendReturns
  <2>2. UNCHANGED <<emitted, taken, requests, stage, reason, clients, open, handler, inbox, asking, busy, stale, out>> BY DEF SendReturns
  <2> QED BY <2>1, <2>2, Zenon DEF IInv, TypeOK
<1>2. Registered' BY SMTT(30) DEF IInv, TypeOK, LoopFree, Registered, Sending,
      Acknowledged, SendReturns
<1>3. Sending' BY SMTT(30) DEF IInv, TypeOK, Sending, SendReturns
<1>4. Written' BY DEF IInv, Written, SendReturns
<1>5. Numbered' BY DEF IInv, Numbered, SendReturns
<1>6. Acknowledged' BY DEF IInv, Acknowledged, SendReturns, Ack
<1>7. AckFirst' BY DEF IInv, AckFirst, SendReturns, Ack
<1> QED BY <1>1, <1>2, <1>3, <1>4, <1>5, <1>6, <1>7 DEF IInv

\* A client whose send raised is not open.
LEMMA StepSendRaises ==
  ASSUME IInv, NEW c \in Clients, SendRaises(c) PROVE IInv'
<1>1. TypeOK'
  <2>1. caster' \in [step : {"get", "send", "waiting", "ended"}, event : Nat,
                        targets : SUBSET Clients, at : Clients \cup {NoClient}]
    BY DEF IInv, TypeOK, SendRaises
  <2>2. stale' \subseteq Clients
    BY DEF IInv, TypeOK, SendRaises
  <2>3. UNCHANGED <<emitted, taken, requests, stage, reason, clients, open, handler, inbox, asking, busy, out>> BY DEF SendRaises
  <2> QED BY <2>1, <2>2, <2>3, Zenon DEF IInv, TypeOK
<1>2. Registered'
  <2>1. caster'.targets \subseteq caster.targets /\ stale' = stale \cup {c} /\ c \notin open
    BY DEF IInv, TypeOK, SendRaises
  <2>2. handler[c] # "none"
    <3>1. CASE c \in caster.targets BY <3>1 DEF IInv, Registered
    <3>2. CASE caster.step = "waiting" /\ c = caster.at BY <3>2 DEF IInv, Registered
    <3> QED BY <3>1, <3>2 DEF SendRaises
  <2> QED BY <2>1, <2>2 DEF IInv, Registered, SendRaises
<1>3. Sending' BY SMTT(30) DEF IInv, TypeOK, Sending, SendRaises
<1>4. Written' BY DEF IInv, Written, SendRaises
<1>5. Numbered' BY DEF IInv, Numbered, SendRaises
<1>6. Acknowledged' BY DEF IInv, Acknowledged, SendRaises, Ack
<1>7. AckFirst' BY DEF IInv, AckFirst, SendRaises, Ack
<1> QED BY <1>1, <1>2, <1>3, <1>4, <1>5, <1>6, <1>7 DEF IInv

\* No open client is stale.
LEMMA StepDiscard ==
  ASSUME IInv, Discard PROVE IInv'
<1>1. TypeOK'
  <2>1. clients' \subseteq Clients
    BY DEF IInv, TypeOK, Discard, Getting
  <2>2. caster' \in [step : {"get", "send", "waiting", "ended"}, event : Nat,
                        targets : SUBSET Clients, at : Clients \cup {NoClient}]
    BY DEF IInv, TypeOK, Discard, Getting
  <2>3. stale' \subseteq Clients
    BY DEF IInv, TypeOK, Discard, Getting
  <2>4. UNCHANGED <<emitted, taken, requests, stage, reason, open, handler, inbox, asking, busy, out>> BY DEF Discard, Getting
  <2> QED BY <2>1, <2>2, <2>3, <2>4, Zenon DEF IInv, TypeOK
<1>2. Registered' BY SMTT(30) DEF IInv, TypeOK, LoopFree, Registered, Sending,
      Acknowledged, Discard, Getting
<1>3. Sending' BY SMTT(30) DEF IInv, TypeOK, Sending, Discard, Getting
<1>4. Written' BY DEF IInv, Written, Discard, Getting
<1>5. Numbered' BY DEF IInv, Numbered, Discard, Getting
<1>6. Acknowledged' BY DEF IInv, Acknowledged, Discard, Getting, Ack
<1>7. AckFirst' BY DEF IInv, AckFirst, Discard, Getting, Ack
<1> QED BY <1>1, <1>2, <1>3, <1>4, <1>5, <1>6, <1>7 DEF IInv

\* Only the stage changes, to one that promises nothing.
LEMMA StepMonitorRaises ==
  ASSUME IInv, MonitorRaises PROVE IInv'
<1>1. TypeOK'
  <2>1. stage' \in Stages
    BY DEF IInv, TypeOK, Stages, MonitorRaises
  <2>2. reason' \in {"none", "failed", "interrupted"}
    BY DEF IInv, TypeOK, MonitorRaises
  <2>3. UNCHANGED <<emitted, taken, requests, clients, open, handler, inbox, asking, busy, caster, stale, out>> BY DEF MonitorRaises
  <2> QED BY <2>1, <2>2, <2>3, Zenon DEF IInv, TypeOK
<1>2. Registered' BY SMTT(30) DEF IInv, TypeOK, LoopFree, Registered, Sending,
      Acknowledged, MonitorRaises
<1>3. Sending' BY DEF IInv, Sending, MonitorRaises
<1>4. Written' BY DEF IInv, Written, MonitorRaises
<1>5. Numbered' BY DEF IInv, Numbered, MonitorRaises
<1>6. Acknowledged' BY DEF IInv, Acknowledged, MonitorRaises, Ack
<1>7. AckFirst' BY DEF IInv, AckFirst, MonitorRaises, Ack
<1> QED BY <1>1, <1>2, <1>3, <1>4, <1>5, <1>6, <1>7 DEF IInv

\* Only the stage changes, to one that promises nothing.
LEMMA StepInterrupt ==
  ASSUME IInv, Interrupt PROVE IInv'
<1>1. TypeOK'
  <2>1. stage' \in Stages
    BY DEF IInv, TypeOK, Stages, Interrupt
  <2>2. reason' \in {"none", "failed", "interrupted"}
    BY DEF IInv, TypeOK, Interrupt
  <2>3. UNCHANGED <<emitted, taken, requests, clients, open, handler, inbox, asking, busy, caster, stale, out>> BY DEF Interrupt
  <2> QED BY <2>1, <2>2, <2>3, Zenon DEF IInv, TypeOK
<1>2. Registered' BY SMTT(30) DEF IInv, TypeOK, LoopFree, Registered, Sending,
      Acknowledged, Interrupt
<1>3. Sending' BY DEF IInv, Sending, Interrupt
<1>4. Written' BY DEF IInv, Written, Interrupt
<1>5. Numbered' BY DEF IInv, Numbered, Interrupt
<1>6. Acknowledged' BY DEF IInv, Acknowledged, Interrupt, Ack
<1>7. AckFirst' BY DEF IInv, AckFirst, Interrupt, Ack
<1> QED BY <1>1, <1>2, <1>3, <1>4, <1>5, <1>6, <1>7 DEF IInv

\* Every handler has ended, so no client is registered.
LEMMA StepCleanUp ==
  ASSUME IInv, CleanUp PROVE IInv'
<1>1. TypeOK'
  <2>1. stage' \in Stages
    BY DEF IInv, TypeOK, Stages, CleanUp
  <2>2. caster' \in [step : {"get", "send", "waiting", "ended"}, event : Nat,
                        targets : SUBSET Clients, at : Clients \cup {NoClient}]
    BY DEF IInv, TypeOK, CleanUp
  <2>3. UNCHANGED <<emitted, taken, requests, reason, clients, open, handler, inbox, asking, busy, stale, out>> BY DEF CleanUp
  <2> QED BY <2>1, <2>2, <2>3, Zenon DEF IInv, TypeOK
<1>2. Registered' BY SMTT(30) DEF IInv, TypeOK, LoopFree, Registered, Sending,
      Acknowledged, CleanUp
<1>3. Sending' BY SMTT(30) DEF IInv, TypeOK, Sending, CleanUp
<1>4. Written' BY DEF IInv, Written, CleanUp
<1>5. Numbered' BY DEF IInv, Numbered, CleanUp
<1>6. Acknowledged' BY DEF IInv, Acknowledged, CleanUp, Ack
<1>7. AckFirst' BY DEF IInv, AckFirst, CleanUp, Ack
<1> QED BY <1>1, <1>2, <1>3, <1>4, <1>5, <1>6, <1>7 DEF IInv

\* There is no client left to forget.
LEMMA StepStop ==
  ASSUME IInv, Stop PROVE IInv'
<1>1. TypeOK'
  <2>1. stage' \in Stages
    BY DEF IInv, TypeOK, Stages, Stop
  <2>2. clients' \subseteq Clients
    BY DEF IInv, TypeOK, Stop
  <2>3. UNCHANGED <<emitted, taken, requests, reason, open, handler, inbox, asking, busy, caster, stale, out>> BY DEF Stop
  <2> QED BY <2>1, <2>2, <2>3, Zenon DEF IInv, TypeOK
<1>2. Registered'
  <2>1. clients = {} /\ open = {} BY DEF IInv, TypeOK, Registered, Stop
  <2> QED BY <2>1 DEF IInv, Registered, Stop
<1>3. Sending' BY DEF IInv, Sending, Stop
<1>4. Written' BY DEF IInv, Written, Stop
<1>5. Numbered' BY DEF IInv, Numbered, Stop
<1>6. Acknowledged' BY DEF IInv, Acknowledged, Stop, Ack
<1>7. AckFirst' BY DEF IInv, AckFirst, Stop, Ack
<1> QED BY <1>1, <1>2, <1>3, <1>4, <1>5, <1>6, <1>7 DEF IInv

----------------------------------------------------------------------------
\* The conjuncts of IInv hold of the initial states.
LEMMA InitInv == Init => IInv
<1> SUFFICES ASSUME Init PROVE IInv OBVIOUS
<1>1. TypeOK BY DEF Init, TypeOK, Getting, Events, Stages, Messages
<1>2. Registered /\ Sending /\ Numbered BY DEF Init, Registered, Sending, Numbered, Getting
<1>3. Written /\ Acknowledged /\ AckFirst BY DEF Init, Written, Acknowledged, AckFirst
<1> QED BY <1>1, <1>2, <1>3 DEF IInv

\* Every step of the bridge keeps IInv.
LEMMA NextInv == IInv /\ [Next]_vars => IInv'
<1> SUFFICES ASSUME IInv, [Next]_vars PROVE IInv' OBVIOUS
<1>1. CASE GatewayFails BY <1>1, StepGatewayFails
<1>2. CASE \E r \in 1 .. requests : DataArrives(r) BY <1>2, StepDataArrives
<1>3. CASE CasterStep BY <1>3, StepTakeEvent, StepDiscard, StepSendTo, StepSendRaises DEF CasterStep
<1>4. CASE SendReturns BY <1>4, StepSendReturns
<1>5. CASE ServeStep BY <1>5, StepMonitorRaises, StepCleanUp, StepStop DEF ServeStep
<1>6. CASE Interrupt BY <1>6, StepInterrupt
<1>7. ASSUME NEW c \in Clients, Connect(c) \/ Send(c) \/ Drop(c) PROVE IInv'
  BY <1>7, StepConnect, StepSend, StepDrop
<1>8. ASSUME NEW c \in Clients, HandlerStep(c) PROVE IInv'
  <2>1. CASE Refuse(c) \/ Reply(c) \/ HandlerEnds(c) BY <2>1, StepRefuse, StepReply, StepHandlerEnds
  <2>2. CASE Dispatch(c, 0)
    <3>1. 0 \in {0, requests + 1} /\ 0 <= MaxRequests BY BoundAssumption
    <3> QED BY <2>2, <3>1, StepDispatch
  <2>3. CASE requests < MaxRequests /\ Dispatch(c, requests + 1)
    <3>1. requests + 1 \in {0, requests + 1} /\ requests + 1 <= MaxRequests
      BY <2>3, Counts, BoundAssumption
    <3> QED BY <2>3, <3>1, StepDispatch
  <2> QED BY <1>8, <2>1, <2>2, <2>3 DEF HandlerStep, DispatchNext
<1>9. CASE Stopped \/ UNCHANGED vars
  <2>1. UNCHANGED vars BY <1>9 DEF Stopped
  <2>2. TypeOK' BY <2>1 DEF IInv, TypeOK, vars
  <2>3. Registered' /\ Sending' /\ Numbered' BY <2>1 DEF IInv, Registered, Sending, Numbered, vars
  <2>4. Written' /\ Acknowledged' /\ AckFirst'
    BY <2>1 DEF IInv, Written, Acknowledged, AckFirst, Ack, vars
  <2> QED BY <2>2, <2>3, <2>4 DEF IInv
<1> QED BY <1>1, <1>2, <1>3, <1>4, <1>5, <1>6, <1>7, <1>8, <1>9 DEF Next

\* So IInv holds of every reachable state.
LEMMA Invariance == Spec => []IInv
<1>1. Init => IInv BY InitInv
<1>2. IInv /\ [Next]_vars => IInv' BY NextInv
<1> QED BY <1>1, <1>2, PTL DEF Spec

\* The bridge acknowledges a request to its client before it forwards anything
\* about it, however the answer races the request (websocket_bridge.py:134).
THEOREM AcknowledgedFirst == Spec => []AckFirst
<1>1. IInv => AckFirst BY DEF IInv
<1> QED BY <1>1, Invariance, PTL

\* A bridge that has stopped keeps no client, although the error of its monitor
\* skips _close_clients (websocket_bridge.py:61).
THEOREM NoneRegistered == Spec => []ClientsReleased
<1>1. IInv => ClientsReleased BY DEF IInv, TypeOK, Registered, ClientsReleased
<1> QED BY <1>1, Invariance, PTL

----------------------------------------------------------------------------
(* The refinement: a step of the bridge is a step of Broadcast, or leaves   *)
(* everything Broadcast sees as it was.                                     *)

USE DEF Promise!Published

\* Who is owed what depends on the position, the open connections and the
\* clients yet to be served.
LEMMA DueStays ==
  ASSUME UNCHANGED <<taken, open>>, \A c \in open : c \in caster'.targets <=> c \in caster.targets
  PROVE  [c \in Clients |-> Due(c)]' = [c \in Clients |-> Due(c)]
BY DEF Due

\* A step that shows in none of this is a stuttering step of Broadcast.
LEMMA Stutters ==
  ASSUME UNCHANGED <<emitted, taken, open, out>>,
         \A c \in open : c \in caster'.targets <=> c \in caster.targets
  PROVE  UNCHANGED Promise!bvars
BY DueStays DEF Promise!bvars

\* Each action of the bridge against the action of Broadcast it implements.
LEMMA Broadcasts ==
  ASSUME IInv, [Next]_vars PROVE [Promise!Next]_(Promise!bvars)
<1> DEFINE due == [c \in Clients |-> Due(c)]
<1>0. /\ open \subseteq Clients /\ taken \in Nat /\ out \in [Clients -> Seq(Messages)]
      /\ \A c \in Clients : due[c] = IF c \notin open THEN 0
                                     ELSE IF c \in caster.targets THEN taken ELSE taken + 1
  BY Counts DEF IInv, TypeOK, Due
<1>a. \A c \in Clients : (due')[c] = IF c \notin open' THEN 0
                                     ELSE IF c \in caster'.targets THEN taken' ELSE taken' + 1
  BY DEF Due
<1>b. \A e : Emit(e) => emitted' = emitted \/ emitted' = Append(emitted, e) BY DEF Emit
<1>1. CASE GatewayFails BY <1>1, Stutters DEF GatewayFails
<1>2. ASSUME NEW r \in 1 .. requests, DataArrives(r) PROVE Promise!Next \/ UNCHANGED Promise!bvars
  <2>1. due' = due /\ UNCHANGED <<taken, out>> /\ Emit(r) BY <1>2, DueStays DEF DataArrives
  <2>2. r \in Events BY DEF IInv, TypeOK, Events
  <2>3. CASE emitted' = emitted BY <1>2, <2>1, <2>3, Stutters DEF DataArrives
  <2>4. CASE emitted' = Append(emitted, r)
    BY <2>1, <2>2, <2>4 DEF Promise!Next, Promise!Publish
  <2> QED BY <1>b, <2>1, <2>3, <2>4
<1>3. ASSUME NEW c \in Clients, Connect(c) PROVE Promise!Join(c)
  <2>1. c \notin open /\ c \notin caster.targets BY <1>3 DEF IInv, Registered, Connect
  <2>2. out[c] = <<>> BY <2>1 DEF IInv, Written
  <2>3. UNCHANGED <<emitted, taken, caster>> /\ open' = open \cup {c} BY <1>3 DEF Connect
  <2>4. due[c] = 0 BY <1>0, <2>1
  <2>5. due' = [due EXCEPT ![c] = taken + 1]
    BY <2>1, <2>3 DEF Due
  <2>6. out' = [out EXCEPT ![c] = <<Greeting>>] BY <1>0, <1>3, <2>2 DEF Connect, Write
  <2> QED BY <2>3, <2>4, <2>5, <2>6 DEF Promise!Join
<1>4. ASSUME NEW c \in Clients, Send(c) PROVE UNCHANGED Promise!bvars BY <1>4, Stutters DEF Send
<1>5. ASSUME NEW c \in Clients, Drop(c) PROVE Promise!Leave(c)
  <2>1. c \in open /\ open' = open \ {c} /\ UNCHANGED <<emitted, taken, caster>> BY <1>5 DEF Drop
  <2>2. due[c] # 0
    BY <1>0, <2>1, SMTT(30) DEF IInv, Sending, TypeOK
  <2>3. due' = [due EXCEPT ![c] = 0] BY <2>1 DEF Due
  <2>4. out' = [out EXCEPT ![c] = <<>>] BY <1>5 DEF Drop
  <2> QED BY <2>1, <2>2, <2>3, <2>4 DEF Promise!Leave
<1>6. ASSUME NEW c \in Clients, Refuse(c) PROVE Promise!Answer(c) \/ UNCHANGED Promise!bvars
  <2>1. due' = due /\ UNCHANGED <<emitted, taken, open, caster>> BY <1>6, DueStays DEF Refuse
  <2>2. CASE c \notin open
    <3>1. UNCHANGED out BY <1>6, <2>2 DEF Refuse, Finish
    <3> QED BY <2>1, <3>1 DEF Promise!bvars
  <2>3. CASE c \in open
    <3>1. due[c] # 0 BY <1>0, <2>3, SMTT(30) DEF IInv, Sending, TypeOK
    <3>2. out' = [out EXCEPT ![c] = Append(@, Ack(0))] BY <1>6, <2>3 DEF Refuse, Finish, Write
    <3>3. Ack(0) \in {Ack(r) : r \in 0 .. MaxRequests} BY BoundAssumption
    <3> QED BY <2>1, <3>1, <3>2, <3>3 DEF Promise!Answer
  <2> QED BY <2>2, <2>3
<1>7. ASSUME NEW c \in Clients, Reply(c) PROVE Promise!Next \/ UNCHANGED Promise!bvars
  <2>1. due' = due /\ UNCHANGED <<taken, open, caster>> /\ Emit(asking[c]) BY <1>7, DueStays DEF Reply
  <2>2. asking[c] \in Events BY DEF IInv, TypeOK, Events
  <2>3. emitted' = emitted \/ emitted' = Append(emitted, asking[c]) BY <1>b, <2>1
  <2>4. CASE c \notin open
    <3>1. UNCHANGED out BY <1>7, <2>4 DEF Reply, Finish
    <3> QED BY <2>1, <2>2, <2>3, <3>1 DEF Promise!Next, Promise!Publish, Promise!bvars
  <2>5. CASE c \in open
    <3>1. due[c] # 0 BY <1>0, <2>5, SMTT(30) DEF IInv, Sending, TypeOK
    <3>2. out' = [out EXCEPT ![c] = Append(@, Ack(asking[c]))] BY <1>7, <2>5 DEF Reply, Finish, Write
    <3>3. Ack(asking[c]) \in {Ack(r) : r \in 0 .. MaxRequests} BY DEF IInv, TypeOK
    <3>4. Promise!Answer(c) BY <2>1, <2>2, <2>3, <3>1, <3>2, <3>3 DEF Promise!Answer
    <3> QED BY <3>4 DEF Promise!Next
  <2> QED BY <2>4, <2>5
<1>8. ASSUME NEW c \in Clients, DispatchNext(c) \/ HandlerEnds(c) PROVE UNCHANGED Promise!bvars
  <2>1. UNCHANGED <<emitted, taken, open, out, caster>> BY <1>8 DEF DispatchNext, Dispatch, HandlerEnds
  <2> QED BY <2>1, Stutters
<1>9. CASE TakeEvent
  <2>1. caster.targets = {} /\ open \subseteq clients BY <1>9 DEF IInv, Sending, Registered, TakeEvent
  <2>2. UNCHANGED <<emitted, open, out>> /\ taken' = taken + 1 /\ taken < Len(emitted) BY <1>9 DEF TakeEvent
  <2>3. \A c \in open : c \in caster'.targets BY <1>9, <2>1 DEF TakeEvent, IInv, TypeOK
  <2>4. due' = due BY <2>1, <2>2, <2>3 DEF Due
  <2>5. \A c \in Clients : due[c] = 0 \/ due[c] > taken BY <1>0, <2>1
  <2>6. Promise!Advance BY <2>2, <2>4, <2>5 DEF Promise!Advance
  <2> QED BY <2>6 DEF Promise!Next
<1>10. ASSUME NEW c \in Clients, SendTo(c) PROVE Promise!Deliver(c)
  <2>1. /\ c \in open /\ c \in caster.targets /\ caster.event = taken /\ taken > 0
        /\ UNCHANGED <<emitted, taken, open>>
    BY <1>10 DEF SendTo, IInv, Sending
  <2>2. caster'.targets = caster.targets \ {c} BY <1>10 DEF SendTo, IInv, TypeOK
  <2>3. due[c] = taken /\ due[c] \in 1 .. taken BY <1>0, <2>1
  <2>4. due' = [due EXCEPT ![c] = @ + 1] BY <2>1, <2>2 DEF Due
  <2>5. out' = [out EXCEPT ![c] = Append(@, Event(due[c]))] BY <1>10, <2>1, <2>3 DEF SendTo, Write
  <2> QED BY <2>1, <2>3, <2>4, <2>5 DEF Promise!Deliver
<1>11. CASE SendReturns
  <2>1. caster'.targets = caster.targets BY <1>11 DEF SendReturns, IInv, TypeOK
  <2> QED BY <1>11, <2>1, Stutters DEF SendReturns
<1>12. ASSUME NEW c \in Clients, SendRaises(c) PROVE UNCHANGED Promise!bvars
  <2>1. c \notin open /\ caster'.targets = caster.targets \ {c} BY <1>12 DEF SendRaises, IInv, TypeOK
  <2> QED BY <1>12, <2>1, Stutters DEF SendRaises
<1>13. CASE Discard
  <2>1. caster.targets = {} /\ caster'.targets = {} BY <1>13 DEF Discard, Getting
  <2> QED BY <1>13, <2>1, Stutters DEF Discard
<1>14. CASE MonitorRaises \/ Interrupt \/ Stop \/ Stopped \/ UNCHANGED vars
  <2>1. UNCHANGED <<emitted, taken, open, out, caster>>
    BY <1>14 DEF MonitorRaises, Interrupt, Stop, Stopped, vars
  <2> QED BY <2>1, Stutters
<1>15. CASE CleanUp
  <2>1. caster'.targets = caster.targets BY <1>15 DEF CleanUp, IInv, TypeOK
  <2> QED BY <1>15, <2>1, Stutters DEF CleanUp
<1>16. CASE CasterStep BY <1>9, <1>10, <1>12, <1>13, <1>16 DEF CasterStep, Promise!Next
<1>17. CASE ServeStep BY <1>14, <1>15, <1>17 DEF ServeStep
<1>18. ASSUME NEW c \in Clients, Connect(c) \/ Send(c) \/ Drop(c) \/ HandlerStep(c)
       PROVE  Promise!Next \/ UNCHANGED Promise!bvars
  BY <1>3, <1>4, <1>5, <1>6, <1>7, <1>8, <1>18 DEF HandlerStep, Promise!Next
<1> QED BY <1>1, <1>2, <1>11, <1>14, <1>16, <1>17, <1>18 DEF Next

\* What a client gets is the greeting and then every event from its arrival on,
\* once and in order (websocket_bridge.py:77-92).
THEOREM BridgeBroadcasts == Spec => ImplementsBroadcast
<1>1. Init => Promise!Init BY DEF Init, Getting, Due, Promise!Init
<1>2. IInv /\ [Next]_vars => [Promise!Next]_(Promise!bvars) BY Broadcasts
<1> QED BY <1>1, <1>2, Invariance, PTL DEF Spec, ImplementsBroadcast, Promise!Spec
=============================================================================
