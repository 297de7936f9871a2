------------------------------ MODULE Session ------------------------------
(***************************************************************************)
(* What an IBGateway session promises the code that uses it, whatever the  *)
(* threads, Events and locks behind it do: nothing is asked of IBKR before *)
(* the handshake or after the session closed, a wait that succeeded in     *)
(* time succeeded because the answer was there, and the caller hears of at *)
(* most one failure, which closes the session.                             *)
(***************************************************************************)
CONSTANTS Asks, OrderIds, Errors

VARIABLES
    phase,      \* "connecting", "open" or "closed"
    handshake,  \* IBKR has accepted the session
    asked,      \* requests handed to IBKR
    arrived,    \* those whose answer is complete
    answered,   \* those a wait returned for in time
    placed,     \* order ids handed to IBKR
    error       \* the failure the caller was told

vars == <<phase, handshake, asked, arrived, answered, placed, error>>

Init ==
    /\ phase = "connecting" /\ handshake = FALSE
    /\ asked = {} /\ arrived = {} /\ answered = {} /\ placed = {}
    /\ error = "none"

Accept ==
    /\ ~handshake
    /\ handshake' = TRUE
    /\ UNCHANGED <<phase, asked, arrived, answered, placed, error>>

Open ==
    /\ phase = "connecting" /\ handshake
    /\ phase' = "open"
    /\ UNCHANGED <<handshake, asked, arrived, answered, placed, error>>

Ask(w) ==
    /\ phase = "open" /\ w \notin asked
    /\ asked' = asked \cup {w}
    /\ UNCHANGED <<phase, handshake, arrived, answered, placed, error>>

Place(o) ==
    /\ phase = "open" /\ o \notin placed
    /\ placed' = placed \cup {o}
    /\ UNCHANGED <<phase, handshake, asked, arrived, answered, error>>

Arrive(w) ==
    /\ w \in asked \ arrived
    /\ arrived' = arrived \cup {w}
    /\ UNCHANGED <<phase, handshake, asked, answered, placed, error>>

Answer(w) ==
    /\ phase = "open" /\ w \in arrived
    /\ answered' = answered \cup {w}
    /\ UNCHANGED <<phase, handshake, asked, arrived, placed, error>>

Close ==
    /\ phase # "closed"
    /\ phase' = "closed"
    /\ UNCHANGED <<handshake, asked, arrived, answered, placed, error>>

Tell(e) ==
    /\ phase = "closed" /\ error = "none"
    /\ error' = e
    /\ UNCHANGED <<phase, handshake, asked, arrived, answered, placed>>

Next ==
    \/ Accept \/ Open \/ Close
    \/ \E w \in Asks : Ask(w) \/ Arrive(w) \/ Answer(w)
    \/ \E o \in OrderIds : Place(o)
    \/ \E e \in Errors : Tell(e)

Spec == Init /\ [][Next]_vars
============================================================================
