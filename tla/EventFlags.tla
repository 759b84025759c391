------------------------------ MODULE EventFlags ------------------------------
(***************************************************************************)
(* What a group of event flags promises (vcos_event_flags.h): a set wakes, *)
(* in one step, every thread whose request it satisfies, and then takes    *)
(* away the events that one of them consumes; a get takes what is there,   *)
(* or waits; a wait with a timeout may give up.                            *)
(***************************************************************************)
EXTENDS FiniteSets

CONSTANTS Threads, Bits,
          Requests     \* the gets: records [bits, all, consume, suspend]

VARIABLES events,      \* the events that are set
          waiting,     \* the threads inside a get that waits
          request,     \* the get each thread made last
          result       \* what that get returns: [ok, bits]

vars == <<events, waiting, request, result>>

NotYet    == [ok |-> FALSE, bits |-> {}]
Found(ev) == [ok |-> TRUE, bits |-> ev]

Satisfied(r, ev) == IF r.all THEN r.bits \subseteq ev ELSE r.bits \cap ev # {}

\* What the gets of the threads ts take away.
Consumed(ts) == UNION {request[t].bits : t \in {u \in ts : request[u].consume}}

Init == /\ events = {} /\ waiting = {}
        /\ request \in [Threads -> Requests]
        /\ result = [t \in Threads |-> NotYet]

Get(t, r) ==
  /\ t \notin waiting
  /\ request' = [request EXCEPT ![t] = r]
  /\ IF Satisfied(r, events)
       THEN /\ result' = [result EXCEPT ![t] = Found(events)]
            /\ events' = IF r.consume THEN events \ r.bits ELSE events
            /\ UNCHANGED waiting
       ELSE /\ result' = [result EXCEPT ![t] = NotYet]
            /\ waiting' = IF r.suspend = "no" THEN waiting ELSE waiting \cup {t}
            /\ UNCHANGED events

Set(ev) ==
  LET woken == {t \in waiting : Satisfied(request[t], ev)}
  IN /\ events' = ev \ Consumed(woken)
     /\ waiting' = waiting \ woken
     /\ result' = [t \in Threads |-> IF t \in woken THEN Found(ev) ELSE result[t]]
     /\ UNCHANGED request

Timeout(t) ==
  /\ t \in waiting /\ request[t].suspend = "timed"
  /\ waiting' = waiting \ {t}
  /\ UNCHANGED <<events, request, result>>

Next == \/ \E t \in Threads : Timeout(t) \/ \E r \in Requests : Get(t, r)
        \/ \E bits \in SUBSET Bits : Set(events \cup bits) \/ Set(events \cap bits)

Spec == Init /\ [][Next]_vars
=============================================================================
