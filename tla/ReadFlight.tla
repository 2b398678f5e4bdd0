----------------------------- MODULE ReadFlight -----------------------------
(***************************************************************************)
(* The process-local flight group of the read caches:                      *)
(* backend/internal/readcache/flight.go.  Callers of Do with one key share *)
(* one load; its context is cancelled when the last of them has left.       *)
(* Every action here is one critical section of the group's mutex.          *)
(***************************************************************************)
EXTENDS Naturals, FiniteSets

CONSTANTS Nodes,    \* backend processes
          Keys,     \* cache keys
          Loads,    \* flight calls, each with its goroutine
          NoLoad    \* no flight

ASSUME ReadFlightAssumption == NoLoad \notin Loads

VARIABLES flight,   \* per process, the call of each key (calls)
          waiters,  \* per call, how many callers wait for it
          state     \* per call, whether it runs, was cancelled, or completed

flightVars == <<flight, waiters, state>>

States == {"free", "running", "cancelled", "completed"}

FlightInit ==
    /\ flight = [n \in Nodes |-> [k \in Keys |-> NoLoad]]
    /\ waiters = [l \in Loads |-> 0]
    /\ state = [l \in Loads |-> "free"]

(* Do finds a call for the key and waits for it ...                          *)
Join(n, k, l) ==
    /\ flight[n][k] = l
    /\ waiters' = [waiters EXCEPT ![l] = @ + 1]
    /\ UNCHANGED <<flight, state>>

(* ... or makes one and starts its goroutine.                                *)
Start(n, k, l) ==
    /\ flight[n][k] = NoLoad
    /\ flight' = [flight EXCEPT ![n][k] = l]
    /\ waiters' = [waiters EXCEPT ![l] = 1]
    /\ state' = [state EXCEPT ![l] = "running"]

(* A call leaves the map if it is still the one for its key.                 *)
Removed(n, k, l) == IF flight[n][k] = l THEN [flight EXCEPT ![n][k] = NoLoad] ELSE flight

(* The goroutine stores the result and closes done.                          *)
Complete(n, k, l) ==
    /\ state[l] \in {"running", "cancelled"}
    /\ flight' = Removed(n, k, l)
    /\ state' = [state EXCEPT ![l] = "completed"]
    /\ UNCHANGED waiters

(* Mutant: the first caller to leave cancels the load of the others.         *)
LeaveAndCancel(n, k, l) ==
    IF state[l] = "completed" THEN UNCHANGED flightVars
    ELSE /\ waiters' = [waiters EXCEPT ![l] = @ - 1]
         /\ flight' = Removed(n, k, l)
         /\ state' = [state EXCEPT ![l] = "cancelled"]

(* leave: the last waiter takes the call out of the map and cancels it,      *)
(* unless it has completed meanwhile.                                        *)
Leave(n, k, l) ==
    IF state[l] = "completed" THEN UNCHANGED flightVars
    ELSE /\ waiters' = [waiters EXCEPT ![l] = @ - 1]
         /\ IF waiters[l] > 1
            THEN UNCHANGED <<flight, state>>
            ELSE /\ flight' = Removed(n, k, l)
                 /\ state' = [state EXCEPT ![l] = "cancelled"]
=============================================================================
