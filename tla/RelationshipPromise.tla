------------------------ MODULE RelationshipPromise -------------------------
(***************************************************************************)
(* What Relationship Operations promise, whatever executes, interrupts and *)
(* recovers them: an Operation takes all its Mappings at once and keeps    *)
(* them until it is applied or restored; only who holds a Mapping changes  *)
(* its relationship in the Relay; baselines change in one step for all     *)
(* Mappings of an Operation, which is then over; and what is let go is as  *)
(* its baseline says.                                                      *)
(*                                                                         *)
(* The promise ends with the first commit or interruption whose reply is   *)
(* lost, and says nothing of the Relay once an Operation has begun on what *)
(* was no longer so.                                                       *)
(***************************************************************************)
EXTENDS Naturals

CONSTANTS Mappings, Keys, None

VARIABLES phase,     \* of each Operation
          holds,     \* the Mappings it has taken
          baseline,  \* what is recorded of each Mapping: revision and content
          external,  \* what the Relay holds of it
          heard,     \* no reply of a commit or interruption was lost
          current    \* every Operation began on what was still so

vars == <<phase, holds, baseline, external, heard, current>>

Phases == {"none", "working", "interrupted", "blocked", "applied", "restored"}

Init ==
    /\ phase = [k \in Keys |-> "none"]
    /\ holds = [k \in Keys |-> {}]
    /\ baseline = [m \in Mappings |-> [revision |-> 1, content |-> None]]
    /\ external = [m \in Mappings |-> None]
    /\ heard = TRUE
    /\ current = TRUE

Move(k, from, to) ==
    /\ phase[k] = from
    /\ phase' = [phase EXCEPT ![k] = to]

(* All affected Mappings, none of which is held, or nothing.                 *)
Begin(k, S) ==
    /\ Move(k, "none", "working")
    /\ S # {} /\ \A l \in Keys : holds[l] \cap S = {}
    /\ holds' = [holds EXCEPT ![k] = S]
    /\ UNCHANGED <<baseline, external>>

(* Towards the target of the Operation, or back to the baseline.             *)
Write(k, m) ==
    /\ phase[k] = "working"
    /\ m \in holds[k]
    /\ \E v \in Keys \cup {None} :
          /\ current => v \in {k, baseline[m].content}
          /\ external' = [external EXCEPT ![m] = v]
    /\ UNCHANGED <<phase, holds, baseline>>

(* A start of an instance interrupts all that were left.                     *)
Interrupt(K) ==
    /\ \A k \in K : phase[k] = "working"
    /\ phase' = [k \in Keys |-> IF k \in K THEN "interrupted" ELSE phase[k]]
    /\ UNCHANGED <<holds, baseline, external>>

Recover(k) == Move(k, "interrupted", "working") /\ UNCHANGED <<holds, baseline, external>>

Block(k) == Move(k, "working", "blocked") /\ UNCHANGED <<holds, baseline, external>>

Close(k, to) ==
    /\ Move(k, "working", to)
    /\ holds' = [holds EXCEPT ![k] = {}]
    /\ UNCHANGED external

Apply(k) ==
    /\ current => \A m \in holds[k] : external[m] = k
    /\ Close(k, "applied")
    /\ baseline' = [m \in Mappings |->
                       IF m \in holds[k] THEN [revision |-> baseline[m].revision + 1, content |-> k]
                       ELSE baseline[m]]

Restore(k) ==
    /\ current => \A m \in holds[k] : external[m] = baseline[m].content
    /\ Close(k, "restored")
    /\ UNCHANGED baseline

Step ==
    \/ \E K \in SUBSET Keys : Interrupt(K)
    \/ \E k \in Keys :
          \/ \E S \in SUBSET Mappings : Begin(k, S)
          \/ \E m \in Mappings : Write(k, m)
          \/ Recover(k) \/ Block(k) \/ Apply(k) \/ Restore(k)

(* What is once lost stays lost.                                             *)
Next ==
    /\ heard' => heard /\ Step
    /\ current' => current

Spec == Init /\ [][Next]_vars
=============================================================================
