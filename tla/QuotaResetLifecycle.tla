------------------------ MODULE QuotaResetLifecycle -------------------------
(***************************************************************************)
(* What a quota reset request promises (docs/contracts/quota-reset.md,      *)
(* "Request and Reset State"): the phases it may go through and, within     *)
(* resetting, at most one Relay call per approval or retry.                 *)
(***************************************************************************)
EXTENDS Naturals

CONSTANT Requests

VARIABLES phase,    \* the state of each request
          attempt,  \* whether its reset may still call the Relay, or has called it
          calls     \* how often the Relay was called for it

vars == <<phase, attempt, calls>>

Phases == {"absent", "pending", "resetting", "succeeded", "failed", "rejected", "cancelled"}
Attempts == {"none", "ready", "called"}

Move(r, from, to, before, after) ==
    /\ phase[r] = from
    /\ attempt[r] \in before
    /\ phase' = [phase EXCEPT ![r] = to]
    /\ attempt' = [attempt EXCEPT ![r] = after]

Submit(r)  == Move(r, "absent", "pending", {"none"}, "none") /\ UNCHANGED calls
Cancel(r)  == Move(r, "pending", "cancelled", {"none"}, "none") /\ UNCHANGED calls
Reject(r)  == Move(r, "pending", "rejected", {"none"}, "none") /\ UNCHANGED calls
Approve(r) == Move(r, "pending", "resetting", {"none"}, "ready") /\ UNCHANGED calls
Retry(r)   == Move(r, "failed", "resetting", {"none"}, "ready") /\ UNCHANGED calls

(* The one call of an attempt; its reply may be an error.                   *)
CallRelay(r) ==
    /\ \E after \in {"called", "none"} : Move(r, "resetting", "resetting", {"ready"}, after)
    /\ calls' = [calls EXCEPT ![r] = @ + 1]

(* The process gives up; the request stays in resetting.                    *)
Abandon(r) == Move(r, "resetting", "resetting", {"ready", "called"}, "none") /\ UNCHANGED calls

Succeed(r) == Move(r, "resetting", "succeeded", {"called"}, "none") /\ UNCHANGED calls
Fail(r)    == Move(r, "resetting", "failed", {"none"}, "none") /\ UNCHANGED calls

Init ==
    /\ phase \in [Requests -> {"absent", "pending"}]
    /\ attempt = [r \in Requests |-> "none"]
    /\ calls = [r \in Requests |-> 0]

Next == \E r \in Requests :
    \/ Submit(r) \/ Cancel(r) \/ Reject(r) \/ Approve(r) \/ Retry(r)
    \/ CallRelay(r) \/ Abandon(r) \/ Succeed(r) \/ Fail(r)

Spec == Init /\ [][Next]_vars
=============================================================================
