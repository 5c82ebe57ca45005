-------------------------- MODULE RecordLifecycle --------------------------
(***************************************************************************)
(* What the record pipeline promises: the life of a public record as a     *)
(* reader of the API sees it, lib/blockchain/records/state-machine.ts and  *)
(* the contract together.  A record is notarised at most once and for      *)
(* ever; it is shown as verified only when it is; a verified record is     *)
(* never taken back, only superseded, and only by a verified correction.   *)
(***************************************************************************)
CONSTANTS
  Records,
  CorrectionOf   \* the record a reversal corrects

VARIABLES status, notarised

lifecycleVars == <<status, notarised>>

Statuses == {"pending", "submitting", "confirming", "verified", "failed", "superseded"}

Moves(r, from, to) ==
  /\ status[r] \in from
  /\ status' = [status EXCEPT ![r] = to]
  /\ UNCHANGED notarised

Claim(r) == Moves(r, {"pending"}, "submitting")
Sent(r) == Moves(r, {"submitting"}, "confirming")
Release(r) == Moves(r, {"submitting", "confirming"}, "pending")
Fail(r) == Moves(r, {"submitting", "confirming"}, "failed")
Retry(r) == Moves(r, {"failed"}, "pending")
Verify(r) == r \in notarised /\ Moves(r, {"submitting", "confirming"}, "verified")

Supersede(r) ==
  /\ \E by \in Records : CorrectionOf[by] = r /\ status[by] = "verified"
  /\ Moves(r, {"verified"}, "superseded")

Notarise(r) ==
  /\ r \notin notarised
  /\ CorrectionOf[r] \in Records => CorrectionOf[r] \in notarised
  /\ notarised' = notarised \cup {r}
  /\ UNCHANGED status

LifecycleInit == status = [r \in Records |-> "pending"] /\ notarised = {}

LifecycleNext ==
  \E r \in Records :
    \/ Claim(r) \/ Sent(r) \/ Release(r) \/ Fail(r) \/ Retry(r)
    \/ Verify(r) \/ Supersede(r) \/ Notarise(r)

LifecycleSpec == LifecycleInit /\ [][LifecycleNext]_lifecycleVars
=============================================================================
