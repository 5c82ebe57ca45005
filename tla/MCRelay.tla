------------------------------- MODULE MCRelay -------------------------------
(* A mint that two approvers sign, its reversal or an enrolment, and two      *)
(* invocations at a time.                                                     *)
EXTENDS RelayIndexer, TLC

CONSTANTS a1, a2, m1

MintCall == [kind |-> "mint", member |-> m1, amount |-> 5, original |-> None]
MCMintAndEnrolment == (a1 :> MintCall) @@ (a2 :> [MintCall EXCEPT !.kind = "enroll", !.amount = 0])
MCMintAndReversal ==
  (a1 :> MintCall) @@ (a2 :> [MintCall EXCEPT !.kind = "reversal", !.original = a1])

\* Bound: the enrolment runs beside the mint while nothing fails and no signature
\* expires, and either of these meets the mint alone.
EnrolmentOrFault == (faults' > 0 \/ expired' # {}) => action'[a2] = NoAction
=============================================================================
