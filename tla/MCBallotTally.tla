--------------------------- MODULE MCBallotTally ---------------------------
(* Up to five members with a balance, of whom four vote on up to three options. *)
EXTENDS BallotTally, TLC

MCBalances == {<<1, 2, 1>>, <<2, 1, 1, 1>>, <<3, 2, 1, 0, 1>>}

WithReject == {<<"approve", "reject">>, <<"reject", "later", "approve">>}
WithoutReject == {<<"decline", "approve">>}
=============================================================================
