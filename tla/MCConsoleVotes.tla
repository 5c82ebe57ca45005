--------------------------- MODULE MCConsoleVotes ---------------------------
(* Two members with a balance and one who has none yet.                       *)
EXTENDS ConsoleVotes, TLC

MCBalances == {<<1, 2>>, <<1, 1, 1>>}
TwoOptions == {<<"approve", "reject">>}
=============================================================================
