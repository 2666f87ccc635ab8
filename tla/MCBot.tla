-------------------------------- MODULE MCBot -------------------------------
(***************************************************************************)
(* Requests for Bot: half of what is free, all of it, none, and a fixed    *)
(* amount that may be too much.                                            *)
(***************************************************************************)
EXTENDS Bot, TLC

Asked == [kind : {"Alloc"}, n : {0, 50, 100}]
           \cup [kind : {"AmountLamports"}, n : {2}]

SomeGains == {-2, 1}

AnyMint == Permutations(Mints)
=============================================================================
