---------------------------- MODULE MCCoinsCache -----------------------------
(* TLC instance of CoinsCache: two transactions with two unspent states     *)
(* each, two block hashes.                                                   *)
EXTENDS CoinsCache
=============================================================================
