------------------------------ MODULE MCRateLimit ------------------------------
(* Small instances of RateLimit for TLC. *)
EXTENDS RateLimit

OneSender  == <<NULL>>
TwoSenders == <<2, NULL>>
===============================================================================
