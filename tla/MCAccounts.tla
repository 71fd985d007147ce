----------------------------- MODULE MCAccounts -----------------------------
(***************************************************************************)
(* A small instance of Accounts for TLC: one user, one client, two         *)
(* requests served side by side, and a limit of one request for each bucket.*)
(***************************************************************************)
EXTENDS Accounts

CONSTANTS c1, r1, r2

SmallLimits == [b \in Buckets |-> 1]
=============================================================================
