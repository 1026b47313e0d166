----------------------------- MODULE MCAccounts -----------------------------
(* One name, three calls, one crash and restart.                           *)
EXTENDS Accounts, TLC

CONSTANT n1

=============================================================================
