-------------------------- MODULE MCSignInLimiter ---------------------------
(* Small instances of SignInLimiter for TLC. *)
EXTENDS SignInLimiter, TLC

CONSTANTS account, client, other

\* One account from two clients.
TwoClients == {<<account, client>>, <<account, other>>}
=============================================================================
