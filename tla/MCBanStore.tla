----------------------------- MODULE MCBanStore -----------------------------
(* A small instance of BanStore for TLC. *)
EXTENDS BanStore, TLC

CONSTANTS a, p

McOwn == (a :> p)

=============================================================================
