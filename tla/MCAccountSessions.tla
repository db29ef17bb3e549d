-------------------------- MODULE MCAccountSessions --------------------------
(* Instances of the accounts and of a browser for TLC. *)
EXTENDS AccountSessions, TLC

CONSTANTS twitch, google, purse, mail, alice, u1, u2, r1, r2

Kinds == twitch :> "twitch" @@ google :> "google" @@ purse :> "web3" @@ mail :> "email"
Addresses == twitch :> alice @@ google :> alice @@ purse :> NoEmail @@ mail :> alice

(* Bound: three tokens with one nonce, or two with two; a browser logs in to *)
(* one account.                                                              *)
FewRows ==
    /\ Len(token) + Len(nonce) <= 4
    /\ side = "browser" => \A t \in DOMAIN token : token[t].user = token[1].user

Symmetry == Permutations(Accounts) \cup Permutations(Requests)
=============================================================================
