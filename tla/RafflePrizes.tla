---------------------------- MODULE RafflePrizes -----------------------------
(***************************************************************************)
(* The accounts behind one raffle's entries, and the winner's claim page.  *)
(* An entry is known by a name and belongs to an account: a CSV import     *)
(* finds the account by its username, a join and the sync with Twitch by   *)
(* the viewer's Twitch identity, and they name the entry differently.      *)
(* Meanwhile accounts change their names and identities move.              *)
(*                                                                         *)
(* Status, mode and the lost races of draws are in Raffle.                 *)
(***************************************************************************)
EXTENDS Calls

CONSTANTS
    Logins,         \* of the viewers on Twitch, with or without an account here
    TwitchID,       \* of each login: the numeric id, which is no login
    Viewers, NoViewer, NoName

TwitchIDs == {TwitchID[l] : l \in Logins}
Names == Logins \cup TwitchIDs

ASSUME PrizeAssumption ==
    /\ NoViewer \notin Viewers /\ NoName \notin Names
    /\ Logins \cap TwitchIDs = {}
    /\ \A l, m \in Logins : TwitchID[l] = TwitchID[m] => l = m

VARIABLES
    username,       \* users.username, unique
    twitch,         \* auth_providers: the account with each viewer's Twitch identity
    entrant,        \* raffle_entries: the account entered under each twitch_login
    draw,           \* raffle_draws: none, drawn, known (its link), lost (its link)
    expired,        \* the draws past claim_expires_at
    claim,          \* raffle_claims: who claimed
    estranged       \* history: an account was renamed or got the identity of another name

accountVars == <<username, twitch, estranged>>
prizeVars == <<accountVars, entrant, draw, expired, claim>>

PrizesInit ==
    /\ username \in [Viewers -> Logins \cup {NoName}]
    /\ \A u, v \in Viewers : username[u] = username[v] => u = v \/ username[u] = NoName
    /\ twitch = [l \in Logins |-> NoViewer]
    /\ entrant = [n \in Names |-> NoViewer]
    /\ draw = [n \in Names |-> "none"]
    /\ expired = {}
    /\ claim = [n \in Names |-> NoViewer]
    /\ estranged = FALSE

-----------------------------------------------------------------------------
(* The accounts. *)

Rename(u, n) ==
    /\ \A v \in Viewers \ {u} : username[v] # n
    /\ n # username[u]
    /\ username' = [username EXCEPT ![u] = n]
    /\ estranged' = TRUE
    /\ UNCHANGED <<call, twitch, entrant, draw, expired, claim>>

(* The identity is linked, unlinked or linked elsewhere (AccountAccess). *)
RelinkTwitch(l, u) ==
    /\ twitch' = [twitch EXCEPT ![l] = u]
    /\ estranged' = (estranged \/ (u # NoViewer /\ username[u] # l))
    /\ UNCHANGED <<call, username, entrant, draw, expired, claim>>

-----------------------------------------------------------------------------
(* The three ways in: a look-up and, in a later statement, the insert. *)

HasTwitch(u) == \E l \in Logins : twitch[l] = u

Entering(n, u) == [op |-> "enter", name |-> n, user |-> u]

ImportLook(r, l) ==
    /\ entrant[l] = NoViewer
    /\ \E u \in Viewers : username[u] = l /\ HasTwitch(u) /\ Begin(r, Entering(l, u))
    /\ UNCHANGED prizeVars

(* Mutant: a join is named by the Twitch id, as without a username. *)
JoinNameById(l) == TwitchID[l]
JoinName(l) ==
    IF username[twitch[l]] = NoName THEN TwitchID[l] ELSE username[twitch[l]]

JoinLook(r, l) ==
    /\ twitch[l] \in Viewers
    /\ Begin(r, Entering(JoinName(l), twitch[l]))
    /\ UNCHANGED prizeVars

SyncLook(r, l) ==
    /\ twitch[l] \in Viewers
    /\ Begin(r, Entering(l, twitch[l]))
    /\ UNCHANGED prizeVars

(* The unique index: a name that is entered already is left as it is. *)
InsertEntry(r) ==
    /\ call[r].op = "enter"
    /\ entrant' = [entrant EXCEPT ![call[r].name] = IF @ = NoViewer THEN call[r].user ELSE @]
    /\ Finish(r)
    /\ UNCHANGED <<accountVars, draw, expired, claim>>

-----------------------------------------------------------------------------
(* The draw and the claim.  The database has only a hash of the link. *)

DrawWinner(n) ==
    /\ entrant[n] # NoViewer /\ draw[n] = "none"
    /\ draw' = [draw EXCEPT ![n] = "drawn"]
    /\ UNCHANGED <<call, accountVars, entrant, expired, claim>>

(* The mail to the winner, or the streamer who was answered with the link. *)
SendLink(n) ==
    /\ draw[n] = "drawn"
    /\ draw' = [draw EXCEPT ![n] = "known"]
    /\ UNCHANGED <<call, accountVars, entrant, expired, claim>>

(* Neither worked, and the link is not sent again. *)
LoseLink(n) ==
    /\ draw[n] = "drawn"
    /\ draw' = [draw EXCEPT ![n] = "lost"]
    /\ UNCHANGED <<call, accountVars, entrant, expired, claim>>

Expire(n) ==
    /\ draw[n] # "none"
    /\ expired' = expired \cup {n}
    /\ UNCHANGED <<call, accountVars, entrant, draw, claim>>

GetDrawByToken == {n \in Names : draw[n] = "known"}
Claimable == GetDrawByToken \ expired

(* Whoever has the link and is signed in to the account of the entry. *)
SubmitClaim(r, u, n) ==
    /\ n \in Claimable
    /\ entrant[n] = u
    /\ Begin(r, [op |-> "claim", name |-> n, user |-> u])
    /\ UNCHANGED prizeVars

(* The unique index on draw_id: the first claim stays. *)
InsertClaim(r) ==
    /\ call[r].op = "claim"
    /\ claim' = [claim EXCEPT ![call[r].name] = IF @ = NoViewer THEN call[r].user ELSE @]
    /\ Finish(r)
    /\ UNCHANGED <<accountVars, entrant, draw, expired>>

PrizeFail(r) ==
    /\ call[r].op \in {"enter", "claim"}
    /\ Finish(r)
    /\ UNCHANGED prizeVars

PrizesNext ==
    \/ \E u \in Viewers, n \in Logins : Rename(u, n)
    \/ \E l \in Logins, u \in Viewers \cup {NoViewer} : RelinkTwitch(l, u)
    \/ \E r \in Requests, l \in Logins : ImportLook(r, l) \/ JoinLook(r, l) \/ SyncLook(r, l)
    \/ \E n \in Names : DrawWinner(n) \/ SendLink(n) \/ LoseLink(n) \/ Expire(n)
    \/ \E r \in Requests, u \in Viewers, n \in Names : SubmitClaim(r, u, n)
    \/ \E r \in Requests : InsertEntry(r) \/ InsertClaim(r) \/ PrizeFail(r)

PrizesSpec == CallsInit /\ PrizesInit /\ [][PrizesNext]_<<call, prizeVars>>

-----------------------------------------------------------------------------

(* Names, identities and calls as the columns and handlers admit them. *)
PrizesTypeOK ==
    /\ username \in [Viewers -> Logins \cup {NoName}]
    /\ twitch \in [Logins -> Viewers \cup {NoViewer}]
    /\ entrant \in [Names -> Viewers \cup {NoViewer}]
    /\ draw \in [Names -> {"none", "drawn", "known", "lost"}]
    /\ expired \subseteq Names
    /\ claim \in [Names -> Viewers \cup {NoViewer}]
    /\ estranged \in BOOLEAN
    /\ call \in [Requests -> {Idle} \cup [op : {"enter", "claim"}, name : Names, user : Viewers]]

(***************************************************************************)
(* As long as every account keeps its name and has no identity but its     *)
(* namesake's, a viewer has one entry whichever ways in are used and       *)
(* overlap, it is the account's own, and no other account claims its       *)
(* prize.  In any case a prize is claimed for a draw, by the entrant.      *)
(***************************************************************************)
OneTicketEach ==
    /\ \A n \in Names :
          claim[n] # NoViewer => claim[n] = entrant[n] /\ draw[n] = "known"
    /\ estranged \/ \A n \in Names : entrant[n] # NoViewer => username[entrant[n]] = n
=============================================================================
