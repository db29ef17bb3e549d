---------------------------- MODULE RefreshTokens ----------------------------
(***************************************************************************)
(* The refresh tokens of AuthService.  A login starts a session with its   *)
(* first token; a refresh takes the token away and issues the next one;    *)
(* a logout takes it away.  The logins themselves are in AccountAccess.    *)
(***************************************************************************)
EXTENDS Integers, Sequences

CONSTANTS
    Accounts,       \* users rows
    MaxTokens,      \* bound: the tokens ever issued
    Requests        \* the calls in progress

ASSUME TokenAssumption == MaxTokens \in Nat

VARIABLES
    token,          \* the refresh_tokens rows in the order they were issued
    refreshing      \* the token a request has looked up to rotate it, or NoToken

tokenVars == <<token, refreshing>>

NoToken == 0

(* A row, there or deleted; session is the first token of the login. *)
Rows == [there : BOOLEAN, user : Accounts, session : Nat]
Token(u, session) == [there |-> TRUE, user |-> u, session |-> session]

TokenInit ==
    /\ token = <<>>
    /\ refreshing = [r \in Requests |-> NoToken]

Without(t) == [token EXCEPT ![t].there = FALSE]

(* issueTokenPair for a login. *)
IssueTokenPair(u) ==
    /\ Len(token) < MaxTokens
    /\ token' = Append(token, Token(u, Len(token) + 1))
    /\ UNCHANGED refreshing

(* The row is found, and has not expired. *)
RefreshLook(r, t) ==
    /\ refreshing[r] = NoToken
    /\ token[t].there
    /\ refreshing' = [refreshing EXCEPT ![r] = t]
    /\ UNCHANGED token

(* Mutant: the affected rows are not counted. *)
DeletedOrNot(t) == TRUE

(* The delete affects a row. *)
StillThere(t) == token[t].there

(* One transaction deletes the row it read, if it is still there, and      *)
(* issues the next token.                                                  *)
Rotate(r) ==
    /\ refreshing[r] # NoToken /\ Len(token) < MaxTokens
    /\ LET t == refreshing[r]
       IN  /\ StillThere(t)
           /\ token' = Append(Without(t), Token(token[t].user, token[t].session))
    /\ refreshing' = [refreshing EXCEPT ![r] = NoToken]

(* Zero affected rows, an error of the database, a restart: rolled back. *)
RefreshFail(r) ==
    /\ refreshing[r] # NoToken
    /\ refreshing' = [refreshing EXCEPT ![r] = NoToken]
    /\ UNCHANGED token

(* A logout, or a refresh that finds the row expired. *)
Logout(t) ==
    /\ token[t].there
    /\ token' = Without(t)
    /\ UNCHANGED refreshing

TokenStep ==
    \/ \E t \in DOMAIN token : Logout(t)
    \/ \E r \in Requests : Rotate(r) \/ RefreshFail(r)
    \/ \E r \in Requests, t \in DOMAIN token : RefreshLook(r, t)

TokenNext == TokenStep \/ \E u \in Accounts : IssueTokenPair(u)

TokenSpec == TokenInit /\ [][TokenNext]_tokenVars

-----------------------------------------------------------------------------
(* Properties. *)

(* A row belongs to the session of an earlier token or its own. *)
TokenTypeOK ==
    /\ token \in Seq(Rows)
    /\ Len(token) <= MaxTokens
    /\ \A t \in DOMAIN token : token[t].session \in 1..t
    /\ refreshing \in [Requests -> {NoToken} \cup DOMAIN token]

(***************************************************************************)
(* However refreshes of one token overlap, with each other, with a logout  *)
(* and with its expiry, a session has at most one row.                     *)
(***************************************************************************)
SessionIsLinear ==
    \A t, s \in DOMAIN token :
        token[t].there /\ token[s].there /\ token[t].session = token[s].session => t = s

(* The session of the n-th token has no row. *)
Over(n) == \A t \in DOMAIN token : token[t].session = n => ~token[t].there

(***************************************************************************)
(* A session whose row a logout, or the check of its expiry, deleted gets  *)
(* no other one: a refresh already under way does not revive it.           *)
(***************************************************************************)
OverIsOver == [][\A n \in 1..Len(token) : Over(n) => Over(n)']_tokenVars
=============================================================================
