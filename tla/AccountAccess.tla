---------------------------- MODULE AccountAccess ----------------------------
(***************************************************************************)
(* How a viewer gets into an account: AuthService's registration, logins   *)
(* with a password, with Twitch or Google and with a wallet, and the       *)
(* linking and unlinking of these identities.  Every login starts a        *)
(* session of RefreshTokens.                                               *)
(*                                                                         *)
(* A transaction whose lookups the unique indexes make good is one step;   *)
(* where what was read is used later, the call keeps it.  Names, avatars   *)
(* and roles are left out, and with them the second try of a first login   *)
(* whose user name is taken.                                               *)
(***************************************************************************)
EXTENDS RefreshTokens, FiniteSets

CONSTANTS
    Identities,     \* the (provider, provider_id) pairs
    ProviderOf,     \* "twitch", "google", "web3" or "email"
    EmailOf,        \* the e-mail address the provider gives, or NoEmail
    NoEmail,
    Verified,       \* the identities whose provider vouches for the address
    MaxNonces       \* bound: the nonces ever issued

ASSUME AccessAssumption ==
    /\ IsFiniteSet(Identities)
    /\ ProviderOf \in [Identities -> {"twitch", "google", "web3", "email"}]
    /\ DOMAIN EmailOf = Identities
    /\ \A i \in Identities : ProviderOf[i] = "email" => EmailOf[i] # NoEmail
    /\ Verified \subseteq {i \in Identities : ProviderOf[i] = "google"}
    /\ MaxNonces \in Nat

VARIABLES
    account,        \* the users rows: email and whether there is a password_hash
    row,            \* auth_providers: "none", "live" or soft-deleted, by account and identity
    nonce,          \* the web3_nonces rows in the order they were issued
    call,           \* what each request has read
    opened          \* history: the logins, as identity and account

accountVars == <<account, row>>
accessVars == <<accountVars, nonce, call, opened>>
vars == <<tokenVars, accessVars>>

Idle == [op |-> "idle"]
Finishing(i, u, saves, again) ==
    [op |-> "finish", who |-> i, user |-> u, saves |-> saves, again |-> again]
Creating(i, users, email, saves) ==
    [op |-> "create", who |-> i, users |-> users, email |-> email, saves |-> saves]
Recovering(i, saves) == [op |-> "recover", who |-> i, saves |-> saves]
Verifying(n) == [op |-> "verify", nonce |-> n]
Linking(u, n) == [op |-> "link", user |-> u, nonce |-> n]
Unlinking(u, p, n) == [op |-> "unlink", user |-> u, provider |-> p, count |-> n]

Closed == [open |-> FALSE, password |-> FALSE, email |-> NoEmail]

AccessInit ==
    /\ TokenInit
    /\ account = [u \in Accounts |-> Closed]
    /\ row = [u \in Accounts |-> [i \in Identities |-> "none"]]
    /\ nonce = <<>>
    /\ call = [r \in Requests |-> Idle]
    /\ opened = {}

HoldersOf(i) == {u \in Accounts : row[u][i] = "live"}
AccountsWith(email) == {u \in Accounts : email # NoEmail /\ account[u].email = email}
LinkedTo(u) == {i \in Identities : row[u][i] = "live"}
IsWallet(i) == ProviderOf[i] = "web3"

Free(r) == call[r] = Idle /\ refreshing[r] = NoToken
Become(r, c) == call' = [call EXCEPT ![r] = c]
Quietly == UNCHANGED <<tokenVars, accountVars, nonce, opened>>

Admit(i, u) == IssueTokenPair(u) /\ opened' = opened \cup {<<i, u>>}
SetRow(u, i) == row' = [row EXCEPT ![u][i] = "live"]

(* A new account, its provider row and its first session, or none of them. *)
CreateUser(u, i, email, password) ==
    /\ ~account[u].open
    /\ account' = [account EXCEPT ![u] =
                      [open |-> TRUE, password |-> password, email |-> email]]
    /\ SetRow(u, i)
    /\ Admit(i, u)

-----------------------------------------------------------------------------
(* Passwords. *)

Register(i) ==
    /\ ProviderOf[i] = "email"
    /\ AccountsWith(EmailOf[i]) = {}
    /\ \E u \in Accounts : CreateUser(u, i, EmailOf[i], TRUE)
    /\ UNCHANGED <<nonce, call>>

Login(u) ==
    /\ account[u].password
    /\ IssueTokenPair(u)
    /\ UNCHANGED accessVars

-----------------------------------------------------------------------------
(* Twitch and Google: upsertOAuthUser.                                     *)

(* Mutant: the address decides, whoever vouches for it. *)
MayJoinAnybody(i) == TRUE
MayJoin(i) == i \in Verified

(***************************************************************************)
(* The lookups: the account that has the identity, else the account that   *)
(* has the address, which an unverified identity may not join.  A login    *)
(* from the Twitch extension brings no address and no OAuth token to save. *)
(***************************************************************************)
UpsertLook(r, i) ==
    /\ Free(r)
    /\ ProviderOf[i] \in {"twitch", "google"}
    /\ \E saves \in (IF ProviderOf[i] = "twitch" THEN BOOLEAN ELSE {TRUE}) :
          LET email == IF saves THEN EmailOf[i] ELSE NoEmail
              users == AccountsWith(email)
          IN  IF HoldersOf(i) # {}
              THEN \E u \in HoldersOf(i) : Become(r, Finishing(i, u, saves, FALSE))
              ELSE /\ users # {} => MayJoin(i)
                   /\ Become(r, Creating(i, users, email, saves))
    /\ Quietly

(* Mutant: the provider rows have no unique index. *)
AddressTaken(c) == c.users = {} /\ AccountsWith(c.email) # {}
Duplicate(c) == HoldersOf(c.who) # {} \/ AddressTaken(c)

UpsertCreate(r) ==
    /\ call[r].op = "create" /\ ~Duplicate(call[r])
    /\ LET c == call[r]
       IN  IF c.users = {}
           THEN \E u \in Accounts : CreateUser(u, c.who, c.email, FALSE)
           ELSE \E u \in c.users : SetRow(u, c.who) /\ Admit(c.who, u) /\ UNCHANGED account
    /\ Become(r, Idle)
    /\ UNCHANGED nonce

(* A duplicate key rolls everything back and looks for the winner's row. *)
UpsertConflict(r) ==
    /\ call[r].op = "create" /\ Duplicate(call[r])
    /\ Become(r, Recovering(call[r].who, call[r].saves))
    /\ Quietly

(* No row: it was the address that was taken, and the login is refused. *)
Recover(r) ==
    /\ call[r].op = "recover"
    /\ LET c == call[r]
       IN  IF HoldersOf(c.who) = {} THEN Become(r, Idle)
           ELSE \E u \in HoldersOf(c.who) : Become(r, Finishing(c.who, u, c.saves, TRUE))
    /\ Quietly

(***************************************************************************)
(* finishExistingOAuthProviderTx.  Save writes every column of the row     *)
(* read and so makes a row live again that was unlinked since, unless      *)
(* another account has the identity now.  Without a token nothing is saved *)
(* and the session starts all the same.                                    *)
(***************************************************************************)
Finish(r) ==
    /\ call[r].op = "finish"
    /\ LET c == call[r]
       IN  IF c.saves /\ HoldersOf(c.who) \ {c.user} # {}
           THEN /\ Become(r, IF c.again THEN Idle ELSE Recovering(c.who, c.saves))
                /\ Quietly
           ELSE /\ IF c.saves THEN SetRow(c.user, c.who) ELSE UNCHANGED row
                /\ Admit(c.who, c.user)
                /\ Become(r, Idle)
                /\ UNCHANGED <<account, nonce>>

-----------------------------------------------------------------------------
(* Wallets. *)

(***************************************************************************)
(* A new nonce replaces those of its wallet, except one that another       *)
(* request is inserting at the same time.                                  *)
(***************************************************************************)
Web3Nonce(w) ==
    /\ IsWallet(w) /\ Len(nonce) < MaxNonces
    /\ \E unseen \in SUBSET {n \in DOMAIN nonce : nonce[n].wallet = w} :
          nonce' = Append([n \in DOMAIN nonce |->
                               IF nonce[n].wallet = w /\ n \notin unseen
                               THEN [nonce[n] EXCEPT !.live = FALSE] ELSE nonce[n]],
                          [wallet |-> w, live |-> TRUE, admitted |-> 0])
    /\ UNCHANGED <<tokenVars, accountVars, call, opened>>

(* Web3Verify removes a nonce it finds expired. *)
NonceExpired(n) ==
    /\ nonce[n].live
    /\ nonce' = [nonce EXCEPT ![n].live = FALSE]
    /\ UNCHANGED <<tokenVars, accountVars, call, opened>>

(* The nonce is found and the signature is the wallet's. *)
VerifyLook(r, n) ==
    /\ Free(r) /\ nonce[n].live
    /\ Become(r, Verifying(n))
    /\ Quietly

LinkLook(r, u, n) ==
    /\ Free(r) /\ nonce[n].live /\ account[u].open
    /\ Become(r, Linking(u, n))
    /\ Quietly

(* The row is gone, and one more request got through with it. *)
Spent(n) == [wallet |-> nonce[n].wallet, live |-> FALSE, admitted |-> nonce[n].admitted + 1]

(* Mutant: the affected rows are not counted. *)
ConsumeUnchecked(n) == nonce' = [nonce EXCEPT ![n] = Spent(n)]

(* The transaction goes on only if it was the one that deleted the nonce. *)
Consume(n) ==
    /\ nonce[n].live
    /\ nonce' = [nonce EXCEPT ![n] = Spent(n)]

(***************************************************************************)
(* Nonce and login in one transaction.  A row that appears between lookup  *)
(* and insert is a duplicate key, and the recovery finds it.               *)
(***************************************************************************)
Web3Verify(r) ==
    /\ call[r].op = "verify"
    /\ Consume(call[r].nonce)
    /\ LET w == nonce[call[r].nonce].wallet
       IN  IF HoldersOf(w) # {}
           THEN \E u \in HoldersOf(w) : Admit(w, u) /\ UNCHANGED accountVars
           ELSE \E u \in Accounts : CreateUser(u, w, NoEmail, FALSE)
    /\ Become(r, Idle)

(* The wallet takes the place of the account's other one. *)
LinkWallet(r) ==
    /\ call[r].op = "link"
    /\ Consume(call[r].nonce)
    /\ LET u == call[r].user
           w == nonce[call[r].nonce].wallet
       IN  /\ HoldersOf(w) \subseteq {u}
           /\ row' = [row EXCEPT ![u] = [i \in Identities |->
                          IF i = w THEN "live"
                          ELSE IF IsWallet(i) /\ @[i] = "live" THEN "unlinked" ELSE @[i]]]
    /\ Become(r, Idle)
    /\ UNCHANGED <<tokenVars, account, opened>>

-----------------------------------------------------------------------------
(* Unlinking: the count and the password are read first. *)

(* Mutant: nothing is counted. *)
AnyWayIn(u) == TRUE
OtherWayIn(u) == Cardinality(LinkedTo(u)) > 1 \/ account[u].password

UnlinkLook(r, u, p) ==
    /\ Free(r) /\ account[u].open
    /\ OtherWayIn(u)
    /\ Become(r, Unlinking(u, p, Cardinality(LinkedTo(u))))
    /\ Quietly

UnlinkProvider(r) ==
    /\ call[r].op = "unlink"
    /\ LET c == call[r]
       IN  row' = [row EXCEPT ![c.user] = [i \in Identities |->
                      IF ProviderOf[i] = c.provider /\ @[i] = "live" THEN "unlinked" ELSE @[i]]]
    /\ Become(r, Idle)
    /\ UNCHANGED <<tokenVars, account, nonce, opened>>

(* Refused, an error of the database, a cancelled request or a restart. *)
Fail(r) ==
    /\ call[r] # Idle
    /\ Become(r, Idle)
    /\ Quietly

AccessNext ==
    \/ \E i \in Identities : Register(i) \/ Web3Nonce(i)
    \/ \E u \in Accounts : Login(u)
    \/ \E n \in DOMAIN nonce : NonceExpired(n)
    \/ \E r \in Requests :
          \/ \E i \in Identities : UpsertLook(r, i)
          \/ UpsertCreate(r) \/ UpsertConflict(r) \/ Recover(r) \/ Finish(r)
          \/ \E n \in DOMAIN nonce :
                VerifyLook(r, n) \/ \E u \in Accounts : LinkLook(r, u, n)
          \/ Web3Verify(r) \/ LinkWallet(r)
          \/ \E u \in Accounts, p \in {"twitch", "google", "web3", "email"} : UnlinkLook(r, u, p)
          \/ UnlinkProvider(r) \/ Fail(r)
    \/ /\ TokenStep
       /\ \A r \in Requests : refreshing'[r] # NoToken => call[r] = Idle
       /\ UNCHANGED accessVars

AccessSpec == AccessInit /\ [][AccessNext]_vars

-----------------------------------------------------------------------------
(* Properties. *)

Providers == {"twitch", "google", "web3", "email"}

CallOK(c) ==
    \/ c = Idle
    \/ /\ c.op \in {"finish", "create", "recover"}
       /\ c.who \in Identities /\ ProviderOf[c.who] \in {"twitch", "google"} /\ c.saves \in BOOLEAN
       /\ c.op = "finish" => c.user \in Accounts /\ c.again \in BOOLEAN
       /\ c.op = "create" => c.users \subseteq Accounts /\ Cardinality(c.users) <= 1
    \/ c.op \in {"verify", "link"} /\ c.nonce \in DOMAIN nonce
    \/ c.op = "unlink" /\ c.user \in Accounts /\ c.provider \in Providers /\ c.count \in Nat

(***************************************************************************)
(* The tables hold values of their kinds and respect the unique indexes: a *)
(* live row per identity, a live wallet per account, an account per address.*)
(***************************************************************************)
AccessTypeOK ==
    /\ TokenTypeOK
    /\ DOMAIN account = Accounts
    /\ \A u, v \in Accounts : account[u].email \notin {NoEmail} /\ account[u].email = account[v].email => u = v
    /\ row \in [Accounts -> [Identities -> {"none", "live", "unlinked"}]]
    /\ \A i \in Identities : Cardinality(HoldersOf(i)) <= 1
    /\ \A u \in Accounts : Cardinality({i \in LinkedTo(u) : IsWallet(i)}) <= 1
    /\ \A n \in DOMAIN nonce : IsWallet(nonce[n].wallet) /\ nonce[n].live \in BOOLEAN
    /\ \A r \in Requests : CallOK(call[r])
    /\ opened \subseteq Identities \X Accounts

(***************************************************************************)
(* As long as nobody unlinks an identity, all logins with it, the first    *)
(* ones included, lead into one account.                                   *)
(***************************************************************************)
LoginsAgree ==
    \A i \in Identities : (\A w \in Accounts : row[w][i] # "unlinked") =>
        \A x, y \in opened : x[1] = i /\ y[1] = i => x[2] = y[2]

(* Of the requests that present a nonce, logins and links, one gets through. *)
NonceAdmitsOnce == \A n \in DOMAIN nonce : nonce[n].admitted <= 1

(***************************************************************************)
(* An identity other than a wallet enters an account it did not create     *)
(* only when its provider vouches for the account's own address, or when   *)
(* the account had it before.                                              *)
(***************************************************************************)
JoinsAreVouchedFor ==
    [][\A u \in Accounts, i \in Identities :
          (account[u].open /\ row[u][i] = "none" /\ row'[u][i] # "none" /\ ~IsWallet(i))
          => i \in Verified /\ EmailOf[i] = account[u].email]_vars

WayIn(u) == account[u].password \/ LinkedTo(u) # {}

(* The count was overtaken, or counted rows that the one delete takes together. *)
Misled(c) ==
    \/ c.count # Cardinality(LinkedTo(c.user))
    \/ c.count > 1 /\ \A i \in LinkedTo(c.user) : ProviderOf[i] = c.provider

(***************************************************************************)
(* UnlinkProvider says it ensures "the user still has at least one other   *)
(* way to log in".  An account is opened with one, also when first logins  *)
(* race, and loses the last one only by an unlink that was misled.         *)
(***************************************************************************)
LastWayInKept ==
    [][\A u \in Accounts :
          account'[u].open /\ ~WayIn(u)' =>
              \/ account[u].open /\ ~WayIn(u)
              \/ \E r \in Requests : /\ call[r].op = "unlink" /\ call[r].user = u
                                     /\ Misled(call[r])]_vars
=============================================================================
