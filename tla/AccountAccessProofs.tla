-------------------------- MODULE AccountAccessProofs --------------------------
(***************************************************************************)
(* Proofs about the ways into an account, for any accounts, identities,    *)
(* requests and bounds.  The first part is about the refresh tokens alone, *)
(* the second about the logins, the links and the unlinks, the third about *)
(* the cookies and the tabs of one browser.                                *)
(***************************************************************************)
EXTENDS AccountAccess, BrowserSession, SequenceTheorems, FiniteSetTheorems, TLAPS

-----------------------------------------------------------------------------
(* The refresh tokens.                                                       *)

TokenInv == TokenTypeOK /\ SessionIsLinear

(* Deleting a row leaves the others, and its own user and session, alone. *)
LEMMA WithoutRow ==
    ASSUME token \in Seq(Rows), NEW t \in DOMAIN token
    PROVE  /\ Without(t) \in Seq(Rows)
           /\ Len(Without(t)) = Len(token)
           /\ DOMAIN Without(t) = DOMAIN token
           /\ \A s \in DOMAIN token :
                 /\ Without(t)[s].session = token[s].session
                 /\ Without(t)[s].user = token[s].user
                 /\ Without(t)[s].there = (token[s].there /\ s # t)
<1> DEFINE deleted == [token[t] EXCEPT !.there = FALSE]
<1>1. /\ t \in 1..Len(token) /\ DOMAIN token = 1..Len(token)
      /\ \A s \in 1..Len(token) : token[s] \in Rows
  OBVIOUS
<1>2. /\ deleted \in Rows /\ deleted.there = FALSE
      /\ deleted.session = token[t].session /\ deleted.user = token[t].user
  BY <1>1 DEF Rows
<1>3. Without(t) = [token EXCEPT ![t] = deleted]
  BY DEF Without
<1> HIDE DEF deleted
<1>4. /\ Without(t) \in Seq(Rows)
      /\ Len(Without(t)) = Len(token)
      /\ \A s \in 1..Len(token) : Without(t)[s] = IF s = t THEN deleted ELSE token[s]
  BY <1>1, <1>2, <1>3, ExceptSeq
<1>5. DOMAIN Without(t) = DOMAIN token
  BY <1>1, <1>4
<1>6. ASSUME NEW s \in DOMAIN token
      PROVE  /\ Without(t)[s].session = token[s].session
             /\ Without(t)[s].user = token[s].user
             /\ Without(t)[s].there = (token[s].there /\ s # t)
  <2>1. CASE s = t
    BY <1>1, <1>2, <1>4, <2>1
  <2>2. CASE s # t
    <3>1. Without(t)[s] = token[s]
      BY <1>1, <1>4, <2>2
    <3>2. token[s].there \in BOOLEAN
      BY <1>1 DEF Rows
    <3> QED
      BY <2>2, <3>1, <3>2
  <2> QED
    BY <2>1, <2>2
<1> QED
  BY <1>4, <1>5, <1>6

(* A row more has the next number and leaves the others alone. *)
LEMMA NewRow ==
    ASSUME NEW rows \in Seq(Rows), NEW u \in Accounts, NEW n \in Nat
    PROVE  LET more == Append(rows, Token(u, n))
           IN  /\ more \in Seq(Rows)
               /\ Len(more) = Len(rows) + 1
               /\ DOMAIN more = DOMAIN rows \cup {Len(rows) + 1}
               /\ \A t \in DOMAIN rows : more[t] = rows[t]
               /\ more[Len(rows) + 1] = Token(u, n)
<1> DEFINE more == Append(rows, Token(u, n))
<1>1. Token(u, n) \in Rows
  BY DEF Token, Rows
<1>2. /\ more \in Seq(Rows)
      /\ Len(more) = Len(rows) + 1
      /\ \A t \in 1..Len(rows) : more[t] = rows[t]
      /\ more[Len(rows) + 1] = Token(u, n)
  BY <1>1, AppendProperties
<1>3. DOMAIN rows = 1..Len(rows) /\ Len(rows) \in Nat
  OBVIOUS
<1>4. DOMAIN more = 1..(Len(rows) + 1)
  BY <1>2
<1> QED
  BY <1>2, <1>3, <1>4

(* No rows at first. *)
LEMMA InitHolds == TokenInit => TokenInv
<1> SUFFICES ASSUME TokenInit PROVE TokenInv
  OBVIOUS
<1>1. token \in Seq(Rows) /\ Len(token) = 0 /\ DOMAIN token = {}
  BY DEF TokenInit
<1> QED
  BY <1>1, TokenAssumption DEF TokenInit, TokenInv, TokenTypeOK, SessionIsLinear

(* A login: a session of its own. *)
LEMMA IssueHolds ==
    ASSUME TokenInv, NEW u \in Accounts, IssueTokenPair(u)
    PROVE  TokenInv' /\ \A n \in 1..Len(token) : Over(n) => Over(n)'
<1> DEFINE k == Len(token) + 1
<1>1. /\ token \in Seq(Rows) /\ Len(token) \in Nat /\ DOMAIN token = 1..Len(token)
      /\ \A t \in DOMAIN token : token[t] \in Rows /\ token[t].session \in 1..t
  BY DEF TokenInv, TokenTypeOK
<1>2. /\ token' \in Seq(Rows) /\ Len(token') = k /\ DOMAIN token' = DOMAIN token \cup {k}
      /\ \A t \in DOMAIN token : token'[t] = token[t]
      /\ token'[k] = Token(u, k)
  BY <1>1, NewRow DEF IssueTokenPair
<1>3. token'[k].session = k /\ token'[k].there
  BY <1>2 DEF Token
<1>4. \A t \in DOMAIN token : token[t].session # k
  BY <1>1
<1>5. TokenTypeOK'
  <2>1. \A t \in DOMAIN token' : token'[t].session \in 1..t
    BY <1>1, <1>2, <1>3
  <2>2. refreshing' \in [Requests -> {NoToken} \cup DOMAIN token']
    BY <1>2 DEF IssueTokenPair, TokenInv, TokenTypeOK
  <2>3. Len(token') <= MaxTokens
    BY <1>1, <1>2, TokenAssumption DEF IssueTokenPair
  <2> QED
    BY <1>2, <2>1, <2>2, <2>3 DEF TokenTypeOK
<1>6. SessionIsLinear'
  BY <1>2, <1>3, <1>4 DEF TokenInv, SessionIsLinear
<1>7. ASSUME NEW n \in 1..Len(token), Over(n)
      PROVE  Over(n)'
  BY <1>1, <1>2, <1>3, <1>7 DEF Over
<1> QED
  BY <1>5, <1>6, <1>7 DEF TokenInv

(* A row less. *)
LEMMA LogoutHolds ==
    ASSUME TokenInv, NEW t \in DOMAIN token, Logout(t)
    PROVE  TokenInv' /\ \A n \in 1..Len(token) : Over(n) => Over(n)'
<1>1. token \in Seq(Rows) /\ token' = Without(t)
  BY DEF TokenInv, TokenTypeOK, Logout
<1>2. /\ token' \in Seq(Rows) /\ Len(token') = Len(token) /\ DOMAIN token' = DOMAIN token
      /\ \A s \in DOMAIN token :
            token'[s].session = token[s].session /\ (token'[s].there => token[s].there)
  BY <1>1, WithoutRow
<1>3. TokenTypeOK'
  BY <1>2 DEF TokenInv, TokenTypeOK, Logout
<1>4. SessionIsLinear'
  BY <1>2 DEF TokenInv, SessionIsLinear
<1>5. \A n \in 1..Len(token) : Over(n) => Over(n)'
  BY <1>2 DEF Over
<1> QED
  BY <1>3, <1>4, <1>5 DEF TokenInv

(* The new row has the session of the row the same transaction deletes,    *)
(* which was the session's only one.                                       *)
LEMMA RotateHolds ==
    ASSUME TokenInv, NEW r \in Requests, Rotate(r)
    PROVE  TokenInv' /\ \A n \in 1..Len(token) : Over(n) => Over(n)'
<1> DEFINE t == refreshing[r]
           k == Len(token) + 1
           rest == Without(t)
<1>1. /\ token \in Seq(Rows) /\ Len(token) \in Nat /\ DOMAIN token = 1..Len(token)
      /\ \A s \in DOMAIN token : token[s] \in Rows /\ token[s].session \in 1..s
      /\ t \in DOMAIN token
  BY DEF TokenInv, TokenTypeOK, Rotate
<1>2. token[t].there /\ token[t].user \in Accounts /\ token[t].session \in Nat
  BY <1>1 DEF Rotate, StillThere, Rows
<1>3. /\ rest \in Seq(Rows) /\ Len(rest) = Len(token) /\ DOMAIN rest = DOMAIN token
      /\ \A s \in DOMAIN token :
            /\ rest[s].session = token[s].session
            /\ rest[s].there = (token[s].there /\ s # t)
  BY <1>1, WithoutRow
<1>4. token' = Append(rest, Token(token[t].user, token[t].session))
  BY DEF Rotate
<1> HIDE DEF rest
<1>5. /\ token' \in Seq(Rows) /\ Len(token') = k /\ DOMAIN token' = DOMAIN token \cup {k}
      /\ \A s \in DOMAIN token : token'[s] = rest[s]
      /\ token'[k] = Token(token[t].user, token[t].session)
  BY <1>2, <1>3, <1>4, NewRow
<1>6. token'[k].session = token[t].session /\ token'[k].there
  BY <1>5 DEF Token
<1>7. TokenTypeOK'
  <2>1. \A s \in DOMAIN token' : token'[s].session \in 1..s
    <3>1. ASSUME NEW s \in DOMAIN token
          PROVE  token'[s].session \in 1..s
      BY <1>1, <1>3, <1>5
    <3>2. token'[k].session \in 1..k
      BY <1>1, <1>6
    <3> QED
      BY <1>5, <3>1, <3>2
  <2>2. refreshing' \in [Requests -> {NoToken} \cup DOMAIN token']
    BY <1>5 DEF Rotate, TokenInv, TokenTypeOK
  <2>3. Len(token') <= MaxTokens
    BY <1>1, <1>5, TokenAssumption DEF Rotate
  <2> QED
    BY <1>5, <2>1, <2>2, <2>3 DEF TokenTypeOK
<1>8. ASSUME NEW s \in DOMAIN token, token'[s].there
      PROVE  token[s].there /\ token[s].session # token[t].session
  BY <1>1, <1>2, <1>3, <1>5, <1>8 DEF TokenInv, SessionIsLinear
<1>9. SessionIsLinear'
  BY <1>3, <1>5, <1>6, <1>8 DEF TokenInv, SessionIsLinear
<1>10. ASSUME NEW n \in 1..Len(token), Over(n)
       PROVE  Over(n)'
  <2>1. token[t].session # n
    BY <1>1, <1>2, <1>10 DEF Over
  <2> QED
    BY <1>3, <1>5, <1>6, <1>8, <1>10, <2>1 DEF Over
<1> QED
  BY <1>7, <1>9, <1>10 DEF TokenInv

(* The steps that only look, or give up. *)
LEMMA SameRowsHold ==
    ASSUME TokenInv, UNCHANGED token,
           refreshing' \in [Requests -> {NoToken} \cup DOMAIN token]
    PROVE  TokenInv' /\ \A n \in 1..Len(token) : Over(n) => Over(n)'
BY DEF TokenInv, TokenTypeOK, SessionIsLinear, Over

(* The invariant is inductive, and no step revives a session. *)
LEMMA StepHolds ==
    ASSUME TokenInv, [TokenNext]_tokenVars
    PROVE  TokenInv' /\ \A n \in 1..Len(token) : Over(n) => Over(n)'
<1>0. refreshing \in [Requests -> {NoToken} \cup DOMAIN token]
  BY DEF TokenInv, TokenTypeOK
<1>1. ASSUME NEW u \in Accounts, IssueTokenPair(u)
      PROVE  TokenInv' /\ \A n \in 1..Len(token) : Over(n) => Over(n)'
  BY <1>1, IssueHolds
<1>2. ASSUME NEW t \in DOMAIN token, Logout(t)
      PROVE  TokenInv' /\ \A n \in 1..Len(token) : Over(n) => Over(n)'
  BY <1>2, LogoutHolds
<1>3. ASSUME NEW r \in Requests, Rotate(r)
      PROVE  TokenInv' /\ \A n \in 1..Len(token) : Over(n) => Over(n)'
  BY <1>3, RotateHolds
<1>4. ASSUME NEW r \in Requests, RefreshFail(r)
      PROVE  TokenInv' /\ \A n \in 1..Len(token) : Over(n) => Over(n)'
  BY <1>0, <1>4, SameRowsHold DEF RefreshFail
<1>5. ASSUME NEW r \in Requests, NEW t \in DOMAIN token, RefreshLook(r, t)
      PROVE  TokenInv' /\ \A n \in 1..Len(token) : Over(n) => Over(n)'
  BY <1>0, <1>5, SameRowsHold DEF RefreshLook
<1>6. CASE UNCHANGED tokenVars
  BY <1>0, <1>6, SameRowsHold DEF tokenVars
<1> QED
  BY <1>1, <1>2, <1>3, <1>4, <1>5, <1>6 DEF TokenNext, TokenStep

(***************************************************************************)
(* Types, and RefreshContext's rotation: whatever calls overlap, a session *)
(* has at most one refresh token.                                          *)
(***************************************************************************)
THEOREM TokensInOrder == TokenSpec => []TokenTypeOK /\ []SessionIsLinear
<1>1. TokenInit => TokenInv
  BY InitHolds
<1>2. TokenInv /\ [TokenNext]_tokenVars => TokenInv'
  BY StepHolds
<1>3. TokenInv => TokenTypeOK /\ SessionIsLinear
  BY DEF TokenInv
<1> QED
  BY <1>1, <1>2, <1>3, PTL DEF TokenSpec

(***************************************************************************)
(* LogoutContext against RefreshContext: a session without a token gets no *)
(* other one.                                                              *)
(***************************************************************************)
THEOREM NoRevival == TokenSpec => OverIsOver
<1>1. TokenInit => TokenInv
  BY InitHolds
<1>2. TokenInv /\ [TokenNext]_tokenVars
      => /\ TokenInv'
         /\ [\A n \in 1..Len(token) : Over(n) => Over(n)']_tokenVars
  BY StepHolds
<1> QED
  BY <1>1, <1>2, PTL DEF TokenSpec, OverIsOver

-----------------------------------------------------------------------------
(* What the tables and the calls of the accounts always are.                 *)

Emails == {NoEmail} \cup {EmailOf[i] : i \in Identities}
OAuth == {i \in Identities : ProviderOf[i] \in {"twitch", "google"}}
NonceRows == [wallet : {i \in Identities : IsWallet(i)}, live : BOOLEAN, admitted : Nat]

AccountsTyped ==
    /\ account \in [Accounts -> [open : BOOLEAN, password : BOOLEAN, email : Emails]]
    /\ row \in [Accounts -> [Identities -> {"none", "live", "unlinked"}]]
    /\ opened \in SUBSET (Identities \X Accounts)

TablesTyped == AccountsTyped /\ nonce \in Seq(NonceRows)

(***************************************************************************)
(* An account not yet open has nothing; an e-mail identity is its          *)
(* account's address; an identity is live in one account, an address is of *)
(* one, and an account has one live wallet; a login leaves a row.          *)
(***************************************************************************)
ClosedAreEmpty ==
    \A u \in Accounts : ~account[u].open =>
        account[u] = Closed /\ \A i \in Identities : row[u][i] = "none"
EmailRowsFit ==
    \A u \in Accounts, i \in Identities :
        row[u][i] # "none" /\ ProviderOf[i] = "email" => account[u].email = EmailOf[i]
OneHolder ==
    \A u, v \in Accounts, i \in Identities :
        row[u][i] = "live" /\ row[v][i] = "live" => u = v
OneAddress ==
    \A u, v \in Accounts :
        account[u].email # NoEmail /\ account[u].email = account[v].email => u = v
OneWallet ==
    \A u \in Accounts, i, j \in Identities :
        IsWallet(i) /\ IsWallet(j) /\ row[u][i] = "live" /\ row[u][j] = "live" => i = j
OpenedHaveRows == \A x \in opened : row[x[2]][x[1]] # "none"

RowsFit ==
    ClosedAreEmpty /\ EmailRowsFit /\ OneHolder /\ OneAddress /\ OneWallet /\ OpenedHaveRows

(* A nonce that was presented is gone. *)
NoncesFit ==
    \A n \in DOMAIN nonce :
        nonce[n].admitted <= 1 /\ (nonce[n].live => nonce[n].admitted = 0)

(* What a call read is of its kind, and what it relies on still holds. *)
FinishFits(c) ==
    /\ c \in [op : {"finish"}, who : OAuth, user : Accounts, saves : BOOLEAN, again : BOOLEAN]
    /\ row[c.user][c.who] # "none"
CreateFits(c) ==
    /\ c \in [op : {"create"}, who : OAuth, users : SUBSET Accounts, email : Emails,
              saves : BOOLEAN]
    /\ c.email \in {NoEmail, EmailOf[c.who]}
    /\ c.users # {} => c.who \in Verified
    /\ \A u \in c.users : account[u].open /\ account[u].email = c.email /\ c.email # NoEmail
RecoverFits(c) == c \in [op : {"recover"}, who : OAuth, saves : BOOLEAN]
VerifyFits(c) == c \in [op : {"verify"}, nonce : DOMAIN nonce]
LinkFits(c) ==
    /\ c \in [op : {"link"}, user : Accounts, nonce : DOMAIN nonce]
    /\ account[c.user].open
UnlinkFits(c) ==
    /\ c \in [op : {"unlink"}, user : Accounts, provider : Providers, count : Nat]
    /\ c.count > 1 \/ account[c.user].password

CallFits(c) ==
    \/ c = Idle
    \/ FinishFits(c) \/ CreateFits(c) \/ RecoverFits(c)
    \/ VerifyFits(c) \/ LinkFits(c) \/ UnlinkFits(c)

CallsFit == DOMAIN call = Requests /\ \A r \in Requests : CallFits(call[r])

AccessInv == TokenInv /\ TablesTyped /\ RowsFit /\ NoncesFit /\ CallsFit

-----------------------------------------------------------------------------
(* The kinds of steps.                                                       *)

(* A first login, or a registration, opens the account u. *)
Creates(u, i, email, password) ==
    /\ u \in Accounts /\ i \in Identities /\ email \in {NoEmail, EmailOf[i]} /\ password \in BOOLEAN
    /\ ProviderOf[i] = "email" => email = EmailOf[i]
    /\ AccountsWith(email) = {} /\ HoldersOf(i) = {}
    /\ CreateUser(u, i, email, password)

(* A login whose identity had a row here, or whose address is vouched for. *)
Joins(u, i) ==
    /\ u \in Accounts /\ i \in OAuth
    /\ account[u].open
    /\ row[u][i] # "none" \/ (i \in Verified /\ EmailOf[i] = account[u].email)
    /\ HoldersOf(i) \subseteq {u}
    /\ SetRow(u, i) /\ Admit(i, u) /\ UNCHANGED account

(* A login that leaves the rows alone. *)
Enters(u, i) ==
    /\ u \in Accounts /\ i \in Identities /\ row[u][i] # "none"
    /\ Admit(i, u) /\ UNCHANGED accountVars

(* The wallet w takes the place of the account's other one. *)
Links(u, w) ==
    /\ u \in Accounts /\ w \in Identities /\ IsWallet(w) /\ account[u].open
    /\ HoldersOf(w) \subseteq {u}
    /\ row' = [row EXCEPT ![u] = [i \in Identities |->
                   IF i = w THEN "live"
                   ELSE IF IsWallet(i) /\ @[i] = "live" THEN "unlinked" ELSE @[i]]]
    /\ UNCHANGED <<account, opened>>

(* The rows of provider p are unlinked, by a call that was let through. *)
Unlinks(u, p) ==
    /\ u \in Accounts /\ p \in Providers
    /\ \E r \in Requests : /\ call[r].op = "unlink" /\ call[r].user = u /\ call[r].provider = p
                           /\ call[r].count > 1 \/ account[u].password
    /\ row' = [row EXCEPT ![u] = [i \in Identities |->
                   IF ProviderOf[i] = p /\ @[i] = "live" THEN "unlinked" ELSE @[i]]]
    /\ UNCHANGED <<account, opened>>

Leaves == UNCHANGED <<accountVars, opened>>

(* What a step may do to the accounts and their rows. *)
TableSteps ==
    \/ \E u, i, email, password : Creates(u, i, email, password)
    \/ \E u, i : Joins(u, i) \/ Enters(u, i) \/ Links(u, i) \/ Unlinks(u, i)
    \/ Leaves

(* Registrations and logins with a password. *)
LEMMA PasswordSteps ==
    ASSUME AccessInv,
           (\E i \in Identities : Register(i)) \/ (\E u \in Accounts : Login(u))
    PROVE  TableSteps
<1>1. ASSUME NEW i \in Identities, Register(i)
      PROVE  TableSteps
  <2>1. PICK u \in Accounts : CreateUser(u, i, EmailOf[i], TRUE)
    BY <1>1 DEF Register
  <2>2. HoldersOf(i) = {}
    <3>1. ProviderOf[i] = "email" /\ EmailOf[i] # NoEmail /\ AccountsWith(EmailOf[i]) = {}
      BY <1>1, AccessAssumption DEF Register
    <3>2. \A v \in Accounts : row[v][i] = "live" => account[v].email = EmailOf[i]
      BY <3>1 DEF AccessInv, RowsFit, EmailRowsFit
    <3> QED
      BY <3>1, <3>2 DEF HoldersOf, AccountsWith
  <2>3. Creates(u, i, EmailOf[i], TRUE)
    BY <1>1, <2>1, <2>2 DEF Creates, Register
  <2> QED
    BY <2>3 DEF TableSteps
<1>2. ASSUME NEW u \in Accounts, Login(u)
      PROVE  TableSteps
  BY <1>2 DEF Login, accessVars, Leaves, TableSteps
<1> QED
  BY <1>1, <1>2

(* First logins with Twitch or Google. *)
LEMMA CreateSteps ==
    ASSUME AccessInv, NEW r \in Requests, UpsertCreate(r)
    PROVE  TableSteps
<1> DEFINE c == call[r]
<1>1. CreateFits(c) /\ ~Duplicate(c)
  <2>1. CallFits(c) /\ c.op = "create" /\ ~Duplicate(c)
    BY DEF UpsertCreate, AccessInv, CallsFit
  <2> QED
    BY <2>1 DEF CallFits, Idle, FinishFits, RecoverFits, VerifyFits, LinkFits, UnlinkFits
<1>2. /\ c.who \in OAuth /\ c.who \in Identities /\ c.users \in SUBSET Accounts
      /\ c.email \in {NoEmail, EmailOf[c.who]}
      /\ c.users # {} => c.who \in Verified
      /\ \A u \in c.users : account[u].open /\ account[u].email = c.email /\ c.email # NoEmail
      /\ HoldersOf(c.who) = {}
      /\ c.users = {} => AccountsWith(c.email) = {}
      /\ ProviderOf[c.who] # "email"
  BY <1>1 DEF CreateFits, OAuth, Duplicate, AddressTaken
<1>3. CASE c.users = {}
  <2>1. PICK u \in Accounts : CreateUser(u, c.who, c.email, FALSE)
    BY <1>3 DEF UpsertCreate
  <2>2. Creates(u, c.who, c.email, FALSE)
    BY <1>2, <1>3, <2>1 DEF Creates
  <2> QED
    BY <2>2 DEF TableSteps
<1>4. CASE c.users # {}
  <2>1. PICK u \in c.users : SetRow(u, c.who) /\ Admit(c.who, u) /\ UNCHANGED account
    BY <1>4 DEF UpsertCreate
  <2>2. Joins(u, c.who)
    BY <1>2, <1>4, <2>1 DEF Joins
  <2> QED
    BY <2>2 DEF TableSteps
<1> QED
  BY <1>3, <1>4

(* Later logins with Twitch or Google. *)
LEMMA FinishSteps ==
    ASSUME AccessInv, NEW r \in Requests, Finish(r)
    PROVE  TableSteps
<1> DEFINE c == call[r]
<1>1. FinishFits(c)
  <2>1. CallFits(c) /\ c.op = "finish"
    BY DEF Finish, AccessInv, CallsFit
  <2> QED
    BY <2>1 DEF CallFits, Idle, CreateFits, RecoverFits, VerifyFits, LinkFits, UnlinkFits
<1>2. /\ c.who \in OAuth /\ c.who \in Identities /\ c.user \in Accounts
      /\ row[c.user][c.who] # "none"
  BY <1>1 DEF FinishFits, OAuth
<1>3. account[c.user].open
  BY <1>2 DEF AccessInv, RowsFit, ClosedAreEmpty
<1>4. CASE c.saves /\ HoldersOf(c.who) \ {c.user} # {}
  BY <1>4 DEF Finish, Quietly, Leaves, TableSteps
<1>5. CASE c.saves /\ HoldersOf(c.who) \ {c.user} = {}
  <2>1. Joins(c.user, c.who)
    BY <1>2, <1>3, <1>5 DEF Finish, Joins
  <2> QED
    BY <2>1 DEF TableSteps
<1>6. CASE ~c.saves
  <2>1. Enters(c.user, c.who)
    BY <1>2, <1>6 DEF Finish, Enters, accountVars
  <2> QED
    BY <2>1 DEF TableSteps
<1> QED
  BY <1>4, <1>5, <1>6

(* The nonce of a verification or a link is one the table has had, of a wallet. *)
LEMMA NonceWallet ==
    ASSUME AccessInv, NEW n \in DOMAIN nonce
    PROVE  nonce[n].wallet \in Identities /\ IsWallet(nonce[n].wallet)
<1>1. nonce[n] \in NonceRows
  BY DEF AccessInv, TablesTyped
<1> QED
  BY <1>1 DEF NonceRows

(* Logins with a wallet, and its link to an account. *)
LEMMA WalletSteps ==
    ASSUME AccessInv, NEW r \in Requests, Web3Verify(r) \/ LinkWallet(r)
    PROVE  TableSteps
<1> DEFINE c == call[r]
           w == nonce[c.nonce].wallet
<1>1. CallFits(c)
  BY DEF AccessInv, CallsFit
<1>2. CASE Web3Verify(r)
  <2>1. c.nonce \in DOMAIN nonce
    BY <1>1, <1>2
    DEF Web3Verify, CallFits, Idle, FinishFits, CreateFits, RecoverFits, VerifyFits, LinkFits, UnlinkFits
  <2>2. w \in Identities /\ IsWallet(w)
    BY <2>1, NonceWallet
  <2> HIDE DEF w
  <2>3. CASE HoldersOf(w) # {}
    <3>1. PICK u \in HoldersOf(w) : Admit(w, u) /\ UNCHANGED accountVars
      BY <1>2, <2>3 DEF Web3Verify, w
    <3>2. Enters(u, w)
      BY <2>2, <3>1 DEF Enters, HoldersOf
    <3> QED
      BY <3>2 DEF TableSteps
  <2>4. CASE HoldersOf(w) = {}
    <3>1. PICK u \in Accounts : CreateUser(u, w, NoEmail, FALSE)
      BY <1>2, <2>4 DEF Web3Verify, w
    <3>2. Creates(u, w, NoEmail, FALSE)
      BY <2>2, <2>4, <3>1 DEF Creates, IsWallet, AccountsWith
    <3> QED
      BY <3>2 DEF TableSteps
  <2> QED
    BY <2>3, <2>4
<1>3. CASE LinkWallet(r)
  <2>1. c.nonce \in DOMAIN nonce /\ c.user \in Accounts /\ account[c.user].open
    BY <1>1, <1>3
    DEF LinkWallet, CallFits, Idle, FinishFits, CreateFits, RecoverFits, VerifyFits, LinkFits, UnlinkFits
  <2>2. w \in Identities /\ IsWallet(w)
    BY <2>1, NonceWallet
  <2>3. Links(c.user, w)
    BY <1>3, <2>1, <2>2 DEF LinkWallet, Links
  <2> HIDE DEF w
  <2> QED
    BY <2>3 DEF TableSteps
<1> QED
  BY <1>2, <1>3

(* Unlinks. *)
LEMMA UnlinkSteps ==
    ASSUME AccessInv, NEW r \in Requests, UnlinkProvider(r)
    PROVE  TableSteps
<1> DEFINE c == call[r]
<1>1. UnlinkFits(c)
  <2>1. CallFits(c) /\ c.op = "unlink"
    BY DEF UnlinkProvider, AccessInv, CallsFit
  <2> QED
    BY <2>1 DEF CallFits, Idle, FinishFits, CreateFits, RecoverFits, VerifyFits, LinkFits
<1>2. Unlinks(c.user, c.provider)
  BY <1>1 DEF UnlinkFits, UnlinkProvider, Unlinks
<1> QED
  BY <1>2 DEF TableSteps

(* Every step is of one of the kinds. *)
LEMMA StepKinds == AccessInv /\ [AccessNext]_vars => TableSteps
<1> SUFFICES ASSUME AccessInv, [AccessNext]_vars
             PROVE  TableSteps
  OBVIOUS
<1>1. ASSUME \/ UNCHANGED vars
             \/ UNCHANGED accessVars
             \/ \E i \in Identities : Web3Nonce(i)
             \/ \E n \in DOMAIN nonce : NonceExpired(n)
             \/ Quietly
      PROVE  TableSteps
  BY <1>1 DEF vars, accessVars, Web3Nonce, NonceExpired, Quietly, Leaves, TableSteps
<1>2. ASSUME NEW r \in Requests,
             \/ \E i \in Identities : UpsertLook(r, i)
             \/ UpsertConflict(r) \/ Recover(r) \/ Fail(r)
             \/ \E n \in DOMAIN nonce :
                   VerifyLook(r, n) \/ \E u \in Accounts : LinkLook(r, u, n)
             \/ \E u \in Accounts, p \in {"twitch", "google", "web3", "email"} : UnlinkLook(r, u, p)
      PROVE  Quietly
  BY <1>2 DEF UpsertLook, UpsertConflict, Recover, Fail, VerifyLook, LinkLook, UnlinkLook
<1> QED
  BY <1>1, <1>2, PasswordSteps, CreateSteps, FinishSteps, WalletSteps, UnlinkSteps DEF AccessNext

-----------------------------------------------------------------------------
(* The tables.                                                               *)

(* What a new account's row is. *)
LEMMA CreateEffect ==
    ASSUME AccessInv, NEW u, NEW i, NEW email, NEW password, Creates(u, i, email, password)
    PROVE  /\ u \in Accounts /\ i \in Identities /\ ~account[u].open
           /\ \A v \in Accounts \ {u} : account'[v] = account[v]
           /\ account'[u] = [open |-> TRUE, password |-> password, email |-> email]
           /\ \A v \in Accounts, j \in Identities :
                 row'[v][j] = IF v = u /\ j = i THEN "live" ELSE row[v][j]
           /\ \A j \in Identities : row[u][j] = "none"
           /\ opened' = opened \cup {<<i, u>>}
           /\ AccountsTyped'
<1>1. /\ u \in Accounts /\ i \in Identities /\ ~account[u].open
      /\ account' = [account EXCEPT ![u] = [open |-> TRUE, password |-> password, email |-> email]]
      /\ row' = [row EXCEPT ![u][i] = "live"]
      /\ opened' = opened \cup {<<i, u>>}
      /\ email \in Emails /\ password \in BOOLEAN
  BY DEF Creates, CreateUser, SetRow, Admit, Emails
<1>2. /\ account \in [Accounts -> [open : BOOLEAN, password : BOOLEAN, email : Emails]]
      /\ row \in [Accounts -> [Identities -> {"none", "live", "unlinked"}]]
      /\ opened \in SUBSET (Identities \X Accounts)
      /\ \A j \in Identities : row[u][j] = "none"
  BY <1>1 DEF AccessInv, TablesTyped, AccountsTyped, RowsFit, ClosedAreEmpty
<1>3. AccountsTyped'
  BY <1>1, <1>2 DEF AccountsTyped
<1> QED
  BY <1>1, <1>2, <1>3

(* What a call has read does not go away: accounts stay open, rows stay. *)
Grows ==
    /\ \A u \in Accounts : account[u].open => account'[u] = account[u]
    /\ \A u \in Accounts, i \in Identities : row[u][i] # "none" => row'[u][i] # "none"

(* One account and one row change when an account is opened. *)
LEMMA CreateRows ==
    ASSUME AccessInv, NEW u, NEW i, NEW email, NEW password, Creates(u, i, email, password)
    PROVE  /\ u \in Accounts /\ i \in Identities /\ ~account[u].open
           /\ \A v \in Accounts \ {u} : account'[v] = account[v]
           /\ \A v \in Accounts, j \in Identities :
                 row'[v][j] = IF v = u /\ j = i THEN "live" ELSE row[v][j]
<1>1. /\ u \in Accounts /\ i \in Identities /\ ~account[u].open
      /\ \A v \in Accounts \ {u} : account'[v] = account[v]
      /\ account'[u] = [open |-> TRUE, password |-> password, email |-> email]
      /\ \A v \in Accounts, j \in Identities :
            row'[v][j] = IF v = u /\ j = i THEN "live" ELSE row[v][j]
      /\ \A j \in Identities : row[u][j] = "none"
      /\ opened' = opened \cup {<<i, u>>}
  BY CreateEffect
<1> QED
  BY <1>1

(* The account opened has the identity and the address for itself. *)
LEMMA CreateKeeps ==
    ASSUME AccessInv, NEW u, NEW i, NEW email, NEW password, Creates(u, i, email, password)
    PROVE  RowsFit'
<1>1. /\ u \in Accounts /\ i \in Identities /\ ~account[u].open
      /\ \A v \in Accounts \ {u} : account'[v] = account[v]
      /\ account'[u] = [open |-> TRUE, password |-> password, email |-> email]
      /\ \A v \in Accounts, j \in Identities :
            row'[v][j] = IF v = u /\ j = i THEN "live" ELSE row[v][j]
      /\ \A j \in Identities : row[u][j] = "none"
      /\ opened' = opened \cup {<<i, u>>}
  BY CreateEffect
<1>2. /\ \A v \in Accounts : row[v][i] # "live"
      /\ \A v \in Accounts : email # NoEmail => account[v].email # email
      /\ ProviderOf[i] = "email" => email = EmailOf[i]
  BY <1>1 DEF Creates, HoldersOf, AccountsWith
<1>3. ClosedAreEmpty'
  <2>1. ASSUME NEW v \in Accounts, ~account'[v].open
        PROVE  account'[v] = Closed /\ \A j \in Identities : row'[v][j] = "none"
    <3>1. v # u
      BY <1>1, <2>1
    <3> QED
      BY <1>1, <2>1, <3>1 DEF AccessInv, RowsFit, ClosedAreEmpty
  <2> QED
    BY <2>1 DEF ClosedAreEmpty
<1>4. EmailRowsFit'
  BY <1>1, <1>2 DEF AccessInv, RowsFit, EmailRowsFit
<1>5. OneHolder'
  BY <1>1, <1>2 DEF AccessInv, RowsFit, OneHolder
<1>6. OneAddress'
  BY <1>1, <1>2 DEF AccessInv, RowsFit, OneAddress
<1>7. OneWallet'
  BY <1>1 DEF AccessInv, RowsFit, OneWallet
<1>8. OpenedHaveRows'
  <2>1. ASSUME NEW x \in opened
        PROVE  row'[x[2]][x[1]] # "none"
    <3>1. row[x[2]][x[1]] # "none" /\ x[2] \in Accounts /\ x[1] \in Identities
      BY DEF AccessInv, RowsFit, OpenedHaveRows, TablesTyped, AccountsTyped
    <3> QED
      BY <1>1, <3>1
  <2> QED
    BY <1>1, <2>1 DEF OpenedHaveRows
<1> QED
  BY <1>3, <1>4, <1>5, <1>6, <1>7, <1>8 DEF RowsFit

(* What a login into an account that is there does to the rows. *)
LEMMA JoinKeeps ==
    ASSUME AccessInv, NEW u, NEW i, Joins(u, i)
    PROVE  /\ \A v \in Accounts, j \in Identities :
                 row'[v][j] = IF v = u /\ j = i THEN "live" ELSE row[v][j]
           /\ AccountsTyped' /\ RowsFit'
<1>1. /\ u \in Accounts /\ i \in Identities /\ account[u].open /\ UNCHANGED account
      /\ ProviderOf[i] \notin {"email", "web3"}
      /\ \A v \in Accounts : row[v][i] = "live" => v = u
      /\ row' = [row EXCEPT ![u][i] = "live"]
      /\ opened' = opened \cup {<<i, u>>}
  BY DEF Joins, SetRow, Admit, OAuth, HoldersOf
<1>2. AccountsTyped /\ RowsFit
  BY DEF AccessInv, TablesTyped
<1>3. \A v \in Accounts, j \in Identities :
          row'[v][j] = IF v = u /\ j = i THEN "live" ELSE row[v][j]
  BY <1>1, <1>2 DEF AccountsTyped
<1>4. AccountsTyped'
  BY <1>1, <1>2 DEF AccountsTyped
<1>5. ClosedAreEmpty'
  <2>1. ASSUME NEW v \in Accounts, ~account'[v].open
        PROVE  account'[v] = Closed /\ \A j \in Identities : row'[v][j] = "none"
    <3>1. v # u /\ account'[v] = account[v]
      BY <1>1, <2>1
    <3> QED
      BY <1>2, <1>3, <2>1, <3>1 DEF RowsFit, ClosedAreEmpty
  <2> QED
    BY <2>1 DEF ClosedAreEmpty
<1>6. EmailRowsFit'
  BY <1>1, <1>2, <1>3 DEF RowsFit, EmailRowsFit
<1>7. OneHolder'
  BY <1>1, <1>2, <1>3 DEF RowsFit, OneHolder
<1>8. OneAddress'
  BY <1>1, <1>2 DEF RowsFit, OneAddress
<1>9. OneWallet'
  BY <1>1, <1>2, <1>3 DEF RowsFit, OneWallet, IsWallet
<1>10. OpenedHaveRows'
  <2>1. ASSUME NEW x \in opened
        PROVE  row'[x[2]][x[1]] # "none"
    <3>1. row[x[2]][x[1]] # "none" /\ x[2] \in Accounts /\ x[1] \in Identities
      BY <1>2 DEF RowsFit, OpenedHaveRows, AccountsTyped
    <3> QED
      BY <1>3, <3>1
  <2> QED
    BY <1>1, <1>3, <2>1 DEF OpenedHaveRows
<1> QED
  BY <1>3, <1>4, <1>5, <1>6, <1>7, <1>8, <1>9, <1>10 DEF RowsFit

(* A link changes rows of wallets in one account, and leaves one live. *)
LEMMA LinkKeeps ==
    ASSUME AccessInv, NEW u, NEW w, Links(u, w)
    PROVE  /\ \A v \in Accounts, j \in Identities :
                 row'[v][j] = IF v # u THEN row[v][j]
                              ELSE IF j = w THEN "live"
                              ELSE IF IsWallet(j) /\ row[v][j] = "live" THEN "unlinked" ELSE row[v][j]
           /\ AccountsTyped' /\ RowsFit'
<1>1. /\ u \in Accounts /\ w \in Identities /\ IsWallet(w) /\ account[u].open
      /\ UNCHANGED <<account, opened>>
      /\ \A v \in Accounts : row[v][w] = "live" => v = u
  BY DEF Links, HoldersOf
<1>2. AccountsTyped /\ RowsFit
  BY DEF AccessInv, TablesTyped
<1> DEFINE changed == [i \in Identities |->
               IF i = w THEN "live"
               ELSE IF IsWallet(i) /\ row[u][i] = "live" THEN "unlinked" ELSE row[u][i]]
<1>3. row' = [row EXCEPT ![u] = changed]
  BY DEF Links
<1>4. changed \in [Identities -> {"none", "live", "unlinked"}]
  BY <1>1, <1>2 DEF AccountsTyped
<1>5. \A j \in Identities :
          changed[j] = IF j = w THEN "live"
                       ELSE IF IsWallet(j) /\ row[u][j] = "live" THEN "unlinked" ELSE row[u][j]
  OBVIOUS
<1> HIDE DEF changed
<1>6. \A v \in Accounts, j \in Identities :
          row'[v][j] = IF v # u THEN row[v][j]
                       ELSE IF j = w THEN "live"
                       ELSE IF IsWallet(j) /\ row[v][j] = "live" THEN "unlinked" ELSE row[v][j]
  BY <1>1, <1>2, <1>3, <1>5 DEF AccountsTyped
<1>7. AccountsTyped'
  BY <1>1, <1>2, <1>3, <1>4 DEF AccountsTyped
<1>8. /\ \A v \in Accounts, j \in Identities :
             row'[v][j] = "live" => row[v][j] = "live" \/ (v = u /\ j = w)
      /\ \A v \in Accounts, j \in Identities :
             row'[v][j] # "none" => row[v][j] # "none" \/ (v = u /\ j = w)
      /\ \A v \in Accounts, j \in Identities :
             row[v][j] # "none" => row'[v][j] # "none"
      /\ \A j \in Identities : IsWallet(j) /\ row'[u][j] = "live" => j = w
  BY <1>1, <1>6
<1>9. ClosedAreEmpty'
  BY <1>1, <1>2, <1>8 DEF RowsFit, ClosedAreEmpty, Closed
<1>10. EmailRowsFit'
  BY <1>1, <1>2, <1>8 DEF RowsFit, EmailRowsFit, IsWallet
<1>11. OneHolder'
  BY <1>1, <1>2, <1>8 DEF RowsFit, OneHolder
<1>12. OneAddress'
  BY <1>1, <1>2 DEF RowsFit, OneAddress
<1>13. OneWallet'
  BY <1>2, <1>8 DEF RowsFit, OneWallet
<1>14. OpenedHaveRows'
  <2>1. ASSUME NEW x \in opened
        PROVE  row'[x[2]][x[1]] # "none"
    <3>1. row[x[2]][x[1]] # "none" /\ x[2] \in Accounts /\ x[1] \in Identities
      BY <1>2 DEF RowsFit, OpenedHaveRows, AccountsTyped
    <3> QED
      BY <1>8, <3>1
  <2> QED
    BY <1>1, <2>1 DEF OpenedHaveRows
<1> QED
  BY <1>6, <1>7, <1>9, <1>10, <1>11, <1>12, <1>13, <1>14 DEF RowsFit

(* An unlink takes live rows of one provider in one account. *)
LEMMA UnlinkKeeps ==
    ASSUME AccessInv, NEW u, NEW p, Unlinks(u, p)
    PROVE  /\ \A v \in Accounts, j \in Identities :
                 row'[v][j] = IF v = u /\ ProviderOf[j] = p /\ row[v][j] = "live"
                              THEN "unlinked" ELSE row[v][j]
           /\ AccountsTyped' /\ RowsFit'
<1>1. u \in Accounts /\ UNCHANGED <<account, opened>>
  BY DEF Unlinks
<1>2. AccountsTyped /\ RowsFit
  BY DEF AccessInv, TablesTyped
<1> DEFINE changed == [i \in Identities |->
               IF ProviderOf[i] = p /\ row[u][i] = "live" THEN "unlinked" ELSE row[u][i]]
<1>3. row' = [row EXCEPT ![u] = changed]
  BY DEF Unlinks
<1>4. changed \in [Identities -> {"none", "live", "unlinked"}]
  BY <1>1, <1>2 DEF AccountsTyped
<1>5. \A j \in Identities :
          changed[j] = IF ProviderOf[j] = p /\ row[u][j] = "live" THEN "unlinked" ELSE row[u][j]
  OBVIOUS
<1> HIDE DEF changed
<1>6. \A v \in Accounts, j \in Identities :
          row'[v][j] = IF v = u /\ ProviderOf[j] = p /\ row[v][j] = "live"
                       THEN "unlinked" ELSE row[v][j]
  BY <1>1, <1>2, <1>3, <1>5 DEF AccountsTyped
<1>7. AccountsTyped'
  BY <1>1, <1>2, <1>3, <1>4 DEF AccountsTyped
<1>8. \A v \in Accounts, j \in Identities :
          /\ row'[v][j] = "live" => row[v][j] = "live"
          /\ row'[v][j] # "none" <=> row[v][j] # "none"
  BY <1>6
<1>9. ClosedAreEmpty' /\ EmailRowsFit' /\ OneAddress'
  <2>1. ASSUME NEW v \in Accounts, ~account'[v].open
        PROVE  account'[v] = Closed /\ \A j \in Identities : row'[v][j] = "none"
    BY <1>1, <1>2, <1>8, <2>1 DEF RowsFit, ClosedAreEmpty
  <2>2. EmailRowsFit' /\ OneAddress'
    BY <1>1, <1>2, <1>8 DEF RowsFit, EmailRowsFit, OneAddress
  <2> QED
    BY <2>1, <2>2 DEF ClosedAreEmpty
<1>10. OneHolder' /\ OneWallet'
  BY <1>2, <1>8 DEF RowsFit, OneHolder, OneWallet
<1>11. OpenedHaveRows'
  <2>1. ASSUME NEW x \in opened
        PROVE  row'[x[2]][x[1]] # "none"
    <3>1. row[x[2]][x[1]] # "none" /\ x[2] \in Accounts /\ x[1] \in Identities
      BY <1>2 DEF RowsFit, OpenedHaveRows, AccountsTyped
    <3> QED
      BY <1>8, <3>1
  <2> QED
    BY <1>1, <2>1 DEF OpenedHaveRows
<1> QED
  BY <1>6, <1>7, <1>9, <1>10, <1>11 DEF RowsFit

(* A login that leaves the rows alone. *)
LEMMA EnterKeeps ==
    ASSUME AccessInv, NEW u, NEW i, Enters(u, i)
    PROVE  AccountsTyped' /\ RowsFit'
<1>1. /\ u \in Accounts /\ i \in Identities /\ row[u][i] # "none" /\ UNCHANGED <<account, row>>
      /\ opened' = opened \cup {<<i, u>>}
  BY DEF Enters, Admit, accountVars
<1>2. AccountsTyped'
  BY <1>1 DEF AccessInv, TablesTyped, AccountsTyped
<1>3. OpenedHaveRows'
  BY <1>1 DEF AccessInv, RowsFit, OpenedHaveRows
<1> QED
  BY <1>1, <1>2, <1>3
  DEF AccessInv, RowsFit, ClosedAreEmpty, EmailRowsFit, OneHolder, OneAddress, OneWallet

(* The tables stay in order, and grow. *)
LEMMA TablesKeep ==
    ASSUME AccessInv, [AccessNext]_vars
    PROVE  AccountsTyped' /\ RowsFit' /\ Grows
<1>1. ASSUME NEW u, NEW i, NEW email, NEW password, Creates(u, i, email, password)
      PROVE  AccountsTyped' /\ RowsFit' /\ Grows
  <2>1. /\ u \in Accounts /\ i \in Identities /\ ~account[u].open
        /\ \A v \in Accounts \ {u} : account'[v] = account[v]
        /\ \A v \in Accounts, j \in Identities :
              row'[v][j] = IF v = u /\ j = i THEN "live" ELSE row[v][j]
    BY <1>1, CreateRows
  <2>2. Grows
    BY <2>1 DEF Grows
  <2>3. AccountsTyped'
    BY <1>1, CreateEffect
  <2>4. RowsFit'
    BY <1>1, CreateKeeps
  <2> QED
    BY <2>2, <2>3, <2>4
<1>2. ASSUME NEW u, NEW i, Joins(u, i)
      PROVE  AccountsTyped' /\ RowsFit' /\ Grows
  BY <1>2, JoinKeeps DEF Grows, Joins
<1>3. ASSUME NEW u, NEW i, Enters(u, i)
      PROVE  AccountsTyped' /\ RowsFit' /\ Grows
  BY <1>3, EnterKeeps DEF Grows, Enters, accountVars
<1>4. ASSUME NEW u, NEW w, Links(u, w)
      PROVE  AccountsTyped' /\ RowsFit' /\ Grows
  BY <1>4, LinkKeeps DEF Grows, Links
<1>5. ASSUME NEW u, NEW p, Unlinks(u, p)
      PROVE  AccountsTyped' /\ RowsFit' /\ Grows
  BY <1>5, UnlinkKeeps DEF Grows, Unlinks
<1>6. ASSUME Leaves
      PROVE  AccountsTyped' /\ RowsFit' /\ Grows
  BY <1>6
  DEF Leaves, accountVars, Grows, AccessInv, TablesTyped, AccountsTyped, RowsFit, ClosedAreEmpty,
      EmailRowsFit, OneHolder, OneAddress, OneWallet, OpenedHaveRows
<1> QED
  BY <1>1, <1>2, <1>3, <1>4, <1>5, <1>6, StepKinds DEF TableSteps

-----------------------------------------------------------------------------
(* The nonces and the tokens.                                                *)

NoncesOK == nonce \in Seq(NonceRows) /\ NoncesFit

(* Nonces are only appended. *)
LEMMA NonceIssued ==
    ASSUME NoncesOK, NEW w \in Identities, Web3Nonce(w)
    PROVE  NoncesOK' /\ DOMAIN nonce \subseteq DOMAIN nonce'
<1>1. PICK unseen \in SUBSET {n \in DOMAIN nonce : nonce[n].wallet = w} :
          nonce' = Append([n \in DOMAIN nonce |->
                               IF nonce[n].wallet = w /\ n \notin unseen
                               THEN [nonce[n] EXCEPT !.live = FALSE] ELSE nonce[n]],
                          [wallet |-> w, live |-> TRUE, admitted |-> 0])
  BY DEF Web3Nonce
<1> DEFINE kept == [n \in DOMAIN nonce |->
                        IF nonce[n].wallet = w /\ n \notin unseen
                        THEN [nonce[n] EXCEPT !.live = FALSE] ELSE nonce[n]]
           new == [wallet |-> w, live |-> TRUE, admitted |-> 0]
<1>2. nonce \in Seq(NonceRows) /\ Len(nonce) \in Nat /\ DOMAIN nonce = 1..Len(nonce)
  BY DEF NoncesOK
<1>3. \A n \in 1..Len(nonce) : nonce[n] \in NonceRows
  BY <1>2
<1>4. ASSUME NEW n \in 1..Len(nonce)
      PROVE  /\ kept[n] \in NonceRows
             /\ kept[n].admitted = nonce[n].admitted
             /\ kept[n].live => nonce[n].live
  <2>1. [nonce[n] EXCEPT !.live = FALSE] \in NonceRows
    BY <1>3 DEF NonceRows
  <2>2. kept[n] = [nonce[n] EXCEPT !.live = FALSE] \/ kept[n] = nonce[n]
    BY <1>2
  <2> HIDE DEF kept
  <2> QED
    BY <1>3, <2>1, <2>2 DEF NonceRows
<1>5. kept \in Seq(NonceRows) /\ Len(kept) = Len(nonce)
  <2>1. kept = [n \in 1..Len(nonce) |-> kept[n]]
    BY <1>2
  <2> HIDE DEF kept
  <2> QED
    BY <1>2, <1>4, <2>1
<1>6. new \in NonceRows /\ new.admitted = 0
  BY DEF NonceRows, Web3Nonce
<1>7. nonce' = Append(kept, new)
  BY <1>1
<1> HIDE DEF kept, new
<1>8. /\ nonce' \in Seq(NonceRows) /\ Len(nonce') = Len(nonce) + 1
      /\ \A n \in 1..Len(nonce) : nonce'[n] = kept[n]
      /\ nonce'[Len(nonce) + 1] = new
  BY <1>2, <1>5, <1>6, <1>7, AppendProperties
<1>9. DOMAIN nonce' = 1..(Len(nonce) + 1)
  BY <1>8
<1>10. NoncesFit'
  <2>1. ASSUME NEW n \in 1..Len(nonce)
        PROVE  nonce'[n].admitted <= 1 /\ (nonce'[n].live => nonce'[n].admitted = 0)
    BY <1>2, <1>4, <1>8 DEF NoncesOK, NoncesFit
  <2>2. nonce'[Len(nonce) + 1].admitted = 0
    BY <1>6, <1>8
  <2> QED
    BY <1>2, <1>9, <2>1, <2>2 DEF NoncesFit
<1> QED
  BY <1>2, <1>8, <1>9, <1>10 DEF NoncesOK

(* A row of the table, deleted. *)
LEMMA RowGone ==
    ASSUME NEW x \in NonceRows, x.admitted = 0, NEW gone, gone = [x EXCEPT !.live = FALSE]
    PROVE  gone \in NonceRows /\ gone.live = FALSE /\ gone.admitted <= 1
<1>1. gone = [wallet |-> x.wallet, live |-> FALSE, admitted |-> 0]
  BY DEF NonceRows
<1>2. x.wallet \in {i \in Identities : IsWallet(i)}
  BY DEF NonceRows
<1>3. ASSUME NEW w \in {i \in Identities : IsWallet(i)}
      PROVE  LET y == [wallet |-> w, live |-> FALSE, admitted |-> 0]
             IN  y \in NonceRows /\ y.live = FALSE /\ y.admitted = 0
  BY DEF NonceRows
<1> DEFINE y == [wallet |-> x.wallet, live |-> FALSE, admitted |-> 0]
<1>4. y \in NonceRows /\ y.live = FALSE /\ y.admitted = 0
  BY <1>2, <1>3
<1>5. gone = y
  BY <1>1
<1> HIDE DEF y
<1>6. gone \in NonceRows /\ gone.live = FALSE /\ gone.admitted = 0
  BY <1>4, <1>5, Zenon
<1>7. 0 <= 1
  OBVIOUS
<1> QED
  BY <1>6, <1>7, Zenon

(* The n-th nonce goes, and admits at most the call that took it away. *)
LEMMA NonceGone ==
    ASSUME NoncesOK, NEW n \in DOMAIN nonce, nonce[n].live,
           NEW gone,
           gone \in {[nonce[n] EXCEPT !.live = FALSE], Spent(n)},
           nonce' = [nonce EXCEPT ![n] = gone]
    PROVE  NoncesOK' /\ DOMAIN nonce \subseteq DOMAIN nonce'
<1>1. nonce \in Seq(NonceRows) /\ Len(nonce) \in Nat /\ DOMAIN nonce = 1..Len(nonce)
  BY DEF NoncesOK
<1>2. nonce[n] \in NonceRows /\ nonce[n].admitted = 0
  BY <1>1 DEF NoncesOK, NoncesFit
<1>3. gone \in NonceRows /\ gone.live = FALSE /\ gone.admitted <= 1
  <2>1. CASE gone = [nonce[n] EXCEPT !.live = FALSE]
    <3> DEFINE x == nonce[n]
    <3>1. x \in NonceRows /\ x.admitted = 0 /\ gone = [x EXCEPT !.live = FALSE]
      BY <1>2, <2>1
    <3> HIDE DEF x
    <3> QED
      BY <3>1, RowGone
  <2>2. CASE gone = Spent(n)
    BY <1>2, <2>2 DEF NonceRows, Spent
  <2> QED
    BY <2>1, <2>2
<1>4. /\ nonce' \in Seq(NonceRows) /\ Len(nonce') = Len(nonce)
      /\ \A k \in 1..Len(nonce) : nonce'[k] = IF k = n THEN gone ELSE nonce[k]
  BY <1>1, <1>3, ExceptSeq
<1>5. DOMAIN nonce' = DOMAIN nonce
  BY <1>1, <1>4
<1>6. NoncesFit'
  BY <1>1, <1>3, <1>4, <1>5 DEF NoncesOK, NoncesFit
<1> QED
  BY <1>4, <1>5, <1>6 DEF NoncesOK

(* Nonces are only added, and stay of their kinds. *)
LEMMA NoncesKeep ==
    ASSUME AccessInv, [AccessNext]_vars
    PROVE  NoncesOK' /\ DOMAIN nonce \subseteq DOMAIN nonce'
<1>1. NoncesOK
  BY DEF AccessInv, TablesTyped, NoncesOK
<1>2. CASE UNCHANGED nonce
  BY <1>1, <1>2 DEF NoncesOK, NoncesFit
<1>3. ASSUME NEW n \in DOMAIN nonce, Consume(n)
      PROVE  NoncesOK' /\ DOMAIN nonce \subseteq DOMAIN nonce'
  <2>1. nonce[n].live /\ nonce' = [nonce EXCEPT ![n] = Spent(n)]
    BY <1>3 DEF Consume
  <2> QED
    BY <1>1, <2>1, NonceGone
<1>4. ASSUME NEW n \in DOMAIN nonce, NonceExpired(n)
      PROVE  NoncesOK' /\ DOMAIN nonce \subseteq DOMAIN nonce'
  <2>1. nonce[n].live /\ nonce' = [nonce EXCEPT ![n].live = FALSE]
    BY <1>4 DEF NonceExpired
  <2> DEFINE gone == [nonce[n] EXCEPT !.live = FALSE]
  <2>2. nonce' = [nonce EXCEPT ![n] = gone]
    BY <2>1
  <2> QED
    BY <1>1, <2>1, <2>2, NonceGone
<1>5. ASSUME NEW r \in Requests, Web3Verify(r) \/ LinkWallet(r)
      PROVE  \E n \in DOMAIN nonce : Consume(n)
  <2>1. CallFits(call[r]) /\ call[r].op \in {"verify", "link"} /\ Consume(call[r].nonce)
    BY <1>5 DEF Web3Verify, LinkWallet, AccessInv, CallsFit
  <2>2. call[r].nonce \in DOMAIN nonce
    BY <2>1
    DEF CallFits, Idle, FinishFits, CreateFits, RecoverFits, VerifyFits, LinkFits, UnlinkFits
  <2> QED
    BY <2>1, <2>2
<1>6. ASSUME NEW w \in Identities, Web3Nonce(w)
      PROVE  NoncesOK' /\ DOMAIN nonce \subseteq DOMAIN nonce'
  BY <1>1, <1>6, NonceIssued
<1>7. \/ UNCHANGED nonce
      \/ \E n \in DOMAIN nonce : NonceExpired(n)
      \/ \E r \in Requests : Web3Verify(r) \/ LinkWallet(r)
      \/ \E w \in Identities : Web3Nonce(w)
  BY DEF AccessNext, vars, accessVars, Register, Login, UpsertLook, UpsertCreate, UpsertConflict,
         Recover, Finish, VerifyLook, LinkLook, UnlinkLook, UnlinkProvider, Fail, Quietly
<1> QED
  BY <1>2, <1>3, <1>4, <1>5, <1>6, <1>7

(* Towards the tokens, every step is one of RefreshTokens, or none. *)
LEMMA TokenSteps == AccessInv /\ [AccessNext]_vars => [TokenNext]_tokenVars
<1> SUFFICES ASSUME AccessInv, [AccessNext]_vars
             PROVE  TokenNext \/ UNCHANGED tokenVars
  OBVIOUS
<1> DEFINE LogsIn == \E u \in Accounts : IssueTokenPair(u)
<1>1. ASSUME NEW i \in Identities, Register(i)
      PROVE  LogsIn
  BY <1>1 DEF Register, CreateUser, Admit
<1>2. ASSUME NEW u \in Accounts, Login(u)
      PROVE  LogsIn
  BY <1>2 DEF Login
<1>3. ASSUME NEW r \in Requests, UpsertCreate(r)
      PROVE  LogsIn
  <2>1. call[r].users \in SUBSET Accounts
    BY <1>3
    DEF UpsertCreate, AccessInv, CallsFit, CallFits, Idle, FinishFits, CreateFits, RecoverFits,
        VerifyFits, LinkFits, UnlinkFits
  <2>2. \/ \E u \in Accounts : CreateUser(u, call[r].who, call[r].email, FALSE)
        \/ \E u \in call[r].users : Admit(call[r].who, u)
    BY <1>3 DEF UpsertCreate
  <2> QED
    BY <2>1, <2>2 DEF CreateUser, Admit
<1>4. ASSUME NEW r \in Requests, Finish(r)
      PROVE  LogsIn \/ UNCHANGED tokenVars
  <2>1. call[r].user \in Accounts
    BY <1>4
    DEF Finish, AccessInv, CallsFit, CallFits, Idle, FinishFits, CreateFits, RecoverFits,
        VerifyFits, LinkFits, UnlinkFits
  <2>2. UNCHANGED tokenVars \/ Admit(call[r].who, call[r].user)
    BY <1>4 DEF Finish, Quietly
  <2> QED
    BY <2>1, <2>2 DEF Admit
<1>5. ASSUME NEW r \in Requests, Web3Verify(r)
      PROVE  LogsIn
  <2>1. \E u \in Accounts : \E w : Admit(w, u)
    BY <1>5 DEF Web3Verify, CreateUser, HoldersOf
  <2> QED
    BY <2>1 DEF Admit
<1>6. \/ UNCHANGED tokenVars \/ TokenStep
      \/ \E i \in Identities : Register(i)
      \/ \E u \in Accounts : Login(u)
      \/ \E r \in Requests : UpsertCreate(r) \/ Finish(r) \/ Web3Verify(r)
  BY DEF AccessNext, vars, NonceExpired, Web3Nonce, UpsertLook, UpsertConflict,
         Recover, VerifyLook, LinkLook, LinkWallet, UnlinkLook, UnlinkProvider, Fail, Quietly
<1> QED
  BY <1>1, <1>2, <1>3, <1>4, <1>5, <1>6 DEF TokenNext

-----------------------------------------------------------------------------
(* The calls.                                                                *)

(* What a call relies on outlasts the steps of the others. *)
LEMMA CallsLast ==
    ASSUME AccessInv, Grows, DOMAIN nonce \subseteq DOMAIN nonce', NEW c, CallFits(c)
    PROVE  CallFits(c)'
<1>1. CASE c = Idle
  BY <1>1 DEF CallFits
<1>2. CASE FinishFits(c)
  BY <1>2 DEF CallFits, FinishFits, Grows, OAuth
<1>3. CASE CreateFits(c)
  BY <1>3 DEF CallFits, CreateFits, Grows
<1>4. CASE RecoverFits(c)
  BY <1>4 DEF CallFits, RecoverFits
<1>5. CASE VerifyFits(c)
  BY <1>5 DEF CallFits, VerifyFits
<1>6. CASE LinkFits(c)
  BY <1>6 DEF CallFits, LinkFits, Grows
<1>7. CASE UnlinkFits(c)
  <2>1. account[c.user].open \/ ~account[c.user].password
    BY <1>7 DEF UnlinkFits, AccessInv, RowsFit, ClosedAreEmpty, Closed
  <2> QED
    BY <1>7, <2>1 DEF CallFits, UnlinkFits, Grows
<1> QED
  BY <1>1, <1>2, <1>3, <1>4, <1>5, <1>6, <1>7 DEF CallFits

(* What the lookups of a login read. *)
LEMMA LoginLooks ==
    ASSUME AccessInv, NEW r \in Requests, NEW i \in Identities, UpsertLook(r, i)
    PROVE  \E c : Become(r, c) /\ CallFits(c)
<1>1. /\ i \in OAuth
      /\ ProviderOf[i] \in {"twitch", "google"}
      /\ \E saves \in (IF ProviderOf[i] = "twitch" THEN BOOLEAN ELSE {TRUE}) :
            LET email == IF saves THEN EmailOf[i] ELSE NoEmail
                users == AccountsWith(email)
            IN  IF HoldersOf(i) # {}
                THEN \E u \in HoldersOf(i) : Become(r, Finishing(i, u, saves, FALSE))
                ELSE /\ users # {} => MayJoin(i)
                     /\ Become(r, Creating(i, users, email, saves))
  BY DEF UpsertLook, OAuth
<1>2. PICK saves \in BOOLEAN :
            LET email == IF saves THEN EmailOf[i] ELSE NoEmail
                users == AccountsWith(email)
            IN  IF HoldersOf(i) # {}
                THEN \E u \in HoldersOf(i) : Become(r, Finishing(i, u, saves, FALSE))
                ELSE /\ users # {} => MayJoin(i)
                     /\ Become(r, Creating(i, users, email, saves))
  BY <1>1
<1>3. CASE HoldersOf(i) # {}
  <2>1. PICK u \in HoldersOf(i) : Become(r, Finishing(i, u, saves, FALSE))
    BY <1>2, <1>3
  <2>2. FinishFits(Finishing(i, u, saves, FALSE))
    BY <1>1 DEF HoldersOf, FinishFits, Finishing
  <2> QED
    BY <2>1, <2>2 DEF CallFits
<1>4. CASE HoldersOf(i) = {}
  <2> DEFINE email == IF saves THEN EmailOf[i] ELSE NoEmail
             users == AccountsWith(email)
  <2>1. (users # {} => i \in Verified) /\ Become(r, Creating(i, users, email, saves))
    BY <1>2, <1>4 DEF MayJoin
  <2>2. email \in Emails /\ email \in {NoEmail, EmailOf[i]} /\ users \in SUBSET Accounts
    BY DEF Emails, AccountsWith
  <2>3. \A u \in users : account[u].open /\ account[u].email = email /\ email # NoEmail
    <3>1. ASSUME NEW u \in Accounts, account[u].email # NoEmail
          PROVE  account[u].open
      BY <3>1 DEF AccessInv, RowsFit, ClosedAreEmpty, Closed
    <3> QED
      BY <3>1 DEF AccountsWith
  <2> HIDE DEF email, users
  <2>4. CreateFits(Creating(i, users, email, saves))
    BY <1>1, <2>1, <2>2, <2>3 DEF CreateFits, Creating
  <2> QED
    BY <2>1, <2>4 DEF CallFits
<1> QED
  BY <1>3, <1>4

(* What the other calls read, and what they go on with. *)
LEMMA OtherLooks ==
    ASSUME AccessInv, NEW r \in Requests,
           \/ UpsertConflict(r) \/ Recover(r) \/ Finish(r)
           \/ \E n \in DOMAIN nonce :
                 VerifyLook(r, n) \/ \E u \in Accounts : LinkLook(r, u, n)
           \/ \E u \in Accounts, p \in Providers : UnlinkLook(r, u, p)
    PROVE  \E c : Become(r, c) /\ CallFits(c)
<1>1. CallFits(call[r])
  BY DEF AccessInv, CallsFit
<1>2. ASSUME NEW i \in OAuth, NEW saves \in BOOLEAN
      PROVE  CallFits(Recovering(i, saves))
  BY DEF CallFits, RecoverFits, Recovering
<1>3. CASE UpsertConflict(r)
  <2>1. /\ call[r].who \in OAuth /\ call[r].saves \in BOOLEAN
        /\ Become(r, Recovering(call[r].who, call[r].saves))
    BY <1>1, <1>3
    DEF UpsertConflict, CallFits, Idle, FinishFits, CreateFits, RecoverFits, VerifyFits, LinkFits,
        UnlinkFits
  <2> QED
    BY <1>2, <2>1
<1>4. CASE Recover(r)
  <2>1. call[r].who \in OAuth /\ call[r].saves \in BOOLEAN
    BY <1>1, <1>4
    DEF Recover, CallFits, Idle, FinishFits, CreateFits, RecoverFits, VerifyFits, LinkFits,
        UnlinkFits
  <2>2. ASSUME NEW u \in HoldersOf(call[r].who)
        PROVE  CallFits(Finishing(call[r].who, u, call[r].saves, TRUE))
    BY <2>1 DEF HoldersOf, CallFits, FinishFits, Finishing
  <2> QED
    BY <1>4, <2>2 DEF Recover, CallFits
<1>5. CASE Finish(r)
  <2>1. call[r].who \in OAuth /\ call[r].saves \in BOOLEAN
    BY <1>1, <1>5
    DEF Finish, CallFits, Idle, FinishFits, CreateFits, RecoverFits, VerifyFits, LinkFits,
        UnlinkFits
  <2>2. Become(r, Idle) \/ Become(r, Recovering(call[r].who, call[r].saves))
    BY <1>5 DEF Finish
  <2> QED
    BY <1>2, <2>1, <2>2 DEF CallFits
<1>6. ASSUME NEW n \in DOMAIN nonce, VerifyLook(r, n)
      PROVE  \E c : Become(r, c) /\ CallFits(c)
  BY <1>6 DEF VerifyLook, CallFits, VerifyFits, Verifying
<1>7. ASSUME NEW n \in DOMAIN nonce, NEW u \in Accounts, LinkLook(r, u, n)
      PROVE  \E c : Become(r, c) /\ CallFits(c)
  BY <1>7 DEF LinkLook, CallFits, LinkFits, Linking
<1>8. ASSUME NEW u \in Accounts, NEW p \in Providers, UnlinkLook(r, u, p)
      PROVE  \E c : Become(r, c) /\ CallFits(c)
  <2> DEFINE n == Cardinality(LinkedTo(u))
  <2>1. n \in Nat
    BY AccessAssumption, FS_Subset, FS_CardinalityType DEF LinkedTo
  <2>2. (n > 1 \/ account[u].password) /\ Become(r, Unlinking(u, p, n))
    BY <1>8 DEF UnlinkLook, OtherWayIn
  <2> HIDE DEF n
  <2>3. UnlinkFits(Unlinking(u, p, n))
    BY <2>1, <2>2 DEF UnlinkFits, Unlinking
  <2> QED
    BY <2>2, <2>3 DEF CallFits
<1> QED
  BY <1>3, <1>4, <1>5, <1>6, <1>7, <1>8

(* A step changes at most one call. *)
LEMMA CallSteps ==
    ASSUME AccessInv, [AccessNext]_vars
    PROVE  UNCHANGED call \/ \E r \in Requests : \E c : Become(r, c) /\ CallFits(c)
<1>1. \/ UNCHANGED call
      \/ \E r \in Requests : \E i \in Identities : UpsertLook(r, i)
      \/ \E r \in Requests :
             \/ UpsertConflict(r) \/ Recover(r) \/ Finish(r)
             \/ \E n \in DOMAIN nonce :
                   VerifyLook(r, n) \/ \E u \in Accounts : LinkLook(r, u, n)
             \/ \E u \in Accounts, p \in Providers : UnlinkLook(r, u, p)
      \/ \E r \in Requests : Become(r, Idle)
  BY DEF AccessNext, vars, accessVars, Register, Login, Web3Nonce, NonceExpired, UpsertCreate,
         Web3Verify, LinkWallet, UnlinkProvider, Fail, Providers
<1>2. CallFits(Idle)
  BY DEF CallFits
<1> QED
  BY <1>1, <1>2, LoginLooks, OtherLooks

(* What a call has read goes on fitting the tables. *)
LEMMA CallsKeep ==
    ASSUME AccessInv, [AccessNext]_vars
    PROVE  CallsFit'
<1>1. \A c : CallFits(c) => CallFits(c)'
  BY TablesKeep, NoncesKeep, CallsLast
<1>2. CASE UNCHANGED call
  BY <1>1, <1>2 DEF AccessInv, CallsFit
<1>3. ASSUME NEW r \in Requests, NEW c, Become(r, c), CallFits(c)
      PROVE  CallsFit'
  <2>1. call' = [call EXCEPT ![r] = c] /\ CallFits(c)'
    BY <1>1, <1>3 DEF Become
  <2>2. \A q \in Requests : q # r => call'[q] = call[q]
    BY <2>1
  <2> QED
    BY <1>1, <2>1, <2>2 DEF AccessInv, CallsFit
<1> QED
  BY <1>2, <1>3, CallSteps

-----------------------------------------------------------------------------
(* The invariant. *)

(* The invariant holds in every state. *)
LEMMA AccessInvHolds == AccessSpec => []AccessInv
<1>1. AccessInit => AccessInv
  <2> SUFFICES ASSUME AccessInit
               PROVE  AccessInv
    OBVIOUS
  <2>1. TokenInv
    BY InitHolds DEF AccessInit
  <2>2. TablesTyped /\ NoncesFit
    BY DEF AccessInit, TablesTyped, AccountsTyped, NoncesFit, Closed, Emails
  <2>3. RowsFit
    BY DEF AccessInit, RowsFit, ClosedAreEmpty, EmailRowsFit, OneHolder, OneAddress, OneWallet,
           OpenedHaveRows, Closed
  <2>4. CallsFit
    BY DEF AccessInit, CallsFit, CallFits
  <2> QED
    BY <2>1, <2>2, <2>3, <2>4 DEF AccessInv
<1>2. AccessInv /\ [AccessNext]_vars => AccessInv'
  <2> SUFFICES ASSUME AccessInv, [AccessNext]_vars
               PROVE  AccessInv'
    OBVIOUS
  <2>1. TokenInv'
    BY TokenSteps, StepHolds DEF AccessInv
  <2> QED
    BY <2>1, TablesKeep, NoncesKeep, CallsKeep DEF AccessInv, TablesTyped, NoncesOK
<1> QED
  BY <1>1, <1>2, PTL DEF AccessSpec

-----------------------------------------------------------------------------
(* Theorems. *)

(* A set whose members are all the same has at most one. *)
LEMMA AtMostOne ==
    ASSUME NEW S, \A x, y \in S : x = y
    PROVE  Cardinality(S) <= 1
<1>1. CASE S = {}
  BY <1>1, FS_EmptySet
<1>2. ASSUME NEW x \in S
      PROVE  Cardinality(S) <= 1
  <2>1. S = {x}
    OBVIOUS
  <2> QED
    BY <2>1, FS_Singleton
<1> QED
  BY <1>1, <1>2

(* A call that fits is one of the calls. *)
LEMMA CallOfItsKind ==
    ASSUME AccessInv, NEW c, CallFits(c)
    PROVE  CallOK(c)
<1>1. CASE CreateFits(c)
  <2>1. \A u, v \in c.users : u = v
    BY <1>1 DEF CreateFits, AccessInv, RowsFit, OneAddress
  <2>2. Cardinality(c.users) <= 1
    BY <2>1, AtMostOne
  <2>3. /\ c.op = "create" /\ c.who \in Identities /\ ProviderOf[c.who] \in {"twitch", "google"}
        /\ c.saves \in BOOLEAN /\ c.users \subseteq Accounts
    BY <1>1 DEF CreateFits, OAuth
  <2> QED
    BY <2>2, <2>3 DEF CallOK
<1>2. CASE c = Idle
  BY <1>2 DEF CallOK
<1>3. CASE FinishFits(c)
  <2>1. /\ c.op = "finish" /\ c.who \in Identities /\ ProviderOf[c.who] \in {"twitch", "google"}
        /\ c.saves \in BOOLEAN /\ c.user \in Accounts /\ c.again \in BOOLEAN
    BY <1>3 DEF FinishFits, OAuth
  <2> QED
    BY <2>1 DEF CallOK
<1>4. CASE RecoverFits(c)
  <2>1. /\ c.op = "recover" /\ c.who \in Identities /\ ProviderOf[c.who] \in {"twitch", "google"}
        /\ c.saves \in BOOLEAN
    BY <1>4 DEF RecoverFits, OAuth
  <2> QED
    BY <2>1 DEF CallOK
<1>5. CASE VerifyFits(c) \/ LinkFits(c)
  <2>1. c.op \in {"verify", "link"} /\ c.nonce \in DOMAIN nonce
    BY <1>5 DEF VerifyFits, LinkFits
  <2> QED
    BY <2>1 DEF CallOK
<1>6. CASE UnlinkFits(c)
  <2>1. c.op = "unlink" /\ c.user \in Accounts /\ c.provider \in Providers /\ c.count \in Nat
    BY <1>6 DEF UnlinkFits
  <2> QED
    BY <2>1 DEF CallOK
<1> QED
  BY <1>1, <1>2, <1>3, <1>4, <1>5, <1>6 DEF CallFits

(***************************************************************************)
(* AccessTypeOK: the unique indexes of users and auth_providers are        *)
(* respected however logins, links and unlinks overlap.                    *)
(***************************************************************************)
THEOREM AccessTypeCorrect == AccessSpec => []AccessTypeOK
<1>1. ASSUME AccessInv
      PROVE  AccessTypeOK
  <2>1. /\ AccountsTyped /\ nonce \in Seq(NonceRows) /\ RowsFit /\ CallsFit /\ TokenTypeOK
    BY <1>1 DEF AccessInv, TablesTyped, TokenInv
  <2>2. ASSUME NEW i \in Identities
        PROVE  Cardinality(HoldersOf(i)) <= 1
    <3>1. \A u, v \in HoldersOf(i) : u = v
      BY <2>1 DEF HoldersOf, RowsFit, OneHolder
    <3> QED
      BY <3>1, AtMostOne
  <2>3. ASSUME NEW u \in Accounts
        PROVE  Cardinality({i \in LinkedTo(u) : IsWallet(i)}) <= 1
    <3> DEFINE S == {i \in LinkedTo(u) : IsWallet(i)}
    <3>1. \A i, j \in S : i = j
      BY <2>1 DEF LinkedTo, RowsFit, OneWallet
    <3> HIDE DEF S
    <3>2. Cardinality(S) <= 1
      BY <3>1, AtMostOne
    <3> QED
      BY <3>2 DEF S
  <2>4. ASSUME NEW n \in DOMAIN nonce
        PROVE  IsWallet(nonce[n].wallet) /\ nonce[n].live \in BOOLEAN
    <3>1. nonce[n] \in NonceRows
      BY <2>1
    <3> QED
      BY <3>1 DEF NonceRows
  <2>5. ASSUME NEW r \in Requests
        PROVE  CallOK(call[r])
    BY <1>1, CallOfItsKind DEF AccessInv, CallsFit
  <2>6. /\ DOMAIN account = Accounts
        /\ row \in [Accounts -> [Identities -> {"none", "live", "unlinked"}]]
        /\ opened \subseteq Identities \X Accounts
    BY <2>1 DEF AccountsTyped
  <2>7. \A u, v \in Accounts :
            account[u].email \notin {NoEmail} /\ account[u].email = account[v].email => u = v
    BY <2>1 DEF RowsFit, OneAddress
  <2> QED
    BY <2>1, <2>2, <2>3, <2>4, <2>5, <2>6, <2>7 DEF AccessTypeOK
<1> QED
  BY <1>1, AccessInvHolds, PTL

(***************************************************************************)
(* LoginsAgree: racing first logins, joins and recoveries of an identity   *)
(* that nobody unlinks all end in one account.                             *)
(***************************************************************************)
THEOREM OneAccountPerIdentity == AccessSpec => []LoginsAgree
<1>1. ASSUME AccessInv
      PROVE  LoginsAgree
  <2> SUFFICES ASSUME NEW i \in Identities, \A w \in Accounts : row[w][i] # "unlinked",
                      NEW x \in opened, NEW y \in opened, x[1] = i, y[1] = i
               PROVE  x[2] = y[2]
    BY DEF LoginsAgree
  <2>1. /\ x[2] \in Accounts /\ y[2] \in Accounts
        /\ row \in [Accounts -> [Identities -> {"none", "live", "unlinked"}]]
    BY <1>1 DEF AccessInv, TablesTyped, AccountsTyped
  <2>2. row[x[2]][i] # "none" /\ row[y[2]][i] # "none"
    BY <1>1 DEF AccessInv, RowsFit, OpenedHaveRows
  <2>3. row[x[2]][i] = "live" /\ row[y[2]][i] = "live"
    BY <2>1, <2>2
  <2> QED
    BY <1>1, <2>1, <2>3 DEF AccessInv, RowsFit, OneHolder
<1> QED
  BY <1>1, AccessInvHolds, PTL

(* NonceAdmitsOnce: one login or one link gets through with a nonce. *)
THEOREM NonceUsedOnce == AccessSpec => []NonceAdmitsOnce
<1>1. AccessInv => NonceAdmitsOnce
  BY DEF AccessInv, NoncesFit, NonceAdmitsOnce
<1> QED
  BY <1>1, AccessInvHolds, PTL

(* The refresh tokens keep their order under all the logins. *)
THEOREM TokensInOrderHere == AccessSpec => []SessionIsLinear
<1>1. AccessInv => SessionIsLinear
  BY DEF AccessInv, TokenInv
<1> QED
  BY <1>1, AccessInvHolds, PTL

(* AccountAccess implements RefreshTokens. *)
THEOREM LoginsRunTokens == AccessSpec => TokenSpec
<1>1. AccessInit => TokenInit
  BY DEF AccessInit
<1>2. AccessInv /\ [AccessNext]_vars => [TokenNext]_tokenVars
  BY TokenSteps
<1> QED
  BY <1>1, <1>2, AccessInvHolds, PTL DEF AccessSpec, TokenSpec

(* A session that is over stays over, whatever logins there are. *)
THEOREM NoRevivalHere == AccessSpec => OverIsOver
BY LoginsRunTokens, NoRevival, PTL

(***************************************************************************)
(* JoinsAreVouchedFor: what a first login read before its insert still     *)
(* holds when it inserts, so that an address joins an account only when    *)
(* its provider vouches for it.                                            *)
(***************************************************************************)
THEOREM OnlyVouchedForJoin == AccessSpec => JoinsAreVouchedFor
<1>1. ASSUME AccessInv, [AccessNext]_vars, NEW u \in Accounts, NEW i \in Identities,
             account[u].open, row[u][i] = "none", row'[u][i] # "none", ~IsWallet(i)
      PROVE  i \in Verified /\ EmailOf[i] = account[u].email
  <2>1. ASSUME NEW v, NEW j, NEW email, NEW password, Creates(v, j, email, password)
        PROVE  FALSE
    <3>1. /\ ~account[v].open
          /\ \A w \in Accounts, k \in Identities :
                row'[w][k] = IF w = v /\ k = j THEN "live" ELSE row[w][k]
      BY <1>1, <2>1, CreateRows
    <3> QED
      BY <1>1, <3>1
  <2>2. ASSUME NEW v, NEW j, Joins(v, j)
        PROVE  v = u /\ j = i /\ i \in Verified /\ EmailOf[i] = account[u].email
    <3>1. \A w \in Accounts, k \in Identities :
              row'[w][k] = IF w = v /\ k = j THEN "live" ELSE row[w][k]
      BY <1>1, <2>2, JoinKeeps
    <3>2. v = u /\ j = i
      BY <1>1, <3>1
    <3> QED
      BY <1>1, <2>2, <3>2 DEF Joins
  <2>3. ASSUME NEW v, NEW w, Links(v, w)
        PROVE  FALSE
    <3>1. \A x \in Accounts, j \in Identities :
              row'[x][j] = IF x # v THEN row[x][j]
                           ELSE IF j = w THEN "live"
                           ELSE IF IsWallet(j) /\ row[x][j] = "live" THEN "unlinked" ELSE row[x][j]
      BY <1>1, <2>3, LinkKeeps
    <3>2. IsWallet(w)
      BY <2>3 DEF Links
    <3> QED
      BY <1>1, <3>1, <3>2
  <2>4. ASSUME NEW v, NEW p, Unlinks(v, p)
        PROVE  FALSE
    <3>1. \A x \in Accounts, j \in Identities :
              row'[x][j] = IF x = v /\ ProviderOf[j] = p /\ row[x][j] = "live"
                           THEN "unlinked" ELSE row[x][j]
      BY <1>1, <2>4, UnlinkKeeps
    <3> QED
      BY <1>1, <3>1
  <2>5. ~UNCHANGED row
    BY <1>1
  <2> QED
    BY <1>1, <2>1, <2>2, <2>3, <2>4, <2>5, StepKinds DEF TableSteps, Enters, Leaves, accountVars
<1>2. AccessInv /\ [AccessNext]_vars
         => \A u \in Accounts, i \in Identities :
               (account[u].open /\ row[u][i] = "none" /\ row'[u][i] # "none" /\ ~IsWallet(i))
               => i \in Verified /\ EmailOf[i] = account[u].email
  BY <1>1
<1> QED
  BY <1>2, AccessInvHolds, PTL DEF AccessSpec, JoinsAreVouchedFor

(***************************************************************************)
(* LastWayInKept: of all the steps only an unlink takes the last way into  *)
(* an account, and only when the ways it counted were others by then, or   *)
(* were all of the provider it unlinks.                                    *)
(***************************************************************************)
THEOREM LastWayInIsKept == AccessSpec => LastWayInKept
<1>1. ASSUME AccessInv, [AccessNext]_vars, NEW u \in Accounts, account'[u].open, ~WayIn(u)'
      PROVE  \/ account[u].open /\ ~WayIn(u)
             \/ \E r \in Requests : /\ call[r].op = "unlink" /\ call[r].user = u
                                    /\ Misled(call[r])
  <2>1. ~account'[u].password /\ \A i \in Identities : row'[u][i] # "live"
    BY <1>1 DEF WayIn, LinkedTo
  <2>2. ASSUME NEW v, NEW i, NEW email, NEW password, Creates(v, i, email, password)
        PROVE  account[u].open /\ ~WayIn(u)
    <3>1. /\ v \in Accounts /\ i \in Identities
          /\ \A w \in Accounts \ {v} : account'[w] = account[w]
          /\ \A w \in Accounts, j \in Identities :
                row'[w][j] = IF w = v /\ j = i THEN "live" ELSE row[w][j]
      BY <1>1, <2>2, CreateRows
    <3>2. u # v
      BY <2>1, <3>1
    <3> QED
      BY <1>1, <2>1, <3>1, <3>2 DEF WayIn, LinkedTo
  <2>3. ASSUME NEW v, NEW i, Joins(v, i)
        PROVE  account[u].open /\ ~WayIn(u)
    <3>1. /\ v \in Accounts /\ i \in Identities /\ UNCHANGED account
          /\ \A w \in Accounts, j \in Identities :
                row'[w][j] = IF w = v /\ j = i THEN "live" ELSE row[w][j]
      BY <1>1, <2>3, JoinKeeps DEF Joins, OAuth
    <3> QED
      BY <1>1, <2>1, <3>1 DEF WayIn, LinkedTo
  <2>4. ASSUME NEW v, NEW w, Links(v, w)
        PROVE  account[u].open /\ ~WayIn(u)
    <3>1. /\ v \in Accounts /\ w \in Identities /\ UNCHANGED account
          /\ \A x \in Accounts, j \in Identities :
                row'[x][j] = IF x # v THEN row[x][j]
                             ELSE IF j = w THEN "live"
                             ELSE IF IsWallet(j) /\ row[x][j] = "live" THEN "unlinked" ELSE row[x][j]
      BY <1>1, <2>4, LinkKeeps DEF Links
    <3>2. u # v
      BY <2>1, <3>1
    <3> QED
      BY <1>1, <2>1, <3>1, <3>2 DEF WayIn, LinkedTo
  <2>5. ASSUME NEW v, NEW p, Unlinks(v, p), account[u].open, WayIn(u)
        PROVE  \E r \in Requests : /\ call[r].op = "unlink" /\ call[r].user = u
                                   /\ Misled(call[r])
    <3>1. /\ UNCHANGED account
          /\ \A x \in Accounts, j \in Identities :
                row'[x][j] = IF x = v /\ ProviderOf[j] = p /\ row[x][j] = "live"
                             THEN "unlinked" ELSE row[x][j]
      BY <1>1, <2>5, UnlinkKeeps DEF Unlinks
    <3>2. PICK r \in Requests : /\ call[r].op = "unlink" /\ call[r].user = v /\ call[r].provider = p
                                /\ call[r].count > 1 \/ account[v].password
      BY <2>5 DEF Unlinks
    <3>3. ~account[u].password /\ LinkedTo(u) # {}
      BY <2>1, <2>5, <3>1 DEF WayIn
    <3>4. u = v
      BY <2>1, <3>1, <3>3 DEF LinkedTo
    <3>5. \A i \in LinkedTo(u) : ProviderOf[i] = p
      BY <2>1, <3>1, <3>4 DEF LinkedTo
    <3>6. call[r].count > 1
      BY <3>2, <3>3, <3>4
    <3> QED
      BY <3>2, <3>4, <3>5, <3>6 DEF Misled
  <2>6. ASSUME UNCHANGED <<account, row>>
        PROVE  account[u].open /\ ~WayIn(u)
    BY <1>1, <2>6 DEF WayIn, LinkedTo
  <2>7. ASSUME NEW v, NEW p, Unlinks(v, p)
        PROVE  account[u].open
    BY <1>1, <2>7 DEF Unlinks
  <2> QED
    BY <1>1, <2>2, <2>3, <2>4, <2>5, <2>6, <2>7, StepKinds DEF TableSteps, Enters, Leaves, accountVars
<1>2. AccessInv /\ [AccessNext]_vars
         => \A u \in Accounts :
               account'[u].open /\ ~WayIn(u)' =>
                   \/ account[u].open /\ ~WayIn(u)
                   \/ \E r \in Requests : /\ call[r].op = "unlink" /\ call[r].user = u
                                          /\ Misled(call[r])
  BY <1>1
<1> QED
  BY <1>2, AccessInvHolds, PTL DEF AccessSpec, LastWayInKept

-----------------------------------------------------------------------------
(* The cookies of one browser.                                             *)

(* What an answer does to one cookie: nothing, or it sets a value. *)
Choice(S) == {{}} \cup {{x} : x \in S}
Redirects == Targets \cup {""}
Changes == [refresh : Choice({NoToken} \cup DOMAIN token),
            state : Choice({NoLogin} \cup DOMAIN started), redirect : Choice(Redirects)]

LoginRows == [provider : {"twitch", "google"}, target : Redirects, away : BOOLEAN]

(* What a connection carries. *)
Answers ==
    [op : {"answer"}, sets : Changes, login : {NoLogin}, lands : {""}]
    \cup [op : {"answer"}, sets : Changes, login : DOMAIN started, lands : Redirects]
Messages ==
    {Unused} \cup [op : {"login"}]
    \cup [op : {"refresh", "logout"}, token : DOMAIN token]
    \cup [op : {"start"}, login : DOMAIN started]
    \cup [op : {"callback"}, login : DOMAIN started, state : {NoLogin} \cup DOMAIN started,
          redirect : Redirects]
    \cup Answers

(* A request that rotates a token was sent with it. *)
WorksOn(r) == refreshing[r] # NoToken => http[r] = [op |-> "refresh", token |-> refreshing[r]]

(* Cookies, messages and logins are of their kinds. *)
BrowserTypes ==
    /\ jar \in Cookies
    /\ http \in [Requests -> Messages]
    /\ started \in Seq(LoginRows)
    /\ calm \in BOOLEAN
    /\ \A r \in Requests : WorksOn(r)

(***************************************************************************)
(* A state parameter that names a Twitch login comes with the target of    *)
(* that login: in the jar, in the requests and in the answers.  No answer  *)
(* sets the target without the state.                                      *)
(***************************************************************************)
AtTwitch(n) == n # NoLogin /\ started[n].provider = "twitch"
AnswerFits(m) ==
    /\ \A n \in m.sets.state : AtTwitch(n) => m.sets.redirect = {started[n].target}
    /\ m.sets.redirect # {} => m.sets.state # {}
    /\ m.lands # "" => m.lands = started[m.login].target
MessageFits(m) ==
    /\ m.op = "callback" /\ AtTwitch(m.state) => m.redirect = started[m.state].target
    /\ m.op = "answer" => AnswerFits(m)
TargetsTogether ==
    /\ AtTwitch(jar.state) => jar.redirect = started[jar.state].target
    /\ \A r \in Requests : MessageFits(http[r])

(***************************************************************************)
(* While all goes well the only copy of a new token is in the answer that  *)
(* brings it, so that the token is there until the answer arrives; and the *)
(* cookie holds a token that works or such an answer is under way.         *)
(***************************************************************************)
Brings(r, t) == http[r].op = "answer" /\ t \in http[r].sets.refresh
OnlyCopy(r, t) ==
    /\ t \in DOMAIN token /\ token[t].there /\ jar.refresh # t
    /\ \A q \in Requests :
          /\ http[q].op \in {"refresh", "logout"} => http[q].token # t
          /\ q # r => ~Brings(q, t)
OnlyCopies == \A r \in Requests, t \in Nat : Brings(r, t) => OnlyCopy(r, t)
CookieWorks == jar.refresh # NoToken /\ token[jar.refresh].there
SessionGoesOn == token # <<>> => CookieWorks \/ \E r \in Requests, t \in DOMAIN token : Brings(r, t)

BrowserInv ==
    /\ TokenInv /\ BrowserTypes
    /\ TargetsTogether
    /\ calm => OnlyCopies /\ SessionGoesOn

-----------------------------------------------------------------------------
(* One connection changes. *)

LoginsStay ==
    /\ started' \in Seq(LoginRows)
    /\ DOMAIN started \subseteq DOMAIN started'
    /\ \A n \in DOMAIN started :
          started'[n].provider = started[n].provider /\ started'[n].target = started[n].target

(* No token comes or goes, and none is carried that the jar has not got. *)
Quiet(r, m) ==
    /\ UNCHANGED token
    /\ m.op = "answer" => m.sets.refresh = {}
    /\ m.op \in {"refresh", "logout"} => m.token = jar.refresh \/ m = http[r]

(* The answer brings the new token of a login or of a refresh. *)
Renews(r, m) ==
    /\ m.op = "answer" /\ m.sets.refresh = {Len(token) + 1}
    /\ \/ \E u \in Accounts : IssueTokenPair(u)
       \/ Rotate(r) /\ http[r].op = "refresh" /\ http[r].token = refreshing[r]

Puts(r, m) ==
    /\ m \in Messages' /\ MessageFits(m)'
    /\ http' = [http EXCEPT ![r] = m]
    /\ UNCHANGED jar /\ LoginsStay
    /\ calm' \in BOOLEAN
    /\ calm' => calm /\ http[r].op # "answer" /\ (Quiet(r, m) \/ Renews(r, m))
    /\ \A q \in Requests \ {r} : refreshing'[q] = refreshing[q]
    /\ refreshing'[r] # NoToken => m = [op |-> "refresh", token |-> refreshing'[r]]

(* Rows are only added, and keep the order of the invariant of the tokens. *)
LEMMA TokensGrow ==
    ASSUME TokenInv, [TokenNext]_tokenVars
    PROVE  /\ TokenInv' /\ DOMAIN token \subseteq DOMAIN token'
           /\ token = <<>> \/ token' # <<>>
<1>1. TokenInv'
  BY StepHolds
<1>2. Len(token') >= Len(token)
  <2>1. token \in Seq(Rows) /\ Len(token) \in Nat
    BY DEF TokenInv, TokenTypeOK
  <2>2. ASSUME NEW u \in Accounts, IssueTokenPair(u) PROVE Len(token') >= Len(token)
    BY <2>1, <2>2, NewRow DEF IssueTokenPair
  <2>3. ASSUME NEW t \in DOMAIN token, Logout(t) PROVE Len(token') >= Len(token)
    BY <2>1, <2>3, WithoutRow DEF Logout
  <2>4. ASSUME NEW r \in Requests, Rotate(r) PROVE Len(token') >= Len(token)
    <3> DEFINE t == refreshing[r]
    <3>1. /\ t \in DOMAIN token /\ token' = Append(Without(t), Token(token[t].user, token[t].session))
          /\ token[t] \in Rows
      BY <2>1, <2>4 DEF Rotate, TokenInv, TokenTypeOK
    <3>2. Without(t) \in Seq(Rows) /\ Len(Without(t)) = Len(token)
      BY <2>1, <3>1, WithoutRow
    <3> HIDE DEF t
    <3>3. token[t].user \in Accounts /\ token[t].session \in Nat
      BY <3>1 DEF Rows
    <3> QED
      BY <2>1, <3>1, <3>2, <3>3, NewRow
  <2>5. ASSUME UNCHANGED token PROVE Len(token') >= Len(token)
    BY <2>1, <2>5
  <2> QED
    BY <2>2, <2>3, <2>4, <2>5 DEF TokenNext, TokenStep, RefreshLook, RefreshFail, tokenVars
<1>3. /\ token \in Seq(Rows) /\ Len(token) \in Nat /\ DOMAIN token = 1..Len(token)
      /\ token' \in Seq(Rows) /\ Len(token') \in Nat /\ DOMAIN token' = 1..Len(token')
  BY <1>1 DEF TokenInv, TokenTypeOK
<1> QED
  BY <1>1, <1>2, <1>3, EmptySeq

(* What is of its kind stays so when there are more tokens and logins. *)
LEMMA KindsStay ==
    ASSUME DOMAIN token \subseteq DOMAIN token', DOMAIN started \subseteq DOMAIN started'
    PROVE  Cookies \subseteq Cookies' /\ Changes \subseteq Changes' /\ Messages \subseteq Messages'
<1> DEFINE T == DOMAIN token
           S == DOMAIN started
           T1 == DOMAIN token'
           S1 == DOMAIN started'
<1>1. T \subseteq T1 /\ S \subseteq S1
  OBVIOUS
<1>2. /\ Changes = [refresh : Choice({NoToken} \cup T), state : Choice({NoLogin} \cup S), redirect : Choice(Redirects)]
      /\ Changes' = [refresh : Choice({NoToken} \cup T1), state : Choice({NoLogin} \cup S1), redirect : Choice(Redirects)]
      /\ Cookies = [refresh : {NoToken} \cup T, state : {NoLogin} \cup S, redirect : Redirects]
      /\ Cookies' = [refresh : {NoToken} \cup T1, state : {NoLogin} \cup S1, redirect : Redirects]
  BY DEF Changes, Cookies, Redirects
<1>3. /\ Messages = {Unused} \cup [op : {"login"}] \cup [op : {"refresh", "logout"}, token : T]
                    \cup [op : {"start"}, login : S]
                    \cup [op : {"callback"}, login : S, state : {NoLogin} \cup S, redirect : Redirects]
                    \cup ([op : {"answer"}, sets : Changes, login : {NoLogin}, lands : {""}]
                          \cup [op : {"answer"}, sets : Changes, login : S, lands : Redirects])
      /\ Messages' = {Unused} \cup [op : {"login"}] \cup [op : {"refresh", "logout"}, token : T1]
                    \cup [op : {"start"}, login : S1]
                    \cup [op : {"callback"}, login : S1, state : {NoLogin} \cup S1, redirect : Redirects]
                    \cup ([op : {"answer"}, sets : Changes', login : {NoLogin}, lands : {""}]
                          \cup [op : {"answer"}, sets : Changes', login : S1, lands : Redirects])
  BY DEF Messages, Answers
<1> HIDE DEF T, S, T1, S1
<1>4. \A A, B : A \subseteq B => Choice(A) \subseteq Choice(B)
  BY DEF Choice
<1>5. /\ Choice({NoToken} \cup T) \subseteq Choice({NoToken} \cup T1)
      /\ Choice({NoLogin} \cup S) \subseteq Choice({NoLogin} \cup S1)
  BY <1>1, <1>4
<1>6. Changes \subseteq Changes'
  BY <1>2, <1>5
<1>7. Cookies \subseteq Cookies'
  BY <1>1, <1>2
<1> DEFINE C == Changes
           C1 == Changes'
<1>8. C \subseteq C1
  BY <1>6
<1> HIDE DEF C, C1
<1>9. Messages \subseteq Messages'
  <2>1. [op : {"refresh", "logout"}, token : T] \subseteq [op : {"refresh", "logout"}, token : T1]
    BY <1>1
  <2>2. [op : {"start"}, login : S] \subseteq [op : {"start"}, login : S1]
    BY <1>1
  <2>3. [op : {"callback"}, login : S, state : {NoLogin} \cup S, redirect : Redirects]
            \subseteq [op : {"callback"}, login : S1, state : {NoLogin} \cup S1, redirect : Redirects]
    BY <1>1
  <2>4. [op : {"answer"}, sets : C, login : {NoLogin}, lands : {""}]
            \subseteq [op : {"answer"}, sets : C1, login : {NoLogin}, lands : {""}]
    BY <1>8
  <2>5. [op : {"answer"}, sets : C, login : S, lands : Redirects]
            \subseteq [op : {"answer"}, sets : C1, login : S1, lands : Redirects]
    BY <1>1, <1>8
  <2> QED
    BY <1>3, <2>1, <2>2, <2>3, <2>4, <2>5, Zenon DEF C, C1
<1> QED
  BY <1>6, <1>7, <1>9

(* The fields of each kind of message. *)
LEMMA MessageFields ==
    ASSUME NEW m \in Messages
    PROVE  /\ m = Unused \/ m.op # "none"
           /\ m.op \in {"refresh", "logout"} =>
                 m.token \in DOMAIN token /\ m \in [op : {"refresh", "logout"}, token : DOMAIN token]
           /\ m.op \in {"start", "callback"} => m.login \in DOMAIN started
           /\ m.op = "callback" => m.state \in {NoLogin} \cup DOMAIN started /\ m.redirect \in Redirects
           /\ m.op = "answer" => /\ m \in Answers
                                 /\ m.sets \in Changes /\ m.login \in {NoLogin} \cup DOMAIN started
                                 /\ m.lands # "" => m.login \in DOMAIN started
<1>1. \/ m = Unused \/ m \in [op : {"login"}]
      \/ m \in [op : {"refresh", "logout"}, token : DOMAIN token]
      \/ m \in [op : {"start"}, login : DOMAIN started]
      \/ m \in [op : {"callback"}, login : DOMAIN started, state : {NoLogin} \cup DOMAIN started,
                redirect : Redirects]
      \/ m \in Answers
  BY DEF Messages
<1>2. m \in Answers => /\ m.op = "answer" /\ m.sets \in Changes /\ m.login \in {NoLogin} \cup DOMAIN started
                       /\ m.lands # "" => m.login \in DOMAIN started
  BY DEF Answers
<1>3. m = Unused => m.op = "none"
  BY DEF Unused
<1> QED
  BY <1>1, <1>2, <1>3

(* What fits goes on fitting when there are more logins. *)
LEMMA FitsStay ==
    ASSUME LoginsStay, NEW m \in Messages, MessageFits(m)
    PROVE  MessageFits(m)'
<1>1. \A n \in {NoLogin} \cup DOMAIN started :
          AtTwitch(n)' => AtTwitch(n) /\ started'[n].target = started[n].target
  BY DEF LoginsStay, AtTwitch
<1>2. CASE m.op = "callback"
  BY <1>1, <1>2, MessageFields DEF MessageFits
<1>3. CASE m.op = "answer"
  <2>1. /\ m.sets.state \subseteq {NoLogin} \cup DOMAIN started
        /\ m.lands # "" => m.login \in DOMAIN started
    <3>1. m.sets.state \in Choice({NoLogin} \cup DOMAIN started)
      BY <1>3, MessageFields DEF Changes
    <3> QED
      BY <1>3, <3>1, MessageFields DEF Choice
  <2>2. AnswerFits(m)
    BY <1>3 DEF MessageFits
  <2>3. \A n \in m.sets.state : AtTwitch(n)' => m.sets.redirect = {started'[n].target}
    BY <1>1, <2>1, <2>2 DEF AnswerFits
  <2>4. m.lands # "" => m.lands = started'[m.login].target
    BY <2>1, <2>2 DEF AnswerFits, LoginsStay
  <2>5. AnswerFits(m)'
    BY <2>2, <2>3, <2>4 DEF AnswerFits
  <2> QED
    BY <1>3, <2>5 DEF MessageFits
<1> QED
  BY <1>2, <1>3 DEF MessageFits

(* The types and the targets outlast a new message. *)
LEMMA PutsKeepsTargets ==
    ASSUME BrowserInv, NEW r \in Requests, NEW m, Puts(r, m), DOMAIN token \subseteq DOMAIN token'
    PROVE  BrowserTypes' /\ TargetsTogether'
<1>1. /\ http \in [Requests -> Messages] /\ jar \in Cookies /\ jar' = jar
      /\ Cookies \subseteq Cookies' /\ Messages \subseteq Messages'
  BY KindsStay DEF BrowserInv, BrowserTypes, Puts, LoginsStay
<1>2. /\ http' \in [Requests -> Messages'] /\ http'[r] = m
      /\ \A q \in Requests \ {r} : http'[q] = http[q]
  BY <1>1 DEF Puts
<1>3. BrowserTypes'
  <2>1. \A q \in Requests : WorksOn(q)'
    BY <1>2 DEF BrowserInv, BrowserTypes, WorksOn, Puts
  <2>2. jar' \in Cookies' /\ calm' \in BOOLEAN /\ started' \in Seq(LoginRows)
    BY <1>1 DEF Puts, LoginsStay
  <2> QED
    BY <1>2, <2>1, <2>2 DEF BrowserTypes
<1>4. AtTwitch(jar.state)' => jar'.redirect = started'[jar'.state].target
  <2>1. jar.state \in {NoLogin} \cup DOMAIN started
    BY <1>1 DEF Cookies
  <2> QED
    BY <1>1, <2>1 DEF BrowserInv, TargetsTogether, AtTwitch, Puts, LoginsStay
<1>5. \A q \in Requests : MessageFits(http[q])'
  <2>1. ASSUME NEW q \in Requests \ {r} PROVE MessageFits(http[q])'
    <3>1. http[q] \in Messages /\ MessageFits(http[q]) /\ LoginsStay
      BY <1>1 DEF BrowserInv, TargetsTogether, Puts
    <3>2. PICK k \in Messages : k = http[q]
      BY <3>1
    <3>3. MessageFits(k)'
      BY <3>1, <3>2, FitsStay
    <3> QED
      BY <1>2, <3>2, <3>3 DEF MessageFits, AnswerFits, AtTwitch
  <2>2. MessageFits(http[r])'
    BY <1>2 DEF Puts, MessageFits, AnswerFits, AtTwitch
  <2> QED
    BY <2>1, <2>2
<1> QED
  BY <1>3, <1>4, <1>5 DEF TargetsTogether

(* So do the session and the single copies of the tokens. *)
LEMMA PutsKeepsCopies ==
    ASSUME BrowserInv, NEW r \in Requests, NEW m, Puts(r, m), calm', TokenInv',
           DOMAIN token \subseteq DOMAIN token', token = <<>> \/ token' # <<>>
    PROVE  OnlyCopies' /\ SessionGoesOn'
<1>1. /\ calm /\ OnlyCopies /\ SessionGoesOn
      /\ http[r].op # "answer" /\ (Quiet(r, m) \/ Renews(r, m))
  BY DEF Puts, BrowserInv
<1>2. /\ jar' = jar /\ http \in [Requests -> Messages]
      /\ http'[r] = m /\ \A q \in Requests \ {r} : http'[q] = http[q]
  BY DEF Puts, BrowserInv, BrowserTypes
<1>3. /\ DOMAIN token = 1..Len(token) /\ Len(token) \in Nat /\ token \in Seq(Rows)
      /\ jar.refresh \in {NoToken} \cup DOMAIN token
      /\ \A q \in Requests : http[q].op \in {"refresh", "logout"} => http[q].token \in DOMAIN token
      /\ \A q \in Requests, t \in Nat : Brings(q, t) => t \in DOMAIN token
  <2>1. \A q \in Requests : http[q].op \in {"refresh", "logout"} => http[q].token \in DOMAIN token
    BY <1>2, MessageFields
  <2>2. jar.refresh \in {NoToken} \cup DOMAIN token
    BY DEF BrowserInv, BrowserTypes, Cookies
  <2>3. \A q \in Requests, t \in Nat : Brings(q, t) => t \in DOMAIN token
    BY <1>1 DEF OnlyCopies, OnlyCopy
  <2>4. DOMAIN token = 1..Len(token) /\ Len(token) \in Nat /\ token \in Seq(Rows)
    BY DEF BrowserInv, TokenInv, TokenTypeOK
  <2> QED
    BY <2>1, <2>2, <2>3, <2>4
<1>4. \A q \in Requests \ {r}, t \in Nat : Brings(q, t)' <=> Brings(q, t)
  BY <1>2 DEF Brings
<1>5. CASE Quiet(r, m)
  <2>1. token' = token /\ \A t \in Nat : ~Brings(r, t)'
    BY <1>2, <1>5 DEF Quiet, Brings
  <2>2. ASSUME NEW q \in Requests, NEW t \in Nat, Brings(q, t)' PROVE OnlyCopy(q, t)'
    <3>1. q # r /\ Brings(q, t)
      BY <1>4, <2>1, <2>2
    <3>2. OnlyCopy(q, t)
      BY <1>1, <3>1 DEF OnlyCopies
    <3>3. m.op \in {"refresh", "logout"} => m.token # t
      BY <1>5, <3>2 DEF Quiet, OnlyCopy
    <3>4. ASSUME NEW p \in Requests
          PROVE  /\ http'[p].op \in {"refresh", "logout"} => http'[p].token # t
                 /\ p # q => ~Brings(p, t)'
      BY <1>2, <1>4, <2>1, <3>2, <3>3 DEF OnlyCopy
    <3> QED
      BY <1>2, <2>1, <3>2, <3>4 DEF OnlyCopy
  <2>3. SessionGoesOn'
    <3>1. ASSUME NEW q \in Requests, NEW t \in DOMAIN token, Brings(q, t)
          PROVE  Brings(q, t)'
      BY <1>1, <1>3, <1>4, <3>1 DEF Brings
    <3> QED
      BY <1>1, <1>2, <2>1, <3>1 DEF SessionGoesOn, CookieWorks
  <2> QED
    BY <2>2, <2>3 DEF OnlyCopies
<1>6. CASE Renews(r, m)
  <2> DEFINE k == Len(token) + 1
  <2>1. m.op = "answer" /\ m.sets.refresh = {k}
    BY <1>6 DEF Renews
  <2>2. /\ DOMAIN token' = DOMAIN token \cup {k} /\ token'[k].there
        /\ \A t \in DOMAIN token : token[t].there =>
              token'[t].there \/ (http[r].op = "refresh" /\ http[r].token = t)
    <3>1. CASE \E u \in Accounts : IssueTokenPair(u)
      BY <1>3, <3>1, NewRow DEF IssueTokenPair, Token
    <3>2. CASE Rotate(r) /\ http[r].op = "refresh" /\ http[r].token = refreshing[r]
      <4> DEFINE o == refreshing[r]
                 rest == Without(o)
      <4>1. /\ o \in DOMAIN token /\ token' = Append(rest, Token(token[o].user, token[o].session))
            /\ token[o] \in Rows
        BY <1>3, <3>2 DEF Rotate, BrowserInv, TokenInv, TokenTypeOK
      <4>2. rest \in Seq(Rows) /\ Len(rest) = Len(token) /\ DOMAIN rest = DOMAIN token
            /\ \A t \in DOMAIN token : rest[t].there = (token[t].there /\ t # o)
        BY <1>3, <4>1, WithoutRow
      <4>3. token[o].user \in Accounts /\ token[o].session \in Nat
        BY <4>1 DEF Rows
      <4>4. http[r].op = "refresh" /\ http[r].token = o
        BY <3>2
      <4> HIDE DEF o, rest
      <4>5. /\ DOMAIN token' = DOMAIN token \cup {k}
            /\ \A t \in DOMAIN token : token'[t] = rest[t]
            /\ token'[k] = Token(token[o].user, token[o].session)
        BY <4>1, <4>2, <4>3, NewRow
      <4>6. token'[k].there
        BY <4>5 DEF Token
      <4> QED
        BY <4>2, <4>4, <4>5, <4>6
    <3> QED
      BY <1>6, <3>1, <3>2 DEF Renews
  <2>3. k \in Nat /\ k \notin DOMAIN token /\ NoToken # k
    BY <1>3 DEF NoToken
  <2>4. \A t \in Nat : Brings(r, t)' <=> t = k
    BY <1>2, <2>1 DEF Brings
  <2>5. ASSUME NEW q \in Requests, NEW t \in Nat, Brings(q, t)' PROVE OnlyCopy(q, t)'
    <3>1. CASE q = r
      <4>1. t = k
        BY <2>4, <2>5, <3>1
      <4>2. \A p \in Requests \ {r} : ~Brings(p, t)'
        BY <1>3, <1>4, <2>3, <4>1
      <4>3. ASSUME NEW p \in Requests, http'[p].op \in {"refresh", "logout"}
            PROVE  http'[p].token # t
        BY <1>2, <1>3, <2>1, <2>3, <4>1, <4>3
      <4> QED
        BY <1>2, <1>3, <2>2, <2>3, <3>1, <4>1, <4>2, <4>3 DEF OnlyCopy
    <3>2. CASE q # r
      <4>1. Brings(q, t) /\ OnlyCopy(q, t)
        BY <1>1, <1>4, <2>5, <3>2 DEF OnlyCopies
      <4>2. token'[t].there /\ t \in DOMAIN token' /\ t # k
        BY <1>1, <2>2, <2>3, <4>1 DEF OnlyCopy
      <4>3. ASSUME NEW p \in Requests
            PROVE  /\ http'[p].op \in {"refresh", "logout"} => http'[p].token # t
                   /\ p # q => ~Brings(p, t)'
        BY <1>2, <1>4, <2>1, <2>4, <4>1, <4>2 DEF OnlyCopy
      <4> QED
        BY <1>2, <4>1, <4>2, <4>3 DEF OnlyCopy
    <3> QED
      BY <3>1, <3>2
  <2>6. SessionGoesOn'
    BY <2>2, <2>3, <2>4 DEF SessionGoesOn
  <2> QED
    BY <2>5, <2>6 DEF OnlyCopies
<1> QED
  BY <1>1, <1>5, <1>6

(* What an answer does to the cookies. *)
LEMMA AppliedCookies ==
    ASSUME jar \in Cookies, NEW changes \in Changes
    PROVE  /\ Applied(changes) \in Cookies
           /\ changes.refresh = {} => Applied(changes).refresh = jar.refresh
           /\ changes.refresh # {} => changes.refresh = {Applied(changes).refresh}
           /\ changes.state = {} => Applied(changes).state = jar.state
           /\ changes.state # {} => changes.state = {Applied(changes).state}
           /\ changes.redirect = {} => Applied(changes).redirect = jar.redirect
           /\ changes.redirect # {} => changes.redirect = {Applied(changes).redirect}
<1> DEFINE new(S, old) == IF S = {} THEN old ELSE CHOOSE v \in S : TRUE
<1>1. ASSUME NEW A, NEW S \in Choice(A), NEW old \in A
      PROVE  /\ new(S, old) \in A
             /\ S = {} => new(S, old) = old
             /\ S # {} => S = {new(S, old)}
  <2>1. CASE S = {}
    BY <2>1
  <2>2. CASE S # {}
    <3>1. PICK x \in A : S = {x}
      BY <2>2 DEF Choice
    <3>2. (CHOOSE v \in S : TRUE) = x
      BY <3>1
    <3> QED
      BY <2>2, <3>1, <3>2
  <2> QED
    BY <2>1, <2>2
<1>2. /\ jar = [refresh |-> jar.refresh, state |-> jar.state, redirect |-> jar.redirect]
      /\ DOMAIN jar = {"refresh", "state", "redirect"}
      /\ jar.refresh \in {NoToken} \cup DOMAIN token /\ jar.state \in {NoLogin} \cup DOMAIN started
      /\ jar.redirect \in Redirects
  BY DEF Cookies, Redirects
<1>3. /\ changes.refresh \in Choice({NoToken} \cup DOMAIN token)
      /\ changes.state \in Choice({NoLogin} \cup DOMAIN started)
      /\ changes.redirect \in Choice(Redirects)
  BY DEF Changes
<1>4. Applied(changes) = [k \in {"refresh", "state", "redirect"} |-> new(changes[k], jar[k])]
  BY <1>2 DEF Applied
<1> HIDE DEF new
<1>5. /\ Applied(changes).refresh = new(changes.refresh, jar.refresh)
      /\ Applied(changes).state = new(changes.state, jar.state)
      /\ Applied(changes).redirect = new(changes.redirect, jar.redirect)
      /\ Applied(changes) = [refresh |-> new(changes.refresh, jar.refresh),
                             state |-> new(changes.state, jar.state),
                             redirect |-> new(changes.redirect, jar.redirect)]
  BY <1>4
<1>6. /\ new(changes.refresh, jar.refresh) \in {NoToken} \cup DOMAIN token
      /\ new(changes.state, jar.state) \in {NoLogin} \cup DOMAIN started
      /\ new(changes.redirect, jar.redirect) \in Redirects
  BY <1>1, <1>2, <1>3
<1>7. Applied(changes) \in Cookies
  BY <1>5, <1>6 DEF Cookies, Redirects
<1> QED
  BY <1>1, <1>2, <1>3, <1>5, <1>7

(* An answer arrives: what it sets together arrives together. *)
LEMMA ArriveKeeps ==
    ASSUME BrowserInv, NEW r \in Requests, Arrive(r)
    PROVE  BrowserInv'
<1> DEFINE c == http[r].sets
<1>1. /\ http \in [Requests -> Messages] /\ jar \in Cookies
      /\ started \in Seq(LoginRows)
      /\ http[r].op = "answer" /\ http[r] \in Messages /\ c \in Changes
  BY MessageFields DEF BrowserInv, BrowserTypes, Arrive
<1>2. /\ jar' = Applied(c) /\ token' = token /\ refreshing' = refreshing /\ calm' = calm
      /\ http' = [http EXCEPT ![r] = Unused]
      /\ started' = [n \in DOMAIN started |->
                        IF c.state = {n} THEN [started[n] EXCEPT !.away = TRUE] ELSE started[n]]
  BY DEF Arrive, tokenVars
<1>3. LoginsStay /\ DOMAIN started' = DOMAIN started
  <2>1. /\ Len(started) \in Nat /\ DOMAIN started = 1..Len(started)
        /\ \A n \in DOMAIN started : started[n] \in LoginRows
    BY <1>1
  <2>2. ASSUME NEW n \in DOMAIN started
        PROVE  LET s == [started[n] EXCEPT !.away = TRUE]
               IN  s \in LoginRows /\ s.provider = started[n].provider /\ s.target = started[n].target
    BY <2>1 DEF LoginRows
  <2>3. /\ started' \in [1..Len(started) -> LoginRows]
        /\ \A n \in DOMAIN started :
              started'[n].provider = started[n].provider /\ started'[n].target = started[n].target
    BY <1>2, <2>1, <2>2
  <2>4. started' \in Seq(LoginRows)
    BY <2>1, <2>3, IsASeq
  <2> QED
    BY <1>2, <2>3, <2>4 DEF LoginsStay
<1>4. Cookies \subseteq Cookies' /\ Messages \subseteq Messages' /\ Unused \in Messages'
  BY <1>2, <1>3, KindsStay DEF Messages
<1>5. /\ http' \in [Requests -> Messages'] /\ http'[r] = Unused
      /\ \A q \in Requests \ {r} : http'[q] = http[q]
  BY <1>1, <1>2, <1>4
<1> DEFINE new == Applied(c)
<1>6. /\ new \in Cookies
      /\ c.refresh = {} => new.refresh = jar.refresh
      /\ c.refresh # {} => c.refresh = {new.refresh}
      /\ c.state = {} => new.state = jar.state
      /\ c.state # {} => c.state = {new.state}
      /\ c.redirect = {} => new.redirect = jar.redirect
      /\ c.redirect # {} => c.redirect = {new.redirect}
  BY <1>1, AppliedCookies
<1>7. jar' = new
  BY <1>2
<1> HIDE DEF new
<1>8. Unused.op = "none"
  BY DEF Unused
<1>9. BrowserTypes'
  <2>1. \A q \in Requests : WorksOn(q)'
    <3>1. refreshing[r] = NoToken
      BY <1>1 DEF BrowserInv, BrowserTypes, WorksOn
    <3> QED
      BY <1>2, <1>5, <3>1 DEF BrowserInv, BrowserTypes, WorksOn
  <2>2. jar' \in Cookies' /\ calm' \in BOOLEAN
    BY <1>2, <1>4, <1>6, <1>7 DEF BrowserInv, BrowserTypes
  <2> QED
    BY <1>3, <1>5, <2>1, <2>2 DEF BrowserTypes, LoginsStay
<1>10. TargetsTogether'
  <2>1. AnswerFits(http[r])
    BY <1>1 DEF BrowserInv, TargetsTogether, MessageFits
  <2>2. AtTwitch(new.state) => new.redirect = started[new.state].target
    <3>1. CASE c.state = {}
      BY <1>6, <2>1, <3>1 DEF BrowserInv, TargetsTogether, AnswerFits
    <3>2. CASE c.state # {}
      <4>1. new.state \in c.state
        BY <1>6, <3>2
      <4>2. AtTwitch(new.state) => c.redirect = {started[new.state].target}
        BY <2>1, <4>1 DEF AnswerFits
      <4> QED
        BY <1>6, <4>2
    <3> QED
      BY <3>1, <3>2
  <2>3. AtTwitch(jar.state)' => jar'.redirect = started'[jar'.state].target
    <3>1. new.state \in {NoLogin} \cup DOMAIN started
      BY <1>6 DEF Cookies
    <3> QED
      BY <1>3, <1>7, <2>2, <3>1 DEF AtTwitch, LoginsStay
  <2>4. ASSUME NEW q \in Requests PROVE MessageFits(http[q])'
    <3>1. CASE q = r
      BY <1>5, <1>8, <3>1 DEF MessageFits
    <3>2. CASE q # r
      <4>1. http[q] \in Messages /\ MessageFits(http[q])
        BY <1>1 DEF BrowserInv, TargetsTogether
      <4>2. PICK k \in Messages : k = http[q]
        BY <4>1
      <4>3. MessageFits(k)'
        BY <1>3, <4>1, <4>2, FitsStay
      <4> QED
        BY <1>5, <3>2, <4>2, <4>3 DEF MessageFits, AnswerFits, AtTwitch
    <3> QED
      BY <3>1, <3>2
  <2> QED
    BY <2>3, <2>4 DEF TargetsTogether
<1>11. ASSUME calm' PROVE OnlyCopies' /\ SessionGoesOn'
  <2>1. calm /\ OnlyCopies /\ SessionGoesOn
    BY <1>2, <1>11 DEF BrowserInv
  <2>2. /\ \A q \in Requests \ {r}, t \in Nat : Brings(q, t)' <=> Brings(q, t)
        /\ \A t \in Nat : ~Brings(r, t)'
    BY <1>5, <1>8 DEF Brings
  <2>3. /\ new.refresh \in Nat
        /\ c.refresh # {} => Brings(r, new.refresh) /\ OnlyCopy(r, new.refresh)
    <3>1. new.refresh \in {NoToken} \cup DOMAIN token
      BY <1>6 DEF Cookies
    <3>2. DOMAIN token \subseteq Nat
      BY DEF BrowserInv, TokenInv, TokenTypeOK
    <3>3. c.refresh # {} => Brings(r, new.refresh)
      BY <1>1, <1>6 DEF Brings
    <3> QED
      BY <2>1, <3>1, <3>2, <3>3 DEF OnlyCopies, NoToken
  <2>4. ASSUME NEW q \in Requests, NEW t \in Nat, Brings(q, t)' PROVE OnlyCopy(q, t)'
    <3>1. q # r /\ Brings(q, t) /\ OnlyCopy(q, t)
      BY <2>1, <2>2, <2>4 DEF OnlyCopies
    <3>2. new.refresh # t
      BY <1>6, <2>3, <3>1 DEF OnlyCopy
    <3>3. ASSUME NEW p \in Requests
          PROVE  /\ http'[p].op \in {"refresh", "logout"} => http'[p].token # t
                 /\ p # q => ~Brings(p, t)'
      BY <1>5, <1>8, <2>2, <3>1 DEF OnlyCopy
    <3> QED
      BY <1>2, <1>7, <3>1, <3>2, <3>3 DEF OnlyCopy
  <2>5. SessionGoesOn'
    <3>1. CASE c.refresh = {}
      <4>1. DOMAIN token \subseteq Nat
        BY DEF BrowserInv, TokenInv, TokenTypeOK
      <4>2. ASSUME NEW q \in Requests, NEW t \in DOMAIN token, Brings(q, t)
            PROVE  Brings(q, t)'
        <5>1. q # r
          BY <3>1, <4>2 DEF Brings
        <5> QED
          BY <2>2, <4>1, <4>2, <5>1
      <4> QED
        BY <1>2, <1>6, <1>7, <2>1, <3>1, <4>2 DEF SessionGoesOn, CookieWorks
    <3>2. CASE c.refresh # {}
      <4>1. new.refresh # NoToken
        BY <2>3, <3>2 DEF OnlyCopy, NoToken, BrowserInv, TokenInv, TokenTypeOK
      <4> QED
        BY <1>2, <1>7, <2>3, <3>2, <4>1 DEF SessionGoesOn, CookieWorks, OnlyCopy
    <3> QED
      BY <3>1, <3>2
  <2> QED
    BY <2>4, <2>5 DEF OnlyCopies
<1>12. TokenInv'
  BY <1>2, SameRowsHold DEF BrowserInv, TokenInv, TokenTypeOK
<1> QED
  BY <1>9, <1>10, <1>11, <1>12 DEF BrowserInv

(* The answers that the handlers write, cookie by cookie. *)
LEMMA AnswersAre ==
    ASSUME NEW t, NEW n, NEW R
    PROVE  /\ Same = [refresh |-> {}, state |-> {}, redirect |-> {}]
           /\ Setting(t) = [refresh |-> {t}, state |-> {}, redirect |-> {}]
           /\ StateCookie(n) = [refresh |-> {}, state |-> {n}, redirect |-> {}]
           /\ [StateCookie(n) EXCEPT !.redirect = R] = [refresh |-> {}, state |-> {n}, redirect |-> R]
           /\ ClearedState = [refresh |-> {}, state |-> {NoLogin}, redirect |-> {}]
           /\ ClearedRedirect = [refresh |-> {}, state |-> {NoLogin}, redirect |-> {""}]
           /\ [ClearedState EXCEPT !.refresh = {t}] = [refresh |-> {t}, state |-> {NoLogin}, redirect |-> {}]
           /\ [ClearedRedirect EXCEPT !.refresh = {t}] = [refresh |-> {t}, state |-> {NoLogin}, redirect |-> {""}]
<1>1. Same = [refresh |-> {}, state |-> {}, redirect |-> {}]
  BY DEF Same
<1>2. Setting(t) = [refresh |-> {t}, state |-> {}, redirect |-> {}]
  BY <1>1 DEF Setting
<1>3. \A x : StateCookie(x) = [refresh |-> {}, state |-> {x}, redirect |-> {}]
  BY <1>1 DEF StateCookie
<1>4. ClearedState = [refresh |-> {}, state |-> {NoLogin}, redirect |-> {}]
  BY <1>3 DEF ClearedState
<1>5. ASSUME NEW w, NEW a, NEW b, NEW d, NEW S, w = [refresh |-> a, state |-> b, redirect |-> d]
      PROVE  /\ [w EXCEPT !.redirect = S] = [refresh |-> a, state |-> b, redirect |-> S]
             /\ [w EXCEPT !.refresh = S] = [refresh |-> S, state |-> b, redirect |-> d]
  BY <1>5
<1>6. ClearedRedirect = [refresh |-> {}, state |-> {NoLogin}, redirect |-> {""}]
  <2> DEFINE w == ClearedState
  <2>1. w = [refresh |-> {}, state |-> {NoLogin}, redirect |-> {}] /\ ClearedRedirect = [w EXCEPT !.redirect = {""}]
    BY <1>4 DEF ClearedRedirect
  <2> HIDE DEF w
  <2> QED
    BY <1>5, <2>1
<1>7. [StateCookie(n) EXCEPT !.redirect = R] = [refresh |-> {}, state |-> {n}, redirect |-> R]
  <2> DEFINE w == StateCookie(n)
  <2>1. w = [refresh |-> {}, state |-> {n}, redirect |-> {}]
    BY <1>3
  <2> HIDE DEF w
  <2>2. [w EXCEPT !.redirect = R] = [refresh |-> {}, state |-> {n}, redirect |-> R]
    BY <1>5, <2>1
  <2> QED
    BY <2>2 DEF w
<1>8. [ClearedState EXCEPT !.refresh = {t}] = [refresh |-> {t}, state |-> {NoLogin}, redirect |-> {}]
  <2> DEFINE w == ClearedState
  <2>1. w = [refresh |-> {}, state |-> {NoLogin}, redirect |-> {}]
    BY <1>4
  <2> HIDE DEF w
  <2>2. [w EXCEPT !.refresh = {t}] = [refresh |-> {t}, state |-> {NoLogin}, redirect |-> {}]
    BY <1>5, <2>1
  <2> QED
    BY <2>2 DEF w
<1>9. [ClearedRedirect EXCEPT !.refresh = {t}] = [refresh |-> {t}, state |-> {NoLogin}, redirect |-> {""}]
  <2> DEFINE w == ClearedRedirect
             D == {""}
  <2>1. w = [refresh |-> {}, state |-> {NoLogin}, redirect |-> D]
    BY <1>6
  <2> HIDE DEF w, D
  <2>2. [w EXCEPT !.refresh = {t}] = [refresh |-> {t}, state |-> {NoLogin}, redirect |-> D]
    BY <1>5, <2>1
  <2> QED
    BY <2>2 DEF w, D
<1> QED
  BY <1>1, <1>2, <1>3, <1>4, <1>6, <1>7, <1>8, <1>9, Zenon

(* Who is rotating a token is no other kind of request. *)
LEMMA OnlyRefreshes ==
    ASSUME BrowserTypes, NEW r \in Requests, http[r].op # "refresh"
    PROVE  refreshing[r] = NoToken
<1> QED
  BY DEF BrowserTypes, WorksOn

(***************************************************************************)
(* A handler answers: the token in the answer is new or it is NoToken, and *)
(* the target is that of the Twitch login that the state parameter names.  *)
(***************************************************************************)
NewToken(r) ==
    \/ \E u \in Accounts : IssueTokenPair(u)
    \/ Rotate(r) /\ http[r].op = "refresh" /\ http[r].token = refreshing[r]
Serves(r, refresh, state, redirect, login, lands) ==
    /\ http[r].op \notin {"none", "answer"}
    /\ UNCHANGED <<jar, started>>
    /\ refresh \in Choice({NoToken} \cup DOMAIN token')
    /\ state \in Choice({NoLogin} \cup DOMAIN started)
    /\ redirect \in Choice(Redirects)
    /\ redirect # {} => state # {}
    /\ \A n \in state : AtTwitch(n) => redirect = {started[n].target}
    /\ login \in {NoLogin} \cup DOMAIN started /\ lands \in Redirects
    /\ lands # "" => login \in DOMAIN started /\ lands = started[login].target
    /\ http' = [http EXCEPT ![r] =
                   Answer([refresh |-> refresh, state |-> state, redirect |-> redirect], login, lands)]
    /\ calm' \in BOOLEAN
    /\ calm' => /\ calm
                /\ (token' = token /\ refresh = {}) \/ (NewToken(r) /\ refresh = {Len(token) + 1})
    /\ \A q \in Requests \ {r} : refreshing'[q] = refreshing[q]
    /\ refreshing'[r] = NoToken

(* Such an answer is a step of one connection. *)
LEMMA AnswerPuts ==
    ASSUME BrowserInv, NEW r \in Requests, NEW refresh, NEW state, NEW redirect, NEW login, NEW lands,
           Serves(r, refresh, state, redirect, login, lands)
    PROVE  \E m : Puts(r, m)
<1>0. PICK c, m : /\ c = [refresh |-> refresh, state |-> state, redirect |-> redirect]
                  /\ m = Answer(c, login, lands)
  OBVIOUS
<1>1. /\ c.refresh = refresh /\ c.state = state /\ c.redirect = redirect
      /\ c \in [refresh : Choice({NoToken} \cup DOMAIN token'),
                state : Choice({NoLogin} \cup DOMAIN started), redirect : Choice(Redirects)]
  BY <1>0 DEF Serves
<1>2. /\ c \in Changes'
      /\ started' = started
  BY <1>1 DEF Changes, Redirects, Serves
<1>3. /\ m = [op |-> "answer", sets |-> c, login |-> login, lands |-> lands]
      /\ m.op = "answer" /\ m.sets = c /\ m.login = login /\ m.lands = lands
  BY <1>0 DEF Answer
<1>4. m \in Messages'
  <2>1. login \in DOMAIN started \/ (login = NoLogin /\ lands = "")
    BY DEF Serves
  <2>2. CASE login \in DOMAIN started
    <3>1. m \in [op : {"answer"}, sets : Changes', login : DOMAIN started', lands : Redirects]
      BY <1>2, <1>3, <2>2 DEF Serves
    <3> QED
      BY <3>1 DEF Messages, Answers, Redirects
  <2>3. CASE login = NoLogin /\ lands = ""
    <3>1. m \in [op : {"answer"}, sets : Changes', login : {NoLogin}, lands : {""}]
      BY <1>2, <1>3, <2>3
    <3> QED
      BY <3>1 DEF Messages, Answers
  <2> QED
    BY <2>1, <2>2, <2>3
<1>5. MessageFits(m)'
  BY <1>1, <1>2, <1>3 DEF MessageFits, AnswerFits, AtTwitch, Serves
<1>6. LoginsStay
  BY <1>2 DEF LoginsStay, BrowserInv, BrowserTypes
<1>7. calm' \in BOOLEAN /\ (calm' => calm /\ (Quiet(r, m) \/ Renews(r, m)))
  <2>1. token' = token /\ refresh = {} => Quiet(r, m)
    BY <1>1, <1>3 DEF Quiet
  <2>2. NewToken(r) /\ refresh = {Len(token) + 1} => Renews(r, m)
    BY <1>1, <1>3 DEF Renews, NewToken
  <2> QED
    BY <2>1, <2>2 DEF Serves
<1>8. http' = [http EXCEPT ![r] = m]
  BY <1>0 DEF Serves
<1>9. Puts(r, m)
  BY <1>3, <1>4, <1>5, <1>6, <1>7, <1>8 DEF Puts, Serves
<1> QED
  BY <1>9

(* A request that fits is a step of one connection. *)
LEMMA SendPuts ==
    ASSUME BrowserInv, NEW r \in Requests, http[r] = Unused, NEW m,
           UNCHANGED <<tokenVars, jar, calm>>, LoginsStay,
           http' = [http EXCEPT ![r] = m],
           m.op \notin {"none", "answer"}, m \in Messages', MessageFits(m)',
           m.op \in {"refresh", "logout"} => m.token = jar.refresh
    PROVE  \E n : Puts(r, n)
<1>1. http[r].op = "none"
  BY DEF Unused
<1>2. refreshing' = refreshing /\ token' = token /\ refreshing[r] = NoToken
  BY <1>1, OnlyRefreshes DEF tokenVars, BrowserInv
<1>3. Quiet(r, m)
  BY <1>2 DEF Quiet
<1>4. Puts(r, m)
  BY <1>1, <1>2, <1>3 DEF Puts, BrowserInv, BrowserTypes
<1> QED
  BY <1>4

(* A login more has the next number and leaves the others alone. *)
LEMMA NewLogin ==
    ASSUME NEW rows \in Seq(LoginRows), NEW login \in LoginRows
    PROVE  LET more == Append(rows, login)
           IN  /\ more \in Seq(LoginRows) /\ DOMAIN more = DOMAIN rows \cup {Len(rows) + 1}
               /\ \A n \in DOMAIN rows : more[n] = rows[n]
<1> DEFINE more == Append(rows, login)
<1>1. /\ more \in Seq(LoginRows)
      /\ Len(more) = Len(rows) + 1
      /\ \A n \in 1..Len(rows) : more[n] = rows[n]
  BY AppendProperties
<1>2. DOMAIN rows = 1..Len(rows) /\ Len(rows) \in Nat
  OBVIOUS
<1>3. DOMAIN more = 1..(Len(rows) + 1)
  BY <1>1
<1> QED
  BY <1>1, <1>2, <1>3

(* The requests a browser sends. *)
LEMMA SendSteps ==
    ASSUME BrowserInv, NEW r \in Requests,
           \/ SendLogin(r) \/ SendRefresh(r) \/ SendLogout(r)
           \/ \E target \in Targets \cup {""}, provider \in {"twitch", "google"} :
                 SendStart(r, provider, target)
           \/ \E n \in DOMAIN started : SendCallback(r, n)
    PROVE  \E m : Puts(r, m)
<1>1. /\ jar \in Cookies /\ started \in Seq(LoginRows) /\ Len(started) \in Nat
      /\ DOMAIN started = 1..Len(started)
  <2>1. jar \in Cookies /\ started \in Seq(LoginRows)
    BY DEF BrowserInv, BrowserTypes
  <2> QED
    BY <2>1, LenProperties
<1>2. UNCHANGED started => LoginsStay
  BY <1>1 DEF LoginsStay
<1>3. CASE SendLogin(r)
  <2> DEFINE m == [op |-> "login"]
  <2>1. m \in Messages' /\ MessageFits(m)'
    BY DEF Messages, MessageFits
  <2>2. /\ http[r] = Unused /\ http' = [http EXCEPT ![r] = m] /\ UNCHANGED <<tokenVars, jar, calm>>
        /\ LoginsStay
    BY <1>2, <1>3 DEF SendLogin, Send
  <2>3. m.op = "login"
    OBVIOUS
  <2> HIDE DEF m
  <2> QED
    BY <2>1, <2>2, <2>3, SendPuts
<1>4. ASSUME NEW op \in {"refresh", "logout"}, jar.refresh # NoToken, Send(r, WithToken(op)), UNCHANGED started
      PROVE  \E m : Puts(r, m)
  <2>0. PICK m : m = [op |-> op, token |-> jar.refresh]
    OBVIOUS
  <2>1. http[r] = Unused /\ http' = [http EXCEPT ![r] = m] /\ UNCHANGED <<tokenVars, jar, calm>> /\ LoginsStay
    BY <1>2, <1>4, <2>0 DEF Send, WithToken
  <2>2. jar.refresh \in DOMAIN token /\ token' = token
    BY <1>1, <1>4, <2>1 DEF Cookies, tokenVars
  <2>3. m \in Messages' /\ MessageFits(m)'
    BY <2>0, <2>1, <2>2 DEF Messages, MessageFits
  <2>4. m.op \in {"refresh", "logout"} /\ m.token = jar.refresh
    BY <2>0
  <2> QED
    BY <2>1, <2>3, <2>4, SendPuts
<1>5. ASSUME NEW target \in Targets \cup {""}, NEW provider \in {"twitch", "google"}, SendStart(r, provider, target)
      PROVE  \E m : Puts(r, m)
  <2> DEFINE login == [provider |-> provider, target |-> target, away |-> FALSE]
  <2>0. PICK k, m : k = Len(started) + 1 /\ m = [op |-> "start", login |-> k]
    OBVIOUS
  <2>1. login \in LoginRows
    BY DEF LoginRows, Redirects
  <2>2. /\ http[r] = Unused /\ http' = [http EXCEPT ![r] = m] /\ UNCHANGED <<tokenVars, jar, calm>>
        /\ started' = Append(started, login)
    BY <1>5, <2>0 DEF SendStart, Send
  <2> HIDE DEF login
  <2>3. /\ started' \in Seq(LoginRows) /\ DOMAIN started' = DOMAIN started \cup {k}
        /\ \A n \in DOMAIN started : started'[n] = started[n]
    BY <1>1, <2>0, <2>1, <2>2, NewLogin
  <2>4. LoginsStay
    BY <2>3 DEF LoginsStay
  <2>5. m.op = "start"
    BY <2>0
  <2>6. m \in Messages' /\ MessageFits(m)'
    BY <2>0, <2>3 DEF Messages, MessageFits
  <2> QED
    BY <2>2, <2>4, <2>5, <2>6, SendPuts
<1>6. ASSUME NEW n \in DOMAIN started, SendCallback(r, n)
      PROVE  \E m : Puts(r, m)
  <2>0. PICK m : m = [op |-> "callback", login |-> n, state |-> jar.state, redirect |-> jar.redirect]
    OBVIOUS
  <2>1. /\ http[r] = Unused /\ http' = [http EXCEPT ![r] = m] /\ UNCHANGED <<tokenVars, jar, calm>>
        /\ started' = started /\ LoginsStay
    BY <1>2, <1>6, <2>0 DEF SendCallback, Send
  <2>2. jar.state \in {NoLogin} \cup DOMAIN started /\ jar.redirect \in Redirects
    BY <1>1 DEF Cookies, Redirects
  <2>3. m \in Messages'
    <3>1. m \in [op : {"callback"}, login : DOMAIN started, state : {NoLogin} \cup DOMAIN started, redirect : Redirects]
      BY <2>0, <2>2
    <3> QED
      BY <2>1, <3>1 DEF Messages, Redirects
  <2>4. m.op = "callback" /\ m.state = jar.state /\ m.redirect = jar.redirect
    BY <2>0
  <2>5. MessageFits(m)'
    BY <2>1, <2>4 DEF MessageFits, AtTwitch, BrowserInv, TargetsTogether
  <2> QED
    BY <2>1, <2>3, <2>4, <2>5, SendPuts
<1> QED
  BY <1>3, <1>4, <1>5, <1>6 DEF SendRefresh, SendLogout

(* Every step of a browser is a step of the refresh tokens, or leaves them alone. *)
LEMMA BrowserTokens ==
    ASSUME BrowserInv, BrowserNext
    PROVE  [TokenNext]_tokenVars
<1>1. /\ refreshing \in [Requests -> {NoToken} \cup DOMAIN token]
      /\ \A r \in Requests : http[r].op \in {"refresh", "logout"} => http[r].token \in DOMAIN token
  <2>1. http \in [Requests -> Messages]
    BY DEF BrowserInv, BrowserTypes
  <2> QED
    BY <2>1, MessageFields DEF BrowserInv, TokenInv, TokenTypeOK
<1>2. ASSUME NEW r \in Requests, refreshing' = [refreshing EXCEPT ![r] = NoToken], UNCHANGED token
      PROVE  [TokenNext]_tokenVars
  <2>1. CASE refreshing[r] = NoToken
    BY <1>1, <1>2, <2>1 DEF tokenVars
  <2>2. CASE refreshing[r] # NoToken
    BY <1>2, <2>2 DEF RefreshFail, TokenNext, TokenStep
  <2> QED
    BY <2>1, <2>2
<1>3. ASSUME NEW r \in Requests, RefreshStart(r)
      PROVE  TokenNext
  BY <1>1, <1>3 DEF RefreshStart, TokenNext, TokenStep
<1>4. ASSUME NEW r \in Requests, Refresh(r) \/ RefreshUnacknowledged(r)
      PROVE  TokenNext
  BY <1>4 DEF Refresh, RefreshUnacknowledged, TokenNext, TokenStep
<1>5. ASSUME NEW r \in Requests, RefreshRefused(r) \/ Broken(r)
      PROVE  [TokenNext]_tokenVars
  BY <1>2, <1>5 DEF RefreshRefused, Broken
<1>6. ASSUME NEW r \in Requests, RefreshExpired(r) \/ LogoutBrowser(r)
      PROVE  [TokenNext]_tokenVars
  BY <1>1, <1>6 DEF RefreshExpired, LogoutBrowser, TokenNext, TokenStep
<1>7. ASSUME NEW r \in Requests, NEW u \in Accounts,
             SignIn(r, u) \/ TwitchCallback(r, u) \/ GoogleCallback(r, u)
      PROVE  [TokenNext]_tokenVars
  BY <1>7 DEF SignIn, TwitchCallback, GoogleCallback, LetIn, TokenNext
<1>8. ASSUME NEW r \in Requests,
             \/ SendLogin(r) \/ SendRefresh(r) \/ SendLogout(r) \/ Arrive(r) \/ Lose(r)
             \/ \E target \in Targets \cup {""}, provider \in {"twitch", "google"} :
                   SendStart(r, provider, target)
             \/ \E n \in DOMAIN started : SendCallback(r, n)
             \/ TwitchLogin(r) \/ GoogleLogin(r)
      PROVE  UNCHANGED tokenVars
  BY <1>8 DEF SendLogin, SendRefresh, SendLogout, Arrive, Lose, SendStart, SendCallback, Send,
              TwitchLogin, GoogleLogin
<1> QED
  BY <1>3, <1>4, <1>5, <1>6, <1>7, <1>8 DEF BrowserNext

(* The new token of a login, and where it is in the answer. *)
LEMMA NewTokenRow ==
    ASSUME BrowserInv, NEW r \in Requests, NewToken(r)
    PROVE  {Len(token) + 1} \in Choice({NoToken} \cup DOMAIN token')
<1>1. token \in Seq(Rows) /\ refreshing \in [Requests -> {NoToken} \cup DOMAIN token]
  BY DEF BrowserInv, TokenInv, TokenTypeOK
<1>2. CASE \E u \in Accounts : IssueTokenPair(u)
  <2>1. Len(token) + 1 \in DOMAIN token'
    BY <1>1, <1>2, LenProperties, NewRow DEF IssueTokenPair
  <2> QED
    BY <2>1 DEF Choice
<1>3. CASE Rotate(r)
  <2> DEFINE o == refreshing[r]
             rest == Without(o)
  <2>1. /\ o \in DOMAIN token /\ token' = Append(rest, Token(token[o].user, token[o].session))
        /\ token[o] \in Rows
    BY <1>1, <1>3 DEF Rotate
  <2>2. rest \in Seq(Rows) /\ Len(rest) = Len(token)
    BY <1>1, <2>1, WithoutRow
  <2>3. token[o].user \in Accounts /\ token[o].session \in Nat
    BY <2>1 DEF Rows
  <2> HIDE DEF o, rest
  <2>4. Len(token) + 1 \in DOMAIN token'
    BY <2>1, <2>2, <2>3, NewRow
  <2> QED
    BY <2>4 DEF Choice
<1> QED
  BY <1>2, <1>3 DEF NewToken

(* The answers of the handlers. *)
LEMMA HandlerSteps ==
    ASSUME BrowserInv, NEW r \in Requests,
           \/ Refresh(r) \/ RefreshUnacknowledged(r) \/ RefreshRefused(r) \/ RefreshExpired(r)
           \/ LogoutBrowser(r) \/ TwitchLogin(r) \/ GoogleLogin(r) \/ Broken(r)
           \/ \E u \in Accounts : SignIn(r, u) \/ TwitchCallback(r, u) \/ GoogleCallback(r, u)
    PROVE  \E m : Puts(r, m)
<1> DEFINE k == Len(token) + 1
           msg == http[r]
<1>1. /\ token \in Seq(Rows) /\ refreshing \in [Requests -> {NoToken} \cup DOMAIN token]
      /\ started \in Seq(LoginRows) /\ calm \in BOOLEAN
      /\ http[r] \in Messages /\ MessageFits(http[r])
      /\ refreshing[r] # NoToken => http[r] = [op |-> "refresh", token |-> refreshing[r]]
      /\ http[r].op # "refresh" => refreshing[r] = NoToken
  BY OnlyRefreshes DEF BrowserInv, BrowserTypes, TokenInv, TokenTypeOK, TargetsTogether, WorksOn
<1>2. DOMAIN started = 1..Len(started) /\ NoLogin \notin DOMAIN started
  <2>1. DOMAIN started = 1..Len(started) /\ Len(started) \in Nat
    BY <1>1, LenProperties
  <2> QED
    BY <2>1 DEF NoLogin
<1>3. /\ \A S : {} \in Choice(S)
      /\ \A S : \A x \in S : {x} \in Choice(S)
      /\ "" \in Redirects /\ ~AtTwitch(NoLogin)
  BY DEF Choice, Redirects, AtTwitch
<1>4. CASE Refresh(r)
  <2>1. /\ http[r].op = "refresh" /\ http[r].token = refreshing[r] /\ Rotate(r)
        /\ refreshing' = [refreshing EXCEPT ![r] = NoToken]
    BY <1>1, <1>4 DEF Refresh, Rotate
  <2>2. NewToken(r) /\ {k} \in Choice({NoToken} \cup DOMAIN token')
    BY <2>1, NewTokenRow DEF NewToken
  <2>3. http' = [http EXCEPT ![r] = Answer([refresh |-> {k}, state |-> {}, redirect |-> {}], NoLogin, "")]
    BY <1>4, AnswersAre DEF Refresh, Told
  <2>4. Serves(r, {k}, {}, {}, NoLogin, "")
    BY <1>1, <1>3, <1>4, <2>1, <2>2, <2>3 DEF Serves, Refresh
  <2> QED
    BY <2>4, AnswerPuts
<1>5. CASE RefreshRefused(r) \/ Broken(r)
  <2>1. http' = [http EXCEPT ![r] = Answer([refresh |-> {}, state |-> {}, redirect |-> {}], NoLogin, "")]
    BY <1>5, AnswersAre DEF RefreshRefused, Broken, Told, Refused
  <2>2. /\ http[r].op \notin {"none", "answer"} /\ UNCHANGED <<token, jar, started, calm>>
        /\ refreshing' = [refreshing EXCEPT ![r] = NoToken]
    BY <1>5 DEF RefreshRefused, Broken
  <2>3. Serves(r, {}, {}, {}, NoLogin, "")
    BY <1>1, <1>3, <2>1, <2>2 DEF Serves
  <2> QED
    BY <2>3, AnswerPuts
<1>6. CASE RefreshExpired(r)
  <2>1. http' = [http EXCEPT ![r] = Answer([refresh |-> {}, state |-> {}, redirect |-> {}], NoLogin, "")]
    BY <1>6, AnswersAre DEF RefreshExpired, Told, Refused
  <2>2. Serves(r, {}, {}, {}, NoLogin, "")
    BY <1>1, <1>3, <1>6, <2>1 DEF Serves, RefreshExpired, Logout
  <2> QED
    BY <2>2, AnswerPuts
<1>7. CASE LogoutBrowser(r)
  <2>1. http' = [http EXCEPT ![r] = Answer([refresh |-> {NoToken}, state |-> {}, redirect |-> {}], NoLogin, "")]
    BY <1>7, AnswersAre DEF LogoutBrowser, Told
  <2>2. Serves(r, {NoToken}, {}, {}, NoLogin, "")
    BY <1>1, <1>3, <1>7, <2>1 DEF Serves, LogoutBrowser, Logout, tokenVars
  <2> QED
    BY <2>2, AnswerPuts
<1>8. CASE TwitchLogin(r)
  <2> DEFINE n == http[r].login
             R == {started[n].target}
  <2>1. n \in DOMAIN started /\ R \in Choice(Redirects)
    <3>1. n \in DOMAIN started
      BY <1>1, <1>8, MessageFields DEF TwitchLogin, Starting
    <3>2. started[n] \in LoginRows
      BY <1>1, <3>1, ElementOfSeq, <1>2
    <3> QED
      BY <1>3, <3>1, <3>2 DEF LoginRows
  <2>2. http' = [http EXCEPT ![r] = Answer([refresh |-> {}, state |-> {n}, redirect |-> R], NoLogin, "")]
    BY <1>8, AnswersAre DEF TwitchLogin, Told, RedirectCookie
  <2>3. Serves(r, {}, {n}, R, NoLogin, "")
    BY <1>1, <1>3, <1>8, <2>1, <2>2 DEF Serves, TwitchLogin, Starting, tokenVars
  <2> HIDE DEF n, R
  <2> QED
    BY <2>3, AnswerPuts
<1>9. CASE GoogleLogin(r)
  <2> DEFINE n == http[r].login
  <2>1. n \in DOMAIN started /\ ~AtTwitch(n)
    BY <1>1, <1>9, MessageFields DEF GoogleLogin, Starting, AtTwitch
  <2>2. http' = [http EXCEPT ![r] = Answer([refresh |-> {}, state |-> {n}, redirect |-> {}], NoLogin, "")]
    BY <1>9, AnswersAre DEF GoogleLogin, Told
  <2>3. Serves(r, {}, {n}, {}, NoLogin, "")
    BY <1>1, <1>3, <1>9, <2>1, <2>2 DEF Serves, GoogleLogin, Starting, tokenVars
  <2> HIDE DEF n
  <2> QED
    BY <2>3, AnswerPuts
<1>10. ASSUME NEW u \in Accounts, SignIn(r, u) PROVE \E m : Puts(r, m)
  <2>1. NewToken(r) /\ {k} \in Choice({NoToken} \cup DOMAIN token')
    BY <1>10, NewTokenRow DEF NewToken, SignIn
  <2>2. http' = [http EXCEPT ![r] = Answer([refresh |-> {k}, state |-> {}, redirect |-> {}], NoLogin, "")]
    BY <1>10, AnswersAre DEF SignIn, Told
  <2>3. Serves(r, {k}, {}, {}, NoLogin, "")
    BY <1>1, <1>3, <1>10, <2>1, <2>2 DEF Serves, SignIn, IssueTokenPair
  <2> QED
    BY <2>3, AnswerPuts
<1>11. ASSUME NEW u \in Accounts, TwitchCallback(r, u) PROVE \E m : Puts(r, m)
  <2>1. /\ http[r].op = "callback" /\ http[r].login \in DOMAIN started
        /\ started[http[r].login].provider = "twitch"
        /\ http[r].redirect \in Redirects /\ UNCHANGED <<jar, started, calm>>
    BY <1>1, <1>11, MessageFields DEF TwitchCallback, Returning
  <2>2. CASE StateIsValid(r) /\ LetIn(r, u, ClearedRedirect, http[r].redirect)
    <3>1. NewToken(r) /\ {k} \in Choice({NoToken} \cup DOMAIN token') /\ UNCHANGED refreshing
      BY <2>2, NewTokenRow DEF NewToken, LetIn, IssueTokenPair
    <3>2. http' = [http EXCEPT ![r] = Answer([refresh |-> {k}, state |-> {NoLogin}, redirect |-> {""}],
                                             http[r].login, http[r].redirect)]
      BY <2>2, AnswersAre DEF LetIn
    <3>3. http[r].redirect = started[http[r].login].target
      BY <1>1, <1>2, <2>1, <2>2 DEF MessageFits, AtTwitch, StateIsValid
    <3>4. Serves(r, {k}, {NoLogin}, {""}, http[r].login, http[r].redirect)
      BY <1>1, <1>3, <2>1, <3>1, <3>2, <3>3 DEF Serves
    <3> QED
      BY <3>4, AnswerPuts
  <2>3. CASE Told(r, ClearedRedirect) /\ UNCHANGED tokenVars
    <3>1. http' = [http EXCEPT ![r] = Answer([refresh |-> {}, state |-> {NoLogin}, redirect |-> {""}], NoLogin, "")]
      BY <2>3, AnswersAre DEF Told
    <3>2. Serves(r, {}, {NoLogin}, {""}, NoLogin, "")
      BY <1>1, <1>3, <2>1, <2>3, <3>1 DEF Serves, tokenVars
    <3> QED
      BY <3>2, AnswerPuts
  <2> QED
    BY <1>11, <2>2, <2>3 DEF TwitchCallback
<1>12. ASSUME NEW u \in Accounts, GoogleCallback(r, u) PROVE \E m : Puts(r, m)
  <2>1. /\ http[r].op = "callback" /\ http[r].login \in DOMAIN started
        /\ UNCHANGED <<jar, started, calm>>
    BY <1>1, <1>12, MessageFields DEF GoogleCallback, Returning
  <2>2. CASE StateIsValid(r) /\ LetIn(r, u, ClearedState, "")
    <3>1. NewToken(r) /\ {k} \in Choice({NoToken} \cup DOMAIN token') /\ UNCHANGED refreshing
      BY <2>2, NewTokenRow DEF NewToken, LetIn, IssueTokenPair
    <3>2. http' = [http EXCEPT ![r] = Answer([refresh |-> {k}, state |-> {NoLogin}, redirect |-> {}],
                                             http[r].login, "")]
      BY <2>2, AnswersAre DEF LetIn
    <3>3. Serves(r, {k}, {NoLogin}, {}, http[r].login, "")
      BY <1>1, <1>3, <2>1, <3>1, <3>2 DEF Serves
    <3> QED
      BY <3>3, AnswerPuts
  <2>3. CASE Told(r, ClearedState) /\ UNCHANGED tokenVars
    <3>1. http' = [http EXCEPT ![r] = Answer([refresh |-> {}, state |-> {NoLogin}, redirect |-> {}], NoLogin, "")]
      BY <2>3, AnswersAre DEF Told
    <3>2. Serves(r, {}, {NoLogin}, {}, NoLogin, "")
      BY <1>1, <1>3, <2>1, <2>3, <3>1 DEF Serves, tokenVars
    <3> QED
      BY <3>2, AnswerPuts
  <2> QED
    BY <1>12, <2>2, <2>3 DEF GoogleCallback
<1>13. CASE RefreshUnacknowledged(r)
  <2>1. /\ http[r].op = "refresh" /\ Rotate(r) /\ calm' = FALSE /\ UNCHANGED <<jar, started>>
        /\ refreshing' = [refreshing EXCEPT ![r] = NoToken]
    BY <1>1, <1>13 DEF RefreshUnacknowledged, Rotate
  <2>2. http' = [http EXCEPT ![r] = Answer([refresh |-> {}, state |-> {}, redirect |-> {}], NoLogin, "")]
    BY <1>13, AnswersAre DEF RefreshUnacknowledged, Told
  <2>3. Serves(r, {}, {}, {}, NoLogin, "")
    BY <1>1, <1>3, <2>1, <2>2 DEF Serves
  <2> QED
    BY <2>3, AnswerPuts
<1> QED
  BY <1>4, <1>5, <1>6, <1>7, <1>8, <1>9, <1>10, <1>11, <1>12, <1>13

(* A token is looked up, or an answer is lost. *)
LEMMA OtherSteps ==
    ASSUME BrowserInv, NEW r \in Requests, RefreshStart(r) \/ Lose(r)
    PROVE  \E m : Puts(r, m)
<1>1. /\ http \in [Requests -> Messages] /\ started \in Seq(LoginRows) /\ calm \in BOOLEAN
      /\ refreshing \in [Requests -> {NoToken} \cup DOMAIN token]
      /\ http[r] \in Messages /\ MessageFits(http[r])
  BY DEF BrowserInv, BrowserTypes, TokenInv, TokenTypeOK, TargetsTogether
<1>2. CASE RefreshStart(r)
  <2>1. PICK m \in Messages : m = http[r]
    BY <1>1
  <2>2. /\ m.op = "refresh" /\ UNCHANGED <<token, jar, http, started, calm>>
        /\ refreshing' = [refreshing EXCEPT ![r] = http[r].token]
    BY <1>2, <2>1 DEF RefreshStart, RefreshLook, browserVars
  <2>3. LoginsStay
    BY <1>1, <2>2 DEF LoginsStay
  <2>4. m \in Messages' /\ MessageFits(m)'
    BY <1>1, <2>1, <2>2, <2>3, FitsStay, KindsStay
  <2>5. http' = [http EXCEPT ![r] = m]
    BY <1>1, <2>1, <2>2
  <2>6. refreshing'[r] = m.token /\ m = [op |-> "refresh", token |-> m.token]
    <3>1. m \in [op : {"refresh", "logout"}, token : DOMAIN token]
      BY <2>2, MessageFields
    <3>2. m = [op |-> "refresh", token |-> m.token]
      BY <2>2, <3>1
    <3>3. refreshing'[r] = m.token
      BY <1>1, <2>1, <2>2
    <3> QED
      BY <3>2, <3>3
  <2>7. Quiet(r, m)
    BY <2>1, <2>2 DEF Quiet
  <2>8. Puts(r, m)
    BY <1>1, <2>1, <2>2, <2>3, <2>4, <2>5, <2>6, <2>7 DEF Puts
  <2> QED
    BY <2>8
<1>3. CASE Lose(r)
  <2>1. /\ http[r].op = "answer" /\ http' = [http EXCEPT ![r] = Unused] /\ calm' = FALSE
        /\ UNCHANGED <<token, refreshing, jar, started>>
    BY <1>3 DEF Lose, tokenVars
  <2>2. refreshing'[r] = NoToken
    BY <2>1, OnlyRefreshes DEF BrowserInv
  <2>3. LoginsStay
    BY <1>1, <2>1 DEF LoginsStay
  <2>4. Unused \in Messages' /\ MessageFits(Unused)'
    BY DEF Messages, MessageFits, Unused
  <2>5. Puts(r, Unused)
    BY <2>1, <2>2, <2>3, <2>4 DEF Puts
  <2> QED
    BY <2>5
<1> QED
  BY <1>2, <1>3

(* No cookies, no requests, no logins. *)
LEMMA BrowserInitHolds == BrowserInit => BrowserInv
<1> SUFFICES ASSUME BrowserInit PROVE BrowserInv
  OBVIOUS
<1>1. TokenInv
  BY InitHolds DEF BrowserInit
<1>2. /\ jar = [refresh |-> NoToken, state |-> NoLogin, redirect |-> ""] /\ started = <<>> /\ token = <<>>
      /\ http = [r \in Requests |-> Unused] /\ calm = TRUE
      /\ refreshing = [r \in Requests |-> NoToken]
      /\ \A r \in Requests : http[r].op = "none"
  BY DEF BrowserInit, TokenInit, NoCookies, Unused
<1>3. BrowserTypes
  <2>1. http \in [Requests -> Messages]
    BY <1>2 DEF Messages
  <2>2. started \in Seq(LoginRows)
    BY <1>2, EmptySeq
  <2>3. jar \in Cookies
    BY <1>2 DEF Cookies
  <2>4. calm \in BOOLEAN /\ \A r \in Requests : WorksOn(r)
    BY <1>2 DEF WorksOn
  <2> QED
    BY <2>1, <2>2, <2>3, <2>4 DEF BrowserTypes
<1>4. TargetsTogether
  BY <1>2 DEF TargetsTogether, AtTwitch, MessageFits
<1>5. OnlyCopies /\ SessionGoesOn
  BY <1>2 DEF OnlyCopies, Brings, SessionGoesOn
<1> QED
  BY <1>1, <1>3, <1>4, <1>5 DEF BrowserInv

(* Every step of a browser keeps the invariant. *)
LEMMA BrowserStep == BrowserInv /\ [BrowserNext]_<<tokenVars, browserVars>> => BrowserInv'
<1> SUFFICES ASSUME BrowserInv, [BrowserNext]_<<tokenVars, browserVars>> PROVE BrowserInv'
  OBVIOUS
<1>1. ASSUME NEW r \in Requests, NEW m, Puts(r, m), BrowserNext
      PROVE  BrowserInv'
  <2>1. /\ TokenInv' /\ DOMAIN token \subseteq DOMAIN token'
        /\ token = <<>> \/ token' # <<>>
    BY <1>1, BrowserTokens, TokensGrow DEF BrowserInv
  <2>2. BrowserTypes' /\ TargetsTogether'
    BY <1>1, <2>1, PutsKeepsTargets
  <2>3. calm' => OnlyCopies' /\ SessionGoesOn'
    BY <1>1, <2>1, PutsKeepsCopies
  <2> QED
    BY <2>1, <2>2, <2>3 DEF BrowserInv
<1>2. ASSUME BrowserNext PROVE BrowserInv'
  <2>1. PICK r \in Requests : Arrive(r) \/ \E m : Puts(r, m)
    BY <1>2, SendSteps, HandlerSteps, OtherSteps DEF BrowserNext
  <2> QED
    BY <1>1, <1>2, <2>1, ArriveKeeps
<1>3. ASSUME UNCHANGED <<tokenVars, browserVars>> PROVE BrowserInv'
  <2>1. /\ token' = token /\ refreshing' = refreshing /\ jar' = jar /\ http' = http
        /\ started' = started /\ calm' = calm
    BY <1>3 DEF tokenVars, browserVars
  <2>2. TokenInv'
    BY <2>1 DEF BrowserInv, TokenInv, TokenTypeOK, SessionIsLinear
  <2>3. BrowserTypes'
    BY <2>1 DEF BrowserInv, BrowserTypes, Cookies, Messages, Answers, Changes, WorksOn
  <2>4. TargetsTogether'
    BY <2>1 DEF BrowserInv, TargetsTogether, MessageFits, AnswerFits, AtTwitch
  <2>5. calm' => OnlyCopies' /\ SessionGoesOn'
    BY <2>1 DEF BrowserInv, OnlyCopies, OnlyCopy, Brings, SessionGoesOn, CookieWorks
  <2> QED
    BY <2>2, <2>3, <2>4, <2>5 DEF BrowserInv
<1> QED
  BY <1>2, <1>3

(***************************************************************************)
(* A browser that was let in is not thrown out by its own refreshes and    *)
(* logins, in whatever order their answers arrive.                         *)
(***************************************************************************)
THEOREM SessionLasts == BrowserSpec => []SessionSurvives
<1>1. BrowserInv => SessionSurvives
  <2> SUFFICES ASSUME BrowserInv, calm, token # <<>>, \A r \in Requests : http[r] = Unused
               PROVE  CookieWorks
    BY DEF SessionSurvives, CookieWorks
  <2>1. \A r \in Requests, t \in DOMAIN token : ~Brings(r, t)
    BY DEF Brings, Unused
  <2> QED
    BY <2>1 DEF BrowserInv, SessionGoesOn
<1> QED
  BY <1>1, BrowserInitHolds, BrowserStep, PTL DEF BrowserSpec

(***************************************************************************)
(* A finished Twitch login lands where that login was asked to land, with  *)
(* any number of logins under way in the tabs of one browser.              *)
(***************************************************************************)
THEOREM LandsWhereAsked == BrowserSpec => []RedirectIsOwn
<1>1. BrowserInv => RedirectIsOwn
  BY DEF BrowserInv, TargetsTogether, MessageFits, AnswerFits, RedirectIsOwn
<1> QED
  BY <1>1, BrowserInitHolds, BrowserStep, PTL DEF BrowserSpec

(***************************************************************************)
(* The browser's requests use the refresh tokens as their own module says. *)
(***************************************************************************)
THEOREM BrowserRunsTokens == BrowserSpec => TokenSpec
<1>1. BrowserInit => TokenInit
  BY DEF BrowserInit
<1>2. BrowserInv /\ [BrowserNext]_<<tokenVars, browserVars>> => [TokenNext]_tokenVars
  BY BrowserTokens
<1> QED
  BY <1>1, <1>2, BrowserInitHolds, BrowserStep, PTL DEF BrowserSpec, TokenSpec
=============================================================================
