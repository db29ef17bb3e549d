--------------------------- MODULE BrowserSession ----------------------------
(***************************************************************************)
(* AuthHandler and the cookies of one browser.  The tabs share the cookie  *)
(* jar and send requests side by side; a request carries the cookies as    *)
(* they were when it was sent, an answer changes them when it arrives, and *)
(* answers arrive in any order or not at all.  The refresh tokens behind   *)
(* the cookie are those of RefreshTokens.                                  *)
(*                                                                         *)
(* What a login checks is in AccountAccess: here it succeeds or fails.     *)
(***************************************************************************)
EXTENDS RefreshTokens

CONSTANTS
    Targets,        \* the valid values of redirect_to
    MaxLogins       \* bound: the logins started at Twitch or Google

ASSUME BrowserAssumption == "" \notin Targets /\ MaxLogins \in Nat

VARIABLES
    jar,            \* the cookies refresh_token, oauth_state and oauth_redirect
    http,           \* the request or the answer each connection carries
    started,        \* the OAuth logins, numbered by their state parameter
    calm            \* history: every answer arrived, every rotation that took effect
                    \* was acknowledged, and nobody logged out

browserVars == <<jar, http, started, calm>>

Unused == [op |-> "none"]
NoLogin == 0
NoCookies == [refresh |-> NoToken, state |-> NoLogin, redirect |-> ""]
Same == [refresh |-> {}, state |-> {}, redirect |-> {}]

(* An answer sets some cookies (a singleton) and leaves the others ({}). *)
Answer(changes, login, lands) ==
    [op |-> "answer", sets |-> changes, login |-> login, lands |-> lands]
Told(r, changes) == http' = [http EXCEPT ![r] = Answer(changes, NoLogin, "")]
Setting(t) == [Same EXCEPT !.refresh = {t}]

BrowserInit ==
    /\ TokenInit
    /\ jar = NoCookies
    /\ http = [r \in Requests |-> Unused]
    /\ started = <<>>
    /\ calm = TRUE

-----------------------------------------------------------------------------
(* The browser. *)

Send(r, request) ==
    /\ http[r] = Unused
    /\ http' = [http EXCEPT ![r] = request]
    /\ UNCHANGED <<tokenVars, jar, calm>>

SendLogin(r) == Send(r, [op |-> "login"]) /\ UNCHANGED started

WithToken(op) == [op |-> op, token |-> jar.refresh]

SendRefresh(r) == jar.refresh # NoToken /\ Send(r, WithToken("refresh")) /\ UNCHANGED started
SendLogout(r) == jar.refresh # NoToken /\ Send(r, WithToken("logout")) /\ UNCHANGED started

(* A login is started, and its provider sends the browser back. *)
SendStart(r, provider, target) ==
    /\ Len(started) < MaxLogins
    /\ provider = "google" => target = ""
    /\ started' = Append(started, [provider |-> provider, target |-> target, away |-> FALSE])
    /\ Send(r, [op |-> "start", login |-> Len(started) + 1])

SendCallback(r, n) ==
    /\ started[n].away
    /\ Send(r, [op |-> "callback", login |-> n, state |-> jar.state, redirect |-> jar.redirect])
    /\ UNCHANGED started

Applied(changes) ==
    [k \in DOMAIN jar |-> IF changes[k] = {} THEN jar[k] ELSE CHOOSE v \in changes[k] : TRUE]

Arrive(r) ==
    /\ http[r].op = "answer"
    /\ jar' = Applied(http[r].sets)
    /\ started' = [n \in DOMAIN started |->
                      IF http[r].sets.state = {n} THEN [started[n] EXCEPT !.away = TRUE]
                      ELSE started[n]]
    /\ http' = [http EXCEPT ![r] = Unused]
    /\ UNCHANGED <<tokenVars, calm>>

(* The answer is lost, or the tab gave up waiting for it. *)
Lose(r) ==
    /\ http[r].op = "answer"
    /\ http' = [http EXCEPT ![r] = Unused]
    /\ calm' = FALSE
    /\ UNCHANGED <<tokenVars, jar, started>>

-----------------------------------------------------------------------------
(* AuthHandler. *)

(* Register, Login and Web3Verify. *)
SignIn(r, u) ==
    /\ http[r].op = "login"
    /\ IssueTokenPair(u)
    /\ Told(r, Setting(Len(token) + 1))
    /\ UNCHANGED <<jar, started, calm>>

RefreshStart(r) ==
    /\ http[r].op = "refresh"
    /\ RefreshLook(r, http[r].token)
    /\ UNCHANGED browserVars

(* Mutant: a refused refresh clears the cookie. *)
RefusedClears == Setting(NoToken)
Refused == Same

Refresh(r) ==
    /\ Rotate(r)
    /\ Told(r, Setting(Len(token) + 1))
    /\ UNCHANGED <<jar, started, calm>>

(* The rotation takes effect, but its commit is not acknowledged: the      *)
(* handler reports an error and sends no cookie.                           *)
RefreshUnacknowledged(r) ==
    /\ Rotate(r)
    /\ Told(r, Same)
    /\ calm' = FALSE
    /\ UNCHANGED <<jar, started>>

(* The token is unknown when it is looked up, or gone when it is rotated. *)
RefreshRefused(r) ==
    /\ http[r].op = "refresh"
    /\ ~token[http[r].token].there
    /\ refreshing' = [refreshing EXCEPT ![r] = NoToken]
    /\ Told(r, Refused)
    /\ UNCHANGED <<token, jar, started, calm>>

(* The row has expired, and with it the cookie. *)
RefreshExpired(r) ==
    /\ http[r].op = "refresh" /\ refreshing[r] = NoToken
    /\ Logout(http[r].token)
    /\ Told(r, Refused)
    /\ calm' = FALSE
    /\ UNCHANGED <<jar, started>>

(* The row goes if it can be deleted, the cookie in any case. *)
LogoutBrowser(r) ==
    /\ http[r].op = "logout"
    /\ Logout(http[r].token) \/ UNCHANGED tokenVars
    /\ Told(r, Setting(NoToken))
    /\ calm' = FALSE
    /\ UNCHANGED <<jar, started>>

(* Mutant: a login without a target leaves the cookie of another one. *)
RedirectKept(target) == IF target = "" THEN {} ELSE {target}
RedirectCookie(target) == {target}

StateCookie(n) == [Same EXCEPT !.state = {n}]

Starting(r, provider) == http[r].op = "start" /\ started[http[r].login].provider = provider

TwitchLogin(r) ==
    /\ Starting(r, "twitch")
    /\ LET n == http[r].login
       IN  Told(r, [StateCookie(n) EXCEPT !.redirect = RedirectCookie(started[n].target)])
    /\ UNCHANGED <<tokenVars, jar, started, calm>>

(* Leaves the redirect of a Twitch login alone. *)
GoogleLogin(r) ==
    /\ Starting(r, "google")
    /\ Told(r, StateCookie(http[r].login))
    /\ UNCHANGED <<tokenVars, jar, started, calm>>

ClearedState == StateCookie(NoLogin)
ClearedRedirect == [ClearedState EXCEPT !.redirect = {""}]
Returning(r, provider) == http[r].op = "callback" /\ started[http[r].login].provider = provider
StateIsValid(r) == http[r].state = http[r].login

(* A new session, which lands on the page given. *)
LetIn(r, u, clears, page) ==
    /\ IssueTokenPair(u)
    /\ http' = [http EXCEPT ![r] =
                   Answer([clears EXCEPT !.refresh = {Len(token) + 1}], http[r].login, page)]

(* Without the state or the provider's consent only the cookies go. *)
TwitchCallback(r, u) ==
    /\ Returning(r, "twitch")
    /\ \/ StateIsValid(r) /\ LetIn(r, u, ClearedRedirect, http[r].redirect)
       \/ Told(r, ClearedRedirect) /\ UNCHANGED tokenVars
    /\ UNCHANGED <<jar, started, calm>>

GoogleCallback(r, u) ==
    /\ Returning(r, "google")
    /\ \/ StateIsValid(r) /\ LetIn(r, u, ClearedState, "")
       \/ Told(r, ClearedState) /\ UNCHANGED tokenVars
    /\ UNCHANGED <<jar, started, calm>>

(* An error of the database or a restart: no cookie changes. *)
Broken(r) ==
    /\ http[r].op \notin {"none", "answer", "logout", "callback"}
    /\ refreshing' = [refreshing EXCEPT ![r] = NoToken]
    /\ Told(r, Same)
    /\ UNCHANGED <<token, jar, started, calm>>

BrowserNext ==
    \E r \in Requests :
        \/ SendLogin(r) \/ SendRefresh(r) \/ SendLogout(r) \/ Arrive(r) \/ Lose(r)
        \/ \E target \in Targets \cup {""}, provider \in {"twitch", "google"} :
              SendStart(r, provider, target)
        \/ \E n \in DOMAIN started : SendCallback(r, n)
        \/ RefreshStart(r) \/ Refresh(r) \/ RefreshUnacknowledged(r)
        \/ RefreshRefused(r) \/ RefreshExpired(r)
        \/ LogoutBrowser(r) \/ TwitchLogin(r) \/ GoogleLogin(r) \/ Broken(r)
        \/ \E u \in Accounts : SignIn(r, u) \/ TwitchCallback(r, u) \/ GoogleCallback(r, u)

BrowserSpec == BrowserInit /\ [][BrowserNext]_<<tokenVars, browserVars>>

-----------------------------------------------------------------------------
(* Properties. *)

Cookies == [refresh : {NoToken} \cup DOMAIN token, state : {NoLogin} \cup DOMAIN started,
            redirect : Targets \cup {""}]

(* Cookies and requests hold values of their kinds. *)
BrowserTypeOK ==
    /\ TokenTypeOK
    /\ jar \in Cookies
    /\ \A r \in Requests :
          /\ http[r].op \in {"none", "login", "refresh", "logout", "start", "callback", "answer"}
          /\ http[r].op \in {"refresh", "logout"} => http[r].token \in DOMAIN token
          /\ http[r].op \in {"start", "callback"} => http[r].login \in DOMAIN started
          /\ refreshing[r] # NoToken => http[r] = [op |-> "refresh", token |-> refreshing[r]]

(***************************************************************************)
(* As long as every answer arrives, every rotation that takes effect is    *)
(* acknowledged and nobody logs out, a browser that was let in is not      *)
(* thrown out: when nothing is under way the cookie holds a token that     *)
(* works, however its tabs' refreshes and logins overlapped.               *)
(***************************************************************************)
SessionSurvives ==
    calm /\ token # <<>> /\ (\A r \in Requests : http[r] = Unused)
        => jar.refresh # NoToken /\ token[jar.refresh].there

(***************************************************************************)
(* A finished login lands where that login was asked to land, or on the    *)
(* default page: never at the target of a login started in another tab.    *)
(***************************************************************************)
RedirectIsOwn ==
    \A r \in Requests : http[r].op = "answer" /\ http[r].lands # "" =>
        http[r].lands = started[http[r].login].target
=============================================================================
