-------------------------- MODULE AccountSessions ---------------------------
(***************************************************************************)
(* The accounts and one browser, over the same table of refresh tokens.  A *)
(* session's tokens are its own: a login or a refresh reads and deletes no *)
(* row of another session.  What decides a login and what a browser makes  *)
(* of the tokens therefore do not meet, and a behaviour has the calls of   *)
(* one side: the logins with anybody's refreshes and logouts, or the       *)
(* browser's requests.  What is said of the browser is said of its side:   *)
(* calm ends with the first step of the other one.                         *)
(***************************************************************************)
EXTENDS AccountAccess, BrowserSession

VARIABLE side

sessionsVars == <<side, tokenVars, accessVars, browserVars>>

SessionsInit ==
    /\ side \in {"accounts", "browser"}
    /\ AccessInit /\ BrowserInit

SessionsNext ==
    /\ UNCHANGED side
    /\ \/ side = "accounts" /\ AccessNext
          /\ calm' = FALSE /\ UNCHANGED <<jar, http, started>>
       \/ side = "browser" /\ BrowserNext /\ UNCHANGED accessVars

SessionsSpec == SessionsInit /\ [][SessionsNext]_sessionsVars
=============================================================================
