--------------------------- MODULE AccountRecovery ---------------------------
(***************************************************************************)
(* The links an account is verified and recovered with.  EmailAuthService  *)
(* writes a row, mails the link and tidies the older rows up in statements *)
(* of their own, so that calls for one address fall between each other.    *)
(* AgencyHandler sends the same reset link to set an agency up, and        *)
(* UserService.UpdateProfile saves the account it has read before.         *)
(*                                                                         *)
(* An account is named by its e-mail address, which never changes.  An     *)
(* expired row is not told from a deleted one: neither works nor throttles.*)
(***************************************************************************)
EXTENDS Calls, Naturals, Sequences

CONSTANTS
    Emails,
    UserNames,
    MaxLinks,       \* bound: the links ever issued
    MaxPasswords    \* bound: the passwords an account ever had

ASSUME RecoveryAssumption ==
    "" \notin UserNames /\ MaxLinks \in Nat /\ MaxPasswords \in Nat \ {0}

VARIABLES
    account,        \* the users rows; the password is counted by its changes, 0 for none
    links,          \* password_resets and email_verifications in the order of creation
    crowded         \* history: the addresses for which two calls mailed resets at once

recoveryVars == <<account, links, call, crowded>>

NoAccount == [open |-> FALSE, agency |-> FALSE, password |-> 0, verified |-> FALSE, name |-> ""]
Asking(kind, e) == [op |-> "ask", kind |-> kind, to |-> e]
Replacing(e) == [op |-> "replace", kind |-> "verify", to |-> e]
Issuing(kind, e) == [op |-> "issue", kind |-> kind, to |-> e]
Mailing(n) == [op |-> "mail", link |-> n]
Superseding(n) == [op |-> "supersede", link |-> n]
Withdrawing(n) == [op |-> "withdraw", link |-> n]
Using(n) == [op |-> "use", link |-> n]
Saving(e, u) == [op |-> "save", to |-> e, user |-> u]

RecoveryInit ==
    /\ account = [e \in Emails |-> NoAccount]
    /\ links = <<>>
    /\ CallsInit
    /\ crowded = {}

Free(name, e) == \A other \in Emails \ {e} : account[other].name # name
Works(n) == links[n].state \in {"cooling", "usable"}
LinksTo(kind, e) == {n \in DOMAIN links : links[n].kind = kind /\ links[n].to = e}
Deleted(ns) == [n \in DOMAIN links |->
                    IF n \in ns /\ Works(n) THEN [links[n] EXCEPT !.state = "deleted"] ELSE links[n]]

-----------------------------------------------------------------------------
(* Accounts. *)

Open(e, name, agency) ==
    /\ ~account[e].open /\ Free(name, e)
    /\ account' = [account EXCEPT ![e] =
                      [open |-> TRUE, agency |-> agency, password |-> IF agency THEN 0 ELSE 1,
                       verified |-> agency, name |-> name]]
    /\ UNCHANGED <<links, crowded>>

(* Registration goes on in a goroutine that mails the verification link. *)
RegisterUser(r, e, name) ==
    call[r] = Idle /\ Open(e, name, FALSE) /\ Become(r, Asking("verify", e))

(* An agency starts without a password and is sent a reset link. *)
AgencyCreate(r, e, name) ==
    call[r] = Idle /\ Open(e, name, TRUE) /\ Become(r, Asking("reset", e))

AgencySettings(e, name) ==
    /\ account[e].agency /\ Free(name, e)
    /\ account' = [account EXCEPT ![e].name = name]
    /\ UNCHANGED <<links, call, crowded>>

(* A changed name must be free when it is looked up and when it is saved. *)
ProfileLook(r, e, name) ==
    /\ call[r] = Idle /\ account[e].open
    /\ name = account[e].name \/ Free(name, e)
    /\ Become(r, Saving(e, [account[e] EXCEPT !.name = name]))
    /\ UNCHANGED <<account, links, crowded>>

(* Mutant: only the columns of the profile were read. *)
SavedPartly(c) == [c.user EXCEPT !.password = 0, !.verified = FALSE]
Saved(c) == c.user

(* Save writes every column as it was read. *)
ProfileSave(r) ==
    /\ call[r].op = "save"
    /\ LET c == call[r]
       IN  /\ Free(c.user.name, c.to)
           /\ account' = [account EXCEPT ![c.to] = Saved(c)]
    /\ Finish(r)
    /\ UNCHANGED <<links, crowded>>

-----------------------------------------------------------------------------
(* Sending a link. *)

(* An administrator asks again for an agency that has no password yet. *)
ResendSetup(r, e) ==
    /\ call[r] = Idle /\ account[e].agency /\ account[e].password = 0
    /\ Become(r, Asking("reset", e))
    /\ UNCHANGED <<account, links, crowded>>

Asked(r, kind, e) == call[r] \in {Idle, Asking(kind, e)} /\ account[e].open

VerifyAsked(r, e) ==
    /\ Asked(r, "verify", e) /\ ~account[e].verified
    /\ Become(r, Replacing(e))
    /\ UNCHANGED <<account, links, crowded>>

VerifyReplace(r) ==
    /\ call[r].op = "replace"
    /\ links' = Deleted(LinksTo("verify", call[r].to))
    /\ Become(r, Issuing("verify", call[r].to))
    /\ UNCHANGED <<account, crowded>>

(* The newest row of the address throttles the next mail. *)
Throttled(e) ==
    \E n \in LinksTo("reset", e) :
        /\ links[n].state = "cooling"
        /\ \A later \in LinksTo("reset", e) : later > n => ~Works(later)

Sends(r, e) ==
    \/ call[r].op = "issue" /\ call[r].kind = "reset" /\ call[r].to = e
    \/ call[r].op \in {"mail", "supersede", "withdraw"}
       /\ links[call[r].link].kind = "reset" /\ links[call[r].link].to = e

(* To the caller an unknown or throttled address looks like any other. *)
ResetAsked(r, e) ==
    /\ Asked(r, "reset", e) /\ ~Throttled(e)
    /\ Become(r, Issuing("reset", e))
    /\ crowded' = crowded \cup {a \in {e} : \E other \in Requests \ {r} : Sends(other, e)}
    /\ UNCHANGED <<account, links>>

IssueLink(r) ==
    /\ call[r].op = "issue" /\ Len(links) < MaxLinks
    /\ links' = Append(links,
                   [kind |-> call[r].kind, to |-> call[r].to,
                    state |-> IF call[r].kind = "reset" THEN "cooling" ELSE "usable",
                    mail |-> "none", uses |-> 0, stranded |-> FALSE])
    /\ Become(r, Mailing(Len(links) + 1))
    /\ UNCHANGED <<account, crowded>>

(* Mutant: the attempt that was not sent is left in its place. *)
AfterFailureKeep(n) == Idle
AfterFailure(n) == IF links[n].kind = "reset" THEN Withdrawing(n) ELSE Idle

(* The server may accept the mail and the call fail all the same. *)
Mail(r) ==
    /\ call[r].op = "mail"
    /\ LET n == call[r].link
       IN  \E outcome \in {"none", "perhaps", "sent"} :
              /\ links' = [links EXCEPT ![n].mail = outcome]
              /\ Become(r, IF outcome # "sent" THEN AfterFailure(n)
                           ELSE IF links[n].kind = "reset" THEN Superseding(n) ELSE Idle)
    /\ UNCHANGED <<account, crowded>>

(* Mutant: the rows to delete are chosen by the address alone. *)
SupersededAll(n) == LinksTo("reset", links[n].to)
Superseded(n) == LinksTo("reset", links[n].to) \ {n}

Supersede(r) ==
    /\ call[r].op = "supersede"
    /\ links' = Deleted(Superseded(call[r].link))
    /\ Finish(r)
    /\ UNCHANGED <<account, crowded>>

(* The clean-up has a deadline of its own and outlives the request. *)
Withdraw(r) ==
    /\ call[r].op = "withdraw"
    /\ links' = Deleted({call[r].link})
    /\ Finish(r)
    /\ UNCHANGED <<account, crowded>>

-----------------------------------------------------------------------------
(* Using a link, and the time that passes. *)

UseLook(r, n) ==
    /\ call[r] = Idle /\ links[n].mail # "none" /\ Works(n)
    /\ Become(r, Using(n))
    /\ UNCHANGED <<account, links, crowded>>

(* Mutant: the row stays when it has been used. *)
UsedKept(n) == links
Used(n) == Deleted({n})

(***************************************************************************)
(* ResetPassword and VerifyEmail write the account and delete the row,     *)
(* whether or not it is still there.                                       *)
(***************************************************************************)
UseLink(r) ==
    /\ call[r].op = "use"
    /\ LET n == call[r].link
           e == links[n].to
       IN  /\ IF links[n].kind = "reset"
              THEN /\ account[e].password < MaxPasswords
                   /\ account' = [account EXCEPT ![e].password = @ + 1]
              ELSE account' = [account EXCEPT ![e].verified = TRUE]
           /\ links' = [Used(n) EXCEPT ![n].uses = @ + 1]
    /\ Finish(r)
    /\ UNCHANGED crowded

(* The cooldown ends, and then the hour or the day: first for older rows. *)
Age(n) ==
    /\ Works(n)
    /\ \A older \in LinksTo(links[n].kind, links[n].to) :
          older < n /\ Works(older) => links[older].state = "usable" /\ links[n].state = "cooling"
    /\ links' = [links EXCEPT ![n].state = IF @ = "cooling" THEN "usable" ELSE "expired"]
    /\ UNCHANGED <<account, call, crowded>>

(* Refused, an error of the database, a cancelled request or a restart. *)
Fail(r) ==
    /\ call[r] # Idle
    /\ links' = [n \in DOMAIN links |->
                    IF call[r] \in {Mailing(n), Withdrawing(n)}
                    THEN [links[n] EXCEPT !.stranded = TRUE] ELSE links[n]]
    /\ Finish(r)
    /\ UNCHANGED <<account, crowded>>

RecoveryNext ==
    \/ \E r \in Requests, e \in Emails :
          \/ \E name \in UserNames :
                RegisterUser(r, e, name) \/ AgencyCreate(r, e, name) \/ ProfileLook(r, e, name)
          \/ VerifyAsked(r, e) \/ ResetAsked(r, e) \/ ResendSetup(r, e)
    \/ \E e \in Emails, name \in UserNames : AgencySettings(e, name)
    \/ \E r \in Requests :
          \/ ProfileSave(r) \/ VerifyReplace(r) \/ IssueLink(r) \/ Mail(r) \/ Supersede(r) \/ Withdraw(r) \/ UseLink(r) \/ Fail(r)
          \/ \E n \in DOMAIN links : UseLook(r, n)
    \/ \E n \in DOMAIN links : Age(n)

RecoverySpec == RecoveryInit /\ [][RecoveryNext]_recoveryVars

-----------------------------------------------------------------------------
(* Properties. *)

Kinds == {"reset", "verify"}
UserRows == [open : BOOLEAN, agency : BOOLEAN, password : 0..MaxPasswords, verified : BOOLEAN,
             name : UserNames \cup {""}]
Links == [kind : Kinds, to : Emails, state : {"cooling", "usable", "expired", "deleted"},
          mail : {"none", "perhaps", "sent"}, uses : Nat, stranded : BOOLEAN]

CallOK(c) ==
    \/ c = Idle
    \/ c.op \in {"ask", "issue"} /\ c.kind \in Kinds /\ c.to \in Emails
    \/ c.op = "replace" /\ c.to \in Emails
    \/ c.op \in {"mail", "supersede", "withdraw", "use"} /\ c.link \in DOMAIN links
    \/ c.op = "save" /\ c.to \in Emails /\ c.user \in UserRows

(* Rows and calls hold values of their kinds; accounts keep a name of their own. *)
RecoveryTypeOK ==
    /\ account \in [Emails -> UserRows]
    /\ links \in Seq(Links)
    /\ DOMAIN call = Requests /\ \A r \in Requests : CallOK(call[r])
    /\ \A e \in Emails : account[e].open => account[e].name # "" /\ Free(account[e].name, e)
    /\ crowded \subseteq Emails

(***************************************************************************)
(* A failed mail throttles nobody for good: a row in its cooldown was      *)
(* mailed, or its call is still mailing or withdrawing it, or that call    *)
(* was cut off before it could withdraw the row.                           *)
(***************************************************************************)
ThrottledOnlyByMail ==
    \A n \in DOMAIN links : links[n].state = "cooling" =>
        \/ links[n].mail = "sent" \/ links[n].stranded
        \/ \E r \in Requests : call[r] \in {Mailing(n), Withdrawing(n)}

(***************************************************************************)
(* The last reset link that was mailed to an address works until it is     *)
(* used or expires, whatever became of the attempts after it, unless two   *)
(* calls mailed one at once: then each deletes the other's row.            *)
(***************************************************************************)
LatestLinkWorks ==
    \A n \in DOMAIN links :
        LET e == links[n].to
        IN  (/\ links[n].kind = "reset" /\ links[n].mail = "sent" /\ links[n].uses = 0
             /\ e \notin crowded
             /\ \A later \in LinksTo("reset", e) : later > n => links[later].mail # "sent")
            => links[n].state # "deleted"

(***************************************************************************)
(* "One-time tokens": a call that starts when a link has been used finds   *)
(* it gone.  Two that look it up together both get through.                *)
(***************************************************************************)
LinksWorkOnce ==
    [][\A r \in Requests :
          call[r] = Idle /\ call'[r].op = "use" => links[call'[r].link].uses = 0]_recoveryVars

(***************************************************************************)
(* A password that was reset and an address that was verified stay so,     *)
(* except under a profile update that had read the account before.         *)
(***************************************************************************)
ResetSticks ==
    [][\A e \in Emails :
          \/ /\ account'[e].password >= account[e].password
             /\ account[e].verified => account'[e].verified
          \/ \E r \in Requests :
                /\ call[r].op = "save" /\ call[r].to = e
                /\ \/ call[r].user.password # account[e].password
                   \/ call[r].user.verified # account[e].verified]_recoveryVars
=============================================================================
