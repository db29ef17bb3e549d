---------------------------- MODULE AccountPages -----------------------------
(***************************************************************************)
(* The pages on which a user keeps addresses, a streamer keeps channels    *)
(* and viewers enter raffles and claim prizes.  They share the server and  *)
(* no table, so that a call of one page neither helps nor hinders a call   *)
(* of another, and a behaviour has the calls of one page.                  *)
(***************************************************************************)
EXTENDS AddressBook, ChannelRegistry, RafflePrizes

VARIABLE page

pagesVars == <<page, call, bookVars, registryVars, prizeVars>>

PagesInit ==
    /\ page \in {"addresses", "channels", "prizes"}
    /\ CallsInit /\ BookInit /\ RegistryInit /\ PrizesInit

PagesNext ==
    /\ UNCHANGED page
    /\ \/ page = "addresses" /\ BookNext /\ UNCHANGED <<registryVars, prizeVars>>
       \/ page = "channels" /\ RegistryNext /\ UNCHANGED <<bookVars, prizeVars>>
       \/ page = "prizes" /\ PrizesNext /\ UNCHANGED <<bookVars, registryVars>>

PagesSpec == PagesInit /\ [][PagesNext]_pagesVars
=============================================================================
