----------------------------- MODULE AddressBook -----------------------------
(***************************************************************************)
(* AddressService: the shipping addresses of one user, at most one of them *)
(* meant to be the default.  Every statement names the user, so the books  *)
(* of two users do not meet.                                               *)
(*                                                                         *)
(* The statement that clears the other defaults sees the rows committed    *)
(* when it begins and locks them until its transaction ends; the save      *)
(* commits with it.  A transaction that waits for a lock and is chosen to  *)
(* break a deadlock fails.                                                 *)
(***************************************************************************)
EXTENDS Calls

CONSTANT Addresses

VARIABLES
    address,        \* shipping_addresses: state and is_default of each row
    crossed         \* history: an address was inserted or made the default unseen

bookVars == <<address, crossed>>

Row(state, default) == [state |-> state, default |-> default]

BookInit == address = [a \in Addresses |-> Row("none", FALSE)] /\ crossed = FALSE

Live == {a \in Addresses : address[a].state = "live"}
Locked(r) ==
    UNION {call[s].locks : s \in {s \in Requests \ {r} : call[s].op = "save"}}

(* A write of an address, which clears the others first or not. *)
Write(a, default, clears) ==
    [op |-> IF clears THEN "clear" ELSE "save", addr |-> a, default |-> default,
     skips |-> default /\ ~clears, sees |-> {}, locks |-> {}]

-----------------------------------------------------------------------------

Create(r, a, default) ==
    /\ address[a].state = "none"
    /\ \A s \in Requests : call[s].op \in {"clear", "wait", "save"} => call[s].addr # a
    /\ Begin(r, Write(a, default, default))
    /\ UNCHANGED bookVars

(* Nothing is cleared for an address that was read as the default. *)
Update(r, a, default) ==
    /\ a \in Live
    /\ Begin(r, Write(a, default, default /\ ~address[a].default))
    /\ UNCHANGED bookVars

SetDefault(r, a) ==
    /\ a \in Live
    /\ Begin(r, Write(a, TRUE, TRUE))
    /\ UNCHANGED bookVars

(* Mutant: only an address that is the default is cleared. *)
SeenDefaults(r) == {a \in Live : address[a].default} \ {call[r].addr}
Seen(r) == Live \ {call[r].addr}

ClearStarts(r) ==
    /\ call[r].op = "clear"
    /\ Become(r, [call[r] EXCEPT !.op = "wait", !.sees = Seen(r)])
    /\ UNCHANGED bookVars

Clear(r) ==
    /\ call[r].op = "wait"
    /\ call[r].sees \cap Locked(r) = {}
    /\ Become(r, [call[r] EXCEPT !.op = "save", !.locks = call[r].sees \cap Live])
    /\ UNCHANGED bookVars

(* What the clearing of a call misses: an address that is inserted beside  *)
(* it, and one that becomes the default when it decided to clear nothing.  *)
Defaulting == {r \in Requests : call[r].op \in {"clear", "wait", "save"} /\ call[r].default}
Crosses(r) ==
    \E s \in Defaulting \ {r} : call[r].addr \notin Live \/ (r \in Defaulting /\ call[s].skips)

(* Saving an address that was deleted meanwhile inserts it again. *)
Save(r) ==
    /\ call[r].op = "save"
    /\ call[r].addr \notin Locked(r)
    /\ address' = [a \in Addresses |->
                      IF a = call[r].addr THEN Row("live", call[r].default)
                      ELSE IF a \in call[r].locks THEN [address[a] EXCEPT !.default = FALSE]
                      ELSE address[a]]
    /\ crossed' = (crossed \/ Crosses(r))
    /\ Finish(r)

Delete(a) ==
    /\ a \in Live
    /\ \A r \in Requests : a \notin Locked(r)
    /\ address' = [address EXCEPT ![a].state = "deleted"]
    /\ UNCHANGED <<call, crossed>>

BookFail(r) ==
    /\ call[r].op \in {"clear", "wait", "save"}
    /\ Finish(r)
    /\ UNCHANGED bookVars

BookNext ==
    \/ \E r \in Requests, a \in Addresses :
          SetDefault(r, a) \/ \E default \in BOOLEAN : Create(r, a, default) \/ Update(r, a, default)
    \/ \E r \in Requests : ClearStarts(r) \/ Clear(r) \/ Save(r) \/ BookFail(r)
    \/ \E a \in Addresses : Delete(a)

-----------------------------------------------------------------------------

Defaults == {a \in Live : address[a].default}

(***************************************************************************)
(* Nothing in the table keeps two addresses from being the default, only   *)
(* the order of the statements and the locks they take.  Calls that move   *)
(* the default between the user's addresses never leave two, however they  *)
(* overlap.  It takes a call that makes a default beside one that inserts  *)
(* an address (a new one, or one deleted since it was read), or beside one *)
(* that makes another the default after the first read its own as the      *)
(* default and cleared nothing.                                            *)
(***************************************************************************)
OneDefault == crossed \/ \A a, b \in Defaults : a = b
=============================================================================
