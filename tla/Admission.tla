-------------------------------- MODULE Admission --------------------------------
(***************************************************************************)
(* What an instance promises about who gets in.                            *)
(*                                                                         *)
(* Nobody becomes active without a ticket that was issued to the address:  *)
(* a verification code or an invite.  The one exception is the first       *)
(* account of an empty instance.  A ticket is claimed once, whoever else   *)
(* presents it at the same time, and a claim admits at most one account    *)
(* and gives at most one membership.  Accounts, where a request is a       *)
(* sequence of store calls, is shown to implement this module.             *)
(*                                                                         *)
(* A claim may be lost: its holder can fail before it admits anyone.  That *)
(* a claimed ticket leads to an account is not promised.                   *)
(***************************************************************************)
EXTENDS Naturals

CONSTANT Emails

VARIABLES
  settled,   \* accounts outside Emails exist
  account,   \* by address: "absent", "unverified" or "active"
  member,    \* addresses whose account belongs to the vault
  owner,     \* function from tickets ever issued to their address
  open,      \* tickets not claimed, revoked or expired
  claimed,   \* claims that have not admitted anyone yet
  admitted   \* claims that may still give a membership

vars == <<settled, account, member, owner, open, claimed, admitted>>

Tickets == DOMAIN owner
Empty == ~settled /\ \A e \in Emails : account[e] = "absent"

Init ==
  /\ settled \in BOOLEAN
  /\ account = [e \in Emails |-> "absent"]
  /\ member = {}
  /\ owner = <<>>
  /\ open = {} /\ claimed = {} /\ admitted = {}

TicketVars == <<settled, owner, open, claimed, admitted>>

FirstOwner(e) ==
  /\ Empty
  /\ account' = [account EXCEPT ![e] = "active"]
  /\ member' = {e}
  /\ UNCHANGED TicketVars

SignUp(e) ==
  /\ account[e] = "absent"
  /\ account' = [account EXCEPT ![e] = "unverified"]
  /\ UNCHANGED <<settled, member, owner, open, claimed, admitted>>

Leave(e) ==
  /\ account' = [account EXCEPT ![e] = "absent"]
  /\ member' = member \ {e}
  /\ UNCHANGED TicketVars

Issue(t, e) ==
  /\ t \notin Tickets
  /\ owner' = [u \in Tickets \cup {t} |-> IF u = t THEN e ELSE owner[u]]
  /\ open' = open \cup {t}
  /\ UNCHANGED <<settled, account, member, claimed, admitted>>

Withdraw(t) ==
  /\ open' = open \ {t}
  /\ UNCHANGED <<settled, account, member, owner, claimed, admitted>>

Claim(t) ==
  /\ t \in open
  /\ open' = open \ {t}
  /\ \/ claimed' = claimed \cup {t} /\ UNCHANGED admitted
     \/ admitted' = admitted \cup {t} /\ UNCHANGED claimed
  /\ UNCHANGED <<settled, account, member, owner>>

(* The account of the ticket's address, and no other, becomes active. *)
Admit(t) ==
  /\ t \in claimed
  /\ account[owner[t]] # "absent"
  /\ account' = [account EXCEPT ![owner[t]] = "active"]
  /\ claimed' = claimed \ {t}
  /\ admitted' \in {admitted, admitted \cup {t}}
  /\ UNCHANGED <<settled, member, owner, open>>

Enrol(t) ==
  /\ t \in admitted
  /\ member' = member \cup {owner[t]}
  /\ admitted' = admitted \ {t}
  /\ UNCHANGED <<settled, account, owner, open, claimed>>

Lose ==
  /\ claimed' \in SUBSET claimed
  /\ admitted' \in SUBSET admitted
  /\ UNCHANGED <<settled, account, member, owner, open>>

Next ==
  \/ \E e \in Emails : FirstOwner(e) \/ SignUp(e) \/ Leave(e)
  \/ \E t \in DOMAIN owner', e \in Emails : Issue(t, e)
  \/ \E t \in Tickets : Withdraw(t) \/ Claim(t) \/ Admit(t) \/ Enrol(t)
  \/ Lose

Spec == Init /\ [][Next]_vars
================================================================================
