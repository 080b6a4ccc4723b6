------------------------------- MODULE MCAccounts -------------------------------
(* Six groups of requests that collide: a behaviour keeps to the requests of  *)
(* one group.  They are all about one address, but for the invites that fill  *)
(* the instance.                                                              *)
EXTENDS Accounts, TLC

CONSTANTS e1, e2, p1, p2, w1, w2

VARIABLE focus   \* the operations of this behaviour

MCEmails == {e1, e2}
MCPasswords == {p1, p2}
TwoWorkers == {w1, w2}
Alike == Permutations(Workers)

R(ops, es, pws, news) == [op : ops, email : es, pw : pws, new : news]

SomePolicies == {[inviteOnly |-> FALSE, domains |-> Emails],
                 [inviteOnly |-> TRUE, domains |-> {}]}

AllRequests ==
  R(Ops \ {"change", "reset"}, {e1}, {p1}, {p1}) \cup R({"change", "reset"}, {e1}, {p1}, {p2})
    \cup R({"invite"}, {e2}, {p1}, {p1})

Verifying == {"register", "verify", "resend", "leave"}
Guessing == {"verify", "reset", "revoke"}
Asking == {"register", "resend", "invite"}
Changing == {"register", "login", "change", "forgot", "reset"}
Inviting == {"register", "invite", "accept", "reinvite", "leave", "login"}
Offering == {"invite", "revoke", "reinvite"}

(* Three codes are needed to see the caps exceeded, two for all the rest. *)
Kept ==
  /\ \A w \in Workers : req'[w] # Idle =>
       req'[w].op \in focus /\ (focus # Offering => req'[w].email = e1)
  /\ focus \notin {Asking, Offering} => Len(codes') <= 2

(* The restrictions of the instance matter to invites and to none of the rest. *)
MCInit ==
  /\ Init
  /\ focus \in {Verifying, Guessing, Asking, Changing, Inviting, Offering}
  /\ focus \in {Inviting, Offering} => settled
  /\ policy.inviteOnly => focus = Inviting
MCNext == Next /\ Kept /\ UNCHANGED focus
MCSpec == MCInit /\ [][MCNext]_<<vars, focus>>

(* Also an instance that is invite-only for every address.                     *)
AllPolicies == SomePolicies \cup {[inviteOnly |-> TRUE, domains |-> Emails]}
================================================================================
