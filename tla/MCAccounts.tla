----------------------------- MODULE MCAccounts -----------------------------
(* Two administrators and one employee, who has two Microsoft identities.  *)
EXTENDS Accounts, TLC

CONSTANTS ann, bob, eve, support, lead

Person == {ann, bob, eve}
AdminsOf == {ann, bob}
MailOf(i) == eve
\* Support inherits the administration of lead.
RoleSet == {support, lead}
Chain == [r \in RoleSet |-> [active |-> TRUE, parent |-> IF r = support THEN lead ELSE None, administers |-> r = lead]]
Either == Permutations({ann, bob}) \cup Permutations(Identities)
=============================================================================
