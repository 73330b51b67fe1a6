------------------------------ MODULE Mailbox ------------------------------
(***************************************************************************)
(* What e-mail intake promises (ADMIN_GUIDE.md: "deduplicated by           *)
(* Message-ID"): a letter that has come is judged once.  It is entered,    *)
(* which leaves one entry, or dismissed, which leaves none; what was       *)
(* judged is not judged again.  Letters are judged each on its own, or     *)
(* several at once.                                                        *)
(***************************************************************************)
EXTENDS Naturals

CONSTANT Letters

VARIABLES
  fate,    \* of each letter
  entries  \* made from it

boxVars == <<fate, entries>>

BoxInit ==
  /\ fate = [l \in Letters |-> "expected"]
  /\ entries = [l \in Letters |-> 0]

Moves(l, from, to, made) ==
  fate[l] = from /\ fate'[l] = to /\ entries'[l] = entries[l] + made

Rests(l) == Moves(l, fate[l], fate[l], 0)
Comes(l) == Moves(l, "expected", "waiting", 0)
IsEntered(l) == Moves(l, "waiting", "entered", 1)
IsDismissed(l) == Moves(l, "waiting", "dismissed", 0)

BoxNext ==
  /\ fate' \in [Letters -> {"expected", "waiting", "entered", "dismissed"}]
  /\ entries' \in [Letters -> Nat]
  /\ \A l \in Letters : Rests(l) \/ Comes(l) \/ IsEntered(l) \/ IsDismissed(l)

BoxSpec == BoxInit /\ [][BoxNext]_boxVars

=============================================================================
