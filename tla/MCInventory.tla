----------------------------- MODULE MCInventory -----------------------------
(***************************************************************************)
(* A small endpoint, looked at from two sides: its inventories while       *)
(* nothing is published, or its updates while it has one inventory.        *)
(***************************************************************************)
EXTENDS Endpoint, TLC
CONSTANTS r1, r2, h1, h2, p1, p2, i1, i2, i3, i4

\* Two installers of version 2.
MCVersionOf(i) == CASE i = i1 -> 1 [] i = i2 \/ i = i3 -> 2 [] i = i4 -> 3

(* History variable: the assignment that no overlapping intake, having    *)
(* read it as missing, is still to replace; and the side that is seen.    *)
VARIABLES kept, side

StaleIntake == \E h \in Connection : handler[h].op = "write" /\ handler[h].row.assigned # {}

HInit == EndpointInit /\ kept = Nobody /\ side \in {"inventory", "updates"}

Seen ==
  CASE side = "inventory" -> releaseVars' = releaseVars
    [] side = "updates" -> collected' <= 1 /\ observed' = observed /\ count' = count /\ assigned' = assigned

HNext ==
  /\ EndpointNext /\ Seen
  /\ kept' = CASE \E p \in Person \cup {Nobody} : Assign(p) -> IF StaleIntake THEN Nobody ELSE assigned'
               [] OTHER -> IF kept = Nobody /\ ~StaleIntake' THEN assigned' ELSE kept
  /\ UNCHANGED side

HSpec == HInit /\ [][HNext]_<<vars, releaseVars, kept, side>>

Symmetry == Permutations(Runner) \cup Permutations(Connection) \cup Permutations(Person)

(* README.md: "Conflicts are flagged and never overwrite the official assignment", once *)
(* those intakes that found the asset unassigned, and assign it, are through.           *)
AssignmentIsKept == kept # Nobody => assigned = kept
=============================================================================
