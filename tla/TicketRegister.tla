--------------------------- MODULE TicketRegister ---------------------------
(***************************************************************************)
(* What the desk promises of its tickets: a register that is only ever     *)
(* written at its end.  An entry gets the next number of its prefix, and   *)
(* one who asks twice - a browser that submits again, a call that several  *)
(* listeners hear - is entered once.                                       *)
(***************************************************************************)
EXTENDS Naturals, Sequences

CONSTANTS
  Prefixes,
  Sources,  \* what is known to ask
  None      \* asks, and is not known

VARIABLES
  register,  \* the entries, in their order
  counter    \* the last number of each prefix

registerVars == <<register, counter>>

RegisterInit ==
  /\ register = <<>>
  /\ counter = [p \in Prefixes |-> 0]

Entered(source) == \E i \in DOMAIN register : register[i].source = source

Enter(p, source) ==
  /\ source = None \/ ~Entered(source)
  /\ counter' = [counter EXCEPT ![p] = @ + 1]
  /\ register' = Append(register, [prefix |-> p, number |-> counter[p] + 1, source |-> source])

RegisterNext == \E p \in Prefixes, source \in Sources \cup {None} : Enter(p, source)

RegisterSpec == RegisterInit /\ [][RegisterNext]_registerVars

=============================================================================
