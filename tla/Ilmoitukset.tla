----------------------------- MODULE Ilmoitukset -----------------------------
(***************************************************************************)
(* What the user is promised of the messages about answers: the message of *)
(* a failure stays on the page where it appears, the message of a success  *)
(* survives one page change, because a successful save leads to another    *)
(* page.  Palautteet implements this.                                      *)
(***************************************************************************)
EXTENDS Naturals

CONSTANTS Viestit,      \* the messages
          Virheviestit  \* the ones that tell of a failure

VARIABLE jaljella       \* jaljella[v]: pages message v is still shown on

Elinika(v) == IF v \in Virheviestit THEN 1 ELSE 2

Init == jaljella = [v \in Viestit |-> 0]

\* An answer brings the message v, perhaps anew.
Saapuu(v) == jaljella' = [jaljella EXCEPT ![v] = Elinika(v)]

\* A page, or a step of a wizard, changes.
SivuVaihtuu == jaljella' = [v \in Viestit |-> IF jaljella[v] = 0 THEN 0 ELSE jaljella[v] - 1]

Next == SivuVaihtuu \/ \E v \in Viestit : Saapuu(v)

Spec == Init /\ [][Next]_jaljella
=============================================================================
