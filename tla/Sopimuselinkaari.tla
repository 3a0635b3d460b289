-------------------------- MODULE Sopimuselinkaari --------------------------
(***************************************************************************)
(* What the register of agreements promises about an agreement, a row of   *)
(* the table jarjestamissopimus: it is created once and not valid, removed *)
(* at most once, alone and for good, and it becomes valid or ceases to be  *)
(* valid only in between.  How many agreements a commit may decide on at   *)
(* once, and what they are decided by, is left to SopimusVoimassaolo,      *)
(* which implements this module.                                           *)
(***************************************************************************)
CONSTANT Sopimukset  \* identifiers of agreements (jarjestamissopimusid)

VARIABLES tila,      \* tila[c]: "ei_luotu", "kaytossa" or "poistettu"
          voimassa   \* voimassa[c]: c is valid

elinkaari == <<tila, voimassa>>

Init ==
  /\ tila = [c \in Sopimukset |-> "ei_luotu"]
  /\ voimassa = [c \in Sopimukset |-> FALSE]

Luo(c) ==
  /\ tila[c] = "ei_luotu"
  /\ tila' = [tila EXCEPT ![c] = "kaytossa"]
  /\ UNCHANGED voimassa

Poista(c) ==
  /\ tila[c] = "kaytossa"
  /\ tila' = [tila EXCEPT ![c] = "poistettu"]
  /\ voimassa' = [voimassa EXCEPT ![c] = FALSE]

\* A request or a nightly run has found some agreements valid and others not.
Arvioi ==
  /\ voimassa' \in [Sopimukset -> BOOLEAN]
  /\ \A c \in Sopimukset : voimassa'[c] # voimassa[c] => tila[c] = "kaytossa"
  /\ UNCHANGED tila

Next == Arvioi \/ \E c \in Sopimukset : Luo(c) \/ Poista(c)

Spec == Init /\ [][Next]_elinkaari
=============================================================================
