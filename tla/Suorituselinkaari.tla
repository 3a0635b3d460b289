------------------------- MODULE Suorituselinkaari -------------------------
(***************************************************************************)
(* What the register of performance records promises about one record, a   *)
(* row of the table suorituskerta: the states it goes through and the two  *)
(* time stamps that go with them.  A request acts on a whole set of        *)
(* records at once and in one step; how the requests are interleaved, and  *)
(* the rows that hang from a record, are left to module Suoritukset, which *)
(* implements this one.                                                    *)
(***************************************************************************)
CONSTANTS Kerrat,    \* identifiers of performance records (suorituskerta_id)
          Paivat,    \* dates and times a time stamp may hold
          Nil        \* the SQL null

VARIABLES tila,            \* tila[k]: life-cycle state of record k
          ehdotusaika,     \* when k was sent to the committee, or Nil
          hyvaksymisaika   \* when k was approved, or Nil

elinkaari == <<tila, ehdotusaika, hyvaksymisaika>>

Kirjattu == {"luonnos", "ehdotettu", "hyvaksytty"}
Tila == Kirjattu \union {"ei_luotu", "poistettu"}

Init ==
  /\ tila = [k \in Kerrat |-> "ei_luotu"]
  /\ ehdotusaika = [k \in Kerrat |-> Nil]
  /\ hyvaksymisaika = [k \in Kerrat |-> Nil]

\* f with the value at every record of K replaced by v.
Korvaa(f, K, v) == [k \in Kerrat |-> IF k \in K THEN v ELSE f[k]]

Kirjatut == {k \in Kerrat : tila[k] \in Kirjattu}

Luo(k) ==
  /\ tila[k] = "ei_luotu"
  /\ tila' = [tila EXCEPT ![k] = "luonnos"]
  /\ UNCHANGED <<ehdotusaika, hyvaksymisaika>>

Laheta(K, pvm) ==
  /\ tila' = Korvaa(tila, K, "ehdotettu")
  /\ ehdotusaika' = Korvaa(ehdotusaika, K, pvm)
  /\ hyvaksymisaika' = Korvaa(hyvaksymisaika, K, Nil)

Hyvaksy(K, pvm) ==
  /\ tila' = Korvaa(tila, K, "hyvaksytty")
  /\ hyvaksymisaika' = Korvaa(hyvaksymisaika, K, pvm)
  /\ UNCHANGED ehdotusaika

Palauta(K) ==
  /\ tila' = Korvaa(tila, K, "luonnos")
  /\ ehdotusaika' = Korvaa(ehdotusaika, K, Nil)
  /\ hyvaksymisaika' = Korvaa(hyvaksymisaika, K, Nil)

\* Only a draft is ever removed, and a removed record does not come back.
Poista(k) ==
  /\ tila[k] = "luonnos"
  /\ tila' = [tila EXCEPT ![k] = "poistettu"]
  /\ UNCHANGED <<ehdotusaika, hyvaksymisaika>>

Next ==
  \/ \E k \in Kerrat : Luo(k) \/ Poista(k)
  \/ \E K \in SUBSET Kirjatut :
        \/ Palauta(K)
        \/ \E pvm \in Paivat : Laheta(K, pvm) \/ Hyvaksy(K, pvm)

Spec == Init /\ [][Next]_elinkaari

-----------------------------------------------------------------------------
(* A draft carries no time stamp, a proposed record its proposal time only, *)
(* an approved one its approval time (laheta!, hyvaksy! and palauta! set    *)
(* the state and the two columns in separate fields of one UPDATE).         *)
AjatVastaavatTilaa ==
  \A k \in Kerrat :
    /\ tila[k] = "luonnos" => ehdotusaika[k] = Nil /\ hyvaksymisaika[k] = Nil
    /\ tila[k] = "ehdotettu" => ehdotusaika[k] \in Paivat /\ hyvaksymisaika[k] = Nil
    /\ tila[k] = "hyvaksytty" => hyvaksymisaika[k] \in Paivat
=============================================================================
