------------------------ MODULE MCArviointipaatokset -------------------------
(***************************************************************************)
(* Arviointipaatokset with the three lists of the page: all records, the   *)
(* drafts and the approved ones.                                           *)
(***************************************************************************)
EXTENDS Arviointipaatokset, TLC

MCEhdot == {"kaikki", "luonnokset", "hyvaksytyt"}
MCTilaehto == [e \in MCEhdot |->
  CASE e = "kaikki" -> Nil [] e = "hyvaksytyt" -> "hyvaksytty" [] OTHER -> "luonnos"]
MCOsuvat == [e \in MCEhdot |-> Kerrat]
\* Bound: a date with ticks opens the same question and sends the same records
\* as the ticks do, so it is followed where it is the only key.
PvmYksin == Pvm \in form => form = {Pvm}

Symmetria == Permutations(Kerrat) \union Permutations(Paikat)
=============================================================================
