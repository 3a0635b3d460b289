------------------------------ MODULE MCSelain ------------------------------
(***************************************************************************)
(* Selain with the pages of a committee: its list, its form                *)
(* (/toimikunta/:id/muokkaa), its members, the wizard for a new member and *)
(* the form for a new committee.                                           *)
(***************************************************************************)
EXTENDS Selain

MCSivut == {"lista", "muokkaa", "jasenet", "velho", "uusi"}
MCMetodit == {"toimikunnan-tiedot", "toimikunnan-tietojen-muokkaus",
              "muokkaa-toimikunnan-jasenia", "hae-henkilo-toimikunnan-jaseneksi",
              "uusi-henkilo", "uusi-toimikunnan-jasen", "toimikunnan-tallennus"}

MCLaji == [s \in MCSivut |-> CASE s = "lista" -> "katselu" [] s = "muokkaa" -> "crud"
                             [] OTHER -> s]
MCHaku == [s \in MCSivut |-> IF s \in {"muokkaa", "jasenet"} THEN "toimikunnan-tiedot" ELSE Nil]
MCTallennus == [s \in MCSivut |->
  CASE s = "jasenet" -> "muokkaa-toimikunnan-jasenia"
    [] s = "velho" -> "uusi-toimikunnan-jasen"
    [] s = "uusi" -> "toimikunnan-tallennus"
    [] OTHER -> "toimikunnan-tietojen-muokkaus"]
\* toimikunta.mustache, jasenet.mustache, jasen.mustache
MCNappi == [s \in MCSivut |->
  IF s = "uusi" THEN {"toimikunnan-tietojen-muokkaus"} ELSE {MCTallennus[s]}]
MCPaluu == [s \in MCSivut |-> IF s = "velho" THEN "jasenet" ELSE "lista"]
MCPeruutus == [s \in MCSivut |-> IF s \in {"jasenet", "uusi"} THEN "lista" ELSE Nil]
=============================================================================
