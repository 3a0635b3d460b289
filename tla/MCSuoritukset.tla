---------------------------- MODULE MCSuoritukset ----------------------------
EXTENDS Suoritukset, TLC

\* Requests, rows and dates are only ever compared for equality.
Symmetria ==
  Permutations(Pyynnot) \union Permutations(Kerrat) \union Permutations(Osat)
    \union Permutations(Rivit) \union Permutations(Paivat)

\* The behaviours VainLuonnos... are about: those of []TarkistuksetPitavat.
TarkistuksetPitavat == SiirrotErillaan({"muokkaa", "poista", "hyvaksy"})
=============================================================================
