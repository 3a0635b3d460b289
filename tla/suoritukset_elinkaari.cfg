\* Batches of two records, liveness: no symmetry.
CONSTANTS
  Pyynnot = {r1, r2}
  Kerrat = {k1, k2}
  Osat = {o1}
  Rivit = {v1, v2}
  Sisallot = {s1}
  Paivat = {p1}
  Nil = Nil
SPECIFICATION FairSpec
PROPERTIES ToteuttaaElinkaaren PyyntoPaattyy
