\* An edit against a laheta or hyvaksy.
CONSTANTS
  Pyynnot = {r1, r2}
  Kerrat = {k1}
  Osat = {o1, o2}
  Rivit = {v1, v2}
  Sisallot = {s1, s2}
  Paivat = {p1, p2}
  Nil = Nil
SPECIFICATION Spec
SYMMETRY Symmetria
PROPERTIES VainLuonnostaMuokataan
