\* Two requests race on one record.
CONSTANTS
  Pyynnot = {r1, r2}
  Kerrat = {k1}
  Osat = {o1, o2}
  Rivit = {v1, v2, v3}
  Sisallot = {s1}
  Paivat = {p1, p2}
  Nil = Nil
SPECIFICATION Spec
SYMMETRY Symmetria
INVARIANTS TyyppiOK Induktiivinen ViitteetEheat AjatVastaavatTilaa
PROPERTIES EiVanhojaArvioijia
