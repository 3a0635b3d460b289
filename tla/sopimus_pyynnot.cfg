\* Two requests and a nightly run race on one agreement.
CONSTANTS
  Pyynnot = {r1, r2}
  Eraajot = {e1}
  Sopimukset = {c1}
  Rivit = {v1, v2}
  Versiot = {w1}
  Toimikunnat = {t1}
  Paivat = {1, 2}
  Aikavalit <- Aina
  Jaksot <- Muutama
  Nil = Nil
SPECIFICATION Spec
SYMMETRY Symmetria
CONSTRAINTS LuennatErillaan SamaPaiva
INVARIANTS TyyppiOK PaivatRiveista PoistettuEiVoimassa
PROPERTIES AlkuEiSiirryEteenpain PoistettuRiviPysyy
