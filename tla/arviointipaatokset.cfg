CONSTANTS
  Nil = Nil
  Kerrat = {k1, k2}
  Ehdot <- MCEhdot
  Tilaehto <- MCTilaehto
  Osuvat <- MCOsuvat
  Alkuehto = "kaikki"
  Paikat = {c1, c2}
  MaxMuut = 1
SPECIFICATION Spec
SYMMETRY Symmetria
CONSTRAINT PvmYksin
INVARIANTS TyyppiOK ListaTuore
