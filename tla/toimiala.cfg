CONSTANTS
  Tutkinnot = {q1, q2}
  Valilehdet = {t1, t2}
SPECIFICATION ReiluSpec
INVARIANTS TyyppiOK
PROPERTIES PoistotVarmistettu ToteuttaaToimialalupauksen TallennusPaattyy
