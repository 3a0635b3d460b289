\* One request at a time, the nightly run.
CONSTANTS
  Pyynnot = {r1}
  Eraajot = {e1}
  Sopimukset = {c1}
  Rivit = {v1, v2}
  Versiot = {w1}
  Toimikunnat = {t1}
  Paivat = {1, 2}
  Aikavalit <- AinaTaiAlussa
  Jaksot <- Yksi
  Nil = Nil
SPECIFICATION FairSpec

INVARIANTS Induktiivinen EiKahdesti PoistetullaEiRiveja
PROPERTIES PyyntoKorjaaPaivat ToteuttaaSopimuselinkaaren EraajoKorjaa
