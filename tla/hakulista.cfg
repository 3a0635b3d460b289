CONSTANTS
  Paikat = {c1, c2, c3, c4}
  Nil = Nil
  Metodit = {"toimikuntalistaus"}
  Listaus = "toimikuntalistaus"
  Ehdot = {"nykyinen", "tuleva"}
  Alkuehto = "nykyinen"
  Suotimet = {"", "nimi"}
  Alkusuodin = ""
  Rivit = {1, 2, 3}
  Osuvat <- MCOsuvat
  Lapaisevat <- MCLapaisevat
  Sivukoko = 2
SPECIFICATION ReiluSpec
INVARIANTS TyyppiOK TuloksetVastaavatEhtoja SivullaOnTuloksia KeskeneraistaEiNayteta
PROPERTY ToteuttaaHakulupauksen
