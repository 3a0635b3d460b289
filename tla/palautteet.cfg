\* Two methods that change, one that asks.
CONSTANTS
  Muutokset = {m1, m2}
  Kyselyt = {h1}
  MaxAikaleima = 5
SPECIFICATION Spec
INVARIANT TyyppiOK KaikkiNaytetty
PROPERTY ToteuttaaIlmoitukset
