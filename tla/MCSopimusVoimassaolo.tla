------------------------ MODULE MCSopimusVoimassaolo ------------------------
EXTENDS SopimusVoimassaolo, TLC

Muutama == {<<1, Nil>>, <<1, 1>>, <<2, 2>>}
Yksi == {<<1, 1>>}
Aina == {<<1, 2>>}
AinaTaiAlussa == {<<1, 2>>, <<1, 1>>}

\* Bound: the day stays the first one.  It enters the column voimassa only.
SamaPaiva == tanaan = 1

\* Requests, nightly runs, agreements, rows, versions and committees are only ever
\* compared for equality.
Symmetria ==
  Permutations(Pyynnot) \union Permutations(Eraajot) \union Permutations(Sopimukset)
    \union Permutations(Rivit) \union Permutations(Versiot) \union Permutations(Toimikunnat)
=============================================================================
