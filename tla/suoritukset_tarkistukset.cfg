\* Two requests on two records; edits, removals and approvals do not share a record with
\* a laheta or hyvaksy under way.
CONSTANTS
  Pyynnot = {r1, r2}
  Kerrat = {k1, k2}
  Osat = {o1, o2}
  Rivit = {v1}
  Sisallot = {s1, s2}
  Paivat = {p1, p2}
  Nil = Nil
SPECIFICATION Spec
SYMMETRY Symmetria
CONSTRAINT TarkistuksetPitavat
PROPERTIES VainLuonnostaMuokataan VainLuonnoksenArvioijatMuuttuvat VainLuonnosHyvaksytaan
