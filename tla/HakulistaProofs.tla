--------------------------- MODULE HakulistaProofs ---------------------------
(***************************************************************************)
(* Theorems about module Hakulista, for any criteria, rows, page sizes and *)
(* number of queries in flight: the list fits the criteria the page shows, *)
(* the page of the list the user is on has results when there are any, an  *)
(* open query is never shown as an empty answer, and the page implements   *)
(* Hakulupaus, its fairness left to TLC.                                   *)
(***************************************************************************)
EXTENDS Hakulista, RajapintakutsutProofs

\* The queries k and the counters P fit each other.
Sopivat(k, P) ==
  /\ k \in [Paikat -> Kyselyt \union {Nil}]
  /\ P \in [Metodit -> Int]
  /\ Tasmaavat(k, P)

\* The array on the scope is that of one query, which asked with the criteria
\* the page shows; while it is empty for want of an answer there is one.
OmaKysely ==
  /\ \A c, d \in Omat : c = d
  /\ \A c \in Omat : kutsu[c].ehto = ehto
  /\ kaikki.vaihe = "haussa" => Omat # {}

\* The array meets the criteria, the list is what passes the filter.
ListaEheys ==
  /\ kaikki.rivit \subseteq Osuvat[ehto]
  /\ hakutulokset = kaikki.rivit \cap Lapaisevat[suodin]

\* The page of the list begins with a result.
SivuAlkaa == hakutulokset # {} => mista <= Cardinality(hakutulokset)

\* The types of what the page keeps.
ListaTyyppi ==
  /\ ehto \in Ehdot /\ suodin \in Suotimet
  /\ kaikki \in [vaihe : Vaiheet, rivit : SUBSET Rivit]
  /\ hakutulokset \in SUBSET Rivit
  /\ nykyinenSivu \in Nat \ {0}
  /\ viimeinenPyyntoOnnistui \in BOOLEAN

\* The inductive invariant.
Induktiivinen == ListaTyyppi /\ Sopivat(kutsu, pyynnot) /\ OmaKysely /\ ListaEheys /\ SivuAlkaa

-----------------------------------------------------------------------------
(* Queries *)

\* A query that leaves from a free place is counted.
LEMMA KyselyLahtee ==
  ASSUME HakulistaOletus, NEW k, NEW P, Sopivat(k, P), NEW c \in Paikat, k[c] = Nil,
         NEW e \in Ehdot, NEW o \in BOOLEAN
  PROVE  /\ Sopivat([k EXCEPT ![c] = Kysely(e, o)], apiPyynto(P, Listaus))
         /\ \A d \in Paikat : [k EXCEPT ![c] = Kysely(e, o)][d] = IF d = c THEN Kysely(e, o) ELSE k[d]
         /\ Kysely(e, o) # Nil /\ Kysely(e, o).ehto = e /\ Kysely(e, o).oma = o
<1> DEFINE p == Kysely(e, o)
           n == [k EXCEPT ![c] = p]
<1>1. p \in Kyselyt /\ p.id = Listaus /\ p.ehto = e /\ p.oma = o
  BY DEF Kysely, Kyselyt
<1>2. Listaus \in Metodit /\ IsFiniteSet(Paikat) /\ Nil \notin Kyselyt
  BY DEF HakulistaOletus
<1>3. p # Nil
  BY <1>1, <1>2
<1>4. k \in [Paikat -> Kyselyt \union {Nil}] /\ P \in [Metodit -> Int] /\ Tasmaavat(k, P)
  BY DEF Sopivat
<1> HIDE DEF p
<1>5. n \in [Paikat -> Kyselyt \union {Nil}]
      /\ \A d \in Paikat : n[d] = IF d = c THEN p ELSE k[d]
  BY <1>1, <1>4
<1> HIDE DEF n
<1>6. Tasmaavat(n, apiPyynto(P, Listaus))
  BY <1>1, <1>2, <1>3, <1>4, <1>5, PyyntoLasketaan
<1>7. apiPyynto(P, Listaus) \in [Metodit -> Int]
  BY <1>2, <1>4 DEF apiPyynto
<1>8. Sopivat(n, apiPyynto(P, Listaus))
  BY <1>5, <1>6, <1>7 DEF Sopivat
<1>9. QED
  BY <1>1, <1>3, <1>5, <1>8 DEF n, p

\* The queries whose arrays have left the scope go on.
LEMMA VanhatSopivat ==
  ASSUME HakulistaOletus, NEW k, NEW P, Sopivat(k, P)
  PROVE  /\ Sopivat(Vanhat(k), P)
         /\ \A c \in Paikat : /\ k[c] = Nil => Vanhat(k)[c] = Nil
                              /\ k[c] # Nil => ~Vanhat(k)[c].oma
<1> DEFINE n == Vanhat(k)
<1>1. k \in [Paikat -> Kyselyt \union {Nil}] /\ P \in [Metodit -> Int] /\ Tasmaavat(k, P)
  BY DEF Sopivat
<1>2. ASSUME NEW c \in Paikat
      PROVE  /\ k[c] = Nil => n[c] = Nil
             /\ k[c] # Nil => n[c] \in Kyselyt /\ n[c] # Nil /\ ~n[c].oma /\ n[c].id = k[c].id
  <2>1. CASE k[c] = Nil
    BY <2>1 DEF Vanhat
  <2>2. CASE k[c] # Nil
    <3>1. k[c] \in Kyselyt
      BY <1>1, <2>2
    <3>2. n[c] = [k[c] EXCEPT !.oma = FALSE]
      BY <2>2 DEF Vanhat
    <3>3. n[c] \in Kyselyt /\ ~n[c].oma /\ n[c].id = k[c].id
      BY <3>1, <3>2 DEF Kyselyt
    <3>4. QED
      BY <2>2, <3>3 DEF HakulistaOletus
  <2>3. QED
    BY <2>1, <2>2
<1>3. n \in [Paikat -> Kyselyt \union {Nil}]
  <2>1. n = [c \in Paikat |-> n[c]]
    BY DEF Vanhat
  <2>2. QED
    BY <1>2, <2>1
<1> HIDE DEF n
<1>4. Tasmaavat(n, P)
  BY <1>1, <1>2, SamatPyynnot
<1>5. Sopivat(n, P)
  BY <1>1, <1>3, <1>4 DEF Sopivat
<1>6. QED
  BY <1>2, <1>5 DEF n

\* An answer, or a failure, ends its query.
LEMMA KyselyPaattyy ==
  ASSUME HakulistaOletus, NEW k, NEW P, Sopivat(k, P), NEW c \in Paikat, k[c] # Nil, NEW v
  PROVE  /\ Sopivat([k EXCEPT ![c] = Nil], apiVastaus(P, Listaus, v))
         /\ \A d \in Paikat : [k EXCEPT ![c] = Nil][d] = IF d = c THEN Nil ELSE k[d]
<1> DEFINE n == [k EXCEPT ![c] = Nil]
<1>1. k \in [Paikat -> Kyselyt \union {Nil}] /\ P \in [Metodit -> Int] /\ Tasmaavat(k, P)
  BY DEF Sopivat
<1>2. k[c].id = Listaus /\ Listaus \in Metodit /\ IsFiniteSet(Paikat)
  BY <1>1 DEF Kyselyt, HakulistaOletus
<1>3. n \in [Paikat -> Kyselyt \union {Nil}]
      /\ \A d \in Paikat : n[d] = IF d = c THEN Nil ELSE k[d]
  BY <1>1
<1> HIDE DEF n
<1>4. Tasmaavat(n, apiVastaus(P, Listaus, v))
  <2>1. k[c].id \in Metodit
    BY <1>2
  <2>2. Tasmaavat(n, apiVastaus(P, k[c].id, v))
    BY <1>1, <1>2, <1>3, <2>1, VastausLasketaan
  <2>3. QED
    BY <1>2, <2>2
<1>5. apiVastaus(P, Listaus, v) \in [Metodit -> Int]
  BY <1>1, <1>2 DEF apiVastaus
<1>6. QED
  BY <1>3, <1>4, <1>5 DEF Sopivat, n

-----------------------------------------------------------------------------
(* The list *)

\* Finitely many rows have a number.
LEMMA TulostenMaara ==
  ASSUME HakulistaOletus, NEW T \in SUBSET Rivit
  PROVE  Cardinality(T) \in Nat /\ (T # {} => Cardinality(T) >= 1)
<1>1. IsFiniteSet(T)
  BY FS_Subset DEF HakulistaOletus
<1>2. Cardinality(T) \in Nat /\ (Cardinality(T) = 0 <=> T = {})
  BY <1>1, FS_CardinalityType, FS_EmptySet
<1>3. QED
  BY <1>2

\* The directive hakutulokset leaves the user on a page that begins with a
\* result: the one he was on, when nothing has changed, or the first.
LEMMA TuloksetNaytetaan ==
  ASSUME HakulistaOletus, ListaTyyppi, SivuAlkaa,
         NEW T \in SUBSET Rivit, naytaTulokset(T)
  PROVE  hakutulokset' \in SUBSET Rivit /\ nykyinenSivu' \in Nat \ {0} /\ SivuAlkaa'
<1>1. hakutulokset' = T /\ nykyinenSivu' = IF T = hakutulokset THEN nykyinenSivu ELSE 1
  BY DEF naytaTulokset
<1>2. nykyinenSivu' \in Nat \ {0} /\ Sivukoko \in Nat
  BY <1>1 DEF ListaTyyppi, HakulistaOletus
<1>3. SivuAlkaa'
  <2>1. CASE T = hakutulokset
    BY <1>1, <2>1 DEF SivuAlkaa, mista
  <2>2. CASE T # hakutulokset
    <3>1. nykyinenSivu' = 1 /\ mista' = 1
      BY <1>1, <1>2, <2>2 DEF mista
    <3>2. QED
      BY <1>1, <3>1, TulostenMaara DEF SivuAlkaa
  <2>3. QED
    BY <2>1, <2>2
<1>4. QED
  BY <1>1, <1>2, <1>3

\* The page that opens satisfies the inductive invariant.
LEMMA AlkuInd == HakulistaOletus /\ Init => Induktiivinen
<1> SUFFICES ASSUME HakulistaOletus, Init PROVE Induktiivinen
  OBVIOUS
<1>1. ListaTyyppi
  <2>1. Alkuehto \in Ehdot /\ Alkusuodin \in Suotimet
    BY DEF HakulistaOletus
  <2>2. viimeinenPyyntoOnnistui \in BOOLEAN
    BY Zenon DEF Init
  <2>3. QED
    BY <2>1, <2>2 DEF Init, ListaTyyppi, Vaiheet
<1>2. kutsu = [c \in Paikat |-> Nil] /\ pyynnot = EiPyyntoja
  BY DEF Init, KutsuInit
<1>3. Sopivat(kutsu, pyynnot)
  <2>1. pyynnot \in [Metodit -> Int]
    BY <1>2 DEF EiPyyntoja
  <2>2. QED
    BY <1>2, <2>1, TyhjatTasmaavat DEF Sopivat
<1>4. OmaKysely
  BY <1>2 DEF Init, OmaKysely, Omat
<1>5. ListaEheys /\ SivuAlkaa
  BY DEF Init, ListaEheys, SivuAlkaa
<1>6. QED
  BY <1>1, <1>3, <1>4, <1>5 DEF Induktiivinen

-----------------------------------------------------------------------------
(* Events *)

\* What asking with criteria e does to the requests.
LEMMA HaeKutsut ==
  ASSUME HakulistaOletus, Induktiivinen, NEW e \in Ehdot, hae(e)
  PROVE  /\ Sopivat(kutsu', pyynnot')
         /\ \E c \in Paikat : kutsu[c] = Nil /\ Omat' = {c} /\ kutsu'[c].ehto = e
<1>1. PICK c \in Vapaat(kutsu) : /\ kutsu' = [Vanhat(kutsu) EXCEPT ![c] = Kysely(e, TRUE)]
                                 /\ pyynnot' = apiPyynto(pyynnot, Listaus)
  BY DEF hae
<1>2. c \in Paikat /\ kutsu[c] = Nil
  BY DEF Vapaat
<1>3. /\ Sopivat(Vanhat(kutsu), pyynnot) /\ Vanhat(kutsu)[c] = Nil
      /\ \A d \in Paikat : /\ kutsu[d] = Nil => Vanhat(kutsu)[d] = Nil
                           /\ kutsu[d] # Nil => ~Vanhat(kutsu)[d].oma
  BY <1>2, VanhatSopivat DEF Induktiivinen
<1>4. TRUE \in BOOLEAN
  OBVIOUS
<1>5. /\ Sopivat(kutsu', pyynnot')
      /\ \A d \in Paikat : kutsu'[d] = IF d = c THEN Kysely(e, TRUE) ELSE Vanhat(kutsu)[d]
      /\ Kysely(e, TRUE) # Nil /\ Kysely(e, TRUE).ehto = e /\ Kysely(e, TRUE).oma = TRUE
  <2> DEFINE v == Vanhat(kutsu)
             q == Kysely(e, TRUE)
  <2>1. Sopivat(v, pyynnot) /\ v[c] = Nil
    BY <1>3
  <2> HIDE DEF v
  <2>2. /\ Sopivat([v EXCEPT ![c] = q], apiPyynto(pyynnot, Listaus))
        /\ \A d \in Paikat : [v EXCEPT ![c] = q][d] = IF d = c THEN q ELSE v[d]
        /\ q # Nil /\ q.ehto = e /\ q.oma = TRUE
    BY <1>2, <1>4, <2>1, KyselyLahtee, Zenon
  <2> HIDE DEF q
  <2>3. kutsu' = [v EXCEPT ![c] = q] /\ pyynnot' = apiPyynto(pyynnot, Listaus)
    BY <1>1 DEF v, q
  <2>4. QED
    BY <2>2, <2>3 DEF v, q
<1>6. Omat' = {c}
  BY <1>2, <1>3, <1>5 DEF Omat
<1>7. QED
  BY <1>2, <1>5, <1>6

\* Asking keeps the invariant: the new, empty array replaces the old one at
\* once, and the page of the list with it.
LEMMA HaeInd ==
  ASSUME HakulistaOletus, Induktiivinen, NEW e \in Ehdot, hae(e)
  PROVE  Induktiivinen'
<1>1. ListaTyyppi /\ SivuAlkaa
  BY DEF Induktiivinen
<1>2. /\ ehto' = e /\ kaikki' = Haussa /\ suodin' = suodin
      /\ naytaTulokset(Haussa.rivit \cap Lapaisevat[suodin])
      /\ viimeinenPyyntoOnnistui' = viimeinenPyyntoOnnistui
  BY DEF hae, suodata
<1>3. Haussa.rivit \cap Lapaisevat[suodin] = {} /\ Haussa.rivit = {} /\ Haussa.vaihe = "haussa"
  BY DEF Haussa
<1>4. naytaTulokset({}) /\ {} \in SUBSET Rivit
  BY <1>2, <1>3
<1>5. hakutulokset' = {} /\ nykyinenSivu' \in Nat \ {0} /\ SivuAlkaa'
  BY <1>1, <1>4, TuloksetNaytetaan DEF naytaTulokset
<1>6. kaikki' \in [vaihe : Vaiheet, rivit : SUBSET Rivit]
  BY <1>2 DEF Haussa, Vaiheet
<1>7. ListaTyyppi'
  BY <1>1, <1>2, <1>5, <1>6 DEF ListaTyyppi
<1>8. ListaEheys'
  BY <1>2, <1>3, <1>5 DEF ListaEheys
<1>9. Sopivat(kutsu', pyynnot') /\ OmaKysely'
  <2>1. PICK c \in Paikat : Omat' = {c} /\ kutsu'[c].ehto = e
    BY HaeKutsut
  <2>2. OmaKysely'
    BY <1>2, <2>1 DEF OmaKysely
  <2>3. QED
    BY <2>2, HaeKutsut
<1>10. QED
  BY <1>5, <1>7, <1>8, <1>9 DEF Induktiivinen

\* What opening the page does to the requests: two queries, and the array of
\* the second one stays.
LEMMA AvaaKutsut ==
  ASSUME HakulistaOletus, Induktiivinen, Avaa
  PROVE  /\ Sopivat(kutsu', pyynnot')
         /\ \E d \in Paikat : kutsu[d] = Nil /\ Omat' = {d} /\ kutsu'[d].ehto = Alkuehto
<1> DEFINE p == Kysely(Alkuehto, FALSE)
           q == Kysely(Alkuehto, TRUE)
           v == Vanhat(kutsu)
<1>1. PICK c, d \in Vapaat(kutsu) :
        c # d /\ kutsu' = [v EXCEPT ![c] = p, ![d] = q]
  BY DEF Avaa
<1> DEFINE k == [v EXCEPT ![c] = p]
<1>2. c \in Paikat /\ kutsu[c] = Nil /\ d \in Paikat /\ kutsu[d] = Nil
  BY DEF Vapaat
<1>3. /\ Sopivat(v, pyynnot) /\ v[c] = Nil /\ v[d] = Nil
      /\ \A x \in Paikat : (kutsu[x] = Nil => v[x] = Nil) /\ (kutsu[x] # Nil => ~v[x].oma)
  BY <1>2, VanhatSopivat DEF Induktiivinen
<1>4. Alkuehto \in Ehdot /\ TRUE \in BOOLEAN /\ FALSE \in BOOLEAN
  BY DEF HakulistaOletus
<1> HIDE DEF v
<1>5. /\ Sopivat(k, apiPyynto(pyynnot, Listaus))
      /\ \A x \in Paikat : k[x] = IF x = c THEN p ELSE v[x]
      /\ p # Nil /\ p.oma = FALSE
  <2>1. /\ Sopivat([v EXCEPT ![c] = p], apiPyynto(pyynnot, Listaus))
        /\ \A x \in Paikat : [v EXCEPT ![c] = p][x] = IF x = c THEN p ELSE v[x]
        /\ p # Nil
    <3>1. c \in Paikat /\ Sopivat(v, pyynnot) /\ v[c] = Nil
      BY <1>2, <1>3
    <3>2. PICK o \in BOOLEAN : o = FALSE
      OBVIOUS
    <3>3. /\ Sopivat([v EXCEPT ![c] = Kysely(Alkuehto, o)], apiPyynto(pyynnot, Listaus))
          /\ \A x \in Paikat : [v EXCEPT ![c] = Kysely(Alkuehto, o)][x]
                                 = IF x = c THEN Kysely(Alkuehto, o) ELSE v[x]
          /\ Kysely(Alkuehto, o) # Nil
      BY <1>4, <3>1, KyselyLahtee
    <3>4. Kysely(Alkuehto, o) = p
      BY <3>2 DEF Kysely
    <3> HIDE DEF p
    <3>5. QED
      BY <3>3, <3>4
  <2>2. p.oma = FALSE
    BY DEF Kysely
  <2>3. QED
    BY <2>1, <2>2
<1>6. pyynnot' = apiPyynto(apiPyynto(pyynnot, Listaus), Listaus)
  BY DEF Avaa
<1>7. kutsu' = [k EXCEPT ![d] = q] /\ k[d] = Nil
  BY <1>1, <1>2, <1>3, <1>5
<1> HIDE DEF k
<1>8. /\ Sopivat(kutsu', pyynnot')
      /\ \A x \in Paikat : kutsu'[x] = IF x = d THEN q ELSE k[x]
      /\ q # Nil /\ q.ehto = Alkuehto /\ q.oma = TRUE
  <2>1. /\ Sopivat([k EXCEPT ![d] = q], apiPyynto(apiPyynto(pyynnot, Listaus), Listaus))
        /\ \A x \in Paikat : [k EXCEPT ![d] = q][x] = IF x = d THEN q ELSE k[x]
        /\ q # Nil /\ q.ehto = Alkuehto /\ q.oma = TRUE
    BY <1>2, <1>4, <1>5, <1>7, KyselyLahtee, Zenon
  <2> HIDE DEF q
  <2>2. QED
    BY <1>6, <1>7, <2>1
<1> HIDE DEF p, q
<1>9. Omat' = {d}
  BY <1>1, <1>2, <1>3, <1>5, <1>8 DEF Omat
<1>10. QED
  BY <1>2, <1>8, <1>9

\* Opening the page keeps the invariant.
LEMMA AvaaInd ==
  ASSUME HakulistaOletus, Induktiivinen, Avaa
  PROVE  Induktiivinen'
<1>1. /\ ehto' = Alkuehto /\ suodin' = Alkusuodin /\ kaikki' = Haussa /\ hakutulokset' = {}
      /\ nykyinenSivu' = 1 /\ viimeinenPyyntoOnnistui' = viimeinenPyyntoOnnistui
  BY DEF Avaa
<1>2. Haussa.rivit = {} /\ Haussa \in [vaihe : Vaiheet, rivit : SUBSET Rivit]
      /\ Haussa.vaihe = "haussa"
  BY DEF Haussa, Vaiheet
<1>3. ListaTyyppi'
  BY <1>1, <1>2 DEF ListaTyyppi, Induktiivinen, HakulistaOletus
<1>4. ListaEheys' /\ SivuAlkaa'
  BY <1>1, <1>2 DEF ListaEheys, SivuAlkaa
<1>5. Sopivat(kutsu', pyynnot') /\ OmaKysely'
  <2>1. PICK d \in Paikat : Omat' = {d} /\ kutsu'[d].ehto = Alkuehto
    BY AvaaKutsut
  <2>2. OmaKysely'
    BY <1>1, <2>1 DEF OmaKysely
  <2>3. QED
    BY <2>2, AvaaKutsut
<1>6. QED
  BY <1>3, <1>4, <1>5 DEF Induktiivinen

\* Filtering what the page has keeps the invariant.
LEMMA AsetaSuodinInd ==
  ASSUME HakulistaOletus, Induktiivinen, NEW s \in Suotimet, AsetaSuodin(s)
  PROVE  Induktiivinen'
<1>1. ListaTyyppi /\ SivuAlkaa /\ ListaEheys /\ OmaKysely /\ Sopivat(kutsu, pyynnot)
  BY DEF Induktiivinen
<1>2. /\ kaikki' = kaikki /\ suodin' = s /\ naytaTulokset(kaikki.rivit \cap Lapaisevat[s])
      /\ UNCHANGED <<ehto, viimeinenPyyntoOnnistui, kutsu, pyynnot>>
  BY DEF AsetaSuodin, suodata, kutsuVars
<1>3. kaikki.rivit \cap Lapaisevat[s] \in SUBSET Rivit
  BY <1>1 DEF ListaTyyppi
<1>4. /\ hakutulokset' \in SUBSET Rivit /\ nykyinenSivu' \in Nat \ {0} /\ SivuAlkaa'
      /\ hakutulokset' = kaikki.rivit \cap Lapaisevat[s]
  BY <1>1, <1>2, <1>3, TuloksetNaytetaan DEF naytaTulokset
<1>5. ListaTyyppi' /\ ListaEheys'
  BY <1>1, <1>2, <1>4 DEF ListaTyyppi, ListaEheys
<1>6. OmaKysely'
  BY <1>1, <1>2 DEF OmaKysely, Omat
<1>7. QED
  BY <1>1, <1>2, <1>4, <1>5, <1>6 DEF Induktiivinen

\* The page numbers are those of pages with results.
LEMMA SivujaEnintaan ==
  ASSUME NEW n \in Nat, NEW S \in Nat \ {0}, NEW p \in Nat \ {0}, n >= 1,
         p <= (n + S - 1) \div S
  PROVE  (p - 1) * S + 1 <= n
<1> DEFINE q == (n + S - 1) \div S
<1>1. q \in Int /\ q * S <= n + S - 1
  OBVIOUS
<1> HIDE DEF q
<1>2. p * S <= q * S
  <2>1. p <= q
    BY DEF q
  <2>2. QED
    BY <1>1, <2>1
<1>3. (p - 1) * S = p * S - S
  OBVIOUS
<1>4. p * S \in Int /\ q * S \in Int
  BY <1>1
<1>5. QED
  BY <1>1, <1>2, <1>3, <1>4

\* Turning a page of the list.
LEMMA SivulleInd ==
  ASSUME HakulistaOletus, Induktiivinen, NEW p \in 1..Sivuja, Sivulle(p)
  PROVE  Induktiivinen'
<1>1. ListaTyyppi /\ SivuAlkaa /\ ListaEheys /\ OmaKysely /\ Sopivat(kutsu, pyynnot)
  BY DEF Induktiivinen
<1>2. /\ nykyinenSivu' = p
      /\ UNCHANGED <<ehto, suodin, kaikki, hakutulokset, viimeinenPyyntoOnnistui, kutsu, pyynnot>>
  BY DEF Sivulle, kutsuVars
<1>3. Cardinality(hakutulokset) \in Nat
      /\ (hakutulokset # {} => Cardinality(hakutulokset) >= 1)
  BY <1>1, TulostenMaara DEF ListaTyyppi
<1>4. Sivukoko \in Nat \ {0}
  BY DEF HakulistaOletus
<1>5. p \in Nat \ {0}
  OBVIOUS
<1>6. SivuAlkaa'
  <2> SUFFICES ASSUME hakutulokset # {}
               PROVE  (p - 1) * Sivukoko + 1 <= Cardinality(hakutulokset)
    BY <1>2 DEF SivuAlkaa, mista
  <2> DEFINE n == Cardinality(hakutulokset)
  <2>1. n \in Nat /\ n >= 1
    BY <1>3
  <2>2. Sivuja = (n + Sivukoko - 1) \div Sivukoko
    BY <2>1 DEF Sivuja
  <2>3. (n + Sivukoko - 1) \div Sivukoko \in Int
    BY <1>4, <2>1
  <2> HIDE DEF n
  <2>4. p <= (n + Sivukoko - 1) \div Sivukoko
    BY <2>2, <2>3
  <2>5. (p - 1) * Sivukoko + 1 <= n
    BY <1>4, <1>5, <2>1, <2>4, SivujaEnintaan
  <2>6. QED
    BY <2>5 DEF n
<1>7. ListaTyyppi' /\ ListaEheys'
  BY <1>1, <1>2, <1>5 DEF ListaTyyppi, ListaEheys
<1>8. OmaKysely'
  BY <1>1, <1>2 DEF OmaKysely, Omat
<1>9. QED
  BY <1>1, <1>2, <1>6, <1>7, <1>8 DEF Induktiivinen

\* What an answer in place c does to the requests.
LEMMA VastausKutsut ==
  ASSUME HakulistaOletus, Induktiivinen, NEW c \in Paikat, NEW v \in BOOLEAN, Vastaus(c, v)
  PROVE  /\ Sopivat(kutsu', pyynnot')
         /\ kutsu[c] \in Kyselyt /\ Omat' = Omat \ {c} /\ (c \in Omat <=> kutsu[c].oma)
         /\ \A d \in Omat' : kutsu'[d] = kutsu[d]
<1>1. /\ kutsu[c] # Nil /\ kutsu' = [kutsu EXCEPT ![c] = Nil]
      /\ pyynnot' = apiVastaus(pyynnot, Listaus, v)
  BY DEF Vastaus
<1>2. Sopivat(kutsu, pyynnot)
  BY DEF Induktiivinen
<1>3. kutsu[c] \in Kyselyt
  BY <1>1, <1>2 DEF Sopivat
<1>4. Sopivat(kutsu', pyynnot') /\ \A d \in Paikat : kutsu'[d] = IF d = c THEN Nil ELSE kutsu[d]
  BY <1>1, <1>2, KyselyPaattyy
<1>5. Omat' = Omat \ {c}
  BY <1>4 DEF Omat
<1>6. c \in Omat <=> kutsu[c].oma
  BY <1>1 DEF Omat
<1>7. QED
  BY <1>3, <1>4, <1>5, <1>6 DEF Omat

\* The answer to the query of the array on the scope fills it; the answer to
\* an older query does not reach the list.
LEMMA VastausLista ==
  ASSUME HakulistaOletus, Induktiivinen, NEW c \in Paikat, NEW v \in BOOLEAN, Vastaus(c, v)
  PROVE  /\ ehto' = ehto /\ suodin' = suodin
         /\ \/ /\ c \in Omat /\ ~v
               /\ \E R \in SUBSET Osuvat[ehto] :
                    /\ kaikki' = [vaihe |-> "valmis", rivit |-> R]
                    /\ naytaTulokset(R \cap Lapaisevat[suodin])
            \/ /\ c \in Omat /\ v
               /\ kaikki' = [kaikki EXCEPT !.vaihe = "virhe"]
               /\ UNCHANGED <<hakutulokset, nykyinenSivu>>
            \/ /\ c \notin Omat
               /\ UNCHANGED <<kaikki, hakutulokset, nykyinenSivu>>
<1>1. kutsu[c] \in Kyselyt /\ (c \in Omat <=> kutsu[c].oma)
  BY VastausKutsut
<1>2. c \in Omat => kutsu[c].ehto = ehto
  BY DEF Induktiivinen, OmaKysely
<1>3. CASE ~v
  <2>1. PICK R \in SUBSET Osuvat[kutsu[c].ehto] : tayta(kutsu[c], R)
    BY <1>3 DEF Vastaus
  <2>2. CASE c \in Omat
    <3>1. suodata([vaihe |-> "valmis", rivit |-> R], suodin) /\ R \in SUBSET Osuvat[ehto]
      BY <1>1, <1>2, <2>1, <2>2 DEF tayta
    <3>2. ehto' = ehto
      BY DEF Vastaus
    <3>3. QED
      BY <1>3, <2>2, <3>1, <3>2 DEF suodata
  <2>3. CASE c \notin Omat
    BY <1>1, <2>1, <2>3 DEF tayta, Vastaus
  <2>4. QED
    BY <2>2, <2>3
<1>4. CASE v
  BY <1>1, <1>4 DEF Vastaus
<1>5. QED
  BY <1>3, <1>4

\* An answer keeps the inductive invariant.
LEMMA VastausInd ==
  ASSUME HakulistaOletus, Induktiivinen, NEW c \in Paikat, NEW v \in BOOLEAN, Vastaus(c, v)
  PROVE  Induktiivinen'
<1>1. ListaTyyppi /\ SivuAlkaa /\ ListaEheys /\ OmaKysely
  BY DEF Induktiivinen
<1>2. ehto' = ehto /\ suodin' = suodin
  BY VastausLista
<1>3. viimeinenPyyntoOnnistui' \in BOOLEAN
  <2>1. viimeinenPyyntoOnnistui' = ~v
    BY DEF Vastaus
  <2>2. QED
    BY <2>1, Zenon
<1>4. /\ Sopivat(kutsu', pyynnot') /\ Omat' = Omat \ {c}
      /\ \A d \in Omat' : kutsu'[d] = kutsu[d]
  BY VastausKutsut
<1>5. CASE /\ c \in Omat
           /\ \E R \in SUBSET Osuvat[ehto] :
                /\ kaikki' = [vaihe |-> "valmis", rivit |-> R]
                /\ naytaTulokset(R \cap Lapaisevat[suodin])
  <2>1. PICK R \in SUBSET Osuvat[ehto] :
          /\ kaikki' = [vaihe |-> "valmis", rivit |-> R]
          /\ naytaTulokset(R \cap Lapaisevat[suodin])
    BY <1>5
  <2>2. R \in SUBSET Rivit
    BY <1>1 DEF ListaTyyppi, HakulistaOletus
  <2>3. R \cap Lapaisevat[suodin] \in SUBSET Rivit
    BY <2>2
  <2>4. /\ hakutulokset' \in SUBSET Rivit /\ nykyinenSivu' \in Nat \ {0} /\ SivuAlkaa'
        /\ hakutulokset' = R \cap Lapaisevat[suodin]
    BY <1>1, <2>1, <2>3, TuloksetNaytetaan DEF naytaTulokset
  <2>5. kaikki'.rivit = R /\ kaikki'.vaihe = "valmis"
        /\ kaikki' \in [vaihe : Vaiheet, rivit : SUBSET Rivit]
    BY <2>1, <2>2 DEF Vaiheet
  <2>6. ListaTyyppi' /\ ListaEheys'
    BY <1>1, <1>2, <1>3, <2>4, <2>5 DEF ListaTyyppi, ListaEheys
  <2>7. OmaKysely'
    BY <1>1, <1>2, <1>4, <2>5 DEF OmaKysely
  <2>8. QED
    BY <1>4, <2>4, <2>6, <2>7 DEF Induktiivinen
<1>6. CASE /\ c \in Omat
           /\ kaikki' = [kaikki EXCEPT !.vaihe = "virhe"]
           /\ UNCHANGED <<hakutulokset, nykyinenSivu>>
  <2>1. kaikki'.rivit = kaikki.rivit /\ kaikki'.vaihe = "virhe"
        /\ kaikki' \in [vaihe : Vaiheet, rivit : SUBSET Rivit]
    BY <1>1, <1>6 DEF ListaTyyppi, Vaiheet
  <2>2. ListaTyyppi' /\ ListaEheys' /\ SivuAlkaa'
    BY <1>1, <1>2, <1>3, <1>6, <2>1 DEF ListaTyyppi, ListaEheys, SivuAlkaa, mista
  <2>3. OmaKysely'
    BY <1>1, <1>2, <1>4, <2>1 DEF OmaKysely
  <2>4. QED
    BY <1>4, <2>2, <2>3 DEF Induktiivinen
<1>7. CASE c \notin Omat /\ UNCHANGED <<kaikki, hakutulokset, nykyinenSivu>>
  <2>1. ListaTyyppi' /\ ListaEheys' /\ SivuAlkaa'
    BY <1>1, <1>2, <1>3, <1>7 DEF ListaTyyppi, ListaEheys, SivuAlkaa, mista
  <2>2. OmaKysely'
    BY <1>1, <1>2, <1>4, <1>7 DEF OmaKysely
  <2>3. QED
    BY <1>4, <2>1, <2>2 DEF Induktiivinen
<1>8. QED
  BY <1>5, <1>6, <1>7, VastausLista

\* Every event of the page keeps the inductive invariant.
LEMMA AskelInd == HakulistaOletus /\ Induktiivinen /\ [Next]_vars => Induktiivinen'
<1> SUFFICES ASSUME HakulistaOletus, Induktiivinen, [Next]_vars PROVE Induktiivinen'
  OBVIOUS
<1>1. CASE Avaa
  BY <1>1, AvaaInd
<1>2. CASE yritaUudelleen
  <2>1. ehto \in Ehdot /\ hae(ehto)
    BY <1>2 DEF yritaUudelleen, Induktiivinen, ListaTyyppi
  <2>2. QED
    BY <2>1, HaeInd
<1>3. ASSUME NEW e \in Ehdot, AsetaEhto(e)
      PROVE  Induktiivinen'
  BY <1>3, HaeInd DEF AsetaEhto
<1>4. ASSUME NEW s \in Suotimet, AsetaSuodin(s)
      PROVE  Induktiivinen'
  BY <1>4, AsetaSuodinInd
<1>5. ASSUME NEW p \in 1..Sivuja, Sivulle(p)
      PROVE  Induktiivinen'
  BY <1>5, SivulleInd
<1>6. ASSUME NEW c \in Paikat, NEW v \in BOOLEAN, Vastaus(c, v)
      PROVE  Induktiivinen'
  BY <1>6, VastausInd
<1>7. CASE UNCHANGED vars
  <2>1. UNCHANGED <<ehto, suodin, kaikki, hakutulokset, nykyinenSivu, viimeinenPyyntoOnnistui,
                    kutsu, pyynnot>>
    BY <1>7 DEF vars, listaVars, kutsuVars
  <2>2. QED
    BY <2>1 DEF Induktiivinen, ListaTyyppi, OmaKysely, Omat, ListaEheys, SivuAlkaa, mista
<1>8. QED
  BY <1>1, <1>2, <1>3, <1>4, <1>5, <1>6, <1>7 DEF Next

-----------------------------------------------------------------------------
(* Theorems *)

\* The inductive invariant: the array on the scope is that of the latest
\* query, the list is what the filter lets through of it, its page has
\* results.
THEOREM Pysyvyys == Spec => []Induktiivinen
<1>1. Init => Induktiivinen
  BY HakulistaOletus, AlkuInd
<1>2. Induktiivinen /\ [Next]_vars => Induktiivinen'
  BY HakulistaOletus, AskelInd
<1>3. QED
  BY <1>1, <1>2, PTL DEF Spec

\* Every variable keeps to its type; pages are counted from one.
THEOREM Tyypit == Spec => []TyyppiOK
<1>1. Induktiivinen => TyyppiOK
  BY DEF Induktiivinen, ListaTyyppi, Sopivat, TyyppiOK
<1>2. QED
  BY <1>1, Pysyvyys, PTL

\* The list (suodataToimikunnat) has only rows that meet the criteria the
\* page shows, in whatever order the answers come.
THEOREM Tulokset == Spec => []TuloksetVastaavatEhtoja
<1>1. Induktiivinen => TuloksetVastaavatEhtoja
  BY DEF Induktiivinen, ListaEheys, TuloksetVastaavatEhtoja
<1>2. QED
  BY <1>1, Pysyvyys, PTL

\* When there are results, the page of the list (hakutuloslaskuri) shows some.
THEOREM Sivut == Spec => []SivullaOnTuloksia
<1>1. ASSUME Induktiivinen
      PROVE  SivullaOnTuloksia
  <2> SUFFICES ASSUME hakutulokset # {} PROVE mista <= mihin
    BY DEF SivullaOnTuloksia
  <2> DEFINE n == Cardinality(hakutulokset)
             a == (nykyinenSivu - 1) * Sivukoko
             b == nykyinenSivu * Sivukoko
  <2>1. n \in Nat
    BY <1>1, HakulistaOletus, TulostenMaara DEF Induktiivinen, ListaTyyppi
  <2>2. nykyinenSivu \in Nat /\ Sivukoko \in Nat /\ Sivukoko >= 1
    BY <1>1, HakulistaOletus DEF HakulistaOletus, Induktiivinen, ListaTyyppi
  <2>3. mista = a + 1 /\ mista <= n
    BY <1>1 DEF Induktiivinen, SivuAlkaa, mista
  <2>4. mihin = IF b < n THEN b ELSE n
    BY DEF mihin
  <2>5. b = a + Sivukoko /\ a \in Int
    BY <2>2
  <2> HIDE DEF n, a, b
  <2>6. QED
    BY <2>1, <2>2, <2>3, <2>4, <2>5
<1>2. QED
  BY <1>1, Pysyvyys, PTL

\* While the answer to the query of the list is awaited, the directive
\* latausIndikaattori shows that it is, whatever other queries have ended.
THEOREM Keskenerainen == Spec => []KeskeneraistaEiNayteta
<1>1. ASSUME Induktiivinen
      PROVE  KeskeneraistaEiNayteta
  <2> SUFFICES ASSUME kaikki.vaihe = "haussa" PROVE latausKaynnissa
    BY DEF KeskeneraistaEiNayteta
  <2>1. PICK c \in Omat : TRUE
    BY <1>1 DEF Induktiivinen, OmaKysely
  <2>2. Sopivat(kutsu, pyynnot) /\ IsFiniteSet(Paikat) /\ Listaus \in Metodit
    BY <1>1, HakulistaOletus DEF Induktiivinen, HakulistaOletus
  <2>3. c \in Kohti(kutsu, Listaus)
    BY <2>1, <2>2 DEF Omat, Kohti, Sopivat, Kyselyt
  <2>4. pyynnot[Listaus] # 0
    BY <2>2, <2>3, LaskuriNolla DEF Sopivat
  <2>5. QED
    BY <2>4 DEF latausKaynnissa, PyyntojaKaynnissa
<1>2. QED
  BY <1>1, Pysyvyys, PTL

-----------------------------------------------------------------------------
(* The refinement *)

\* The open question of Hakulupaus is the query whose array is on the scope.
LEMMA AvoinKysely ==
  /\ Omat = {} => avoin = Nil
  /\ \A c : Omat = {c} => avoin = c
BY DEF avoin

\* A new query takes the place of the open question.
LEMMA KysymysVaihtuu ==
  ASSUME HakulistaOletus, Induktiivinen,
         \E c \in Paikat : kutsu[c] = Nil /\ Omat' = {c},
         ehto' \in Ehdot, suodin' \in Suotimet, kaikki'.rivit = {}, hakutulokset' = {}
  PROVE  Lupaus!Next
<1>1. PICK c \in Paikat : kutsu[c] = Nil /\ Omat' = {c}
  OBVIOUS
<1>2. avoin' = c
  BY <1>1, AvoinKysely DEF avoin
<1>3. avoin # c
  <2>1. c \notin Omat /\ c # Nil
    BY <1>1 DEF Omat, HakulistaOletus
  <2>2. CASE Omat = {}
    BY <2>1, <2>2, AvoinKysely
  <2>3. CASE Omat # {}
    BY <2>1, <2>3 DEF avoin
  <2>4. QED
    BY <2>2, <2>3
<1>4. Lupaus!Kysy(c, ehto', suodin')
  BY <1>2, <1>3 DEF Lupaus!Kysy
<1>5. QED
  BY <1>4 DEF Lupaus!Next

\* Filtering is the step Suodata; the open question stays.
LEMMA SuodinToteutuu ==
  ASSUME HakulistaOletus, Induktiivinen, NEW s \in Suotimet, AsetaSuodin(s)
  PROVE  Lupaus!Next
<1>1. /\ kaikki' = kaikki /\ suodin' = s /\ hakutulokset' = kaikki.rivit \cap Lapaisevat[s]
      /\ ehto' = ehto /\ kutsu' = kutsu
  BY DEF AsetaSuodin, suodata, naytaTulokset, kutsuVars
<1>2. avoin' = avoin
  BY <1>1 DEF avoin, Omat
<1>3. Lupaus!Suodata(s)
  BY <1>1, <1>2 DEF Lupaus!Suodata
<1>4. QED
  BY <1>3 DEF Lupaus!Next

\* The answer to the query of the array on the scope answers the open
\* question, or fails it; other answers are not seen.
LEMMA VastausToteutuu ==
  ASSUME HakulistaOletus, Induktiivinen, NEW c \in Paikat, NEW v \in BOOLEAN, Vastaus(c, v)
  PROVE  [Lupaus!Next]_(Lupaus!vars)
<1>1. /\ Omat' = Omat \ {c} /\ \A d \in Omat' : kutsu'[d] = kutsu[d]
  BY VastausKutsut
<1>2. ehto' = ehto /\ suodin' = suodin
  BY VastausLista
<1>3. c \in Omat => Omat = {c} /\ avoin = c /\ c # Nil /\ avoin' = Nil
  <2> SUFFICES ASSUME c \in Omat
               PROVE  Omat = {c} /\ avoin = c /\ c # Nil /\ avoin' = Nil
    OBVIOUS
  <2>1. Omat = {c}
    BY DEF Induktiivinen, OmaKysely
  <2>2. avoin = c /\ c # Nil
    BY <2>1, AvoinKysely DEF HakulistaOletus
  <2>3. avoin' = Nil
    BY <1>1, <2>1 DEF avoin
  <2>4. QED
    BY <2>1, <2>2, <2>3
<1>4. CASE /\ c \in Omat
           /\ \E R \in SUBSET Osuvat[ehto] :
                /\ kaikki' = [vaihe |-> "valmis", rivit |-> R]
                /\ naytaTulokset(R \cap Lapaisevat[suodin])
  <2>1. PICK R \in SUBSET Osuvat[ehto] :
          /\ kaikki' = [vaihe |-> "valmis", rivit |-> R]
          /\ naytaTulokset(R \cap Lapaisevat[suodin])
    BY <1>4
  <2>2. kaikki'.rivit = R /\ hakutulokset' = R \cap Lapaisevat[suodin]
    BY <2>1 DEF naytaTulokset
  <2>3. Lupaus!Vastaa(R)
    BY <1>2, <1>3, <1>4, <2>2 DEF Lupaus!Vastaa
  <2>4. QED
    BY <2>3 DEF Lupaus!Next
<1>5. CASE /\ c \in Omat
           /\ kaikki' = [kaikki EXCEPT !.vaihe = "virhe"]
           /\ UNCHANGED <<hakutulokset, nykyinenSivu>>
  <2>1. kaikki'.rivit = kaikki.rivit
    BY <1>5 DEF Induktiivinen, ListaTyyppi
  <2>2. Lupaus!Epaonnistu
    BY <1>2, <1>3, <1>5, <2>1 DEF Lupaus!Epaonnistu
  <2>3. QED
    BY <2>2 DEF Lupaus!Next
<1>6. CASE c \notin Omat /\ UNCHANGED <<kaikki, hakutulokset, nykyinenSivu>>
  <2>1. Omat' = Omat
    BY <1>1, <1>6
  <2>2. avoin' = avoin
    BY <2>1 DEF avoin
  <2>3. QED
    BY <1>2, <1>6, <2>2 DEF Lupaus!vars
<1>7. QED
  BY <1>4, <1>5, <1>6, VastausLista

\* Module Hakulista implements the safety part of Hakulupaus: queries that
\* overtake each other, failures and repeated visits do not show.
THEOREM Toteutus == Spec => Lupaus!Init /\ [][Lupaus!Next]_(Lupaus!vars)
<1>1. Init => Lupaus!Init
  <2> SUFFICES ASSUME Init PROVE Lupaus!Init
    OBVIOUS
  <2>1. Omat = {}
    BY DEF Init, KutsuInit, Omat
  <2>2. avoin = Nil
    BY <2>1, AvoinKysely
  <2>3. QED
    BY <2>2 DEF Init, Lupaus!Init
<1>2. ASSUME Induktiivinen, Induktiivinen', [Next]_vars
      PROVE  [Lupaus!Next]_(Lupaus!vars)
  <2>1. ListaTyyppi /\ ListaTyyppi'
    BY <1>2 DEF Induktiivinen
  <2>2. ASSUME NEW e \in Ehdot, hae(e)
        PROVE  Lupaus!Next
    <3>1. kaikki'.rivit = {} /\ hakutulokset' = {}
      BY <2>2 DEF hae, suodata, naytaTulokset, Haussa
    <3>2. \E c \in Paikat : kutsu[c] = Nil /\ Omat' = {c}
      BY <1>2, <2>2, HakulistaOletus, HaeKutsut
    <3>3. ehto' \in Ehdot /\ suodin' \in Suotimet
      BY <2>1 DEF ListaTyyppi
    <3>4. QED
      BY <1>2, <3>1, <3>2, <3>3, HakulistaOletus, KysymysVaihtuu
  <2>3. CASE Avaa
    <3>1. kaikki'.rivit = {} /\ hakutulokset' = {}
      BY <2>3 DEF Avaa, Haussa
    <3>2. \E c \in Paikat : kutsu[c] = Nil /\ Omat' = {c}
      BY <1>2, <2>3, HakulistaOletus, AvaaKutsut
    <3>3. ehto' \in Ehdot /\ suodin' \in Suotimet
      BY <2>1 DEF ListaTyyppi
    <3>4. QED
      BY <1>2, <3>1, <3>2, <3>3, HakulistaOletus, KysymysVaihtuu
  <2>4. CASE yritaUudelleen \/ \E e \in Ehdot : AsetaEhto(e)
    BY <2>1, <2>2, <2>4 DEF yritaUudelleen, AsetaEhto, ListaTyyppi
  <2>5. CASE \E s \in Suotimet : AsetaSuodin(s)
    BY <1>2, <2>5, HakulistaOletus, SuodinToteutuu
  <2>6. CASE \E p \in 1..Sivuja : Sivulle(p)
    <3>1. UNCHANGED <<ehto, suodin, kaikki, hakutulokset, kutsu>>
      BY <2>6 DEF Sivulle, kutsuVars
    <3>2. avoin' = avoin
      BY <3>1 DEF avoin, Omat
    <3>3. QED
      BY <3>1, <3>2 DEF Lupaus!vars
  <2>7. CASE \E c \in Paikat, v \in BOOLEAN : Vastaus(c, v)
    BY <1>2, <2>7, HakulistaOletus, VastausToteutuu
  <2>8. CASE UNCHANGED vars
    <3>1. UNCHANGED <<ehto, suodin, kaikki, hakutulokset, kutsu>>
      BY <2>8 DEF vars, listaVars, kutsuVars
    <3>2. avoin' = avoin
      BY <3>1 DEF avoin, Omat
    <3>3. QED
      BY <3>1, <3>2 DEF Lupaus!vars
  <2>9. QED
    BY <1>2, <2>3, <2>4, <2>5, <2>6, <2>7, <2>8 DEF Next
<1>3. QED
  BY <1>1, <1>2, Pysyvyys, PTL DEF Spec
=============================================================================
