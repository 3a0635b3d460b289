---------------------- MODULE SopimusVoimassaoloProofs ----------------------
(***************************************************************************)
(* Theorems about module SopimusVoimassaolo, for every set of requests,    *)
(* nightly runs, agreements, rows, versions and days.  With nothing        *)
(* assumed: its inductive invariant, that a removed agreement is not       *)
(* valid, that a request that commits leaves the period of its agreement   *)
(* right, that a removed row stays removed, and that the module implements *)
(* Sopimuselinkaari.  With some overlaps ruled out, and no others: that    *)
(* the period of an agreement is that of its rows and never begins later   *)
(* than it did, that it covers no version twice, and that a removed one    *)
(* has no rows.  With any overlaps, but an environment that stays as it    *)
(* is: that the column voimassa is what the rules say.                     *)
(***************************************************************************)
EXTENDS SopimusVoimassaolo, TLAPS, WellFoundedInduction

-----------------------------------------------------------------------------
(* The derived days *)

\* A set of numbers has a smallest element.
LEMMA LukujenPienin ==
  ASSUME NEW D \in SUBSET Nat, D # {}
  PROVE  \E d \in D : \A e \in D : d <= e
<1>1. PICK d \in D : \A e \in D : ~ (<<e, d>> \in OpToRel(<, Nat))
  BY NatLessThanWellFounded, WFMin, Zenon
<1>2. ASSUME NEW e \in D
      PROVE  d <= e
  <2>1. d \in Nat /\ e \in Nat
    OBVIOUS
  <2>2. e < d => <<e, d>> \in {ss \in Nat \X Nat : ss[1] < ss[2]}
    BY <2>1
  <2>3. ~ (e < d)
    BY <1>1, <2>2 DEF OpToRel
  <2>4. QED
    BY <2>1, <2>3
<1>3. QED
  BY <1>2

\* A set of days has an earliest one.
LEMMA PieninOlemassa ==
  ASSUME NEW D \in SUBSET Paivat, D # {}
  PROVE  Pienin(D) \in D /\ \A d \in D : Pienin(D) <= d
<1>1. D \subseteq Nat
  BY PaivatAssumption
<1>2. \E d \in D : \A e \in D : d <= e
  BY <1>1, LukujenPienin
<1>3. QED
  BY <1>2 DEF Pienin

\* A set of days has a latest one: the days left to the last of all days are numbers.
LEMMA SuurinOlemassa ==
  ASSUME NEW D \in SUBSET Paivat, D # {}
  PROVE  Suurin(D) \in D /\ \A d \in D : d <= Suurin(D)
<1>1. D \subseteq Nat
  BY PaivatAssumption
<1>2. PICK forever \in Nat : \A d \in D : d <= forever
  BY PaivatAssumption
<1> DEFINE E == {forever - d : d \in D}
<1>3. \A d \in D : d \in Nat /\ forever - d \in Nat
  BY <1>1, <1>2
<1>4. PICK m \in E : \A e \in E : m <= e
  <2>1. E \in SUBSET Nat /\ E # {}
    BY <1>3
  <2> HIDE DEF E
  <2>2. QED
    BY <2>1, LukujenPienin
<1>5. PICK d \in D : m = forever - d
  OBVIOUS
<1>6. \A e \in D : e <= d
  <2> TAKE e \in D
  <2>1. forever - d <= forever - e
    BY <1>4, <1>5
  <2>2. e \in Nat /\ d \in Nat
    BY <1>3
  <2>3. QED
    BY <2>1, <2>2
<1>7. QED
  BY <1>6 DEF Suurin

\* What Alkupvm and Loppupvm compute for an agreement that exists.
LEMMA PaivatKattavat ==
  ASSUME NEW S \in [Sopimukset -> SopimusRivi \union {Nil}],
         NEW R \in [Rivit -> LiitosRivi \union {Nil}],
         NEW c \in Sopimukset, S[c] # Nil
  PROVE  /\ Alkupvm(S, R, c) \in Paiva
         /\ Loppupvm(R, c) \in Paiva
         /\ EiMyohemmin(Alkupvm(S, R, c), S[c].alkupvm)
         /\ Kattaa(Alkupvm(S, R, c), Loppupvm(R, c), R, c)
<1> DEFINE alut == {R[v].alkupvm : v \in Liitokset(R, c)}
           paivat == (alut \union {S[c].alkupvm}) \ {Nil}
           loput == {R[v].loppupvm : v \in Liitokset(R, c)}
<1>1. \A v \in Liitokset(R, c) : R[v].alkupvm \in Paiva /\ R[v].loppupvm \in Paiva
  BY DEF Liitokset, SopimuksenRivit, LiitosRivi
<1>2. S[c].alkupvm \in Paiva
  BY DEF SopimusRivi
<1>3. paivat \in SUBSET Paivat
  BY <1>1, <1>2 DEF Paiva
<1>4. Alkupvm(S, R, c) = IF paivat = {} THEN Nil ELSE Pienin(paivat)
  BY DEF Alkupvm
<1>5. Loppupvm(R, c) \in Paiva
  <2>1. CASE loput = {} \/ Nil \in loput
    BY <2>1 DEF Loppupvm, Paiva
  <2>2. CASE ~ (loput = {} \/ Nil \in loput)
    <3>1. loput \in SUBSET Paivat
      BY <1>1, <2>2 DEF Paiva
    <3>2. Suurin(loput) \in Paivat
      BY <3>1, <2>2, SuurinOlemassa
    <3>3. QED
      BY <3>2, <2>2 DEF Loppupvm, Paiva
  <2>3. QED
    BY <2>1, <2>2
<1>6. Alkupvm(S, R, c) \in Paiva /\ \A d \in paivat : Alkupvm(S, R, c) # Nil /\ Alkupvm(S, R, c) <= d
  <2>1. CASE paivat = {}
    BY <1>4, <2>1 DEF Paiva
  <2>2. CASE paivat # {}
    <3> HIDE DEF paivat
    <3>1. Pienin(paivat) \in Paivat /\ \A d \in paivat : Pienin(paivat) <= d
      BY <1>3, <2>2, PieninOlemassa
    <3>2. Pienin(paivat) # Nil
      BY <3>1, NilAssumption
    <3>3. QED
      BY <1>4, <2>2, <3>1, <3>2 DEF Paiva
  <2>3. QED
    BY <2>1, <2>2
<1>7. /\ Loppupvm(R, c) = Nil <=> loput = {} \/ Nil \in loput
      /\ Loppupvm(R, c) # Nil => Loppupvm(R, c) \in loput /\ \A d \in loput : d <= Loppupvm(R, c)
  <2>1. CASE loput = {} \/ Nil \in loput
    BY <2>1 DEF Loppupvm
  <2>2. CASE ~ (loput = {} \/ Nil \in loput)
    <3>1. loput \in SUBSET Paivat
      BY <1>1, <2>2 DEF Paiva
    <3>2. Loppupvm(R, c) = Suurin(loput)
      BY <2>2 DEF Loppupvm
    <3> HIDE DEF loput
    <3>3. Suurin(loput) \in loput /\ \A d \in loput : d <= Suurin(loput)
      BY <3>1, <2>2, SuurinOlemassa
    <3>4. QED
      BY <2>2, <3>2, <3>3
  <2>3. QED
    BY <2>1, <2>2
<1>8. EiMyohemmin(Alkupvm(S, R, c), S[c].alkupvm)
  BY <1>6 DEF EiMyohemmin
<1>9. \A v \in Liitokset(R, c) : EiMyohemmin(Alkupvm(S, R, c), R[v].alkupvm)
  BY <1>6 DEF EiMyohemmin
<1>10. QED
  BY <1>5, <1>6, <1>7, <1>8, <1>9 DEF Kattaa

\* A day is not later than itself.
LEMMA EiMyohemminItse ==
  ASSUME NEW d \in Paiva
  PROVE  EiMyohemmin(d, d)
<1>1. d # Nil => d \in Nat
  BY PaivatAssumption DEF Paiva
<1>2. QED
  BY <1>1 DEF EiMyohemmin

\* A day not later than one that is not later than a third.
LEMMA EiMyohemminKahdesti ==
  ASSUME NEW a \in Paiva, NEW b \in Paiva, NEW d \in Paiva,
         EiMyohemmin(a, b), EiMyohemmin(b, d)
  PROVE  EiMyohemmin(a, d)
<1>1. CASE d = Nil
  BY <1>1 DEF EiMyohemmin
<1>2. CASE d # Nil
  <2>1. a # Nil /\ b # Nil /\ a <= b /\ b <= d
    BY <1>2 DEF EiMyohemmin
  <2>2. a \in Nat /\ b \in Nat /\ d \in Nat
    BY <1>2, <2>1, PaivatAssumption DEF Paiva
  <2>3. QED
    BY <2>1, <2>2 DEF EiMyohemmin
<1>3. QED
  BY <1>1, <1>2

-----------------------------------------------------------------------------
(* Parts of several actions *)

\* The fields of a transaction have their types.
LEMMA TxKentat ==
  ASSUME NEW t \in Tx
  PROVE  /\ t.toiminto \in Toiminto /\ t.vaihe \in Vaihe
         /\ t.sopimus \in Sopimukset \union {Nil}
         /\ t.lomake \in SUBSET Versiot /\ t.rivit \in SUBSET Rivit
         /\ t.poistettavat \in SUBSET Versiot /\ t.lisattavat \in SUBSET Versiot
         /\ t.jono \in SUBSET Sopimukset /\ t.kohde \in SUBSET Rivit
         /\ t.luettu \in Paiva \X Paiva
         /\ t.sopimukset \in [Sopimukset -> SopimusRivi \union {Nil}]
         /\ t.liitokset \in [Rivit -> LiitosRivi \union {Nil}]
BY DEF Tx

\* Rows written on top of a table are rows of the table.
LEMMA PaalleTyyppi ==
  ASSUME NEW X, NEW Y, NEW uusi \in [X -> Y \union {Nil}], NEW vanha \in [X -> Y \union {Nil}]
  PROVE  Paalle(uusi, vanha) \in [X -> Y \union {Nil}]
BY DEF Paalle

\* A transaction that does nothing is well typed and in order.
LEMMA VapaaOK ==
  /\ Vapaa \in Tx
  /\ \A p \in Tapahtumat : TapahtumaOK(p, Vapaa)
<1>1. Vapaa \in Tx
  BY DEF Vapaa, Tx, Toiminto, Vaihe, Paiva
<1>2. /\ Vapaa.toiminto = "ei" /\ Vapaa.vaihe = "vapaa" /\ Vapaa.sopimus = Nil
      /\ Vapaa.rivit = {} /\ Vapaa.kohde = {} /\ Vapaa.jono = {}
      /\ \A c \in Sopimukset : Vapaa.sopimukset[c] = Nil
      /\ \A v \in Rivit : Vapaa.liitokset[v] = Nil
  BY DEF Vapaa
<1>3. ASSUME NEW p \in Tapahtumat
      PROVE  TapahtumaOK(p, Vapaa)
  <2>1. KohteetOK(Vapaa)
    BY <1>2 DEF KohteetOK
  <2>2. VaiheOK(p, Vapaa)
    BY <1>2 DEF VaiheOK
  <2>3. KirjoituksetOK(Vapaa)
    BY <1>2 DEF KirjoituksetOK
  <2>4. QED
    BY <2>1, <2>2, <2>3 DEF TapahtumaOK
<1>4. QED
  BY <1>1, <1>3

\* Transactions are in order whatever happens around the tables.
LEMMA TapahtumaSama ==
  ASSUME UNCHANGED <<sopimus, rivi>>, NEW p, NEW t, TapahtumaOK(p, t)
  PROVE  TapahtumaOK(p, t)'
<1>1. sopimus' = sopimus /\ rivi' = rivi
  OBVIOUS
<1>2. Paalle(t.liitokset, rivi)' = Paalle(t.liitokset, rivi)
  BY <1>1
<1>3. KohteetOK(t)'
  BY <1>1, <1>2 DEF TapahtumaOK, KohteetOK
<1>4. VaiheOK(p, t)'
  BY DEF TapahtumaOK, VaiheOK
<1>5. KirjoituksetOK(t)'
  BY <1>1, <1>2 DEF TapahtumaOK, KirjoituksetOK
<1>6. QED
  BY <1>3, <1>4, <1>5 DEF TapahtumaOK

\* A statement that changes a transaction only, and locks what nobody holds.
LEMMA SiirryInd ==
  ASSUME Induktiivinen, NEW p \in Tapahtumat, NEW uusi \in Tx, Siirry(p, uusi),
         TapahtumaOK(p, uusi),
         \A c \in Sopimukset :
           uusi.sopimukset[c] # Nil => tx[p].sopimukset[c] # Nil \/ SopimuksenHaltijat(p, c) = {},
         \A v \in Rivit :
           uusi.liitokset[v] # Nil => tx[p].liitokset[v] # Nil \/ RivinHaltijat(p, v) = {}
  PROVE  Induktiivinen'
<1>1. /\ tx \in [Tapahtumat -> Tx]
      /\ tx' = [tx EXCEPT ![p] = uusi]
      /\ UNCHANGED <<sopimus, rivi, toimikausi, siirtymaaika, tanaan>>
  BY DEF Siirry, Induktiivinen, TyyppiOK, ymparisto
<1>2. tx'[p] = uusi /\ \A q \in Tapahtumat \ {p} : tx'[q] = tx[q]
  BY <1>1
<1>3. TyyppiOK'
  BY <1>1 DEF Induktiivinen, TyyppiOK
<1>4. LukotOK'
  <2>1. ASSUME NEW q \in Tapahtumat, q # p
        PROVE  /\ \A c \in Sopimukset : uusi.sopimukset[c] = Nil \/ tx[q].sopimukset[c] = Nil
               /\ \A v \in Rivit : uusi.liitokset[v] = Nil \/ tx[q].liitokset[v] = Nil
    BY <2>1 DEF Induktiivinen, LukotOK, SopimuksenHaltijat, RivinHaltijat
  <2>2. ASSUME NEW q \in Tapahtumat, NEW s \in Tapahtumat, q # s
        PROVE  /\ \A c \in Sopimukset : tx'[q].sopimukset[c] = Nil \/ tx'[s].sopimukset[c] = Nil
               /\ \A v \in Rivit : tx'[q].liitokset[v] = Nil \/ tx'[s].liitokset[v] = Nil
    <3>1. CASE q = p
      BY <3>1, <2>1, <2>2, <1>2
    <3>2. CASE s = p
      BY <3>2, <2>1, <2>2, <1>2
    <3>3. CASE q # p /\ s # p
      BY <3>3, <2>2, <1>2 DEF Induktiivinen, LukotOK
    <3>4. QED
      BY <3>1, <3>2, <3>3
  <2>3. QED
    BY <2>2 DEF LukotOK
<1>5. RivienSopimukset' /\ PoistettuEiVoimassa'
  BY <1>1 DEF Induktiivinen, RivienSopimukset, PoistettuEiVoimassa
<1>6. \A q \in Tapahtumat : TapahtumaOK(q, tx[q])'
  <2>1. ASSUME NEW q \in Tapahtumat, NEW t, t = tx'[q]
        PROVE  TapahtumaOK(q, t)'
    <3>1. TapahtumaOK(q, t)
      BY <1>2, <2>1 DEF Induktiivinen
    <3>2. QED
      BY <3>1, <1>1, TapahtumaSama
  <2>2. QED
    BY <2>1
<1>7. QED
  BY <1>3, <1>4, <1>5, <1>6 DEF Induktiivinen

\* A rollback.
LEMMA PeruInd ==
  ASSUME Induktiivinen, NEW p \in Tapahtumat, Peru(p)
  PROVE  Induktiivinen'
<1>1. /\ \A c \in Sopimukset : Vapaa.sopimukset[c] = Nil
      /\ \A v \in Rivit : Vapaa.liitokset[v] = Nil
  BY DEF Vapaa
<1>2. Siirry(p, Vapaa)
  BY DEF Peru, Siirry
<1>3. QED
  BY <1>1, <1>2, VapaaOK, SiirryInd

\* What the invariant says of one transaction and of what it sees.
LEMMA Tilanne ==
  ASSUME Induktiivinen, NEW p \in Tapahtumat
  PROVE  /\ tx[p] \in Tx
         /\ KohteetOK(tx[p]) /\ VaiheOK(p, tx[p]) /\ KirjoituksetOK(tx[p])
         /\ sopimus \in [Sopimukset -> SopimusRivi \union {Nil}]
         /\ rivi \in [Rivit -> LiitosRivi \union {Nil}]
         /\ OmatSopimukset(p) = Paalle(tx[p].sopimukset, sopimus)
         /\ OmatSopimukset(p) \in [Sopimukset -> SopimusRivi \union {Nil}]
         /\ OmatRivit(p) = Paalle(tx[p].liitokset, rivi)
         /\ OmatRivit(p) \in [Rivit -> LiitosRivi \union {Nil}]
<1>1. tx[p] \in Tx /\ TapahtumaOK(p, tx[p])
  BY DEF Induktiivinen, TyyppiOK
<1>2. /\ sopimus \in [Sopimukset -> SopimusRivi \union {Nil}]
      /\ rivi \in [Rivit -> LiitosRivi \union {Nil}]
  BY DEF Induktiivinen, TyyppiOK
<1>3. /\ tx[p].sopimukset \in [Sopimukset -> SopimusRivi \union {Nil}]
      /\ tx[p].liitokset \in [Rivit -> LiitosRivi \union {Nil}]
  BY <1>1, TxKentat
<1>4. /\ OmatSopimukset(p) \in [Sopimukset -> SopimusRivi \union {Nil}]
      /\ OmatRivit(p) \in [Rivit -> LiitosRivi \union {Nil}]
  BY <1>2, <1>3, PaalleTyyppi DEF OmatSopimukset, OmatRivit
<1>5. QED
  BY <1>1, <1>2, <1>4 DEF OmatSopimukset, OmatRivit, TapahtumaOK

\* A statement that writes no row and computes no day: what matters is the rows it
\* chooses and where the transaction goes.
LEMMA EteneInd ==
  ASSUME Induktiivinen, NEW p \in Tapahtumat, NEW uusi \in Tx, Siirry(p, uusi),
         uusi.toiminto = tx[p].toiminto, uusi.sopimus = tx[p].sopimus, uusi.jono = tx[p].jono,
         uusi.sopimukset = tx[p].sopimukset, uusi.liitokset = tx[p].liitokset,
         uusi.rivit \subseteq tx[p].rivit,
         uusi.kohde \subseteq SopimuksenRivit(OmatRivit(p), tx[p].sopimus),
         uusi.vaihe \notin {"kirjaus", "voimassaolo"},
         uusi.vaihe = "valmis" => uusi.toiminto \in {"eraajo", "poista"},
         VaiheOK(p, uusi)
  PROVE  Induktiivinen'
<1>1. /\ KohteetOK(tx[p]) /\ KirjoituksetOK(tx[p])
      /\ OmatRivit(p) = Paalle(tx[p].liitokset, rivi)
  BY Tilanne
<1>2. KohteetOK(uusi)
  BY <1>1 DEF KohteetOK
<1>3. KirjoituksetOK(uusi)
  BY <1>1 DEF KirjoituksetOK
<1>4. TapahtumaOK(p, uusi)
  BY <1>2, <1>3 DEF TapahtumaOK
<1>5. QED
  BY <1>4, SiirryInd

-----------------------------------------------------------------------------
(* Requests and nightly runs begin *)

\* A transaction begins on an agreement a page has shown.
LEMMA AloitaInd ==
  ASSUME Induktiivinen, NEW r \in Pyynnot, NEW toiminto \in {"paivita", "tutkinnot", "poista"},
         NEW c \in Nakyneet, NEW lomake \in SUBSET Versiot,
         NEW rivit \in SUBSET SopimuksenRivit(rivi, c),
         Aloita(r, toiminto, c, lomake, rivit)
  PROVE  Induktiivinen'
<1> DEFINE uusi == [Vapaa EXCEPT !.toiminto = toiminto, !.vaihe = "tarkistus",
                                 !.sopimus = c, !.lomake = lomake, !.rivit = rivit]
<1>1. r \in Tapahtumat /\ Siirry(r, uusi)
  BY DEF Tapahtumat, Aloita
<1>2. c \in Sopimukset /\ sopimus[c] # Nil /\ rivit \subseteq Rivit
  BY DEF Nakyneet, SopimuksenRivit
<1>3. /\ uusi \in Tx
      /\ uusi.toiminto = toiminto /\ uusi.vaihe = "tarkistus" /\ uusi.sopimus = c
      /\ uusi.rivit = rivit /\ uusi.kohde = {} /\ uusi.jono = {}
      /\ \A d \in Sopimukset : uusi.sopimukset[d] = Nil
      /\ \A v \in Rivit : uusi.liitokset[v] = Nil
  BY <1>2, VapaaOK DEF Vapaa, Tx, Toiminto, Vaihe
<1> HIDE DEF uusi
<1>4. rivi \in [Rivit -> LiitosRivi \union {Nil}]
  BY DEF Induktiivinen, TyyppiOK
<1>5. KohteetOK(uusi)
  <2>1. \A v \in Rivit : Paalle(uusi.liitokset, rivi)[v] = rivi[v]
    BY <1>3, <1>4 DEF Paalle
  <2>2. QED
    BY <2>1, <1>2, <1>3 DEF KohteetOK, SopimuksenRivit
<1>6. VaiheOK(r, uusi)
  BY <1>2, <1>3, NilAssumption DEF VaiheOK, LukkoPidossa
<1>7. KirjoituksetOK(uusi)
  BY <1>3 DEF KirjoituksetOK
<1>8. QED
  BY <1>1, <1>3, <1>5, <1>6, <1>7, SiirryInd DEF TapahtumaOK

\* A nightly run begins with the agreements it finds.
LEMMA AloitaEraajoInd ==
  ASSUME Induktiivinen, NEW e \in Eraajot, AloitaEraajo(e)
  PROVE  Induktiivinen'
<1> DEFINE uusi == [Vapaa EXCEPT !.toiminto = "eraajo", !.vaihe = "paivat",
                                 !.jono = {c \in Sopimukset : Olemassa(sopimus, c)}]
<1>1. e \in Tapahtumat /\ e \notin Pyynnot /\ Siirry(e, uusi)
  BY NilAssumption DEF Tapahtumat, AloitaEraajo
<1>2. /\ uusi \in Tx
      /\ uusi.toiminto = "eraajo" /\ uusi.vaihe = "paivat" /\ uusi.sopimus = Nil
      /\ uusi.rivit = {} /\ uusi.kohde = {}
      /\ \A c \in uusi.jono : sopimus[c] # Nil
      /\ \A d \in Sopimukset : uusi.sopimukset[d] = Nil
      /\ \A v \in Rivit : uusi.liitokset[v] = Nil
  BY VapaaOK DEF Vapaa, Tx, Toiminto, Vaihe, Olemassa
<1> HIDE DEF uusi
<1>3. KohteetOK(uusi)
  BY <1>2 DEF KohteetOK
<1>4. VaiheOK(e, uusi)
  BY <1>1, <1>2 DEF VaiheOK
<1>5. KirjoituksetOK(uusi)
  BY <1>2 DEF KirjoituksetOK
<1>6. QED
  BY <1>1, <1>2, <1>3, <1>4, <1>5, SiirryInd DEF TapahtumaOK

\* The nightly run goes on to the next agreement, or is ready to commit.
LEMMA SeuraavaSopimusInd ==
  ASSUME Induktiivinen, NEW e \in Tapahtumat, SeuraavaSopimus(e)
  PROVE  Induktiivinen'
<1>1. /\ tx[e] \in Tx /\ KohteetOK(tx[e]) /\ VaiheOK(e, tx[e]) /\ KirjoituksetOK(tx[e])
      /\ tx[e].vaihe = "paivat" /\ tx[e].sopimus = Nil
  BY Tilanne DEF SeuraavaSopimus
<1>2. /\ tx[e].toiminto = "eraajo"
      /\ tx[e].rivit = {} /\ tx[e].kohde = {}
      /\ \A v \in Rivit : tx[e].liitokset[v] = Nil
  BY <1>1 DEF VaiheOK
<1>3. CASE tx[e].jono = {}
  <2> DEFINE uusi == [tx[e] EXCEPT !.vaihe = "valmis"]
  <2>1. Siirry(e, uusi)
    BY <1>3 DEF SeuraavaSopimus
  <2>2. /\ uusi \in Tx /\ uusi.vaihe = "valmis" /\ uusi.toiminto = tx[e].toiminto
        /\ uusi.sopimus = tx[e].sopimus /\ uusi.jono = tx[e].jono
        /\ uusi.rivit = tx[e].rivit /\ uusi.kohde = tx[e].kohde
        /\ uusi.sopimukset = tx[e].sopimukset /\ uusi.liitokset = tx[e].liitokset
    BY <1>1 DEF Tx, Vaihe
  <2> HIDE DEF uusi
  <2>3. VaiheOK(e, uusi)
    BY <1>1, <1>2, <2>2 DEF VaiheOK
  <2>4. QED
    BY <2>1, <2>2, <2>3, <1>2, EteneInd
<1>4. CASE tx[e].jono # {}
  <2>1. PICK c \in tx[e].jono : Siirry(e, [tx[e] EXCEPT !.sopimus = c, !.jono = @ \ {c}])
    BY <1>4 DEF SeuraavaSopimus
  <2> DEFINE uusi == [tx[e] EXCEPT !.sopimus = c, !.jono = @ \ {c}]
  <2>2. c \in Sopimukset /\ sopimus[c] # Nil
    BY <1>1, TxKentat DEF KohteetOK
  <2>3. /\ uusi \in Tx /\ uusi.vaihe = "paivat" /\ uusi.toiminto = "eraajo"
        /\ uusi.sopimus = c /\ uusi.jono \subseteq tx[e].jono
        /\ uusi.rivit = {} /\ uusi.kohde = {}
        /\ uusi.sopimukset = tx[e].sopimukset /\ uusi.liitokset = tx[e].liitokset
    BY <1>1, <1>2, <2>2 DEF Tx
  <2>4. Siirry(e, uusi)
    BY <2>1
  <2> HIDE DEF uusi
  <2>5. KohteetOK(uusi)
    BY <1>1, <1>2, <2>2, <2>3 DEF KohteetOK
  <2>6. VaiheOK(e, uusi)
    BY <1>1, <1>2, <2>3 DEF VaiheOK
  <2>7. KirjoituksetOK(uusi)
    BY <1>1, <1>2, <2>3 DEF KirjoituksetOK
  <2>8. QED
    BY <2>3, <2>4, <2>5, <2>6, <2>7, SiirryInd DEF TapahtumaOK
<1>5. QED
  BY <1>3, <1>4

-----------------------------------------------------------------------------
(* Statements that read *)

\* The check of a request.
LEMMA TarkistaInd ==
  ASSUME Induktiivinen, NEW r \in Tapahtumat, Tarkista(r)
  PROVE  Induktiivinen'
<1>1. CASE ~ Olemassa(sopimus, tx[r].sopimus)
  BY <1>1, PeruInd DEF Tarkista
<1>2. CASE Olemassa(sopimus, tx[r].sopimus)
  <2> DEFINE uusi == [tx[r] EXCEPT !.vaihe = IF tx[r].toiminto = "tutkinnot"
                                               THEN "luku" ELSE "sopimus"]
  <2>1. tx[r].vaihe = "tarkistus" /\ Siirry(r, uusi)
    BY <1>2 DEF Tarkista
  <2>2. tx[r] \in Tx /\ KohteetOK(tx[r]) /\ VaiheOK(r, tx[r])
    BY Tilanne
  <2>3. /\ uusi \in Tx /\ uusi.toiminto = tx[r].toiminto
        /\ uusi.vaihe = IF tx[r].toiminto = "tutkinnot" THEN "luku" ELSE "sopimus"
        /\ uusi.sopimus = tx[r].sopimus /\ uusi.jono = tx[r].jono
        /\ uusi.rivit = tx[r].rivit /\ uusi.kohde = tx[r].kohde
        /\ uusi.sopimukset = tx[r].sopimukset /\ uusi.liitokset = tx[r].liitokset
    BY <2>2 DEF Tx, Vaihe
  <2> HIDE DEF uusi
  <2>4. VaiheOK(r, uusi)
    BY <2>1, <2>2, <2>3 DEF VaiheOK, LukkoPidossa
  <2>5. uusi.kohde \subseteq SopimuksenRivit(OmatRivit(r), tx[r].sopimus)
    BY <2>2, <2>3 DEF KohteetOK, OmatRivit
  <2>6. QED
    BY <2>1, <2>3, <2>4, <2>5, EteneInd
<1>3. QED
  BY <1>1, <1>2

\* POST compares the form with the rows.
LEMMA LueTutkinnotInd ==
  ASSUME Induktiivinen, NEW r \in Tapahtumat, LueTutkinnot(r)
  PROVE  Induktiivinen'
<1> DEFINE vanhat == LiitetytVersiot(rivi, tx[r].sopimus)
           uusi == [tx[r] EXCEPT !.poistettavat = vanhat \ tx[r].lomake,
                                 !.lisattavat = tx[r].lomake \ vanhat,
                                 !.lomake = {}, !.vaihe = "valinta"]
<1>1. tx[r].vaihe = "luku" /\ Siirry(r, uusi)
  BY DEF LueTutkinnot
<1>2. /\ tx[r] \in Tx /\ KohteetOK(tx[r]) /\ VaiheOK(r, tx[r])
      /\ rivi \in [Rivit -> LiitosRivi \union {Nil}]
  BY Tilanne
<1>3. vanhat \subseteq Versiot
  BY <1>2 DEF LiitetytVersiot, Liitokset, SopimuksenRivit, LiitosRivi
<1> HIDE DEF vanhat
<1>4. /\ uusi \in Tx /\ uusi.toiminto = tx[r].toiminto /\ uusi.vaihe = "valinta"
      /\ uusi.sopimus = tx[r].sopimus /\ uusi.jono = tx[r].jono
      /\ uusi.rivit = tx[r].rivit /\ uusi.kohde = tx[r].kohde
      /\ uusi.sopimukset = tx[r].sopimukset /\ uusi.liitokset = tx[r].liitokset
  BY <1>2, <1>3 DEF Tx, Vaihe
<1> HIDE DEF uusi
<1>5. VaiheOK(r, uusi)
  BY <1>1, <1>2, <1>4 DEF VaiheOK, LukkoPidossa
<1>6. uusi.kohde \subseteq SopimuksenRivit(OmatRivit(r), tx[r].sopimus)
  BY <1>2, <1>4 DEF KohteetOK, OmatRivit
<1>7. QED
  BY <1>1, <1>4, <1>5, <1>6, EteneInd

\* An UPDATE of rows begins: DELETE.
LEMMA ValitsePoistettavatInd ==
  ASSUME Induktiivinen, NEW r \in Tapahtumat, ValitsePoistettavat(r)
  PROVE  Induktiivinen'
<1> DEFINE uusi == [tx[r] EXCEPT !.kohde = SopimuksenRivit(OmatRivit(r), tx[r].sopimus),
                                 !.vaihe = "rivit"]
<1>1. tx[r].vaihe = "valinta" /\ tx[r].toiminto = "poista" /\ Siirry(r, uusi)
  BY DEF ValitsePoistettavat
<1>2. tx[r] \in Tx /\ VaiheOK(r, tx[r])
  BY Tilanne
<1>3. /\ uusi \in Tx /\ uusi.toiminto = tx[r].toiminto /\ uusi.vaihe = "rivit"
      /\ uusi.sopimus = tx[r].sopimus /\ uusi.jono = tx[r].jono
      /\ uusi.rivit = tx[r].rivit
      /\ uusi.kohde = SopimuksenRivit(OmatRivit(r), tx[r].sopimus)
      /\ uusi.sopimukset = tx[r].sopimukset /\ uusi.liitokset = tx[r].liitokset
  BY <1>2 DEF Tx, Vaihe, SopimuksenRivit
<1> HIDE DEF uusi
<1>4. VaiheOK(r, uusi)
  BY <1>1, <1>2, <1>3 DEF VaiheOK, LukkoPidossa
<1>5. QED
  BY <1>1, <1>3, <1>4, EteneInd

\* POST: the rows of the next version to remove, or none is left.
LEMMA ValitseVersionRivitInd ==
  ASSUME Induktiivinen, NEW r \in Tapahtumat, ValitseVersionRivit(r)
  PROVE  Induktiivinen'
<1>1. /\ tx[r].vaihe = "valinta" /\ tx[r].toiminto = "tutkinnot"
      /\ tx[r] \in Tx /\ KohteetOK(tx[r]) /\ VaiheOK(r, tx[r])
  BY Tilanne DEF ValitseVersionRivit
<1>2. CASE tx[r].poistettavat = {}
  <2> DEFINE uusi == [tx[r] EXCEPT !.vaihe = "sopimus"]
  <2>1. Siirry(r, uusi)
    BY <1>2 DEF ValitseVersionRivit
  <2>2. /\ uusi \in Tx /\ uusi.toiminto = tx[r].toiminto /\ uusi.vaihe = "sopimus"
        /\ uusi.sopimus = tx[r].sopimus /\ uusi.jono = tx[r].jono
        /\ uusi.rivit = tx[r].rivit /\ uusi.kohde = tx[r].kohde
        /\ uusi.sopimukset = tx[r].sopimukset /\ uusi.liitokset = tx[r].liitokset
    BY <1>1 DEF Tx, Vaihe
  <2> HIDE DEF uusi
  <2>3. VaiheOK(r, uusi)
    BY <1>1, <2>2 DEF VaiheOK, LukkoPidossa
  <2>4. uusi.kohde \subseteq SopimuksenRivit(OmatRivit(r), tx[r].sopimus)
    BY <1>1, <2>2 DEF KohteetOK, OmatRivit
  <2>5. QED
    BY <2>1, <2>2, <2>3, <2>4, EteneInd
<1>3. CASE tx[r].poistettavat # {}
  <2> DEFINE kohde(w) == {v \in SopimuksenRivit(OmatRivit(r), tx[r].sopimus) :
                            OmatRivit(r)[v].tutkintoversio = w}
  <2>1. PICK w \in tx[r].poistettavat :
          Siirry(r, [tx[r] EXCEPT !.kohde = kohde(w), !.poistettavat = @ \ {w}, !.vaihe = "rivit"])
    BY <1>3 DEF ValitseVersionRivit
  <2> DEFINE uusi == [tx[r] EXCEPT !.kohde = kohde(w), !.poistettavat = @ \ {w}, !.vaihe = "rivit"]
  <2>2. kohde(w) \subseteq SopimuksenRivit(OmatRivit(r), tx[r].sopimus) /\ kohde(w) \subseteq Rivit
    BY DEF SopimuksenRivit
  <2> HIDE DEF kohde
  <2>3. /\ uusi \in Tx /\ uusi.toiminto = tx[r].toiminto /\ uusi.vaihe = "rivit"
        /\ uusi.sopimus = tx[r].sopimus /\ uusi.jono = tx[r].jono
        /\ uusi.rivit = tx[r].rivit /\ uusi.kohde = kohde(w)
        /\ uusi.sopimukset = tx[r].sopimukset /\ uusi.liitokset = tx[r].liitokset
    BY <1>1, <2>2 DEF Tx, Vaihe
  <2>4. Siirry(r, uusi)
    BY <2>1
  <2> HIDE DEF uusi
  <2>5. VaiheOK(r, uusi)
    BY <1>1, <2>3 DEF VaiheOK, LukkoPidossa
  <2>6. QED
    BY <2>2, <2>3, <2>4, <2>5, EteneInd
<1>4. QED
  BY <1>2, <1>3

\* PUT: the next row of the form, or none is left.
LEMMA ValitseLomakkeenRiviInd ==
  ASSUME Induktiivinen, NEW r \in Tapahtumat, ValitseLomakkeenRivi(r)
  PROVE  Induktiivinen'
<1>1. /\ tx[r].vaihe = "valinta" /\ tx[r].toiminto = "paivita"
      /\ tx[r] \in Tx /\ KohteetOK(tx[r]) /\ VaiheOK(r, tx[r])
  BY Tilanne DEF ValitseLomakkeenRivi
<1>2. CASE tx[r].rivit = {}
  <2> DEFINE uusi == [tx[r] EXCEPT !.vaihe = "paivat"]
  <2>1. Siirry(r, uusi)
    BY <1>2 DEF ValitseLomakkeenRivi
  <2>2. /\ uusi \in Tx /\ uusi.toiminto = tx[r].toiminto /\ uusi.vaihe = "paivat"
        /\ uusi.sopimus = tx[r].sopimus /\ uusi.jono = tx[r].jono
        /\ uusi.rivit = tx[r].rivit /\ uusi.kohde = tx[r].kohde
        /\ uusi.sopimukset = tx[r].sopimukset /\ uusi.liitokset = tx[r].liitokset
    BY <1>1 DEF Tx, Vaihe
  <2> HIDE DEF uusi
  <2>3. VaiheOK(r, uusi)
    BY <1>1, <2>2 DEF VaiheOK, LukkoPidossa
  <2>4. uusi.kohde \subseteq SopimuksenRivit(OmatRivit(r), tx[r].sopimus)
    BY <1>1, <2>2 DEF KohteetOK, OmatRivit
  <2>5. QED
    BY <2>1, <2>2, <2>3, <2>4, EteneInd
<1>3. CASE tx[r].rivit # {}
  <2>1. PICK v \in tx[r].rivit :
          Siirry(r, [tx[r] EXCEPT !.kohde = {v}, !.rivit = @ \ {v}, !.vaihe = "rivit"])
    BY <1>3 DEF ValitseLomakkeenRivi
  <2> DEFINE uusi == [tx[r] EXCEPT !.kohde = {v}, !.rivit = @ \ {v}, !.vaihe = "rivit"]
  <2>2. v \in SopimuksenRivit(OmatRivit(r), tx[r].sopimus) /\ v \in Rivit
    BY <1>1 DEF KohteetOK, OmatRivit, SopimuksenRivit
  <2>3. /\ uusi \in Tx /\ uusi.toiminto = tx[r].toiminto /\ uusi.vaihe = "rivit"
        /\ uusi.sopimus = tx[r].sopimus /\ uusi.jono = tx[r].jono
        /\ uusi.rivit \subseteq tx[r].rivit /\ uusi.kohde = {v}
        /\ uusi.sopimukset = tx[r].sopimukset /\ uusi.liitokset = tx[r].liitokset
    BY <1>1, <2>2 DEF Tx, Vaihe
  <2>4. Siirry(r, uusi)
    BY <2>1
  <2> HIDE DEF uusi
  <2>5. VaiheOK(r, uusi)
    BY <1>1, <2>3 DEF VaiheOK, LukkoPidossa
  <2>6. QED
    BY <2>2, <2>3, <2>4, <2>5, EteneInd
<1>4. QED
  BY <1>2, <1>3

\* The days are computed: they cover the rows the transaction sees.
LEMMA LuePaivatInd ==
  ASSUME Induktiivinen, NEW p \in Tapahtumat, LuePaivat(p)
  PROVE  Induktiivinen'
<1> DEFINE c == tx[p].sopimus
           R == OmatRivit(p)
           alku == Alkupvm(OmatSopimukset(p), R, c)
           loppu == Loppupvm(R, c)
           uusi == [tx[p] EXCEPT !.luettu = <<alku, loppu>>, !.vaihe = "kirjaus"]
<1>1. tx[p].vaihe = "paivat" /\ c # Nil /\ Siirry(p, uusi)
  BY DEF LuePaivat
<1>2. /\ tx[p] \in Tx /\ KohteetOK(tx[p]) /\ VaiheOK(p, tx[p]) /\ KirjoituksetOK(tx[p])
      /\ sopimus \in [Sopimukset -> SopimusRivi \union {Nil}]
      /\ OmatSopimukset(p) = Paalle(tx[p].sopimukset, sopimus)
      /\ OmatSopimukset(p) \in [Sopimukset -> SopimusRivi \union {Nil}]
      /\ R = Paalle(tx[p].liitokset, rivi)
      /\ R \in [Rivit -> LiitosRivi \union {Nil}]
  BY Tilanne
<1>3. c \in Sopimukset /\ sopimus[c] # Nil
  BY <1>1, <1>2, TxKentat DEF KohteetOK
<1>4. OmatSopimukset(p)[c] # Nil
  BY <1>2, <1>3 DEF Paalle
<1>5. /\ alku \in Paiva /\ loppu \in Paiva
      /\ EiMyohemmin(alku, OmatSopimukset(p)[c].alkupvm)
      /\ Kattaa(alku, loppu, R, c)
  <2> HIDE DEF R, c
  <2>1. QED
    BY <1>2, <1>3, <1>4, PaivatKattavat
<1>6. ASSUME tx[p].toiminto \notin {"ei", "eraajo"}
      PROVE  EiMyohemmin(alku, sopimus[c].alkupvm)
  <2>1. /\ tx[p].sopimukset[c] # Nil
        /\ EiMyohemmin(tx[p].sopimukset[c].alkupvm, sopimus[c].alkupvm)
    BY <1>1, <1>2, <1>3, <1>6 DEF VaiheOK, LukkoPidossa, KirjoituksetOK
  <2>2. OmatSopimukset(p)[c] = tx[p].sopimukset[c]
    BY <1>2, <1>3, <2>1 DEF Paalle
  <2>3. sopimus[c].alkupvm \in Paiva /\ tx[p].sopimukset[c].alkupvm \in Paiva
    BY <1>2, <1>3, <2>1, TxKentat DEF SopimusRivi
  <2> HIDE DEF alku, c
  <2>4. QED
    BY <1>5, <2>1, <2>2, <2>3, EiMyohemminKahdesti
<1>7. /\ uusi \in Tx /\ uusi.toiminto = tx[p].toiminto /\ uusi.vaihe = "kirjaus"
      /\ uusi.sopimus = c /\ uusi.jono = tx[p].jono
      /\ uusi.rivit = tx[p].rivit /\ uusi.kohde = tx[p].kohde
      /\ uusi.sopimukset = tx[p].sopimukset /\ uusi.liitokset = tx[p].liitokset
      /\ uusi.luettu[1] = alku /\ uusi.luettu[2] = loppu
  <2> HIDE DEF alku, loppu
  <2>1. QED
    BY <1>2, <1>5 DEF Tx, Vaihe
<1> HIDE DEF uusi, alku, loppu
<1>8. KohteetOK(uusi)
  BY <1>2, <1>7 DEF KohteetOK
<1>9. VaiheOK(p, uusi)
  BY <1>1, <1>2, <1>7 DEF VaiheOK, LukkoPidossa
<1>10. KirjoituksetOK(uusi)
  BY <1>2, <1>5, <1>6, <1>7 DEF KirjoituksetOK
<1>11. QED
  BY <1>1, <1>7, <1>8, <1>9, <1>10, SiirryInd DEF TapahtumaOK
-----------------------------------------------------------------------------
(* Statements that write rows *)

\* An UPDATE of one of the chosen rows.
LEMMA KirjoitaRiviInd ==
  ASSUME Induktiivinen, NEW r \in Tapahtumat, NEW x \in tx[r].kohde, NEW arvo \in LiitosRivi,
         KirjoitaRivi(r, x, arvo), tx[r].vaihe = "rivit", arvo.sopimus = tx[r].sopimus
  PROVE  Induktiivinen'
<1> DEFINE t == tx[r]
           kuvat == [t.liitokset EXCEPT ![x] = arvo]
           uusi == [t EXCEPT !.liitokset = kuvat, !.kohde = t.kohde \ {x},
                             !.vaihe = IF t.kohde = {x} THEN RivienJalkeen(r) ELSE t.vaihe]
<1>1. /\ t \in Tx /\ KohteetOK(t) /\ VaiheOK(r, t) /\ KirjoituksetOK(t)
      /\ rivi \in [Rivit -> LiitosRivi \union {Nil}]
  BY Tilanne
<1>2. RivinHaltijat(r, x) = {} /\ Siirry(r, uusi)
  BY <1>1 DEF KirjoitaRivi, Tx
<1>3. t.kohde \subseteq Rivit /\ t.rivit \subseteq Rivit
  BY <1>1, TxKentat
<1>4. /\ kuvat \in [Rivit -> LiitosRivi \union {Nil}]
      /\ kuvat[x] = arvo /\ \A v \in Rivit \ {x} : kuvat[v] = t.liitokset[v]
  BY <1>1, <1>3, TxKentat
<1> HIDE DEF kuvat
<1>5. /\ uusi \in Tx /\ uusi.toiminto = t.toiminto
      /\ uusi.vaihe \in {"rivit", RivienJalkeen(r)}
      /\ uusi.sopimus = t.sopimus /\ uusi.jono = t.jono
      /\ uusi.rivit = t.rivit /\ uusi.kohde = t.kohde \ {x}
      /\ uusi.sopimukset = t.sopimukset /\ uusi.liitokset = kuvat
  BY <1>1, <1>4 DEF Tx, Vaihe, RivienJalkeen
<1> HIDE DEF uusi
<1>6. arvo # Nil
  BY NilAssumption
<1>7. rivi[x] # Nil => rivi[x].sopimus = t.sopimus
  <2>1. x \in SopimuksenRivit(Paalle(t.liitokset, rivi), t.sopimus)
    BY <1>1 DEF KohteetOK
  <2>2. CASE t.liitokset[x] # Nil
    BY <1>1, <1>3, <2>2 DEF KohteetOK
  <2>3. CASE t.liitokset[x] = Nil
    BY <1>1, <1>3, <2>1, <2>3 DEF SopimuksenRivit, Paalle
  <2>4. QED
    BY <2>2, <2>3
<1>8. KohteetOK(uusi)
  <2>1. ASSUME NEW v \in t.rivit \union t.kohde
        PROVE  v \in SopimuksenRivit(Paalle(kuvat, rivi), t.sopimus)
    <3>1. v \in SopimuksenRivit(Paalle(t.liitokset, rivi), t.sopimus)
      BY <1>1 DEF KohteetOK
    <3>2. CASE v = x
      BY <1>1, <1>3, <1>4, <1>6, <3>2 DEF SopimuksenRivit, Paalle
    <3>3. CASE v # x
      BY <1>1, <1>3, <1>4, <3>1, <3>3 DEF SopimuksenRivit, Paalle
    <3>4. QED
      BY <3>2, <3>3
  <2>2. ASSUME NEW v \in Rivit, kuvat[v] # Nil
        PROVE  kuvat[v].sopimus = t.sopimus /\ (rivi[v] # Nil => rivi[v].sopimus = t.sopimus)
    BY <1>1, <1>4, <1>7, <2>2 DEF KohteetOK
  <2>3. QED
    BY <1>1, <1>5, <2>1, <2>2 DEF KohteetOK
<1>9. VaiheOK(r, uusi)
  BY <1>1, <1>5 DEF VaiheOK, LukkoPidossa, RivienJalkeen
<1>10. KirjoituksetOK(uusi)
  BY <1>1, <1>5 DEF KirjoituksetOK, RivienJalkeen
<1>11. QED
  BY <1>2, <1>4, <1>5, <1>8, <1>9, <1>10, SiirryInd DEF TapahtumaOK

\* The rows chosen are rows a transaction sees.
LEMMA KohteetRiveja ==
  ASSUME Induktiivinen, NEW r \in Tapahtumat, NEW v \in tx[r].kohde
  PROVE  OmatRivit(r)[v] \in LiitosRivi /\ OmatRivit(r)[v].sopimus = tx[r].sopimus
<1>1. /\ KohteetOK(tx[r]) /\ OmatRivit(r) = Paalle(tx[r].liitokset, rivi)
      /\ OmatRivit(r) \in [Rivit -> LiitosRivi \union {Nil}]
  BY Tilanne
<1>2. v \in SopimuksenRivit(OmatRivit(r), tx[r].sopimus)
  BY <1>1 DEF KohteetOK
<1>3. QED
  BY <1>1, <1>2 DEF SopimuksenRivit

\* DELETE and POST remove one of the rows chosen.
LEMMA PoistaRiviInd ==
  ASSUME Induktiivinen, NEW r \in Tapahtumat, PoistaRivi(r)
  PROVE  Induktiivinen'
<1>1. PICK v \in tx[r].kohde : KirjoitaRivi(r, v, [OmatRivit(r)[v] EXCEPT !.poistettu = TRUE])
  BY DEF PoistaRivi
<1>2. tx[r].vaihe = "rivit"
  BY DEF PoistaRivi
<1> DEFINE arvo == [OmatRivit(r)[v] EXCEPT !.poistettu = TRUE]
<1>3. arvo \in LiitosRivi /\ arvo.sopimus = tx[r].sopimus
  BY KohteetRiveja DEF LiitosRivi
<1> HIDE DEF arvo
<1>4. QED
  BY <1>1, <1>2, <1>3, KirjoitaRiviInd DEF arvo

\* PUT writes the row chosen.
LEMMA PaivitaRiviInd ==
  ASSUME Induktiivinen, NEW r \in Tapahtumat, PaivitaRivi(r)
  PROVE  Induktiivinen'
<1>1. PICK v \in tx[r].kohde, j \in KelvotJaksot :
        KirjoitaRivi(r, v, [OmatRivit(r)[v] EXCEPT !.alkupvm = j[1], !.loppupvm = j[2]])
  BY DEF PaivitaRivi
<1>2. tx[r].vaihe = "rivit"
  BY DEF PaivitaRivi
<1>3. j[1] \in Paiva /\ j[2] \in Paiva
  BY PaivatAssumption DEF KelvotJaksot
<1> DEFINE arvo == [OmatRivit(r)[v] EXCEPT !.alkupvm = j[1], !.loppupvm = j[2]]
<1>4. arvo \in LiitosRivi /\ arvo.sopimus = tx[r].sopimus
  BY <1>3, KohteetRiveja DEF LiitosRivi
<1> HIDE DEF arvo
<1>5. QED
  BY <1>1, <1>2, <1>4, KirjoitaRiviInd DEF arvo

\* An UPDATE that matches no rows ends.
LEMMA EiRivejaInd ==
  ASSUME Induktiivinen, NEW r \in Tapahtumat, EiRiveja(r)
  PROVE  Induktiivinen'
<1> DEFINE uusi == [tx[r] EXCEPT !.vaihe = RivienJalkeen(r)]
<1>1. tx[r].vaihe = "rivit" /\ Siirry(r, uusi)
  BY DEF EiRiveja
<1>2. /\ tx[r] \in Tx /\ KohteetOK(tx[r]) /\ VaiheOK(r, tx[r])
      /\ OmatRivit(r) = Paalle(tx[r].liitokset, rivi)
  BY Tilanne
<1>3. /\ uusi \in Tx /\ uusi.toiminto = tx[r].toiminto /\ uusi.vaihe = RivienJalkeen(r)
      /\ uusi.sopimus = tx[r].sopimus /\ uusi.jono = tx[r].jono
      /\ uusi.rivit = tx[r].rivit /\ uusi.kohde = tx[r].kohde
      /\ uusi.sopimukset = tx[r].sopimukset /\ uusi.liitokset = tx[r].liitokset
  BY <1>2 DEF Tx, Vaihe, RivienJalkeen
<1> HIDE DEF uusi
<1>4. VaiheOK(r, uusi)
  BY <1>1, <1>2, <1>3 DEF VaiheOK, LukkoPidossa, RivienJalkeen
<1>5. uusi.kohde \subseteq SopimuksenRivit(OmatRivit(r), tx[r].sopimus)
  BY <1>2, <1>3 DEF KohteetOK
<1>6. QED
  BY <1>1, <1>3, <1>4, <1>5, EteneInd DEF RivienJalkeen

\* POST inserts a row nobody has, or has inserted them all.
LEMMA LisaaTutkinnotInd ==
  ASSUME Induktiivinen, NEW r \in Tapahtumat, LisaaTutkinnot(r)
  PROVE  Induktiivinen'
<1> DEFINE t == tx[r]
<1>1. /\ t.vaihe = "lisays" /\ t.toiminto = "tutkinnot" /\ t.sopimus \in Sopimukset
      /\ t \in Tx /\ KohteetOK(t) /\ VaiheOK(r, t) /\ KirjoituksetOK(t)
      /\ rivi \in [Rivit -> LiitosRivi \union {Nil}]
      /\ OmatRivit(r) = Paalle(t.liitokset, rivi)
  <2>1. t.vaihe = "lisays"
    BY DEF LisaaTutkinnot
  <2>2. QED
    BY <2>1, Tilanne, TxKentat DEF VaiheOK
<1>2. CASE t.lisattavat = {}
  <2> DEFINE uusi == [t EXCEPT !.vaihe = "paivat"]
  <2>1. Siirry(r, uusi)
    BY <1>2 DEF LisaaTutkinnot
  <2>2. /\ uusi \in Tx /\ uusi.toiminto = t.toiminto /\ uusi.vaihe = "paivat"
        /\ uusi.sopimus = t.sopimus /\ uusi.jono = t.jono
        /\ uusi.rivit = t.rivit /\ uusi.kohde = t.kohde
        /\ uusi.sopimukset = t.sopimukset /\ uusi.liitokset = t.liitokset
    BY <1>1 DEF Tx, Vaihe
  <2> HIDE DEF uusi
  <2>3. VaiheOK(r, uusi)
    BY <1>1, <2>2 DEF VaiheOK, LukkoPidossa
  <2>4. uusi.kohde \subseteq SopimuksenRivit(OmatRivit(r), t.sopimus)
    BY <1>1, <2>2 DEF KohteetOK
  <2>5. QED
    BY <2>1, <2>2, <2>3, <2>4, EteneInd
<1>3. CASE t.lisattavat # {}
  <2> DEFINE lisatty(w, j) == [sopimus |-> t.sopimus, tutkintoversio |-> w,
                               alkupvm |-> j[1], loppupvm |-> j[2], poistettu |-> FALSE]
  <2>1. PICK w \in t.lisattavat, u \in VapaatRivit, j \in Jaksot :
          Siirry(r, [t EXCEPT !.liitokset[u] = lisatty(w, j), !.lisattavat = @ \ {w}])
    BY <1>3 DEF LisaaTutkinnot
  <2> DEFINE kuvat == [t.liitokset EXCEPT ![u] = lisatty(w, j)]
             uusi == [t EXCEPT !.liitokset = kuvat, !.lisattavat = @ \ {w}]
  <2>2. Siirry(r, uusi)
    BY <1>1, <2>1 DEF Tx
  <2>3. u \in Rivit /\ rivi[u] = Nil /\ t.liitokset[u] = Nil /\ RivinHaltijat(r, u) = {}
    BY DEF VapaatRivit, RivinHaltijat
  <2>4. lisatty(w, j) \in LiitosRivi /\ lisatty(w, j).sopimus = t.sopimus
    BY <1>1, TxKentat, PaivatAssumption DEF LiitosRivi
  <2>5. lisatty(w, j) # Nil
    BY <2>4, NilAssumption
  <2> HIDE DEF lisatty
  <2>6. /\ kuvat \in [Rivit -> LiitosRivi \union {Nil}]
        /\ kuvat[u] = lisatty(w, j) /\ \A v \in Rivit \ {u} : kuvat[v] = t.liitokset[v]
    BY <1>1, <2>3, <2>4, TxKentat
  <2> HIDE DEF kuvat
  <2>7. /\ uusi \in Tx /\ uusi.toiminto = t.toiminto /\ uusi.vaihe = "lisays"
        /\ uusi.sopimus = t.sopimus /\ uusi.jono = t.jono
        /\ uusi.rivit = t.rivit /\ uusi.kohde = t.kohde
        /\ uusi.sopimukset = t.sopimukset /\ uusi.liitokset = kuvat
    BY <1>1, <2>6 DEF Tx
  <2> HIDE DEF uusi
  <2>8. KohteetOK(uusi)
    <3>1. ASSUME NEW v \in t.rivit \union t.kohde
          PROVE  v \in SopimuksenRivit(Paalle(kuvat, rivi), t.sopimus)
      <4>1. v \in Rivit /\ v \in SopimuksenRivit(Paalle(t.liitokset, rivi), t.sopimus)
        BY <1>1 DEF KohteetOK, SopimuksenRivit
      <4>2. v # u
        BY <1>1, <2>3, <4>1 DEF SopimuksenRivit, Paalle
      <4>3. QED
        BY <1>1, <2>6, <4>1, <4>2 DEF SopimuksenRivit, Paalle
    <3>2. ASSUME NEW v \in Rivit, kuvat[v] # Nil
          PROVE  kuvat[v].sopimus = t.sopimus /\ (rivi[v] # Nil => rivi[v].sopimus = t.sopimus)
      BY <1>1, <2>3, <2>4, <2>6, <3>2 DEF KohteetOK
    <3>3. QED
      BY <1>1, <2>7, <3>1, <3>2 DEF KohteetOK
  <2>9. VaiheOK(r, uusi)
    BY <1>1, <2>7 DEF VaiheOK, LukkoPidossa
  <2>10. KirjoituksetOK(uusi)
    BY <1>1, <2>7 DEF KirjoituksetOK
  <2>11. QED
    BY <2>2, <2>3, <2>6, <2>7, <2>8, <2>9, <2>10, SiirryInd DEF TapahtumaOK
<1>4. QED
  BY <1>2, <1>3
-----------------------------------------------------------------------------
(* Statements that write the agreement *)

\* The agreement as the transaction sees it: it keeps the CHECK, and a request sees it
\* begin no later than the committed one.
LEMMA OmaSopimus ==
  ASSUME Induktiivinen, NEW p \in Tapahtumat, tx[p].sopimus # Nil
  PROVE  LET c == tx[p].sopimus
             s == OmatSopimukset(p)[c]
         IN  /\ c \in Sopimukset /\ sopimus[c] # Nil /\ sopimus[c] \in SopimusRivi
             /\ s \in SopimusRivi /\ ~ (s.voimassa /\ s.poistettu)
             /\ tx[p].sopimukset[c] # Nil => s = tx[p].sopimukset[c]
             /\ tx[p].toiminto \notin {"ei", "eraajo"} => EiMyohemmin(s.alkupvm, sopimus[c].alkupvm)
<1> DEFINE c == tx[p].sopimus
           s == OmatSopimukset(p)[c]
<1>1. /\ tx[p] \in Tx /\ KohteetOK(tx[p]) /\ KirjoituksetOK(tx[p])
      /\ sopimus \in [Sopimukset -> SopimusRivi \union {Nil}]
      /\ OmatSopimukset(p) = Paalle(tx[p].sopimukset, sopimus)
      /\ PoistettuEiVoimassa
  BY Tilanne DEF Induktiivinen
<1>2. c \in Sopimukset /\ sopimus[c] # Nil /\ sopimus[c] \in SopimusRivi
  BY <1>1, TxKentat DEF KohteetOK
<1>3. CASE tx[p].sopimukset[c] # Nil
  <2>1. s = tx[p].sopimukset[c]
    BY <1>1, <1>2, <1>3 DEF Paalle
  <2>2. s \in SopimusRivi
    BY <1>1, <1>2, <1>3, <2>1, TxKentat
  <2>3. QED
    BY <1>1, <1>2, <1>3, <2>1, <2>2 DEF KirjoituksetOK
<1>4. CASE tx[p].sopimukset[c] = Nil
  <2>1. s = sopimus[c]
    BY <1>1, <1>2, <1>4 DEF Paalle
  <2>2. EiMyohemmin(s.alkupvm, s.alkupvm)
    <3>1. s.alkupvm \in Paiva
      BY <1>2, <2>1 DEF SopimusRivi
    <3>2. QED
      BY <3>1, EiMyohemminItse
  <2>3. QED
    BY <1>1, <1>2, <1>4, <2>1, <2>2 DEF PoistettuEiVoimassa
<1>5. QED
  BY <1>3, <1>4

\* An UPDATE of the agreement.
LEMMA KirjoitaSopimusInd ==
  ASSUME Induktiivinen, NEW p \in Tapahtumat, NEW arvo \in SopimusRivi,
         NEW vaihe \in {"valinta", "lisays", "voimassaolo"},
         KirjoitaSopimus(p, arvo, vaihe), tx[p].sopimus # Nil,
         vaihe = "valinta" => tx[p].vaihe = "sopimus" /\ tx[p].toiminto \in {"paivita", "poista"},
         vaihe = "lisays" => tx[p].vaihe = "sopimus" /\ tx[p].toiminto = "tutkinnot",
         vaihe = "voimassaolo" => tx[p].vaihe = "kirjaus",
         tx[p].toiminto = "poista" => arvo.poistettu,
         ~ (arvo.voimassa /\ arvo.poistettu),
         tx[p].toiminto \notin {"ei", "eraajo"} =>
           /\ EiMyohemmin(arvo.alkupvm, sopimus[tx[p].sopimus].alkupvm)
           /\ vaihe = "voimassaolo" =>
                Kattaa(arvo.alkupvm, arvo.loppupvm, OmatRivit(p), tx[p].sopimus)
  PROVE  Induktiivinen'
<1> DEFINE t == tx[p]
           c == t.sopimus
           kuvat == [t.sopimukset EXCEPT ![c] = arvo]
           uusi == [t EXCEPT !.sopimukset = kuvat, !.vaihe = vaihe]
<1>1. /\ t \in Tx /\ KohteetOK(t) /\ VaiheOK(p, t) /\ KirjoituksetOK(t)
      /\ OmatRivit(p) = Paalle(t.liitokset, rivi)
  BY Tilanne
<1>2. c \in Sopimukset /\ sopimus[c] # Nil
  BY OmaSopimus
<1>3. SopimuksenHaltijat(p, c) = {} /\ Siirry(p, uusi)
  BY <1>1 DEF KirjoitaSopimus, Tx
<1>4. arvo # Nil
  BY NilAssumption
<1>5. /\ kuvat \in [Sopimukset -> SopimusRivi \union {Nil}]
      /\ kuvat[c] = arvo /\ \A d \in Sopimukset \ {c} : kuvat[d] = t.sopimukset[d]
  BY <1>1, <1>2, TxKentat
<1> HIDE DEF kuvat
<1>6. /\ uusi \in Tx /\ uusi.toiminto = t.toiminto /\ uusi.vaihe = vaihe
      /\ uusi.sopimus = c /\ uusi.jono = t.jono
      /\ uusi.rivit = t.rivit /\ uusi.kohde = t.kohde
      /\ uusi.sopimukset = kuvat /\ uusi.liitokset = t.liitokset
  BY <1>1, <1>5 DEF Tx, Vaihe
<1> HIDE DEF uusi
<1>7. KohteetOK(uusi)
  BY <1>1, <1>2, <1>5, <1>6 DEF KohteetOK
<1>8. VaiheOK(p, uusi)
  BY <1>1, <1>2, <1>4, <1>5, <1>6 DEF VaiheOK, LukkoPidossa
<1>9. KirjoituksetOK(uusi)
  <2>1. ASSUME NEW d \in Sopimukset, kuvat[d] # Nil
        PROVE  /\ ~ (kuvat[d].voimassa /\ kuvat[d].poistettu)
               /\ t.toiminto \notin {"ei", "eraajo"} =>
                    EiMyohemmin(kuvat[d].alkupvm, sopimus[d].alkupvm)
    <3>1. CASE d = c
      BY <1>5, <3>1
    <3>2. CASE d # c
      BY <1>1, <1>5, <2>1, <3>2 DEF KirjoituksetOK
    <3>3. QED
      BY <3>1, <3>2
  <2>2. QED
    BY <1>1, <1>5, <1>6, <2>1 DEF KirjoituksetOK
<1>10. QED
  BY <1>3, <1>5, <1>6, <1>7, <1>8, <1>9, SiirryInd DEF TapahtumaOK

\* A request that updates its agreement works on one.
LEMMA SopimusTyon ==
  ASSUME Induktiivinen, NEW p \in Tapahtumat, tx[p].vaihe \in {"sopimus", "kirjaus", "voimassaolo"}
  PROVE  tx[p].sopimus # Nil /\ (tx[p].vaihe = "sopimus" => tx[p].toiminto \notin {"ei", "eraajo"})
<1>1. VaiheOK(p, tx[p])
  BY Tilanne
<1>2. QED
  BY <1>1 DEF VaiheOK

\* DELETE marks the agreement removed and not valid.
LEMMA MerkitsePoistetuksiInd ==
  ASSUME Induktiivinen, NEW r \in Tapahtumat, MerkitsePoistetuksi(r)
  PROVE  Induktiivinen'
<1> DEFINE s == OmatSopimukset(r)[tx[r].sopimus]
           arvo == [s EXCEPT !.poistettu = TRUE, !.voimassa = FALSE]
<1>1. tx[r].vaihe = "sopimus" /\ tx[r].toiminto = "poista" /\ KirjoitaSopimus(r, arvo, "valinta")
  BY DEF MerkitsePoistetuksi
<1>2. /\ tx[r].sopimus # Nil /\ s \in SopimusRivi
      /\ EiMyohemmin(s.alkupvm, sopimus[tx[r].sopimus].alkupvm)
  BY <1>1, SopimusTyon, OmaSopimus
<1>3. /\ arvo \in SopimusRivi /\ arvo.poistettu = TRUE /\ arvo.voimassa = FALSE
      /\ arvo.alkupvm = s.alkupvm
  <2> HIDE DEF s
  <2>1. QED
    BY <1>2 DEF SopimusRivi
<1> HIDE DEF s, arvo
<1>4. QED
  BY <1>1, <1>2, <1>3, KirjoitaSopimusInd

\* PUT writes the columns of the form.
LEMMA PaivitaSopimusInd ==
  ASSUME Induktiivinen, NEW r \in Tapahtumat, PaivitaSopimus(r)
  PROVE  Induktiivinen'
<1> DEFINE s == OmatSopimukset(r)[tx[r].sopimus]
           arvo(k) == [s EXCEPT !.toimikunta = k]
<1>1. PICK k \in Toimikunnat : KirjoitaSopimus(r, arvo(k), "valinta")
  BY DEF PaivitaSopimus
<1>2. tx[r].vaihe = "sopimus" /\ tx[r].toiminto = "paivita"
  BY DEF PaivitaSopimus
<1>3. /\ tx[r].sopimus # Nil /\ s \in SopimusRivi /\ ~ (s.voimassa /\ s.poistettu)
      /\ EiMyohemmin(s.alkupvm, sopimus[tx[r].sopimus].alkupvm)
  BY <1>2, SopimusTyon, OmaSopimus
<1>4. /\ arvo(k) \in SopimusRivi /\ arvo(k).alkupvm = s.alkupvm
      /\ arvo(k).voimassa = s.voimassa /\ arvo(k).poistettu = s.poistettu
  <2> HIDE DEF s
  <2>1. QED
    BY <1>3 DEF SopimusRivi
<1> HIDE DEF s, arvo
<1>5. QED
  BY <1>1, <1>2, <1>3, <1>4, KirjoitaSopimusInd

\* POST touches the agreement.
LEMMA KoskeSopimustaInd ==
  ASSUME Induktiivinen, NEW r \in Tapahtumat, KoskeSopimusta(r)
  PROVE  Induktiivinen'
<1> DEFINE s == OmatSopimukset(r)[tx[r].sopimus]
<1>1. tx[r].vaihe = "sopimus" /\ tx[r].toiminto = "tutkinnot" /\ KirjoitaSopimus(r, s, "lisays")
  BY DEF KoskeSopimusta
<1>2. /\ tx[r].sopimus # Nil /\ s \in SopimusRivi /\ ~ (s.voimassa /\ s.poistettu)
      /\ EiMyohemmin(s.alkupvm, sopimus[tx[r].sopimus].alkupvm)
  BY <1>1, SopimusTyon, OmaSopimus
<1> HIDE DEF s
<1>3. QED
  BY <1>1, <1>2, KirjoitaSopimusInd

\* The days read are written.
LEMMA KirjaaPaivatInd ==
  ASSUME Induktiivinen, NEW p \in Tapahtumat, KirjaaPaivat(p)
  PROVE  Induktiivinen'
<1> DEFINE s == OmatSopimukset(p)[tx[p].sopimus]
           arvo == [s EXCEPT !.alkupvm = tx[p].luettu[1], !.loppupvm = tx[p].luettu[2]]
<1>1. tx[p].vaihe = "kirjaus" /\ KirjoitaSopimus(p, arvo, "voimassaolo")
  BY DEF KirjaaPaivat
<1>2. /\ tx[p] \in Tx /\ VaiheOK(p, tx[p]) /\ KirjoituksetOK(tx[p])
      /\ OmatRivit(p) = Paalle(tx[p].liitokset, rivi)
  BY Tilanne
<1>3. tx[p].sopimus # Nil /\ s \in SopimusRivi /\ ~ (s.voimassa /\ s.poistettu)
  BY <1>1, SopimusTyon, OmaSopimus
<1>4. tx[p].luettu[1] \in Paiva /\ tx[p].luettu[2] \in Paiva
  BY <1>2, TxKentat
<1>5. /\ arvo \in SopimusRivi /\ arvo.voimassa = s.voimassa /\ arvo.poistettu = s.poistettu
      /\ arvo.alkupvm = tx[p].luettu[1] /\ arvo.loppupvm = tx[p].luettu[2]
  <2> HIDE DEF s
  <2>1. QED
    BY <1>3, <1>4 DEF SopimusRivi
<1>6. tx[p].toiminto # "poista"
  BY <1>1, <1>2 DEF VaiheOK
<1>7. tx[p].toiminto \notin {"ei", "eraajo"} =>
        /\ EiMyohemmin(arvo.alkupvm, sopimus[tx[p].sopimus].alkupvm)
        /\ Kattaa(arvo.alkupvm, arvo.loppupvm, OmatRivit(p), tx[p].sopimus)
  BY <1>1, <1>2, <1>5 DEF KirjoituksetOK
<1> HIDE DEF s, arvo
<1>8. QED
  BY <1>1, <1>3, <1>5, <1>6, <1>7, KirjoitaSopimusInd

\* The column voimassa is written; a request is then ready to commit and a nightly
\* run goes on.
LEMMA VoimassaoloonInd ==
  ASSUME Induktiivinen, NEW p \in Tapahtumat, NEW arvo \in BOOLEAN,
         tx[p].vaihe = "voimassaolo", Voimassaoloon(p, arvo),
         arvo => ~ OmatSopimukset(p)[tx[p].sopimus].poistettu
  PROVE  Induktiivinen'
<1> DEFINE t == tx[p]
           c == t.sopimus
           s == t.sopimukset[c]
           kirjattu == [s EXCEPT !.voimassa = arvo]
           kuvat == [t.sopimukset EXCEPT ![c] = kirjattu]
           vaihe == IF t.toiminto = "eraajo" THEN "paivat" ELSE "valmis"
           jatko == IF t.toiminto = "eraajo" THEN Nil ELSE c
           uusi == [t EXCEPT !.sopimukset = kuvat, !.luettu = <<Nil, Nil>>,
                             !.vaihe = vaihe, !.sopimus = jatko]
<1>1. t \in Tx /\ KohteetOK(t) /\ VaiheOK(p, t) /\ KirjoituksetOK(t)
  BY Tilanne
<1>2. s # Nil /\ t.toiminto \notin {"ei", "poista"} /\ c # Nil
  BY <1>1 DEF VaiheOK
<1>3. c \in Sopimukset /\ s \in SopimusRivi /\ s = OmatSopimukset(p)[c]
  BY <1>2, OmaSopimus
<1>4. Siirry(p, uusi)
  BY <1>1, <1>3, TxKentat DEF Voimassaoloon, Tx
<1>5. /\ kirjattu \in SopimusRivi /\ kirjattu.voimassa = arvo
      /\ kirjattu.poistettu = s.poistettu
      /\ kirjattu.alkupvm = s.alkupvm /\ kirjattu.loppupvm = s.loppupvm
  <2> HIDE DEF s
  <2>1. QED
    BY <1>3 DEF SopimusRivi
<1>6. kirjattu # Nil
  BY <1>5, NilAssumption
<1> HIDE DEF kirjattu
<1>7. /\ kuvat \in [Sopimukset -> SopimusRivi \union {Nil}]
      /\ kuvat[c] = kirjattu /\ \A d \in Sopimukset \ {c} : kuvat[d] = t.sopimukset[d]
  BY <1>1, <1>3, <1>5, TxKentat
<1> HIDE DEF kuvat
<1>8. /\ uusi \in Tx /\ uusi.toiminto = t.toiminto /\ uusi.vaihe = vaihe
      /\ uusi.sopimus = jatko /\ uusi.jono = t.jono
      /\ uusi.rivit = t.rivit /\ uusi.kohde = t.kohde
      /\ uusi.sopimukset = kuvat /\ uusi.liitokset = t.liitokset
  BY <1>1, <1>3, <1>7 DEF Tx, Vaihe, Paiva
<1> HIDE DEF uusi
<1>9. KohteetOK(uusi)
  <2>1. \A d \in Sopimukset : d \in t.jono \/ kuvat[d] # Nil => sopimus[d] # Nil
    BY <1>1, <1>2, <1>3, <1>7 DEF KohteetOK
  <2>2. CASE t.toiminto = "eraajo"
    BY <1>1, <1>8, <2>1, <2>2 DEF KohteetOK, VaiheOK
  <2>3. CASE t.toiminto # "eraajo"
    BY <1>1, <1>8, <2>1, <2>3 DEF KohteetOK
  <2>4. QED
    BY <2>2, <2>3
<1>10. VaiheOK(p, uusi)
  BY <1>1, <1>2, <1>3, <1>6, <1>7, <1>8 DEF VaiheOK, LukkoPidossa
<1>11. KirjoituksetOK(uusi)
  <2>1. ASSUME NEW d \in Sopimukset, kuvat[d] # Nil
        PROVE  /\ ~ (kuvat[d].voimassa /\ kuvat[d].poistettu)
               /\ t.toiminto \notin {"ei", "eraajo"} =>
                    EiMyohemmin(kuvat[d].alkupvm, sopimus[d].alkupvm)
    <3>1. CASE d = c
      <4>1. kuvat[d].voimassa = arvo /\ kuvat[d].poistettu = OmatSopimukset(p)[c].poistettu
        BY <1>3, <1>5, <1>7, <3>1
      <4>2. kuvat[d].alkupvm = s.alkupvm
        BY <1>5, <1>7, <3>1
      <4>3. QED
        BY <1>1, <1>2, <1>3, <3>1, <4>1, <4>2 DEF KirjoituksetOK
    <3>2. CASE d # c
      BY <1>1, <1>7, <2>1, <3>2 DEF KirjoituksetOK
    <3>3. QED
      BY <3>1, <3>2
  <2>2. t.toiminto \notin {"ei", "eraajo"} =>
          Kattaa(kuvat[c].alkupvm, kuvat[c].loppupvm, Paalle(t.liitokset, rivi), c)
    BY <1>1, <1>2, <1>5, <1>7 DEF KirjoituksetOK
  <2>3. QED
    BY <1>8, <2>1, <2>2 DEF KirjoituksetOK
<1>12. QED
  BY <1>2, <1>4, <1>7, <1>8, <1>9, <1>10, <1>11, SiirryInd DEF TapahtumaOK

\* The rule of an agreement that is not removed.
LEMMA AsetaVoimassaoloInd ==
  ASSUME Induktiivinen, NEW p \in Tapahtumat, AsetaVoimassaolo(p)
  PROVE  Induktiivinen'
<1> DEFINE arvo == Voimassa(OmatSopimukset(p), OmatRivit(p), tx[p].sopimus)
<1>1. /\ tx[p].vaihe = "voimassaolo" /\ Voimassaoloon(p, arvo)
      /\ Olemassa(OmatSopimukset(p), tx[p].sopimus)
  BY DEF AsetaVoimassaolo
<1>2. ~ OmatSopimukset(p)[tx[p].sopimus].poistettu
  BY <1>1 DEF Olemassa
<1>3. arvo \in BOOLEAN
  BY DEF Voimassa
<1> HIDE DEF arvo
<1>4. QED
  BY <1>1, <1>2, <1>3, VoimassaoloonInd

\* A removed agreement is not made valid.
LEMMA AsetaPoistetunVoimassaoloInd ==
  ASSUME Induktiivinen, NEW p \in Tapahtumat, AsetaPoistetunVoimassaolo(p)
  PROVE  Induktiivinen'
<1>1. CASE Voimassaoloon(p, FALSE)
  <2>1. tx[p].vaihe = "voimassaolo"
    BY DEF AsetaPoistetunVoimassaolo
  <2>2. QED
    BY <1>1, <2>1, VoimassaoloonInd
<1>2. CASE Peru(p)
  BY <1>2, PeruInd
<1>3. QED
  BY <1>1, <1>2 DEF AsetaPoistetunVoimassaolo
-----------------------------------------------------------------------------
(* Commits *)

\* A period covers the rows of an agreement as long as those rows are the same.
LEMMA KattaaSama ==
  ASSUME NEW R, NEW Q, NEW c, NEW alku, NEW loppu, Kattaa(alku, loppu, R, c),
         \A v \in Rivit : \/ R[v] = Q[v]
                          \/ v \notin SopimuksenRivit(R, c) /\ v \notin SopimuksenRivit(Q, c)
  PROVE  Kattaa(alku, loppu, Q, c)
<1>1. Liitokset(Q, c) = Liitokset(R, c) /\ \A v \in Liitokset(R, c) : Q[v] = R[v]
  BY DEF Liitokset, SopimuksenRivit
<1>2. {Q[v].loppupvm : v \in Liitokset(Q, c)} = {R[v].loppupvm : v \in Liitokset(R, c)}
  BY <1>1
<1>3. QED
  BY <1>1, <1>2 DEF Kattaa

\* A transaction stays in order when another commits: no row disappears or changes its
\* agreement, what the transaction has locked stays as it is, and so do the rows of the
\* agreement it has locked.
LEMMA MuidenKirjoitukset ==
  ASSUME NEW p \in Tapahtumat, NEW t \in Tx, TapahtumaOK(p, t),
         rivi \in [Rivit -> LiitosRivi \union {Nil}],
         rivi' \in [Rivit -> LiitosRivi \union {Nil}],
         \A c \in Sopimukset : sopimus[c] # Nil => sopimus'[c] # Nil,
         \A c \in Sopimukset : t.sopimukset[c] # Nil => sopimus'[c] = sopimus[c],
         \A v \in Rivit : t.liitokset[v] # Nil => rivi'[v] = rivi[v],
         \A v \in Rivit : rivi[v] # Nil => rivi'[v] # Nil /\ rivi'[v].sopimus = rivi[v].sopimus,
         \A v \in Rivit : rivi'[v] # rivi[v] =>
           /\ rivi'[v] # Nil
           /\ \A c \in Sopimukset : t.sopimukset[c] # Nil => rivi'[v].sopimus # c
  PROVE  TapahtumaOK(p, t)'
<1> DEFINE R == Paalle(t.liitokset, rivi)
           Q == Paalle(t.liitokset, rivi')
           pyynto == t.toiminto \notin {"ei", "eraajo"}
<1>1. /\ KohteetOK(t) /\ VaiheOK(p, t) /\ KirjoituksetOK(t)
      /\ t.sopimus \in Sopimukset \union {Nil} /\ t.rivit \subseteq Rivit
      /\ t.kohde \subseteq Rivit /\ t.jono \subseteq Sopimukset
  BY TxKentat DEF TapahtumaOK
<1>2. \A v \in Rivit : /\ R[v] = IF t.liitokset[v] # Nil THEN t.liitokset[v] ELSE rivi[v]
                       /\ Q[v] = IF t.liitokset[v] # Nil THEN t.liitokset[v] ELSE rivi'[v]
  BY DEF Paalle
<1> HIDE DEF R, Q
<1>3. KohteetOK(t)'
  <2>1. t.sopimus # Nil => sopimus'[t.sopimus] # Nil
    BY <1>1 DEF KohteetOK
  <2>2. \A c \in Sopimukset : c \in t.jono \/ t.sopimukset[c] # Nil => sopimus'[c] # Nil
    BY <1>1 DEF KohteetOK
  <2>3. ASSUME NEW v \in t.rivit \union t.kohde
        PROVE  v \in SopimuksenRivit(Q, t.sopimus)
    <3>1. v \in Rivit /\ v \in SopimuksenRivit(R, t.sopimus)
      BY <1>1 DEF KohteetOK, R
    <3>2. QED
      BY <1>2, <3>1 DEF SopimuksenRivit
  <2>4. \A v \in Rivit : t.liitokset[v] # Nil =>
          /\ t.liitokset[v].sopimus = t.sopimus
          /\ rivi'[v] # Nil => rivi'[v].sopimus = t.sopimus
    BY <1>1 DEF KohteetOK
  <2>5. QED
    BY <2>1, <2>2, <2>3, <2>4 DEF KohteetOK, Q
<1>4. VaiheOK(p, t)'
  BY <1>1 DEF VaiheOK
<1>5. ASSUME pyynto, t.vaihe \in {"kirjaus", "voimassaolo", "valmis"}
      PROVE  /\ sopimus'[t.sopimus] = sopimus[t.sopimus]
             /\ \A alku, loppu : Kattaa(alku, loppu, R, t.sopimus) =>
                                   Kattaa(alku, loppu, Q, t.sopimus)
  <2>1. t.sopimus \in Sopimukset /\ t.sopimukset[t.sopimus] # Nil
    BY <1>1, <1>5 DEF VaiheOK, LukkoPidossa
  <2>2. ASSUME NEW v \in Rivit, R[v] # Q[v]
        PROVE  v \notin SopimuksenRivit(R, t.sopimus) /\ v \notin SopimuksenRivit(Q, t.sopimus)
    <3>1. t.liitokset[v] = Nil /\ R[v] = rivi[v] /\ Q[v] = rivi'[v]
      BY <1>2, <2>2
    <3>2. rivi'[v].sopimus # t.sopimus /\ (rivi[v] # Nil => rivi[v].sopimus # t.sopimus)
      BY <2>1, <2>2, <3>1
    <3>3. QED
      BY <3>1, <3>2 DEF SopimuksenRivit
  <2>3. QED
    BY <2>1, <2>2, KattaaSama
<1>6. KirjoituksetOK(t)'
  <2>1. \A d \in Sopimukset : t.sopimukset[d] # Nil =>
          /\ ~ (t.sopimukset[d].voimassa /\ t.sopimukset[d].poistettu)
          /\ pyynto => EiMyohemmin(t.sopimukset[d].alkupvm, sopimus'[d].alkupvm)
    BY <1>1 DEF KirjoituksetOK
  <2>2. pyynto /\ t.vaihe = "kirjaus" =>
          /\ EiMyohemmin(t.luettu[1], sopimus'[t.sopimus].alkupvm)
          /\ Kattaa(t.luettu[1], t.luettu[2], Q, t.sopimus)
    BY <1>1, <1>5 DEF KirjoituksetOK, R
  <2>3. pyynto /\ t.toiminto # "poista" /\ t.vaihe \in {"voimassaolo", "valmis"} =>
          Kattaa(t.sopimukset[t.sopimus].alkupvm, t.sopimukset[t.sopimus].loppupvm, Q, t.sopimus)
    BY <1>1, <1>5 DEF KirjoituksetOK, R
  <2>4. QED
    BY <2>1, <2>2, <2>3 DEF KirjoituksetOK, Q
<1>7. QED
  BY <1>3, <1>4, <1>6 DEF TapahtumaOK

\* What a commit does to the tables.
LEMMA VahvistaTaulut ==
  ASSUME Induktiivinen, NEW p \in Tapahtumat, Vahvista(p)
  PROVE  LET t == tx[p]
         IN  /\ sopimus' \in [Sopimukset -> SopimusRivi \union {Nil}]
             /\ rivi' \in [Rivit -> LiitosRivi \union {Nil}]
             /\ rivi' = Paalle(t.liitokset, rivi)
             /\ \A c \in Sopimukset :
                  /\ sopimus'[c] = IF t.sopimukset[c] # Nil THEN t.sopimukset[c] ELSE sopimus[c]
                  /\ t.sopimukset[c] # Nil => sopimus[c] # Nil
             /\ \A v \in Rivit :
                  /\ rivi'[v] = IF t.liitokset[v] # Nil THEN t.liitokset[v] ELSE rivi[v]
                  /\ t.liitokset[v] # Nil =>
                       /\ t.toiminto \notin {"ei", "eraajo"}
                       /\ t.sopimus \in Sopimukset
                       /\ t.sopimukset[t.sopimus] # Nil
                       /\ t.liitokset[v].sopimus = t.sopimus
                       /\ rivi[v] # Nil => rivi[v].sopimus = t.sopimus
<1>1. /\ tx[p] \in Tx /\ KohteetOK(tx[p]) /\ VaiheOK(p, tx[p])
      /\ sopimus \in [Sopimukset -> SopimusRivi \union {Nil}]
      /\ rivi \in [Rivit -> LiitosRivi \union {Nil}]
      /\ sopimus' = Paalle(tx[p].sopimukset, sopimus)
      /\ sopimus' \in [Sopimukset -> SopimusRivi \union {Nil}]
      /\ rivi' = Paalle(tx[p].liitokset, rivi)
      /\ rivi' \in [Rivit -> LiitosRivi \union {Nil}]
      /\ tx[p].vaihe = "valmis"
  BY Tilanne DEF Vahvista
<1>2. \A c \in Sopimukset :
        /\ sopimus'[c] = IF tx[p].sopimukset[c] # Nil THEN tx[p].sopimukset[c] ELSE sopimus[c]
        /\ tx[p].sopimukset[c] # Nil => sopimus[c] # Nil
  BY <1>1 DEF Paalle, KohteetOK
<1>3. ASSUME NEW v \in Rivit
      PROVE  /\ rivi'[v] = IF tx[p].liitokset[v] # Nil THEN tx[p].liitokset[v] ELSE rivi[v]
             /\ tx[p].liitokset[v] # Nil =>
                  /\ tx[p].toiminto \notin {"ei", "eraajo"}
                  /\ tx[p].sopimus \in Sopimukset
                  /\ tx[p].sopimukset[tx[p].sopimus] # Nil
                  /\ tx[p].liitokset[v].sopimus = tx[p].sopimus
                  /\ rivi[v] # Nil => rivi[v].sopimus = tx[p].sopimus
  <2>1. rivi'[v] = IF tx[p].liitokset[v] # Nil THEN tx[p].liitokset[v] ELSE rivi[v]
    BY <1>1 DEF Paalle
  <2>2. ASSUME tx[p].liitokset[v] # Nil
        PROVE  tx[p].toiminto \notin {"ei", "eraajo"}
    BY <1>1, <2>2 DEF VaiheOK
  <2>3. QED
    BY <1>1, <2>1, <2>2, TxKentat DEF KohteetOK, VaiheOK, LukkoPidossa
<1>4. QED
  BY <1>1, <1>2, <1>3

\* A commit keeps everything in order.
LEMMA VahvistaInd ==
  ASSUME Induktiivinen, NEW p \in Tapahtumat, Vahvista(p)
  PROVE  Induktiivinen'
<1> DEFINE t == tx[p]
<1>1. /\ sopimus' \in [Sopimukset -> SopimusRivi \union {Nil}]
      /\ rivi' \in [Rivit -> LiitosRivi \union {Nil}]
      /\ \A c \in Sopimukset :
           /\ sopimus'[c] = IF t.sopimukset[c] # Nil THEN t.sopimukset[c] ELSE sopimus[c]
           /\ t.sopimukset[c] # Nil => sopimus[c] # Nil
      /\ \A v \in Rivit :
           /\ rivi'[v] = IF t.liitokset[v] # Nil THEN t.liitokset[v] ELSE rivi[v]
           /\ t.liitokset[v] # Nil =>
                /\ t.sopimus \in Sopimukset
                /\ t.sopimukset[t.sopimus] # Nil
                /\ t.liitokset[v].sopimus = t.sopimus
                /\ rivi[v] # Nil => rivi[v].sopimus = t.sopimus
  BY VahvistaTaulut
<1>2. /\ TyyppiOK /\ LukotOK /\ RivienSopimukset /\ PoistettuEiVoimassa
      /\ \A q \in Tapahtumat : TapahtumaOK(q, tx[q])
  BY DEF Induktiivinen
<1>3. /\ tx' = [tx EXCEPT ![p] = Vapaa] /\ tx \in [Tapahtumat -> Tx]
      /\ UNCHANGED <<toimikausi, siirtymaaika, tanaan>>
  BY <1>2 DEF Vahvista, ymparisto, TyyppiOK
<1>4. tx'[p] = Vapaa /\ \A q \in Tapahtumat \ {p} : tx'[q] = tx[q]
  BY <1>3
<1>5. /\ \A c \in Sopimukset : Vapaa.sopimukset[c] = Nil
      /\ \A v \in Rivit : Vapaa.liitokset[v] = Nil
  BY DEF Vapaa
<1>6. TyyppiOK'
  BY <1>1, <1>2, <1>3, VapaaOK DEF TyyppiOK
<1>7. LukotOK'
  <2>1. ASSUME NEW q \in Tapahtumat, NEW s \in Tapahtumat, q # s
        PROVE  /\ \A c \in Sopimukset : tx'[q].sopimukset[c] = Nil \/ tx'[s].sopimukset[c] = Nil
               /\ \A v \in Rivit : tx'[q].liitokset[v] = Nil \/ tx'[s].liitokset[v] = Nil
    <3>1. CASE q = p \/ s = p
      BY <1>4, <1>5, <3>1
    <3>2. CASE q # p /\ s # p
      BY <1>2, <1>4, <2>1, <3>2 DEF LukotOK
    <3>3. QED
      BY <3>1, <3>2
  <2>2. QED
    BY <2>1 DEF LukotOK
<1>8. RivienSopimukset'
  <2>1. ASSUME NEW v \in Rivit, rivi'[v] # Nil
        PROVE  sopimus'[rivi'[v].sopimus] # Nil
    <3>1. CASE t.liitokset[v] # Nil
      BY <1>1, <3>1
    <3>2. CASE t.liitokset[v] = Nil
      <4>1. rivi'[v] = rivi[v] /\ rivi[v].sopimus \in Sopimukset
        BY <1>1, <2>1, <3>2 DEF LiitosRivi
      <4>2. sopimus[rivi[v].sopimus] # Nil
        BY <1>2, <2>1, <4>1 DEF RivienSopimukset
      <4>3. QED
        BY <1>1, <4>1, <4>2
    <3>3. QED
      BY <3>1, <3>2
  <2>2. QED
    BY <2>1 DEF RivienSopimukset
<1>9. PoistettuEiVoimassa'
  <2>1. ASSUME NEW c \in Sopimukset, sopimus'[c] # Nil
        PROVE  ~ (sopimus'[c].voimassa /\ sopimus'[c].poistettu)
    <3>1. CASE t.sopimukset[c] # Nil
      BY <1>1, <1>2, <3>1 DEF TapahtumaOK, KirjoituksetOK
    <3>2. CASE t.sopimukset[c] = Nil
      BY <1>1, <1>2, <2>1, <3>2 DEF PoistettuEiVoimassa
    <3>3. QED
      BY <3>1, <3>2
  <2>2. QED
    BY <2>1 DEF PoistettuEiVoimassa
<1>10. \A q \in Tapahtumat : TapahtumaOK(q, tx[q])'
  <2>1. ASSUME NEW q \in Tapahtumat, NEW u, u = tx'[q]
        PROVE  TapahtumaOK(q, u)'
    <3>1. /\ u \in Tx /\ TapahtumaOK(q, u)
          /\ \A c \in Sopimukset : t.sopimukset[c] = Nil \/ u.sopimukset[c] = Nil
          /\ \A v \in Rivit : t.liitokset[v] = Nil \/ u.liitokset[v] = Nil
      <4>1. CASE q = p
        BY <1>4, <1>5, <2>1, <4>1, VapaaOK
      <4>2. CASE q # p
        BY <1>2, <1>3, <1>4, <2>1, <4>2 DEF LukotOK
      <4>3. QED
        BY <4>1, <4>2
    <3>2. rivi \in [Rivit -> LiitosRivi \union {Nil}]
      BY <1>2 DEF TyyppiOK
    <3>3. /\ \A c \in Sopimukset : sopimus[c] # Nil => sopimus'[c] # Nil
          /\ \A c \in Sopimukset : u.sopimukset[c] # Nil => sopimus'[c] = sopimus[c]
          /\ \A v \in Rivit : u.liitokset[v] # Nil => rivi'[v] = rivi[v]
      BY <1>1, <3>1
    <3>4. \A v \in Rivit : rivi[v] # Nil => rivi'[v] # Nil /\ rivi'[v].sopimus = rivi[v].sopimus
      BY <1>1
    <3>5. \A v \in Rivit : rivi'[v] # rivi[v] =>
            /\ rivi'[v] # Nil
            /\ \A c \in Sopimukset : u.sopimukset[c] # Nil => rivi'[v].sopimus # c
      BY <1>1, <3>1
    <3>6. QED
      BY <1>1, <3>1, <3>2, <3>3, <3>4, <3>5, MuidenKirjoitukset
  <2>2. QED
    BY <2>1
<1>11. QED
  BY <1>6, <1>7, <1>8, <1>9, <1>10 DEF Induktiivinen

\* An agreement is added and committed at once.
LEMMA LisaaInd ==
  ASSUME Induktiivinen, NEW c \in Sopimukset, NEW k \in Toimikunnat, Lisaa(c, k)
  PROVE  Induktiivinen'
<1> DEFINE uusi == [toimikunta |-> k, alkupvm |-> Nil, loppupvm |-> Nil,
                    voimassa |-> FALSE, poistettu |-> FALSE]
<1>1. /\ sopimus[c] = Nil /\ sopimus' = [sopimus EXCEPT ![c] = uusi]
      /\ UNCHANGED <<rivi, toimikausi, siirtymaaika, tanaan, tx>>
  BY DEF Lisaa, ymparisto
<1>2. /\ TyyppiOK /\ LukotOK /\ RivienSopimukset /\ PoistettuEiVoimassa
      /\ \A q \in Tapahtumat : TapahtumaOK(q, tx[q])
  BY DEF Induktiivinen
<1>3. uusi \in SopimusRivi /\ uusi.voimassa = FALSE
  BY DEF SopimusRivi, Paiva
<1>4. uusi # Nil
  BY <1>3, NilAssumption
<1> HIDE DEF uusi
<1>5. sopimus'[c] = uusi /\ \A d \in Sopimukset \ {c} : sopimus'[d] = sopimus[d]
  BY <1>1, <1>2 DEF TyyppiOK
<1>6. TyyppiOK'
  BY <1>1, <1>2, <1>3 DEF TyyppiOK
<1>7. LukotOK'
  BY <1>1, <1>2 DEF LukotOK
<1>8. RivienSopimukset'
  BY <1>1, <1>2, <1>4, <1>5 DEF RivienSopimukset, TyyppiOK, LiitosRivi
<1>9. PoistettuEiVoimassa'
  BY <1>2, <1>3, <1>5 DEF PoistettuEiVoimassa
<1>10. \A q \in Tapahtumat : TapahtumaOK(q, tx[q])'
  <2>1. ASSUME NEW q \in Tapahtumat, NEW u, u = tx'[q]
        PROVE  TapahtumaOK(q, u)'
    <3>1. u \in Tx /\ TapahtumaOK(q, u) /\ u = tx[q]
      BY <1>1, <1>2, <2>1 DEF TyyppiOK
    <3>2. /\ rivi \in [Rivit -> LiitosRivi \union {Nil}] /\ rivi' = rivi
          /\ rivi' \in [Rivit -> LiitosRivi \union {Nil}]
      BY <1>1, <1>2 DEF TyyppiOK
    <3>3. \A d \in Sopimukset : sopimus[d] # Nil => sopimus'[d] # Nil
      BY <1>4, <1>5
    <3>4. \A d \in Sopimukset : u.sopimukset[d] # Nil => sopimus'[d] = sopimus[d]
      BY <1>1, <1>5, <3>1 DEF TapahtumaOK, KohteetOK
    <3>5. QED
      BY <3>1, <3>2, <3>3, <3>4, MuidenKirjoitukset
  <2>2. QED
    BY <2>1
<1>11. QED
  BY <1>6, <1>7, <1>8, <1>9, <1>10 DEF Induktiivinen

\* What happens around the agreements.
LEMMA YmparistoInd ==
  ASSUME Induktiivinen, UNCHANGED <<sopimus, rivi, tx>>,
         toimikausi' \in [Toimikunnat -> Aikavalit],
         siirtymaaika' \in [Versiot -> Aikavalit], tanaan' \in Paivat
  PROVE  Induktiivinen'
<1>1. TyyppiOK' /\ LukotOK' /\ RivienSopimukset' /\ PoistettuEiVoimassa'
  BY DEF Induktiivinen, TyyppiOK, LukotOK, RivienSopimukset, PoistettuEiVoimassa
<1>2. \A q \in Tapahtumat : TapahtumaOK(q, tx[q])'
  <2>1. ASSUME NEW q \in Tapahtumat, NEW u, u = tx'[q]
        PROVE  TapahtumaOK(q, u)'
    <3>1. TapahtumaOK(q, u)
      BY <2>1 DEF Induktiivinen
    <3>2. QED
      BY <3>1, TapahtumaSama
  <2>2. QED
    BY <2>1
<1>3. QED
  BY <1>1, <1>2 DEF Induktiivinen
-----------------------------------------------------------------------------
(* The theorems *)

\* Nothing is written and nothing is under way at first.
LEMMA AlkuInd ==
  ASSUME Init
  PROVE  Induktiivinen
<1>1. /\ \A c \in Sopimukset : sopimus[c] = Nil
      /\ \A v \in Rivit : rivi[v] = Nil
      /\ \A p \in Tapahtumat : tx[p] = Vapaa
  BY DEF Init
<1>2. TyyppiOK
  BY VapaaOK DEF Init, TyyppiOK
<1>3. LukotOK
  BY <1>1 DEF LukotOK, Vapaa
<1>4. RivienSopimukset /\ PoistettuEiVoimassa
  BY <1>1 DEF RivienSopimukset, PoistettuEiVoimassa
<1>5. \A p \in Tapahtumat : TapahtumaOK(p, tx[p])
  BY <1>1, VapaaOK
<1>6. QED
  BY <1>2, <1>3, <1>4, <1>5 DEF Induktiivinen

\* The steps of a transaction under way.
LEMMA PalveleInd ==
  ASSUME Induktiivinen, NEW p \in Tapahtumat, Palvele(p)
  PROVE  Induktiivinen'
<1>1. CASE Tarkista(p) \/ LueTutkinnot(p)
  BY <1>1, TarkistaInd, LueTutkinnotInd
<1>2. CASE MerkitsePoistetuksi(p) \/ PaivitaSopimus(p) \/ KoskeSopimusta(p)
  BY <1>2, MerkitsePoistetuksiInd, PaivitaSopimusInd, KoskeSopimustaInd
<1>3. CASE ValitsePoistettavat(p) \/ ValitseVersionRivit(p) \/ ValitseLomakkeenRivi(p)
  BY <1>3, ValitsePoistettavatInd, ValitseVersionRivitInd, ValitseLomakkeenRiviInd
<1>4. CASE PoistaRivi(p) \/ PaivitaRivi(p) \/ EiRiveja(p) \/ LisaaTutkinnot(p)
  BY <1>4, PoistaRiviInd, PaivitaRiviInd, EiRivejaInd, LisaaTutkinnotInd
<1>5. CASE LisaysKaatuu(p)
  BY <1>5, PeruInd DEF LisaysKaatuu
<1>6. CASE LuePaivat(p) \/ KirjaaPaivat(p)
  BY <1>6, LuePaivatInd, KirjaaPaivatInd
<1>7. CASE AsetaVoimassaolo(p) \/ AsetaPoistetunVoimassaolo(p)
  BY <1>7, AsetaVoimassaoloInd, AsetaPoistetunVoimassaoloInd
<1>8. CASE SeuraavaSopimus(p) \/ Vahvista(p)
  BY <1>8, SeuraavaSopimusInd, VahvistaInd
<1>9. QED
  BY <1>1, <1>2, <1>3, <1>4, <1>5, <1>6, <1>7, <1>8 DEF Palvele

\* Every step keeps the invariant.
LEMMA AskelInd ==
  ASSUME Induktiivinen, [Next]_vars
  PROVE  Induktiivinen'
<1>1. ASSUME NEW c \in Sopimukset, NEW k \in Toimikunnat, Lisaa(c, k)
      PROVE  Induktiivinen'
  BY <1>1, LisaaInd
<1>2. ASSUME NEW r \in Pyynnot, AloitaPaivitys(r)
      PROVE  Induktiivinen'
  <2>1. PICK c \in Nakyneet : \E rivit \in SUBSET SopimuksenRivit(rivi, c) :
          Aloita(r, "paivita", c, {}, rivit)
    BY <1>2 DEF AloitaPaivitys
  <2>2. PICK rivit \in SUBSET SopimuksenRivit(rivi, c) : Aloita(r, "paivita", c, {}, rivit)
    BY <2>1
  <2>3. QED
    BY <2>2, AloitaInd
<1>3. ASSUME NEW r \in Pyynnot, AloitaTutkinnot(r)
      PROVE  Induktiivinen'
  <2>1. PICK c \in Nakyneet, lomake \in SUBSET Versiot : Aloita(r, "tutkinnot", c, lomake, {})
    BY <1>3 DEF AloitaTutkinnot
  <2>2. {} \in SUBSET SopimuksenRivit(rivi, c)
    OBVIOUS
  <2>3. QED
    BY <2>1, <2>2, AloitaInd
<1>4. ASSUME NEW r \in Pyynnot, AloitaPoisto(r)
      PROVE  Induktiivinen'
  <2>1. PICK c \in Nakyneet : Aloita(r, "poista", c, {}, {})
    BY <1>4 DEF AloitaPoisto
  <2>2. {} \in SUBSET SopimuksenRivit(rivi, c) /\ {} \in SUBSET Versiot
    OBVIOUS
  <2>3. QED
    BY <2>1, <2>2, AloitaInd
<1>5. ASSUME NEW e \in Eraajot, AloitaEraajo(e)
      PROVE  Induktiivinen'
  BY <1>5, AloitaEraajoInd
<1>6. ASSUME NEW p \in Tapahtumat, Palvele(p) \/ Lukkiuma(p) \/ Keskeytys(p)
      PROVE  Induktiivinen'
  BY <1>6, PalveleInd, PeruInd DEF Lukkiuma, Keskeytys
<1>7. CASE Ymparisto
  <2>1. TyyppiOK
    BY DEF Induktiivinen
  <2>2. UNCHANGED <<sopimus, rivi, tx>>
    BY <1>7 DEF Ymparisto, PaivaVaihtuu, MuutaToimikausi, PaivitaPeruste
  <2>3. /\ toimikausi' \in [Toimikunnat -> Aikavalit]
        /\ siirtymaaika' \in [Versiot -> Aikavalit] /\ tanaan' \in Paivat
    BY <1>7, <2>1 DEF Ymparisto, PaivaVaihtuu, MuutaToimikausi, PaivitaPeruste, TyyppiOK
  <2>4. QED
    BY <2>2, <2>3, YmparistoInd
<1>8. CASE UNCHANGED vars
  <2>1. UNCHANGED <<sopimus, rivi, toimikausi, siirtymaaika, tanaan, tx>>
    BY <1>8 DEF vars, ymparisto
  <2>2. QED
    BY <2>1, YmparistoInd DEF Induktiivinen, TyyppiOK
<1>9. QED
  BY <1>1, <1>2, <1>3, <1>4, <1>5, <1>6, <1>7, <1>8 DEF Next

\* Locks, transactions and tables agree, whatever requests and nightly runs are under
\* way: what the other theorems rest on.
THEOREM Pysyvyys == Spec => []Induktiivinen
<1>1. Init => Induktiivinen
  BY AlkuInd
<1>2. Induktiivinen /\ [Next]_vars => Induktiivinen'
  BY AskelInd
<1>3. QED
  BY <1>1, <1>2, PTL DEF Spec

\* Every variable holds a value of its type.
THEOREM Tyypit == Spec => []TyyppiOK
<1>1. Induktiivinen => TyyppiOK
  BY DEF Induktiivinen
<1>2. QED
  BY <1>1, Pysyvyys, PTL

\* A removed agreement is never valid: no request and no nightly run that began before
\* the removal brings it back, and the table's CHECK is kept.
THEOREM Poistettu == Spec => []PoistettuEiVoimassa
<1>1. Induktiivinen => PoistettuEiVoimassa
  BY DEF Induktiivinen
<1>2. QED
  BY <1>1, Pysyvyys, PTL

-----------------------------------------------------------------------------
(* What a statement does to its transaction *)

\* A request or a nightly run p has begun: u is its transaction.
Alkanut(p, u) ==
  /\ \A c \in Sopimukset : u.sopimukset[c] = Nil
  /\ \A v \in Rivit : u.liitokset[v] = Nil
  /\ \/ p \in Pyynnot /\ u.vaihe = "tarkistus" /\ u.toiminto \in {"paivita", "tutkinnot", "poista"}
     \/ p \in Eraajot /\ u.vaihe = "paivat" /\ u.toiminto = "eraajo"

\* A statement of p that reads, or chooses what to do next, has taken transaction t to u.
Lukenut(p, t, u) ==
  /\ u.toiminto = t.toiminto /\ u.sopimus = t.sopimus
  /\ u.sopimukset = t.sopimukset /\ u.liitokset = t.liitokset
  /\ t.vaihe \notin {"vapaa", "voimassaolo"}
  /\ u.vaihe \notin {"vapaa", "tarkistus", "voimassaolo"}
  /\ t.vaihe = "tarkistus" =>
       Olemassa(sopimus, t.sopimus) /\ (t.toiminto = "tutkinnot" => u.vaihe = "luku")
  /\ t.vaihe # "tarkistus" => u.vaihe # "luku"
  /\ IF t.vaihe = "luku" THEN u.lisattavat \intersect LiitetytVersiot(rivi, t.sopimus) = {}
                         ELSE u.lisattavat = t.lisattavat
  /\ u.toiminto = "poista" /\ u.vaihe = "rivit" => u.kohde = SopimuksenRivit(OmatRivit(p), t.sopimus)
  /\ u.vaihe = "valmis" => u.toiminto = "eraajo"
  /\ u.vaihe = "kirjaus" =>
       /\ t.sopimus # Nil
       /\ u.luettu = <<Alkupvm(OmatSopimukset(p), OmatRivit(p), t.sopimus),
                       Loppupvm(OmatRivit(p), t.sopimus)>>

\* A nightly run has gone on to its next agreement.
Edennyt(t, u) ==
  /\ t.toiminto = "eraajo" /\ u.toiminto = "eraajo"
  /\ t.vaihe = "paivat" /\ u.vaihe = "paivat"
  /\ u.sopimukset = t.sopimukset /\ u.liitokset = t.liitokset

\* A statement of p has written its agreement.
KirjannutSopimuksen(p, t, u) ==
  LET c == t.sopimus
  IN  /\ c \in Sopimukset
      /\ u.toiminto = t.toiminto /\ u.liitokset = t.liitokset /\ u.lisattavat = t.lisattavat
      /\ u.toiminto # "eraajo" => u.sopimus = c
      /\ \A d \in Sopimukset \ {c} : u.sopimukset[d] = t.sopimukset[d]
      /\ u.sopimukset[c] # Nil
      /\ u.sopimukset[c].poistettu = (t.toiminto = "poista" \/ OmatSopimukset(p)[c].poistettu)
      /\ t.vaihe \in {"sopimus", "kirjaus", "voimassaolo"}
      /\ u.vaihe \in {"valinta", "lisays", "voimassaolo", "paivat", "valmis"}
      /\ u.toiminto = "poista" => u.vaihe = "valinta"
      /\ t.vaihe = "kirjaus" => /\ u.sopimukset[c].alkupvm = t.luettu[1]
                                /\ u.sopimukset[c].loppupvm = t.luettu[2]
      /\ t.vaihe = "voimassaolo" =>
           /\ t.sopimukset[c] # Nil
           /\ u.sopimukset[c].toimikunta = t.sopimukset[c].toimikunta
           /\ u.sopimukset[c].alkupvm = t.sopimukset[c].alkupvm
           /\ u.sopimukset[c].loppupvm = t.sopimukset[c].loppupvm
           /\ u.sopimukset[c].voimassa =
                (Olemassa(OmatSopimukset(p), c) /\ Voimassa(OmatSopimukset(p), OmatRivit(p), c))
      /\ t.vaihe # "voimassaolo" => u.vaihe # "valmis"
      /\ u.toiminto = "eraajo" =>
           /\ t.vaihe # "sopimus"
           /\ t.vaihe = "kirjaus" => u.vaihe = "voimassaolo" /\ u.sopimus = c

\* A statement of p has written some of the rows it had chosen, and has come to its end
\* when none is left.
KirjannutRivit(p, t, u) ==
  /\ u.toiminto = t.toiminto /\ u.sopimus = t.sopimus
  /\ u.sopimukset = t.sopimukset /\ u.lisattavat = t.lisattavat
  /\ t.vaihe = "rivit"
  /\ \/ u.vaihe = "rivit"
     \/ u.kohde = {} /\ u.vaihe = IF t.toiminto = "poista" THEN "valmis" ELSE "valinta"
  /\ \E K \in SUBSET t.kohde :
       /\ u.kohde = t.kohde \ K
       /\ \A v \in Rivit \ K : u.liitokset[v] = t.liitokset[v]
       /\ \A v \in K :
            /\ u.liitokset[v] \in LiitosRivi
            /\ u.liitokset[v].sopimus = t.sopimus
            /\ u.liitokset[v].tutkintoversio = OmatRivit(p)[v].tutkintoversio
            /\ OmatRivit(p)[v].poistettu \/ t.toiminto = "poista" => u.liitokset[v].poistettu

\* A POST has inserted a row.
Lisannyt(t, u) ==
  /\ t.toiminto = "tutkinnot" /\ u.toiminto = "tutkinnot" /\ u.sopimus = t.sopimus
  /\ u.sopimukset = t.sopimukset
  /\ t.vaihe = "lisays" /\ u.vaihe = "lisays"
  /\ \E w \in t.lisattavat, x \in VapaatRivit :
       /\ u.lisattavat = t.lisattavat \ {w}
       /\ \A v \in Rivit \ {x} : u.liitokset[v] = t.liitokset[v]
       /\ u.liitokset[x] \in LiitosRivi
       /\ u.liitokset[x].sopimus = t.sopimus /\ u.liitokset[x].tutkintoversio = w
       /\ ~ u.liitokset[x].poistettu

OmaAskel(p, t, u) ==
  \/ u = Vapaa \/ Alkanut(p, u)
  \/ Lukenut(p, t, u) \/ Edennyt(t, u)
  \/ KirjannutSopimuksen(p, t, u) \/ KirjannutRivit(p, t, u) \/ Lisannyt(t, u)

\* A step of p that changes its own transaction only.
Askeltaa(p) ==
  /\ UNCHANGED <<sopimus, rivi>>
  /\ \A q \in Tapahtumat \ {p} : tx'[q] = tx[q]
  /\ OmaAskel(p, tx[p], tx'[p])

\* A step that puts a new transaction in the place of p's.
LEMMA SiirryAskeltaa ==
  ASSUME Induktiivinen, NEW p \in Tapahtumat, NEW u, Siirry(p, u), OmaAskel(p, tx[p], u)
  PROVE  Askeltaa(p)
<1>1. tx \in [Tapahtumat -> Tx]
  BY DEF Induktiivinen, TyyppiOK
<1>2. tx' = [tx EXCEPT ![p] = u] /\ UNCHANGED <<sopimus, rivi>>
  BY DEF Siirry
<1>3. tx'[p] = u /\ \A q \in Tapahtumat \ {p} : tx'[q] = tx[q]
  BY <1>1, <1>2
<1>4. QED
  BY <1>2, <1>3 DEF Askeltaa

\* A transaction is rolled back.
LEMMA PeruAskeltaa ==
  ASSUME Induktiivinen, NEW p \in Tapahtumat, Peru(p)
  PROVE  Askeltaa(p)
<1>1. Siirry(p, Vapaa)
  BY DEF Peru, Siirry
<1>2. QED
  BY <1>1, SiirryAskeltaa DEF OmaAskel

\* A request begins.
LEMMA AloitaAskeltaa ==
  ASSUME Induktiivinen, NEW r \in Pyynnot, NEW toiminto \in {"paivita", "tutkinnot", "poista"},
         NEW c, NEW lomake, NEW rivit, Aloita(r, toiminto, c, lomake, rivit)
  PROVE  Askeltaa(r)
<1> DEFINE u == [Vapaa EXCEPT !.toiminto = toiminto, !.vaihe = "tarkistus",
                              !.sopimus = c, !.lomake = lomake, !.rivit = rivit]
<1>1. r \in Tapahtumat /\ Siirry(r, u)
  BY DEF Tapahtumat, Aloita
<1>2. Alkanut(r, u)
  BY DEF Alkanut, Vapaa
<1> HIDE DEF u
<1>3. QED
  BY <1>1, <1>2, SiirryAskeltaa DEF OmaAskel

\* A nightly run begins or goes on.
LEMMA EraajoAskeltaa ==
  ASSUME Induktiivinen, NEW e \in Eraajot, AloitaEraajo(e)
  PROVE  Askeltaa(e)
<1> DEFINE u == [Vapaa EXCEPT !.toiminto = "eraajo", !.vaihe = "paivat",
                              !.jono = {c \in Sopimukset : Olemassa(sopimus, c)}]
<1>1. e \in Tapahtumat /\ Siirry(e, u)
  BY DEF Tapahtumat, AloitaEraajo
<1>2. Alkanut(e, u)
  BY DEF Alkanut, Vapaa
<1> HIDE DEF u
<1>3. QED
  BY <1>1, <1>2, SiirryAskeltaa DEF OmaAskel

\* A nightly run goes on to the next agreement, or is done.
LEMMA SeuraavaAskeltaa ==
  ASSUME Induktiivinen, NEW e \in Tapahtumat, SeuraavaSopimus(e)
  PROVE  Askeltaa(e)
<1>1. /\ tx[e] \in Tx /\ VaiheOK(e, tx[e]) /\ tx[e].vaihe = "paivat" /\ tx[e].sopimus = Nil
  BY Tilanne DEF SeuraavaSopimus
<1>2. tx[e].toiminto = "eraajo"
  BY <1>1 DEF VaiheOK
<1>3. CASE tx[e].jono = {}
  <2> DEFINE u == [tx[e] EXCEPT !.vaihe = "valmis"]
  <2>1. Siirry(e, u)
    BY <1>3 DEF SeuraavaSopimus
  <2>2. Lukenut(e, tx[e], u)
    BY <1>1, <1>2 DEF Lukenut, Tx
  <2> HIDE DEF u
  <2>3. QED
    BY <2>1, <2>2, SiirryAskeltaa DEF OmaAskel
<1>4. CASE tx[e].jono # {}
  <2>1. PICK c \in tx[e].jono : Siirry(e, [tx[e] EXCEPT !.sopimus = c, !.jono = @ \ {c}])
    BY <1>4 DEF SeuraavaSopimus
  <2> DEFINE u == [tx[e] EXCEPT !.sopimus = c, !.jono = @ \ {c}]
  <2>2. Edennyt(tx[e], u)
    BY <1>1, <1>2 DEF Edennyt, Tx
  <2>3. Siirry(e, u)
    BY <2>1
  <2> HIDE DEF u
  <2>4. QED
    BY <2>2, <2>3, SiirryAskeltaa DEF OmaAskel
<1>5. QED
  BY <1>3, <1>4

\* The statements that read or choose.
LEMMA LukeminenAskeltaa ==
  ASSUME Induktiivinen, NEW p \in Tapahtumat,
         \/ Tarkista(p) \/ LueTutkinnot(p)
         \/ ValitsePoistettavat(p) \/ ValitseVersionRivit(p) \/ ValitseLomakkeenRivi(p)
         \/ LuePaivat(p)
  PROVE  Askeltaa(p)
<1>1. tx[p] \in Tx /\ VaiheOK(p, tx[p])
  BY Tilanne
<1> DEFINE t == tx[p]
<1>2. ASSUME NEW u, Siirry(p, u), Lukenut(p, tx[p], u)
      PROVE  Askeltaa(p)
  BY <1>2, SiirryAskeltaa DEF OmaAskel
<1>3. CASE Tarkista(p)
  <2>1. CASE Peru(p)
    BY <2>1, PeruAskeltaa
  <2>2. CASE Olemassa(sopimus, t.sopimus)
    <3> DEFINE u == [t EXCEPT !.vaihe = IF t.toiminto = "tutkinnot" THEN "luku" ELSE "sopimus"]
    <3>1. t.vaihe = "tarkistus" /\ Siirry(p, u)
      BY <1>3, <2>2 DEF Tarkista
    <3>2. Lukenut(p, t, u)
      BY <1>1, <2>2, <3>1 DEF Lukenut, Tx
    <3> HIDE DEF u
    <3>3. QED
      BY <1>2, <3>1, <3>2
  <2>3. QED
    BY <1>3, <2>1, <2>2 DEF Tarkista
<1>4. CASE LueTutkinnot(p)
  <2> DEFINE vanhat == LiitetytVersiot(rivi, t.sopimus)
             u == [t EXCEPT !.poistettavat = vanhat \ t.lomake,
                            !.lisattavat = t.lomake \ vanhat, !.lomake = {}, !.vaihe = "valinta"]
  <2>1. t.vaihe = "luku" /\ Siirry(p, u)
    BY <1>4 DEF LueTutkinnot
  <2>2. t.toiminto = "tutkinnot"
    BY <1>1, <2>1 DEF VaiheOK
  <2> HIDE DEF vanhat
  <2>3. /\ u.toiminto = t.toiminto /\ u.sopimus = t.sopimus
        /\ u.sopimukset = t.sopimukset /\ u.liitokset = t.liitokset
        /\ u.vaihe = "valinta" /\ u.lisattavat = t.lomake \ vanhat
    BY <1>1 DEF Tx
  <2> HIDE DEF u
  <2>4. Lukenut(p, t, u)
    BY <2>1, <2>2, <2>3 DEF Lukenut, vanhat
  <2>5. QED
    BY <1>2, <2>1, <2>4
<1>5. CASE ValitsePoistettavat(p)
  <2> DEFINE u == [t EXCEPT !.kohde = SopimuksenRivit(OmatRivit(p), t.sopimus), !.vaihe = "rivit"]
  <2>1. t.vaihe = "valinta" /\ t.toiminto = "poista" /\ Siirry(p, u)
    BY <1>5 DEF ValitsePoistettavat
  <2>2. Lukenut(p, t, u)
    BY <1>1, <2>1 DEF Lukenut, Tx
  <2> HIDE DEF u
  <2>3. QED
    BY <1>2, <2>1, <2>2
<1>6. CASE ValitseVersionRivit(p) \/ ValitseLomakkeenRivi(p)
  <2>1. t.vaihe = "valinta" /\ t.toiminto \in {"tutkinnot", "paivita"}
    BY <1>6 DEF ValitseVersionRivit, ValitseLomakkeenRivi
  <2>2. PICK u : /\ Siirry(p, u)
                 /\ \/ u = [t EXCEPT !.vaihe = "sopimus"]
                    \/ u = [t EXCEPT !.vaihe = "paivat"]
                    \/ \E K, P : u = [t EXCEPT !.kohde = K, !.poistettavat = P, !.vaihe = "rivit"]
                    \/ \E K, V : u = [t EXCEPT !.kohde = K, !.rivit = V, !.vaihe = "rivit"]
    <3>1. CASE ValitseVersionRivit(p)
      <4>1. CASE t.poistettavat = {}
        BY <3>1, <4>1 DEF ValitseVersionRivit
      <4>2. CASE t.poistettavat # {}
        <5>1. PICK w \in t.poistettavat : Siirry(p, [t EXCEPT
                !.kohde = {v \in SopimuksenRivit(OmatRivit(p), t.sopimus) :
                             OmatRivit(p)[v].tutkintoversio = w},
                !.poistettavat = @ \ {w}, !.vaihe = "rivit"])
          BY <3>1, <4>2 DEF ValitseVersionRivit
        <5> DEFINE K == {v \in SopimuksenRivit(OmatRivit(p), t.sopimus) :
                           OmatRivit(p)[v].tutkintoversio = w}
        <5>2. Siirry(p, [t EXCEPT !.kohde = K, !.poistettavat = t.poistettavat \ {w},
                                  !.vaihe = "rivit"])
          BY <5>1
        <5> HIDE DEF K
        <5>3. QED
          BY <5>2
      <4>3. QED
        BY <4>1, <4>2
    <3>2. CASE ValitseLomakkeenRivi(p)
      <4>1. CASE t.rivit = {}
        BY <3>2, <4>1 DEF ValitseLomakkeenRivi
      <4>2. CASE t.rivit # {}
        <5>1. PICK v \in t.rivit : Siirry(p, [t EXCEPT !.kohde = {v}, !.rivit = t.rivit \ {v},
                                                       !.vaihe = "rivit"])
          BY <3>2, <4>2 DEF ValitseLomakkeenRivi
        <5>2. QED
          BY <5>1
      <4>3. QED
        BY <4>1, <4>2
    <3>3. QED
      BY <1>6, <3>1, <3>2
  <2>3. /\ u.toiminto = t.toiminto /\ u.sopimus = t.sopimus
        /\ u.sopimukset = t.sopimukset /\ u.liitokset = t.liitokset
        /\ u.vaihe \in {"sopimus", "paivat", "rivit"} /\ u.lisattavat = t.lisattavat
    BY <1>1, <2>2 DEF Tx
  <2>4. Lukenut(p, t, u)
    BY <2>1, <2>3 DEF Lukenut
  <2>5. QED
    BY <1>2, <2>2, <2>4
<1>7. CASE LuePaivat(p)
  <2> DEFINE luettu == <<Alkupvm(OmatSopimukset(p), OmatRivit(p), t.sopimus),
                         Loppupvm(OmatRivit(p), t.sopimus)>>
             u == [t EXCEPT !.luettu = luettu, !.vaihe = "kirjaus"]
  <2>1. t.vaihe = "paivat" /\ t.sopimus # Nil /\ Siirry(p, u)
    BY <1>7 DEF LuePaivat
  <2> HIDE DEF luettu
  <2>2. /\ u.toiminto = t.toiminto /\ u.sopimus = t.sopimus
        /\ u.sopimukset = t.sopimukset /\ u.liitokset = t.liitokset
        /\ u.vaihe = "kirjaus" /\ u.lisattavat = t.lisattavat /\ u.luettu = luettu
    BY <1>1 DEF Tx
  <2> HIDE DEF u
  <2>3. Lukenut(p, t, u)
    BY <2>1, <2>2 DEF Lukenut, luettu
  <2>4. QED
    BY <1>2, <2>1, <2>3
<1>8. QED
  BY <1>3, <1>4, <1>5, <1>6, <1>7

\* The statements that write the agreement.
LEMMA KirjaaminenAskeltaa ==
  ASSUME Induktiivinen, NEW p \in Tapahtumat,
         NEW arvo, NEW vaihe \in {"valinta", "lisays", "voimassaolo"},
         KirjoitaSopimus(p, arvo, vaihe), arvo \in SopimusRivi,
         tx[p].vaihe = IF vaihe = "voimassaolo" THEN "kirjaus" ELSE "sopimus",
         tx[p].toiminto = "poista" => vaihe = "valinta",
         arvo.poistettu = (tx[p].toiminto = "poista" \/ OmatSopimukset(p)[tx[p].sopimus].poistettu),
         vaihe = "voimassaolo" => arvo.alkupvm = tx[p].luettu[1] /\ arvo.loppupvm = tx[p].luettu[2]
  PROVE  Askeltaa(p)
<1> DEFINE t == tx[p]
           c == t.sopimus
           kuvat == [t.sopimukset EXCEPT ![c] = arvo]
           u == [t EXCEPT !.sopimukset = kuvat, !.vaihe = vaihe]
<1>1. t \in Tx /\ VaiheOK(p, t)
  BY Tilanne
<1>2. Siirry(p, u)
  BY <1>1 DEF KirjoitaSopimus, Tx
<1>3. c # Nil
  BY SopimusTyon
<1>4. c \in Sopimukset
  BY <1>3, OmaSopimus
<1>5. kuvat[c] = arvo /\ \A d \in Sopimukset \ {c} : kuvat[d] = t.sopimukset[d]
  BY <1>1, <1>4, TxKentat
<1> HIDE DEF kuvat
<1>6. /\ u.toiminto = t.toiminto /\ u.sopimus = c /\ u.liitokset = t.liitokset
      /\ u.lisattavat = t.lisattavat /\ u.sopimukset = kuvat /\ u.vaihe = vaihe
  BY <1>1 DEF Tx
<1> HIDE DEF u
<1>7. arvo # Nil
  BY NilAssumption
<1>8. t.toiminto = "eraajo" => t.vaihe # "sopimus"
  BY <1>1 DEF VaiheOK
<1>9. KirjannutSopimuksen(p, t, u)
  BY <1>4, <1>5, <1>6, <1>7, <1>8 DEF KirjannutSopimuksen
<1>10. QED
  BY <1>2, <1>9, SiirryAskeltaa DEF OmaAskel

\* An agreement is written by the UPDATE of a request or the days by a nightly run.
LEMMA SopimusAskeltaa ==
  ASSUME Induktiivinen, NEW p \in Tapahtumat,
         MerkitsePoistetuksi(p) \/ PaivitaSopimus(p) \/ KoskeSopimusta(p) \/ KirjaaPaivat(p)
  PROVE  Askeltaa(p)
<1> DEFINE s == OmatSopimukset(p)[tx[p].sopimus]
<1>1. /\ tx[p] \in Tx /\ VaiheOK(p, tx[p]) /\ tx[p].sopimus # Nil
      /\ s \in SopimusRivi
  <2>1. tx[p].vaihe \in {"sopimus", "kirjaus"}
    BY DEF MerkitsePoistetuksi, PaivitaSopimus, KoskeSopimusta, KirjaaPaivat
  <2>2. QED
    BY <2>1, SopimusTyon, OmaSopimus, Tilanne
<1>2. CASE MerkitsePoistetuksi(p)
  <2> DEFINE arvo == [s EXCEPT !.poistettu = TRUE, !.voimassa = FALSE]
  <2>1. tx[p].vaihe = "sopimus" /\ tx[p].toiminto = "poista" /\ KirjoitaSopimus(p, arvo, "valinta")
    BY <1>2 DEF MerkitsePoistetuksi
  <2> HIDE DEF s
  <2>2. arvo \in SopimusRivi /\ arvo.poistettu = TRUE
    BY <1>1 DEF SopimusRivi
  <2> HIDE DEF arvo
  <2>3. QED
    BY <2>1, <2>2, KirjaaminenAskeltaa
<1>3. CASE PaivitaSopimus(p)
  <2> DEFINE arvo(k) == [s EXCEPT !.toimikunta = k]
  <2>1. PICK k \in Toimikunnat : KirjoitaSopimus(p, arvo(k), "valinta")
    BY <1>3 DEF PaivitaSopimus
  <2>2. tx[p].vaihe = "sopimus" /\ tx[p].toiminto = "paivita"
    BY <1>3 DEF PaivitaSopimus
  <2>3. arvo(k) \in SopimusRivi /\ arvo(k).poistettu = s.poistettu /\ s.poistettu \in BOOLEAN
    <3> HIDE DEF s
    <3>1. QED
      BY <1>1 DEF SopimusRivi
  <2> HIDE DEF arvo
  <2>4. QED
    BY <2>1, <2>2, <2>3, KirjaaminenAskeltaa
<1>4. CASE KoskeSopimusta(p)
  <2>1. tx[p].vaihe = "sopimus" /\ tx[p].toiminto = "tutkinnot" /\ KirjoitaSopimus(p, s, "lisays")
    BY <1>4 DEF KoskeSopimusta
  <2>2. s.poistettu \in BOOLEAN
    <3> HIDE DEF s
    <3>1. QED
      BY <1>1 DEF SopimusRivi
  <2>3. QED
    BY <1>1, <2>1, <2>2, KirjaaminenAskeltaa
<1>5. CASE KirjaaPaivat(p)
  <2> DEFINE arvo == [s EXCEPT !.alkupvm = tx[p].luettu[1], !.loppupvm = tx[p].luettu[2]]
  <2>1. tx[p].vaihe = "kirjaus" /\ KirjoitaSopimus(p, arvo, "voimassaolo")
    BY <1>5 DEF KirjaaPaivat
  <2>2. tx[p].toiminto # "poista"
    BY <1>1, <2>1 DEF VaiheOK
  <2>3. tx[p].luettu[1] \in Paiva /\ tx[p].luettu[2] \in Paiva
    BY <1>1, TxKentat
  <2>4. /\ arvo \in SopimusRivi /\ arvo.poistettu = s.poistettu /\ s.poistettu \in BOOLEAN
        /\ arvo.alkupvm = tx[p].luettu[1] /\ arvo.loppupvm = tx[p].luettu[2]
    <3> HIDE DEF s
    <3>1. QED
      BY <1>1, <2>3 DEF SopimusRivi
  <2> HIDE DEF arvo
  <2>5. QED
    BY <2>1, <2>2, <2>4, KirjaaminenAskeltaa
<1>6. QED
  BY <1>2, <1>3, <1>4, <1>5

\* The column voimassa is written.
LEMMA VoimassaoloAskeltaa ==
  ASSUME Induktiivinen, NEW p \in Tapahtumat, AsetaVoimassaolo(p) \/ AsetaPoistetunVoimassaolo(p)
  PROVE  Askeltaa(p)
<1> DEFINE t == tx[p]
           c == t.sopimus
           s == t.sopimukset[c]
           saanto == Olemassa(OmatSopimukset(p), c) /\ Voimassa(OmatSopimukset(p), OmatRivit(p), c)
<1>1. PICK arvo \in BOOLEAN : /\ tx[p].vaihe = "voimassaolo"
                              /\ (Voimassaoloon(p, arvo) /\ arvo = saanto) \/ Peru(p)
  <2>1. Voimassa(OmatSopimukset(p), OmatRivit(p), c) \in BOOLEAN
    BY DEF Voimassa
  <2>2. QED
    BY <2>1 DEF AsetaVoimassaolo, AsetaPoistetunVoimassaolo
<1>2. CASE Peru(p)
  BY <1>2, PeruAskeltaa
<1> HIDE DEF saanto
<1>3. CASE Voimassaoloon(p, arvo) /\ arvo = saanto
  <2> DEFINE kirjattu == [s EXCEPT !.voimassa = arvo]
             kuvat == [t.sopimukset EXCEPT ![c] = kirjattu]
             vaihe == IF t.toiminto = "eraajo" THEN "paivat" ELSE "valmis"
             jatko == IF t.toiminto = "eraajo" THEN Nil ELSE c
             u == [t EXCEPT !.sopimukset = kuvat, !.luettu = <<Nil, Nil>>,
                            !.vaihe = vaihe, !.sopimus = jatko]
  <2>1. t \in Tx /\ VaiheOK(p, t)
    BY Tilanne
  <2>2. s # Nil /\ t.toiminto \notin {"ei", "poista"} /\ c # Nil
    BY <1>1, <2>1 DEF VaiheOK
  <2>3. c \in Sopimukset /\ s \in SopimusRivi /\ s = OmatSopimukset(p)[c]
    BY <2>2, OmaSopimus
  <2>4. Siirry(p, u)
    BY <1>3, <2>1, <2>3, TxKentat DEF Voimassaoloon, Tx
  <2>5. /\ kirjattu \in SopimusRivi
        /\ kirjattu.poistettu = s.poistettu /\ s.poistettu \in BOOLEAN
        /\ kirjattu.alkupvm = s.alkupvm /\ kirjattu.loppupvm = s.loppupvm
        /\ kirjattu.toimikunta = s.toimikunta /\ kirjattu.voimassa = arvo
    <3> HIDE DEF s
    <3>1. QED
      BY <2>3 DEF SopimusRivi
  <2>6. kirjattu # Nil
    BY <2>5, NilAssumption
  <2> HIDE DEF kirjattu
  <2>7. kuvat[c] = kirjattu /\ \A d \in Sopimukset \ {c} : kuvat[d] = t.sopimukset[d]
    BY <2>1, <2>3, TxKentat
  <2> HIDE DEF kuvat
  <2>8. /\ u.toiminto = t.toiminto /\ u.liitokset = t.liitokset
        /\ u.sopimus = jatko /\ u.vaihe = vaihe
        /\ u.lisattavat = t.lisattavat /\ u.sopimukset = kuvat
    BY <2>1 DEF Tx
  <2> HIDE DEF u
  <2>9. KirjannutSopimuksen(p, t, u)
    BY <1>1, <1>3, <2>2, <2>3, <2>5, <2>6, <2>7, <2>8 DEF KirjannutSopimuksen, saanto
  <2>10. QED
    BY <2>4, <2>9, SiirryAskeltaa DEF OmaAskel
<1>4. QED
  BY <1>1, <1>2, <1>3

\* The statements that write rows.
LEMMA RivitAskeltaa ==
  ASSUME Induktiivinen, NEW p \in Tapahtumat, PoistaRivi(p) \/ PaivitaRivi(p)
  PROVE  Askeltaa(p)
<1> DEFINE t == tx[p]
           R == OmatRivit(p)
<1>1. t \in Tx /\ VaiheOK(p, t) /\ t.vaihe = "rivit" /\ t.kohde \subseteq Rivit
  BY Tilanne, TxKentat DEF PoistaRivi, PaivitaRivi
<1>2. PICK x \in t.kohde, arvo \in LiitosRivi :
        /\ KirjoitaRivi(p, x, arvo)
        /\ arvo.sopimus = t.sopimus /\ arvo.tutkintoversio = R[x].tutkintoversio
        /\ R[x].poistettu \/ t.toiminto = "poista" => arvo.poistettu
  <2>1. CASE PoistaRivi(p)
    <3>1. PICK x \in t.kohde : KirjoitaRivi(p, x, [R[x] EXCEPT !.poistettu = TRUE])
      BY <2>1 DEF PoistaRivi
    <3>2. R[x] \in LiitosRivi /\ R[x].sopimus = t.sopimus
      BY KohteetRiveja
    <3> DEFINE arvo == [R[x] EXCEPT !.poistettu = TRUE]
    <3> HIDE DEF R
    <3>3. /\ arvo \in LiitosRivi /\ arvo.sopimus = t.sopimus
          /\ arvo.tutkintoversio = R[x].tutkintoversio /\ arvo.poistettu
      BY <3>2 DEF LiitosRivi
    <3>4. KirjoitaRivi(p, x, arvo)
      BY <3>1
    <3> HIDE DEF arvo
    <3>5. QED
      BY <3>3, <3>4
  <2>2. CASE PaivitaRivi(p)
    <3>1. PICK x \in t.kohde, j \in KelvotJaksot :
            KirjoitaRivi(p, x, [R[x] EXCEPT !.alkupvm = j[1], !.loppupvm = j[2]])
      BY <2>2 DEF PaivitaRivi
    <3>2. R[x] \in LiitosRivi /\ R[x].sopimus = t.sopimus
      BY KohteetRiveja
    <3>3. t.toiminto = "paivita" /\ j[1] \in Paiva /\ j[2] \in Paiva
      BY <2>2, PaivatAssumption DEF PaivitaRivi, KelvotJaksot
    <3> DEFINE arvo == [R[x] EXCEPT !.alkupvm = j[1], !.loppupvm = j[2]]
    <3> HIDE DEF R
    <3>4. /\ arvo \in LiitosRivi /\ arvo.sopimus = t.sopimus
          /\ arvo.tutkintoversio = R[x].tutkintoversio /\ arvo.poistettu = R[x].poistettu
      BY <3>2, <3>3 DEF LiitosRivi
    <3>5. KirjoitaRivi(p, x, arvo)
      BY <3>1
    <3> HIDE DEF arvo
    <3>6. QED
      BY <3>3, <3>4, <3>5
  <2>3. QED
    BY <2>1, <2>2
<1> DEFINE kuvat == [t.liitokset EXCEPT ![x] = arvo]
           u == [t EXCEPT !.liitokset = kuvat, !.kohde = t.kohde \ {x},
                          !.vaihe = IF t.kohde = {x} THEN RivienJalkeen(p) ELSE t.vaihe]
<1>3. Siirry(p, u)
  BY <1>1, <1>2 DEF KirjoitaRivi, Tx
<1>4. kuvat[x] = arvo /\ \A v \in Rivit \ {x} : kuvat[v] = t.liitokset[v]
  BY <1>1, TxKentat
<1> HIDE DEF kuvat
<1>5. /\ u.toiminto = t.toiminto /\ u.sopimus = t.sopimus
      /\ u.vaihe = IF t.kohde = {x} THEN RivienJalkeen(p) ELSE "rivit"
      /\ u.kohde = t.kohde \ {x}
      /\ u.sopimukset = t.sopimukset /\ u.lisattavat = t.lisattavat /\ u.liitokset = kuvat
  BY <1>1 DEF Tx
<1> HIDE DEF u
<1>6. KirjannutRivit(p, t, u)
  <2>1. \A v \in {x} :
          /\ u.liitokset[v] \in LiitosRivi
          /\ u.liitokset[v].sopimus = t.sopimus
          /\ u.liitokset[v].tutkintoversio = OmatRivit(p)[v].tutkintoversio
          /\ OmatRivit(p)[v].poistettu \/ t.toiminto = "poista" => u.liitokset[v].poistettu
    BY <1>2, <1>4, <1>5
  <2>2. {x} \in SUBSET t.kohde /\ \A v \in Rivit \ {x} : u.liitokset[v] = t.liitokset[v]
    BY <1>4, <1>5
  <2>3. \/ u.vaihe = "rivit"
        \/ u.kohde = {} /\ u.vaihe = IF t.toiminto = "poista" THEN "valmis" ELSE "valinta"
    <3>1. CASE t.kohde = {x}
      <4>1. t.kohde \ {x} = {}
        BY <3>1
      <4>2. u.kohde = {} /\ u.vaihe = RivienJalkeen(p)
        BY <1>5, <3>1, <4>1
      <4>3. QED
        BY <4>2 DEF RivienJalkeen
    <3>2. CASE t.kohde # {x}
      <4>1. u.vaihe = "rivit"
        BY <1>5, <3>2
      <4>2. QED
        BY <4>1
    <3>3. QED
      BY <3>1, <3>2
  <2>4. QED
    BY <1>1, <1>5, <2>1, <2>2, <2>3 DEF KirjannutRivit
<1>7. QED
  BY <1>3, <1>6, SiirryAskeltaa DEF OmaAskel

\* An UPDATE that matches no rows.
LEMMA EiRivejaAskeltaa ==
  ASSUME Induktiivinen, NEW p \in Tapahtumat, EiRiveja(p)
  PROVE  Askeltaa(p)
<1> DEFINE t == tx[p]
           u == [t EXCEPT !.vaihe = RivienJalkeen(p)]
<1>1. t \in Tx /\ t.vaihe = "rivit" /\ t.kohde = {} /\ Siirry(p, u)
  BY Tilanne DEF EiRiveja
<1>2. /\ u.toiminto = t.toiminto /\ u.sopimus = t.sopimus
      /\ u.vaihe = RivienJalkeen(p) /\ u.kohde = {}
      /\ u.sopimukset = t.sopimukset /\ u.lisattavat = t.lisattavat
      /\ u.liitokset = t.liitokset
  BY <1>1 DEF Tx
<1> HIDE DEF u
<1>3. KirjannutRivit(p, t, u)
  <2>1. {} \in SUBSET t.kohde /\ u.kohde = t.kohde \ {}
    BY <1>1, <1>2
  <2>2. QED
    BY <1>1, <1>2, <2>1 DEF KirjannutRivit, RivienJalkeen
<1>4. QED
  BY <1>1, <1>3, SiirryAskeltaa DEF OmaAskel

\* POST inserts.
LEMMA LisaysAskeltaa ==
  ASSUME Induktiivinen, NEW p \in Tapahtumat, LisaaTutkinnot(p)
  PROVE  Askeltaa(p)
<1> DEFINE t == tx[p]
<1>1. /\ t \in Tx /\ t.vaihe = "lisays" /\ t.toiminto = "tutkinnot" /\ t.sopimus \in Sopimukset
      /\ t.lisattavat \subseteq Versiot
  <2>1. t.vaihe = "lisays"
    BY DEF LisaaTutkinnot
  <2>2. QED
    BY <2>1, Tilanne, TxKentat DEF VaiheOK
<1>2. CASE t.lisattavat = {}
  <2> DEFINE u == [t EXCEPT !.vaihe = "paivat"]
  <2>1. Siirry(p, u)
    BY <1>2 DEF LisaaTutkinnot
  <2>2. Lukenut(p, t, u)
    BY <1>1 DEF Lukenut, Tx
  <2> HIDE DEF u
  <2>3. QED
    BY <2>1, <2>2, SiirryAskeltaa DEF OmaAskel
<1>3. CASE t.lisattavat # {}
  <2> DEFINE lisatty(w, j) == [sopimus |-> t.sopimus, tutkintoversio |-> w,
                               alkupvm |-> j[1], loppupvm |-> j[2], poistettu |-> FALSE]
  <2>1. PICK w \in t.lisattavat, x \in VapaatRivit, j \in Jaksot :
          Siirry(p, [t EXCEPT !.liitokset[x] = lisatty(w, j), !.lisattavat = @ \ {w}])
    BY <1>3 DEF LisaaTutkinnot
  <2> DEFINE kuvat == [t.liitokset EXCEPT ![x] = lisatty(w, j)]
             u == [t EXCEPT !.liitokset = kuvat, !.lisattavat = t.lisattavat \ {w}]
  <2>2. Siirry(p, u)
    BY <1>1, <2>1 DEF Tx
  <2>3. /\ lisatty(w, j) \in LiitosRivi
        /\ lisatty(w, j).sopimus = t.sopimus /\ lisatty(w, j).tutkintoversio = w
        /\ lisatty(w, j).poistettu = FALSE
    BY <1>1, PaivatAssumption DEF LiitosRivi
  <2> HIDE DEF lisatty
  <2>4. x \in Rivit
    BY DEF VapaatRivit
  <2>5. kuvat[x] = lisatty(w, j) /\ \A v \in Rivit \ {x} : kuvat[v] = t.liitokset[v]
    BY <1>1, <2>4, TxKentat
  <2> HIDE DEF kuvat
  <2>6. /\ u.toiminto = t.toiminto /\ u.sopimus = t.sopimus /\ u.vaihe = t.vaihe
        /\ u.sopimukset = t.sopimukset /\ u.lisattavat = t.lisattavat \ {w} /\ u.liitokset = kuvat
    BY <1>1 DEF Tx
  <2> HIDE DEF u
  <2>7. Lisannyt(t, u)
    BY <1>1, <2>3, <2>5, <2>6 DEF Lisannyt
  <2>8. QED
    BY <2>2, <2>7, SiirryAskeltaa DEF OmaAskel
<1>4. QED
  BY <1>2, <1>3

\* Every step but a commit, a new agreement and what happens around them is a statement
\* of one transaction.
LEMMA Askeleet ==
  ASSUME Induktiivinen, [Next]_vars
  PROVE  \/ \E p \in Tapahtumat : Vahvista(p) \/ Askeltaa(p)
         \/ \E c \in Sopimukset, k \in Toimikunnat : Lisaa(c, k)
         \/ UNCHANGED <<sopimus, rivi, tx>>
<1>1. ASSUME NEW r \in Pyynnot, AloitaPaivitys(r)
      PROVE  Askeltaa(r)
  <2>1. PICK c \in Nakyneet : \E rivit \in SUBSET SopimuksenRivit(rivi, c) :
          Aloita(r, "paivita", c, {}, rivit)
    BY <1>1 DEF AloitaPaivitys
  <2>2. PICK rivit : Aloita(r, "paivita", c, {}, rivit)
    BY <2>1
  <2>3. QED
    BY <2>2, AloitaAskeltaa
<1>2. ASSUME NEW r \in Pyynnot, AloitaTutkinnot(r)
      PROVE  Askeltaa(r)
  <2>1. PICK c \in Nakyneet, lomake \in SUBSET Versiot : Aloita(r, "tutkinnot", c, lomake, {})
    BY <1>2 DEF AloitaTutkinnot
  <2>2. QED
    BY <2>1, AloitaAskeltaa
<1>3. ASSUME NEW r \in Pyynnot, AloitaPoisto(r)
      PROVE  Askeltaa(r)
  <2>1. PICK c \in Nakyneet : Aloita(r, "poista", c, {}, {})
    BY <1>3 DEF AloitaPoisto
  <2>2. QED
    BY <2>1, AloitaAskeltaa
<1>4. ASSUME NEW e \in Eraajot, AloitaEraajo(e)
      PROVE  Askeltaa(e)
  BY <1>4, EraajoAskeltaa
<1>5. ASSUME NEW p \in Tapahtumat, Lukkiuma(p) \/ Keskeytys(p)
      PROVE  Askeltaa(p)
  BY <1>5, PeruAskeltaa DEF Lukkiuma, Keskeytys
<1>6. ASSUME NEW p \in Tapahtumat, Palvele(p)
      PROVE  Vahvista(p) \/ Askeltaa(p)
  <2>1. CASE \/ Tarkista(p) \/ LueTutkinnot(p)
             \/ ValitsePoistettavat(p) \/ ValitseVersionRivit(p) \/ ValitseLomakkeenRivi(p)
             \/ LuePaivat(p)
    BY <2>1, LukeminenAskeltaa
  <2>2. CASE MerkitsePoistetuksi(p) \/ PaivitaSopimus(p) \/ KoskeSopimusta(p) \/ KirjaaPaivat(p)
    BY <2>2, SopimusAskeltaa
  <2>3. CASE AsetaVoimassaolo(p) \/ AsetaPoistetunVoimassaolo(p)
    BY <2>3, VoimassaoloAskeltaa
  <2>4. CASE PoistaRivi(p) \/ PaivitaRivi(p) \/ EiRiveja(p) \/ LisaaTutkinnot(p)
             \/ SeuraavaSopimus(p)
    BY <2>4, RivitAskeltaa, EiRivejaAskeltaa, LisaysAskeltaa, SeuraavaAskeltaa
  <2>5. CASE LisaysKaatuu(p)
    BY <2>5, PeruAskeltaa DEF LisaysKaatuu
  <2>6. QED
    BY <1>6, <2>1, <2>2, <2>3, <2>4, <2>5 DEF Palvele
<1>7. CASE Ymparisto
  BY <1>7 DEF Ymparisto, PaivaVaihtuu, MuutaToimikausi, PaivitaPeruste
<1>8. CASE UNCHANGED vars
  BY <1>8 DEF vars
<1>9. QED
  BY <1>1, <1>2, <1>3, <1>4, <1>5, <1>6, <1>7, <1>8 DEF Next, Tapahtumat

-----------------------------------------------------------------------------
(* What transactions have written *)

\* What transaction t of p has written: a nightly run does nothing else than its own
\* work, nothing is written before the check, an agreement is removed by its DELETE
\* only, and a row keeps its version and stays removed.
KirjoitetutOK(p, t) ==
  /\ p \in Eraajot => t.toiminto \in {"ei", "eraajo"}
  /\ t.vaihe \in {"tarkistus", "luku"} =>
       /\ \A c \in Sopimukset : t.sopimukset[c] = Nil
       /\ \A v \in Rivit : t.liitokset[v] = Nil
  /\ \A c \in Sopimukset : t.sopimukset[c] # Nil =>
       t.sopimukset[c].poistettu = (sopimus[c].poistettu \/ (t.toiminto = "poista" /\ c = t.sopimus))
  /\ \A v \in Rivit : t.liitokset[v] # Nil =>
       IF rivi[v] = Nil THEN t.toiminto = "tutkinnot"
       ELSE /\ t.liitokset[v].tutkintoversio = rivi[v].tutkintoversio
            /\ rivi[v].poistettu => t.liitokset[v].poistettu

Kirjoitetut == \A p \in Tapahtumat : KirjoitetutOK(p, tx[p])

\* Agreement c covers no version twice.
Ainutkertaiset(R, c) ==
  \A v, w \in Liitokset(R, c) : R[v].tutkintoversio = R[w].tutkintoversio => v = w

\* A POST that has compared its form sees each version once, and none it has yet to add.
TutkinnotOK(t) ==
  LET R == Paalle(t.liitokset, rivi)
  IN  t.toiminto = "tutkinnot" /\ t.vaihe \notin {"tarkistus", "luku"} =>
        /\ Ainutkertaiset(R, t.sopimus)
        /\ t.lisattavat \intersect LiitetytVersiot(R, t.sopimus) = {}

\* A POST of versions that has been let through works on an agreement that is not
\* removed; a DELETE has chosen all rows, and when it is done none is left.
PoistoOK(t) ==
  LET R == Paalle(t.liitokset, rivi)
  IN  /\ t.toiminto = "tutkinnot" /\ t.vaihe # "tarkistus" => Olemassa(sopimus, t.sopimus)
      /\ t.toiminto = "poista" /\ t.vaihe \in {"rivit", "valmis"} =>
           \A v \in Liitokset(R, t.sopimus) : t.vaihe = "rivit" /\ v \in t.kohde

\* What a nightly run has read, and what it has written, are the days as committed.
EraajoOK(t) ==
  t.toiminto = "eraajo" =>
    /\ t.vaihe = "kirjaus" =>
         t.luettu = <<Alkupvm(sopimus, rivi, t.sopimus), Loppupvm(rivi, t.sopimus)>>
    /\ \A c \in Sopimukset : t.sopimukset[c] # Nil =>
         /\ t.sopimukset[c].alkupvm = Alkupvm(sopimus, rivi, c)
         /\ t.sopimukset[c].loppupvm = Loppupvm(rivi, c)


\* The rows of agreement c in table Q are among those in R, and of the same versions.
Supistuu(R, Q, c) ==
  \A v \in Liitokset(Q, c) :
    v \in Liitokset(R, c) /\ Q[v].tutkintoversio = R[v].tutkintoversio

\* Fewer rows of the same versions cover no version twice, and none that was not covered.
LEMMA SupistuminenSailyttaa ==
  ASSUME NEW R, NEW Q, NEW c, Supistuu(R, Q, c)
  PROVE  /\ Ainutkertaiset(R, c) => Ainutkertaiset(Q, c)
         /\ LiitetytVersiot(Q, c) \subseteq LiitetytVersiot(R, c)
BY DEF Supistuu, Ainutkertaiset, LiitetytVersiot

\* What a statement of p leaves of what p has written.
LEMMA KirjoitetutOma ==
  ASSUME Induktiivinen, NEW p \in Tapahtumat, KirjoitetutOK(p, tx[p]),
         NEW u, OmaAskel(p, tx[p], u)
  PROVE  KirjoitetutOK(p, u)
<1> DEFINE t == tx[p]
<1>1. /\ t \in Tx /\ KohteetOK(t) /\ VaiheOK(p, t)
      /\ OmatSopimukset(p) = Paalle(t.sopimukset, sopimus)
      /\ OmatRivit(p) = Paalle(t.liitokset, rivi)
      /\ sopimus \in [Sopimukset -> SopimusRivi \union {Nil}]
      /\ rivi \in [Rivit -> LiitosRivi \union {Nil}]
  BY Tilanne
<1>2. CASE u = Vapaa \/ Alkanut(p, u)
  BY <1>2, NilAssumption DEF Alkanut, Vapaa, KirjoitetutOK
<1>3. CASE Lukenut(p, t, u)
  BY <1>3 DEF Lukenut, KirjoitetutOK
<1>4. CASE Edennyt(t, u)
  BY <1>4 DEF Edennyt, KirjoitetutOK
<1>5. CASE KirjannutSopimuksen(p, t, u)
  <2> DEFINE c == t.sopimus
  <2>1. /\ c \in Sopimukset /\ u.toiminto = t.toiminto /\ u.liitokset = t.liitokset
        /\ u.toiminto # "eraajo" => u.sopimus = c
        /\ \A d \in Sopimukset \ {c} : u.sopimukset[d] = t.sopimukset[d]
        /\ u.sopimukset[c].poistettu = (t.toiminto = "poista" \/ OmatSopimukset(p)[c].poistettu)
        /\ u.vaihe \notin {"tarkistus", "luku"}
    BY <1>5 DEF KirjannutSopimuksen
  <2>2. OmatSopimukset(p)[c] = IF t.sopimukset[c] # Nil THEN t.sopimukset[c] ELSE sopimus[c]
    BY <1>1, <2>1 DEF Paalle
  <2>3. sopimus[c] # Nil
    BY <1>1, <2>1, NilAssumption DEF KohteetOK
  <2>4. sopimus[c].poistettu \in BOOLEAN
    BY <1>1, <2>1, <2>3 DEF SopimusRivi
  <2>5. u.sopimukset[c].poistettu = (sopimus[c].poistettu \/ (u.toiminto = "poista" /\ c = u.sopimus))
    BY <2>1, <2>2, <2>4 DEF KirjoitetutOK
  <2>6. ASSUME NEW d \in Sopimukset, d # c, u.sopimukset[d] # Nil
        PROVE  u.sopimukset[d].poistettu = (sopimus[d].poistettu \/ (u.toiminto = "poista" /\ d = u.sopimus))
    BY <2>1, <2>6 DEF KirjoitetutOK
  <2>7. QED
    BY <2>1, <2>5, <2>6 DEF KirjoitetutOK
<1>6. CASE KirjannutRivit(p, t, u)
  <2>0. PICK K \in SUBSET t.kohde :
          /\ \A v \in Rivit \ K : u.liitokset[v] = t.liitokset[v]
          /\ \A v \in K :
               /\ u.liitokset[v].tutkintoversio = OmatRivit(p)[v].tutkintoversio
               /\ OmatRivit(p)[v].poistettu => u.liitokset[v].poistettu
    BY <1>6 DEF KirjannutRivit
  <2>1. /\ u.toiminto = t.toiminto /\ u.sopimus = t.sopimus /\ u.sopimukset = t.sopimukset
        /\ u.vaihe \notin {"tarkistus", "luku"}
    BY <1>6 DEF KirjannutRivit
  <2>2. ASSUME NEW v \in Rivit, u.liitokset[v] # Nil
        PROVE  IF rivi[v] = Nil THEN u.toiminto = "tutkinnot"
               ELSE /\ u.liitokset[v].tutkintoversio = rivi[v].tutkintoversio
                    /\ rivi[v].poistettu => u.liitokset[v].poistettu
    <3>1. CASE v \notin K
      BY <2>0, <2>1, <2>2, <3>1 DEF KirjoitetutOK
    <3>2. CASE v \in K
      <4>1. OmatRivit(p)[v] # Nil
        BY <1>1, <3>2 DEF KohteetOK, SopimuksenRivit
      <4>2. OmatRivit(p)[v] = IF t.liitokset[v] # Nil THEN t.liitokset[v] ELSE rivi[v]
        BY <1>1 DEF Paalle
      <4>3. QED
        BY <2>0, <2>1, <3>2, <4>1, <4>2 DEF KirjoitetutOK
    <3>3. QED
      BY <3>1, <3>2
  <2>3. QED
    BY <2>1, <2>2 DEF KirjoitetutOK
<1>7. CASE Lisannyt(t, u)
  <2>1. PICK x \in VapaatRivit : \A v \in Rivit \ {x} : u.liitokset[v] = t.liitokset[v]
    BY <1>7 DEF Lisannyt
  <2>2. rivi[x] = Nil
    BY DEF VapaatRivit
  <2>3. u.toiminto = "tutkinnot" /\ t.toiminto = "tutkinnot" /\ u.vaihe = "lisays"
        /\ u.sopimus = t.sopimus /\ u.sopimukset = t.sopimukset
    BY <1>7 DEF Lisannyt
  <2>4. QED
    BY <2>1, <2>2, <2>3 DEF KirjoitetutOK
<1>8. QED
  BY <1>2, <1>3, <1>4, <1>5, <1>6, <1>7 DEF OmaAskel

\* What the commit of q does: it removes the agreement of a DELETE and no other, and
\* adds rows to the agreement of a POST of versions and to no other.
LEMMA VahvistusKirjoittaa ==
  ASSUME Induktiivinen, Kirjoitetut, NEW q \in Tapahtumat, Vahvista(q), NEW c \in Sopimukset
  PROVE  /\ sopimus[c] = Nil => sopimus'[c] = Nil
         /\ sopimus[c] # Nil =>
              /\ sopimus'[c] # Nil
              /\ sopimus'[c].poistettu =
                   (sopimus[c].poistettu \/ (tx[q].toiminto = "poista" /\ c = tx[q].sopimus))
         /\ ~ (tx[q].toiminto = "tutkinnot" /\ tx[q].sopimus = c) => Supistuu(rivi, rivi', c)
<1> DEFINE t == tx[q]
<1>1. /\ VaiheOK(q, t) /\ KohteetOK(t) /\ KirjoitetutOK(q, t) /\ t.vaihe = "valmis"
      /\ sopimus \in [Sopimukset -> SopimusRivi \union {Nil}]
  BY Tilanne DEF Vahvista, Kirjoitetut
<1>2. /\ sopimus'[c] = IF t.sopimukset[c] # Nil THEN t.sopimukset[c] ELSE sopimus[c]
      /\ t.sopimukset[c] # Nil => sopimus[c] # Nil
      /\ \A v \in Rivit :
           /\ rivi'[v] = IF t.liitokset[v] # Nil THEN t.liitokset[v] ELSE rivi[v]
           /\ t.liitokset[v] # Nil =>
                /\ t.liitokset[v].sopimus = t.sopimus
                /\ rivi[v] # Nil => rivi[v].sopimus = t.sopimus
  BY VahvistaTaulut
<1>3. t.toiminto = "poista" /\ c = t.sopimus => t.sopimukset[c] # Nil
  BY <1>1 DEF VaiheOK, LukkoPidossa
<1>4. sopimus[c] # Nil => sopimus[c].poistettu \in BOOLEAN
  BY <1>1 DEF SopimusRivi
<1>5. sopimus[c] # Nil =>
        sopimus'[c].poistettu = (sopimus[c].poistettu \/ (t.toiminto = "poista" /\ c = t.sopimus))
  BY <1>1, <1>2, <1>3, <1>4 DEF KirjoitetutOK
<1>6. ASSUME ~ (t.toiminto = "tutkinnot" /\ t.sopimus = c), NEW v \in Liitokset(rivi', c)
      PROVE  v \in Liitokset(rivi, c) /\ rivi'[v].tutkintoversio = rivi[v].tutkintoversio
  <2>1. v \in Rivit /\ rivi'[v] # Nil /\ rivi'[v].sopimus = c /\ ~ rivi'[v].poistettu
    BY DEF Liitokset, SopimuksenRivit
  <2>2. CASE t.liitokset[v] = Nil
    BY <1>2, <2>1, <2>2 DEF Liitokset, SopimuksenRivit
  <2>3. CASE t.liitokset[v] # Nil
    <3>1. t.sopimus = c /\ t.toiminto # "tutkinnot" /\ rivi'[v] = t.liitokset[v]
      BY <1>2, <1>6, <2>1, <2>3
    <3>2. /\ rivi[v] # Nil /\ t.liitokset[v].tutkintoversio = rivi[v].tutkintoversio
          /\ ~ rivi[v].poistettu
      BY <1>1, <2>1, <2>3, <3>1 DEF KirjoitetutOK
    <3>3. QED
      BY <1>2, <2>1, <2>3, <3>1, <3>2 DEF Liitokset, SopimuksenRivit
  <2>4. QED
    BY <2>2, <2>3
<1>7. QED
  BY <1>2, <1>5, <1>6 DEF Supistuu

\* What p sees of the commit of q: what it has locked stays as it is.
LEMMA VahvistusNakyy ==
  ASSUME Induktiivinen, NEW p \in Tapahtumat, NEW q \in Tapahtumat, p # q, Vahvista(q)
  PROVE  LET R == Paalle(tx[p].liitokset, rivi)
             Q == Paalle(tx[p].liitokset, rivi')
         IN  /\ tx'[p] = tx[p]
             /\ \A v \in Rivit : tx[p].liitokset[v] # Nil => rivi'[v] = rivi[v]
             /\ \A c \in Sopimukset : tx[p].sopimukset[c] # Nil =>
                  /\ sopimus'[c] = sopimus[c]
                  /\ \A v \in Rivit :
                       \/ rivi[v] = rivi'[v] /\ R[v] = Q[v]
                       \/ /\ v \notin SopimuksenRivit(rivi, c) /\ v \notin SopimuksenRivit(rivi', c)
                          /\ v \notin SopimuksenRivit(R, c) /\ v \notin SopimuksenRivit(Q, c)
             /\ \A c : Supistuu(rivi, rivi', c) => Supistuu(R, Q, c)
<1> DEFINE t == tx[p]
           R == Paalle(t.liitokset, rivi)
           Q == Paalle(t.liitokset, rivi')
<1>1. /\ tx \in [Tapahtumat -> Tx] /\ LukotOK
      /\ rivi \in [Rivit -> LiitosRivi \union {Nil}]
  BY DEF Induktiivinen, TyyppiOK
<1>2. tx'[p] = t
  BY <1>1 DEF Vahvista
<1>3. /\ \A c \in Sopimukset : t.sopimukset[c] = Nil \/ tx[q].sopimukset[c] = Nil
      /\ \A v \in Rivit : t.liitokset[v] = Nil \/ tx[q].liitokset[v] = Nil
  BY <1>1 DEF LukotOK
<1>4. /\ \A c \in Sopimukset :
           sopimus'[c] = IF tx[q].sopimukset[c] # Nil THEN tx[q].sopimukset[c] ELSE sopimus[c]
      /\ \A v \in Rivit :
           /\ rivi'[v] = IF tx[q].liitokset[v] # Nil THEN tx[q].liitokset[v] ELSE rivi[v]
           /\ tx[q].liitokset[v] # Nil =>
                /\ tx[q].sopimus \in Sopimukset /\ tx[q].sopimukset[tx[q].sopimus] # Nil
                /\ tx[q].liitokset[v].sopimus = tx[q].sopimus
                /\ rivi[v] # Nil => rivi[v].sopimus = tx[q].sopimus
      /\ rivi' \in [Rivit -> LiitosRivi \union {Nil}]
  BY VahvistaTaulut
<1>5. \A v \in Rivit : /\ R[v] = IF t.liitokset[v] # Nil THEN t.liitokset[v] ELSE rivi[v]
                       /\ Q[v] = IF t.liitokset[v] # Nil THEN t.liitokset[v] ELSE rivi'[v]
  BY <1>1, <1>4 DEF Paalle
<1> HIDE DEF R, Q
<1>6. ASSUME NEW c \in Sopimukset, t.sopimukset[c] # Nil, NEW v \in Rivit, rivi[v] # rivi'[v]
      PROVE  /\ v \notin SopimuksenRivit(rivi, c) /\ v \notin SopimuksenRivit(rivi', c)
             /\ v \notin SopimuksenRivit(R, c) /\ v \notin SopimuksenRivit(Q, c)
  <2>1. tx[q].liitokset[v] # Nil /\ t.liitokset[v] = Nil /\ tx[q].sopimus # c
    BY <1>3, <1>4, <1>6
  <2>2. R[v] = rivi[v] /\ Q[v] = rivi'[v] /\ rivi'[v].sopimus # c
    BY <1>4, <1>5, <2>1
  <2>3. QED
    BY <1>4, <2>1, <2>2 DEF SopimuksenRivit
<1>7. ASSUME NEW c, Supistuu(rivi, rivi', c), NEW v \in Liitokset(Q, c)
      PROVE  v \in Liitokset(R, c) /\ Q[v].tutkintoversio = R[v].tutkintoversio
  <2>1. v \in Rivit /\ Q[v] # Nil /\ Q[v].sopimus = c /\ ~ Q[v].poistettu
    BY DEF Liitokset, SopimuksenRivit
  <2>2. CASE t.liitokset[v] # Nil
    BY <1>5, <2>1, <2>2 DEF Liitokset, SopimuksenRivit
  <2>3. CASE t.liitokset[v] = Nil
    <3>1. R[v] = rivi[v] /\ Q[v] = rivi'[v]
      BY <1>5, <2>1, <2>3
    <3>2. v \in Liitokset(rivi', c)
      BY <2>1, <3>1 DEF Liitokset, SopimuksenRivit
    <3>3. v \in Liitokset(rivi, c) /\ rivi'[v].tutkintoversio = rivi[v].tutkintoversio
      BY <1>7, <3>2 DEF Supistuu
    <3>4. QED
      BY <2>1, <3>1, <3>3 DEF Liitokset, SopimuksenRivit
  <2>4. QED
    BY <2>2, <2>3
<1>8. \A c : Supistuu(rivi, rivi', c) => Supistuu(R, Q, c)
  BY <1>7 DEF Supistuu
<1>9. \A v \in Rivit : t.liitokset[v] # Nil => rivi'[v] = rivi[v]
  BY <1>3, <1>4
<1>10. \A c \in Sopimukset : t.sopimukset[c] # Nil => sopimus'[c] = sopimus[c]
  BY <1>3, <1>4
<1>11. \A v \in Rivit : rivi[v] = rivi'[v] => R[v] = Q[v]
  BY <1>5
<1>12. QED
  BY <1>2, <1>6, <1>8, <1>9, <1>10, <1>11 DEF R, Q

\* Every step leaves what transactions have written in order.
LEMMA KirjoitetutAskel ==
  ASSUME Induktiivinen, Kirjoitetut, [Next]_vars
  PROVE  Kirjoitetut'
<1> SUFFICES ASSUME NEW p \in Tapahtumat
             PROVE  KirjoitetutOK(p, tx[p])'
  BY DEF Kirjoitetut
<1>1. /\ KirjoitetutOK(p, tx[p]) /\ KohteetOK(tx[p])
      /\ tx \in [Tapahtumat -> Tx] /\ sopimus \in [Sopimukset -> SopimusRivi \union {Nil}]
  BY Tilanne DEF Kirjoitetut, Induktiivinen, TyyppiOK
<1>2. CASE UNCHANGED <<sopimus, rivi, tx>>
  BY <1>1, <1>2 DEF KirjoitetutOK
<1>3. ASSUME NEW q \in Tapahtumat, Askeltaa(q)
      PROVE  KirjoitetutOK(p, tx[p])'
  <2>1. KirjoitetutOK(p, tx'[p])
    BY <1>1, <1>3, KirjoitetutOma DEF Askeltaa
  <2>2. QED
    BY <1>3, <2>1 DEF Askeltaa, KirjoitetutOK
<1>4. ASSUME NEW q \in Tapahtumat, Vahvista(q)
      PROVE  KirjoitetutOK(p, tx[p])'
  <2>1. CASE p = q
    <3>1. tx'[p] = Vapaa
      BY <1>1, <1>4, <2>1 DEF Vahvista
    <3>2. QED
      BY <3>1 DEF KirjoitetutOK, Vapaa
  <2>2. CASE p # q
    <3>1. /\ tx'[p] = tx[p]
          /\ \A v \in Rivit : tx[p].liitokset[v] # Nil => rivi'[v] = rivi[v]
          /\ \A c \in Sopimukset : tx[p].sopimukset[c] # Nil => sopimus'[c] = sopimus[c]
      BY <1>4, <2>2, VahvistusNakyy
    <3>2. QED
      BY <1>1, <3>1 DEF KirjoitetutOK
  <2>3. QED
    BY <2>1, <2>2
<1>5. ASSUME NEW c \in Sopimukset, NEW k \in Toimikunnat, Lisaa(c, k)
      PROVE  KirjoitetutOK(p, tx[p])'
  <2>1. /\ rivi' = rivi /\ tx' = tx
        /\ \A d \in Sopimukset : sopimus[d] # Nil => sopimus'[d] = sopimus[d]
    BY <1>1, <1>5 DEF Lisaa
  <2>2. \A d \in Sopimukset : tx[p].sopimukset[d] # Nil => sopimus'[d] = sopimus[d]
    BY <1>1, <2>1 DEF KohteetOK
  <2>3. QED
    BY <1>1, <2>1, <2>2 DEF KirjoitetutOK
<1>6. QED
  BY <1>2, <1>3, <1>4, <1>5, Askeleet

\* Nothing is written before the first step.
LEMMA KirjoitetutAlku == Init => Kirjoitetut
BY DEF Init, Kirjoitetut, KirjoitetutOK, Vapaa

\* What every transaction has written is in order at any time.
LEMMA KirjoitetutAina == Spec => []Kirjoitetut
<1>1. Induktiivinen /\ Kirjoitetut /\ [Next]_vars => Kirjoitetut'
  BY KirjoitetutAskel
<1>2. QED
  BY <1>1, KirjoitetutAlku, Pysyvyys, PTL DEF Spec

-----------------------------------------------------------------------------
(* The life cycle of an agreement *)

\* Agreements are as removed after a step as before, and those removed are not valid:
\* the step decides which of the others are valid.
LEMMA VainVoimassaolo ==
  ASSUME Induktiivinen, Induktiivinen',
         \A c \in Sopimukset :
           /\ sopimus[c] = Nil <=> sopimus'[c] = Nil
           /\ sopimus[c] # Nil => sopimus'[c].poistettu = sopimus[c].poistettu
  PROVE  Elinkaari!Arvioi
<1>1. tilat' = tilat
  BY DEF tilat
<1>2. \A c \in Sopimukset : /\ voimassaolot[c] = (sopimus[c] # Nil /\ sopimus[c].voimassa)
                            /\ voimassaolot'[c] = (sopimus'[c] # Nil /\ sopimus'[c].voimassa)
  BY DEF voimassaolot
<1>3. voimassaolot' \in [Sopimukset -> BOOLEAN]
  BY DEF voimassaolot, Induktiivinen, TyyppiOK, SopimusRivi
<1>4. ASSUME NEW c \in Sopimukset, voimassaolot'[c] # voimassaolot[c]
      PROVE  tilat[c] = "kaytossa"
  <2>1. sopimus[c] # Nil
    BY <1>2, <1>4
  <2>2. ~ sopimus[c].poistettu
    BY <1>2, <1>4, <2>1 DEF Induktiivinen, PoistettuEiVoimassa
  <2>3. QED
    BY <2>1, <2>2 DEF tilat
<1>5. QED
  BY <1>1, <1>3, <1>4 DEF Elinkaari!Arvioi

\* A commit removes one agreement, or none and decides which are valid.
LEMMA VahvistusElinkaaressa ==
  ASSUME Induktiivinen, Induktiivinen', Kirjoitetut, NEW p \in Tapahtumat, Vahvista(p)
  PROVE  Elinkaari!Next
<1> DEFINE t == tx[p]
           c == t.sopimus
<1>1. \A d \in Sopimukset :
        /\ sopimus[d] = Nil => sopimus'[d] = Nil
        /\ sopimus[d] # Nil =>
             /\ sopimus'[d] # Nil
             /\ sopimus'[d].poistettu = (sopimus[d].poistettu \/ (t.toiminto = "poista" /\ d = c))
  BY VahvistusKirjoittaa
<1>2. \A d \in Sopimukset : sopimus[d] # Nil => sopimus[d].poistettu \in BOOLEAN
  BY DEF Induktiivinen, TyyppiOK, SopimusRivi
<1>3. CASE t.toiminto = "poista" /\ Olemassa(sopimus, c)
  <2>1. /\ VaiheOK(p, t) /\ KohteetOK(t) /\ t \in Tx
    BY Tilanne
  <2>2. c \in Sopimukset /\ \A d \in Sopimukset : t.sopimukset[d] # Nil => d = c
    BY <1>3, <2>1, TxKentat DEF VaiheOK
  <2>3. \A d \in Sopimukset : sopimus'[d] = IF t.sopimukset[d] # Nil THEN t.sopimukset[d] ELSE sopimus[d]
    BY VahvistaTaulut
  <2>4. \A d \in Sopimukset \ {c} : sopimus'[d] = sopimus[d]
    BY <2>2, <2>3
  <2>5. sopimus'[c] # Nil /\ sopimus'[c].poistettu /\ ~ sopimus'[c].voimassa
    BY <1>1, <1>3, <2>2 DEF Olemassa, Induktiivinen, PoistettuEiVoimassa
  <2>6. tilat[c] = "kaytossa"
    BY <1>3, <2>2 DEF tilat, Olemassa
  <2>7. tilat' = [tilat EXCEPT ![c] = "poistettu"]
    BY <2>2, <2>4, <2>5 DEF tilat
  <2>8. voimassaolot' = [voimassaolot EXCEPT ![c] = FALSE]
    <3>1. sopimus'[c].voimassa \in BOOLEAN
      BY <2>2, <2>5 DEF Induktiivinen, TyyppiOK, SopimusRivi
    <3>2. QED
      BY <2>2, <2>4, <2>5, <3>1 DEF voimassaolot
  <2>9. Elinkaari!Poista(c)
    BY <2>6, <2>7, <2>8 DEF Elinkaari!Poista
  <2>10. QED
    BY <2>2, <2>9 DEF Elinkaari!Next
<1>4. CASE ~ (t.toiminto = "poista" /\ Olemassa(sopimus, c))
  <2>1. ASSUME NEW d \in Sopimukset, sopimus[d] # Nil
        PROVE  sopimus'[d].poistettu = sopimus[d].poistettu
    BY <1>1, <1>2, <1>4, <2>1 DEF Olemassa
  <2>2. Elinkaari!Arvioi
    BY <1>1, <2>1, VainVoimassaolo
  <2>3. QED
    BY <2>2 DEF Elinkaari!Next
<1>5. QED
  BY <1>3, <1>4

\* An agreement that is added is not valid.
LEMMA LisaysElinkaaressa ==
  ASSUME Induktiivinen, NEW c \in Sopimukset, NEW k \in Toimikunnat, Lisaa(c, k)
  PROVE  Elinkaari!Next
<1> DEFINE uusi == [toimikunta |-> k, alkupvm |-> Nil, loppupvm |-> Nil,
                    voimassa |-> FALSE, poistettu |-> FALSE]
<1>1. /\ sopimus \in [Sopimukset -> SopimusRivi \union {Nil}]
      /\ sopimus[c] = Nil /\ sopimus' = [sopimus EXCEPT ![c] = uusi]
  BY DEF Induktiivinen, TyyppiOK, Lisaa
<1>2. uusi # Nil /\ uusi.voimassa = FALSE /\ uusi.poistettu = FALSE
  <2>1. uusi \in SopimusRivi
    BY DEF SopimusRivi, Paiva
  <2>2. QED
    BY <2>1, NilAssumption
<1> HIDE DEF uusi
<1>3. sopimus'[c] = uusi /\ \A d \in Sopimukset \ {c} : sopimus'[d] = sopimus[d]
  BY <1>1
<1>4. tilat[c] = "ei_luotu" /\ tilat' = [tilat EXCEPT ![c] = "kaytossa"]
  BY <1>1, <1>2, <1>3 DEF tilat
<1>5. voimassaolot' = voimassaolot
  BY <1>1, <1>2, <1>3 DEF voimassaolot
<1>6. Elinkaari!Luo(c)
  BY <1>4, <1>5 DEF Elinkaari!Luo
<1>7. QED
  BY <1>6 DEF Elinkaari!Next

\* Module SopimusVoimassaolo implements Sopimuselinkaari: whatever requests and nightly
\* runs race on an agreement, a removal is its own DELETE's, happens once and lasts.
THEOREM Elinkaareen == Spec => ToteuttaaSopimuselinkaaren
<1>1. Init => Elinkaari!Init
  BY DEF Init, Elinkaari!Init, tilat, voimassaolot
<1>2. ASSUME Induktiivinen, Induktiivinen', Kirjoitetut, [Next]_vars
      PROVE  [Elinkaari!Next]_(Elinkaari!elinkaari)
  <2>1. ASSUME UNCHANGED sopimus
        PROVE  UNCHANGED Elinkaari!elinkaari
    BY <2>1 DEF Elinkaari!elinkaari, tilat, voimassaolot
  <2>2. ASSUME NEW p \in Tapahtumat, Askeltaa(p)
        PROVE  UNCHANGED sopimus
    BY <2>2 DEF Askeltaa
  <2>3. QED
    BY <1>2, <2>1, <2>2, VahvistusElinkaaressa, LisaysElinkaaressa, Askeleet
<1>3. QED
  BY <1>1, <1>2, Pysyvyys, KirjoitetutAina, PTL
     DEF Spec, ToteuttaaSopimuselinkaaren, Elinkaari!Spec

-----------------------------------------------------------------------------
(* Removed rows stay removed *)

\* The commit of q leaves a row where it was, and removed if it was.
LEMMA VahvistusSailyttaaRivin ==
  ASSUME Induktiivinen, Kirjoitetut, NEW q \in Tapahtumat, Vahvista(q),
         NEW v \in Rivit, rivi[v] # Nil
  PROVE  /\ rivi'[v] # Nil
         /\ rivi'[v].sopimus = rivi[v].sopimus
         /\ rivi'[v].tutkintoversio = rivi[v].tutkintoversio
         /\ rivi[v].poistettu => rivi'[v].poistettu
<1> DEFINE t == tx[q]
<1>1. /\ rivi'[v] = IF t.liitokset[v] # Nil THEN t.liitokset[v] ELSE rivi[v]
      /\ t.liitokset[v] # Nil =>
           t.liitokset[v].sopimus = t.sopimus /\ rivi[v].sopimus = t.sopimus
  BY VahvistaTaulut
<1>2. KirjoitetutOK(q, t)
  BY DEF Kirjoitetut
<1>3. CASE t.liitokset[v] = Nil
  BY <1>1, <1>3
<1>4. CASE t.liitokset[v] # Nil
  BY <1>1, <1>2, <1>4 DEF KirjoitetutOK
<1>5. QED
  BY <1>3, <1>4

\* No request brings a removed row back: what a PUT writes to a row that it had chosen
\* before the removal is written to the row as the removal has left it.
THEOREM PoistetutRivit == Spec => PoistettuRiviPysyy
<1> DEFINE Askel == \A v \in Rivit : rivi[v] # Nil =>
             /\ rivi'[v] # Nil
             /\ rivi'[v].sopimus = rivi[v].sopimus /\ rivi'[v].tutkintoversio = rivi[v].tutkintoversio
             /\ rivi[v].poistettu => rivi'[v].poistettu
<1>1. ASSUME rivi' = rivi
      PROVE  Askel
  BY <1>1
<1>2. ASSUME NEW p \in Tapahtumat, Askeltaa(p)
      PROVE  rivi' = rivi
  BY <1>2 DEF Askeltaa
<1>3. ASSUME NEW c \in Sopimukset, NEW k \in Toimikunnat, Lisaa(c, k)
      PROVE  rivi' = rivi
  BY <1>3 DEF Lisaa
<1>4. ASSUME Induktiivinen, Kirjoitetut, NEW p \in Tapahtumat, Vahvista(p)
      PROVE  Askel
  BY <1>4, VahvistusSailyttaaRivin
<1>5. Induktiivinen /\ Kirjoitetut /\ [Next]_vars => [Askel]_vars
  <2> HIDE DEF Askel
  <2>1. QED
    BY <1>1, <1>2, <1>3, <1>4, Askeleet
<1>6. QED
  BY <1>5, Pysyvyys, KirjoitetutAina, PTL DEF Spec, PoistettuRiviPysyy

-----------------------------------------------------------------------------
(* No version twice, when POSTs of versions on one agreement do not overlap *)

\* A statement of a POST keeps what it sees free of versions covered twice.
LEMMA TutkinnotOma ==
  ASSUME Induktiivinen, EiKahdesti, NEW p \in Tapahtumat,
         KirjoitetutOK(p, tx[p]), TutkinnotOK(tx[p]), NEW u, OmaAskel(p, tx[p], u)
  PROVE  TutkinnotOK(u)
<1> DEFINE t == tx[p]
           c == t.sopimus
           R == Paalle(t.liitokset, rivi)
           Q == Paalle(u.liitokset, rivi)
<1>1. /\ t \in Tx /\ KohteetOK(t) /\ VaiheOK(p, t) /\ OmatRivit(p) = R
      /\ rivi \in [Rivit -> LiitosRivi \union {Nil}]
  BY Tilanne
<1> SUFFICES ASSUME u.toiminto = "tutkinnot", u.vaihe \notin {"tarkistus", "luku"}
             PROVE  /\ Ainutkertaiset(Q, u.sopimus)
                    /\ u.lisattavat \intersect LiitetytVersiot(Q, u.sopimus) = {}
  BY DEF TutkinnotOK
<1>2. \A v \in Rivit : /\ R[v] = IF t.liitokset[v] # Nil THEN t.liitokset[v] ELSE rivi[v]
                       /\ Q[v] = IF u.liitokset[v] # Nil THEN u.liitokset[v] ELSE rivi[v]
  BY <1>1 DEF Paalle
<1>3. ASSUME t.toiminto = "tutkinnot", t.vaihe \notin {"tarkistus", "luku"},
             u.sopimus = c, u.lisattavat = t.lisattavat, Supistuu(R, Q, c)
      PROVE  /\ Ainutkertaiset(Q, u.sopimus)
             /\ u.lisattavat \intersect LiitetytVersiot(Q, u.sopimus) = {}
  BY <1>3, SupistuminenSailyttaa DEF TutkinnotOK
<1> HIDE DEF R, Q
<1>4. CASE u = Vapaa \/ Alkanut(p, u) \/ Edennyt(t, u)
  BY <1>4, NilAssumption DEF Vapaa, Alkanut, Edennyt, Tapahtumat
<1>5. CASE Lukenut(p, t, u)
  <2>1. /\ t.toiminto = "tutkinnot" /\ t.vaihe # "tarkistus"
        /\ u.sopimus = c /\ u.liitokset = t.liitokset
    BY <1>5 DEF Lukenut
  <2>2. CASE t.vaihe = "luku"
    <3>1. \A v \in Rivit : Q[v] = rivi[v]
      BY <1>2, <2>1, <2>2 DEF KirjoitetutOK
    <3>2. Liitokset(Q, c) = Liitokset(rivi, c) /\ \A v \in Liitokset(rivi, c) : v \in Rivit
      BY <3>1 DEF Liitokset, SopimuksenRivit
    <3>3. LiitetytVersiot(Q, c) = LiitetytVersiot(rivi, c)
      BY <3>1, <3>2 DEF LiitetytVersiot
    <3>4. c \in Sopimukset
      BY <1>1, <2>1, TxKentat DEF VaiheOK
    <3>5. Ainutkertaiset(Q, c)
      BY <3>1, <3>2, <3>4 DEF EiKahdesti, Ainutkertaiset
    <3>6. u.lisattavat \intersect LiitetytVersiot(rivi, c) = {}
      BY <1>5, <2>2 DEF Lukenut
    <3>7. QED
      BY <2>1, <3>3, <3>5, <3>6
  <2>3. CASE t.vaihe # "luku"
    <3>1. u.lisattavat = t.lisattavat
      BY <1>5, <2>3 DEF Lukenut
    <3>2. Supistuu(R, Q, c)
      BY <2>1 DEF Supistuu, R, Q
    <3>3. QED
      BY <1>3, <2>1, <2>3, <3>1, <3>2
  <2>4. QED
    BY <2>2, <2>3
<1>6. CASE KirjannutSopimuksen(p, t, u)
  <2>1. /\ t.toiminto = "tutkinnot" /\ t.vaihe \notin {"tarkistus", "luku"}
        /\ u.sopimus = c /\ u.lisattavat = t.lisattavat /\ u.liitokset = t.liitokset
    BY <1>6 DEF KirjannutSopimuksen
  <2>2. Supistuu(R, Q, c)
    BY <2>1 DEF Supistuu, R, Q
  <2>3. QED
    BY <1>3, <2>1, <2>2
<1>7. CASE KirjannutRivit(p, t, u)
  <2>1. PICK K \in SUBSET t.kohde :
          /\ \A v \in Rivit \ K : u.liitokset[v] = t.liitokset[v]
          /\ \A v \in K :
               /\ u.liitokset[v] \in LiitosRivi
               /\ u.liitokset[v].tutkintoversio = R[v].tutkintoversio
               /\ R[v].poistettu => u.liitokset[v].poistettu
    BY <1>1, <1>7 DEF KirjannutRivit
  <2>2. /\ t.toiminto = "tutkinnot" /\ t.vaihe \notin {"tarkistus", "luku"}
        /\ u.sopimus = c /\ u.lisattavat = t.lisattavat
    BY <1>7 DEF KirjannutRivit
  <2>3. ASSUME NEW v \in Liitokset(Q, c)
        PROVE  v \in Liitokset(R, c) /\ Q[v].tutkintoversio = R[v].tutkintoversio
    <3>1. v \in Rivit /\ Q[v] # Nil /\ Q[v].sopimus = c /\ ~ Q[v].poistettu
      BY DEF Liitokset, SopimuksenRivit
    <3>2. CASE v \notin K
      BY <1>2, <2>1, <3>1, <3>2 DEF Liitokset, SopimuksenRivit
    <3>3. CASE v \in K
      <4>1. Q[v] = u.liitokset[v]
        BY <1>2, <2>1, <3>1, <3>3, NilAssumption
      <4>2. v \in SopimuksenRivit(R, c)
        BY <1>1, <3>3 DEF KohteetOK, R
      <4>3. QED
        BY <2>1, <3>1, <3>3, <4>1, <4>2 DEF Liitokset
    <3>4. QED
      BY <3>2, <3>3
  <2>4. QED
    BY <1>3, <2>2, <2>3 DEF Supistuu
<1>8. CASE Lisannyt(t, u)
  <2>1. t.toiminto = "tutkinnot" /\ t.vaihe \notin {"tarkistus", "luku"} /\ u.sopimus = c
    BY <1>8 DEF Lisannyt
  <2>2. PICK w \in t.lisattavat, x \in VapaatRivit :
          /\ u.lisattavat = t.lisattavat \ {w}
          /\ \A v \in Rivit \ {x} : u.liitokset[v] = t.liitokset[v]
          /\ u.liitokset[x] \in LiitosRivi
          /\ u.liitokset[x].tutkintoversio = w
    BY <1>8 DEF Lisannyt
  <2>3. Ainutkertaiset(R, c) /\ t.lisattavat \intersect LiitetytVersiot(R, c) = {}
    BY <2>1 DEF TutkinnotOK, R
  <2>4. x \in Rivit /\ Q[x].tutkintoversio = w
    BY <1>2, <2>2, NilAssumption DEF VapaatRivit
  <2>5. ASSUME NEW v \in Liitokset(Q, c), v # x
        PROVE  /\ v \in Liitokset(R, c) /\ Q[v] = R[v]
               /\ Q[v].tutkintoversio \notin t.lisattavat
    <3>1. v \in Rivit /\ Q[v] = R[v]
      BY <1>2, <2>2, <2>5 DEF Liitokset, SopimuksenRivit
    <3>2. v \in Liitokset(R, c)
      BY <3>1 DEF Liitokset, SopimuksenRivit
    <3>3. R[v].tutkintoversio \in LiitetytVersiot(R, c)
      BY <3>2 DEF LiitetytVersiot
    <3>4. QED
      BY <2>3, <3>1, <3>2, <3>3
  <2>6. Ainutkertaiset(Q, c)
    BY <2>2, <2>3, <2>4, <2>5 DEF Ainutkertaiset
  <2>7. u.lisattavat \intersect LiitetytVersiot(Q, c) = {}
    BY <2>2, <2>4, <2>5 DEF LiitetytVersiot
  <2>8. QED
    BY <2>1, <2>6, <2>7
<1>9. QED
  BY <1>4, <1>5, <1>6, <1>7, <1>8 DEF OmaAskel

\* A step covers no version twice, and leaves no POST that would.
LEMMA TutkinnotAskel ==
  ASSUME Induktiivinen, Kirjoitetut, LisayksetErillaan, EiKahdesti,
         \A p \in Tapahtumat : TutkinnotOK(tx[p]), [Next]_vars
  PROVE  EiKahdesti' /\ \A p \in Tapahtumat : TutkinnotOK(tx[p])'
<1>1. /\ tx \in [Tapahtumat -> Tx] /\ rivi \in [Rivit -> LiitosRivi \union {Nil}]
      /\ sopimus \in [Sopimukset -> SopimusRivi \union {Nil}]
      /\ \A p \in Tapahtumat : KirjoitetutOK(p, tx[p]) /\ VaiheOK(p, tx[p])
  BY Tilanne DEF Induktiivinen, TyyppiOK, Kirjoitetut
<1>2. ASSUME UNCHANGED <<rivi, tx>>
      PROVE  EiKahdesti' /\ \A p \in Tapahtumat : TutkinnotOK(tx[p])'
  BY <1>1, <1>2 DEF EiKahdesti, TutkinnotOK
<1>3. ASSUME NEW q \in Tapahtumat, Askeltaa(q)
      PROVE  EiKahdesti' /\ \A p \in Tapahtumat : TutkinnotOK(tx[p])'
  <2>1. rivi' = rivi
    BY <1>3 DEF Askeltaa
  <2>2. EiKahdesti'
    BY <2>1 DEF EiKahdesti
  <2>3. ASSUME NEW p \in Tapahtumat
        PROVE  TutkinnotOK(tx[p])'
    <3>1. TutkinnotOK(tx'[p])
      BY <1>1, <1>3, TutkinnotOma DEF Askeltaa
    <3>2. QED
      BY <2>1, <3>1 DEF TutkinnotOK
  <2>4. QED
    BY <2>2, <2>3
<1>4. ASSUME NEW q \in Tapahtumat, Vahvista(q)
      PROVE  EiKahdesti' /\ \A p \in Tapahtumat : TutkinnotOK(tx[p])'
  <2>1. ASSUME NEW c \in Sopimukset, ~ (tx[q].toiminto = "tutkinnot" /\ tx[q].sopimus = c)
        PROVE  Supistuu(rivi, rivi', c)
    BY <1>4, <2>1, VahvistusKirjoittaa
  <2>2. ASSUME NEW c \in Sopimukset
        PROVE  Ainutkertaiset(rivi', c)
    <3>1. CASE tx[q].toiminto = "tutkinnot" /\ tx[q].sopimus = c
      <4>1. rivi' = Paalle(tx[q].liitokset, rivi)
        BY <1>4, VahvistaTaulut
      <4>2. tx[q].vaihe \notin {"tarkistus", "luku"}
        BY <1>4 DEF Vahvista
      <4>3. QED
        BY <3>1, <4>1, <4>2 DEF TutkinnotOK
    <3>2. CASE ~ (tx[q].toiminto = "tutkinnot" /\ tx[q].sopimus = c)
      <4>1. Ainutkertaiset(rivi, c)
        BY DEF EiKahdesti, Ainutkertaiset
      <4>2. QED
        BY <2>1, <3>2, <4>1, SupistuminenSailyttaa
    <3>3. QED
      BY <3>1, <3>2
  <2>3. EiKahdesti'
    BY <2>2 DEF EiKahdesti, Ainutkertaiset
  <2>4. ASSUME NEW p \in Tapahtumat, p # q,
               tx[p].toiminto = "tutkinnot", tx[p].vaihe \notin {"tarkistus", "luku"}
        PROVE  LET Q == Paalle(tx[p].liitokset, rivi')
               IN  /\ Ainutkertaiset(Q, tx[p].sopimus)
                   /\ tx[p].lisattavat \intersect LiitetytVersiot(Q, tx[p].sopimus) = {}
    <3> DEFINE R == Paalle(tx[p].liitokset, rivi)
               Q == Paalle(tx[p].liitokset, rivi')
               c == tx[p].sopimus
    <3>1. c \in Sopimukset
      BY <1>1, <2>4, TxKentat DEF VaiheOK
    <3>2. ~ (tx[q].toiminto = "tutkinnot" /\ tx[q].sopimus = c)
      BY <1>1, <2>4 DEF KirjoitetutOK, LisayksetErillaan, Tapahtumat
    <3>3. Supistuu(R, Q, c)
      BY <1>4, <2>1, <2>4, <3>1, <3>2, VahvistusNakyy
    <3>4. Ainutkertaiset(R, c) /\ tx[p].lisattavat \intersect LiitetytVersiot(R, c) = {}
      BY <2>4 DEF TutkinnotOK
    <3> HIDE DEF R, Q, c
    <3>5. Ainutkertaiset(Q, c) /\ tx[p].lisattavat \intersect LiitetytVersiot(Q, c) = {}
      BY <3>3, <3>4, SupistuminenSailyttaa
    <3>6. QED
      BY <3>5 DEF Q, c
  <2>5. ASSUME NEW p \in Tapahtumat
        PROVE  TutkinnotOK(tx[p])'
    <3>1. CASE p = q
      <4>1. tx'[p] = Vapaa
        BY <1>1, <1>4, <3>1 DEF Vahvista
      <4>2. QED
        BY <4>1 DEF TutkinnotOK, Vapaa
    <3>2. CASE p # q
      <4>1. tx'[p] = tx[p]
        BY <1>4, <3>2, VahvistusNakyy
      <4>2. QED
        BY <2>4, <3>2, <4>1 DEF TutkinnotOK
    <3>3. QED
      BY <3>1, <3>2
  <2>6. QED
    BY <2>3, <2>5
<1>5. ASSUME NEW c \in Sopimukset, NEW k \in Toimikunnat, Lisaa(c, k)
      PROVE  UNCHANGED <<rivi, tx>>
  BY <1>5 DEF Lisaa
<1>6. QED
  BY <1>2, <1>3, <1>4, <1>5, Askeleet

\* As long as no two POSTs of versions are under way on one agreement, no agreement
\* covers a version twice, whatever other requests and nightly runs do meanwhile.
THEOREM Kahdesti == Spec /\ []LisayksetErillaan => []EiKahdesti
<1> DEFINE Sailyva == EiKahdesti /\ \A p \in Tapahtumat : TutkinnotOK(tx[p])
<1>1. Init => Sailyva
  BY DEF Init, EiKahdesti, TutkinnotOK, Vapaa, Liitokset, SopimuksenRivit
<1>2. Induktiivinen /\ Kirjoitetut /\ LisayksetErillaan /\ Sailyva /\ [Next]_vars => Sailyva'
  BY TutkinnotAskel
<1>3. QED
  BY <1>1, <1>2, Pysyvyys, KirjoitetutAina, PTL DEF Spec

-----------------------------------------------------------------------------
(* No rows under a removed agreement, when POSTs of versions do not overlap its DELETE *)

\* A statement of a POST or DELETE keeps in order what is to become of the rows.
LEMMA PoistoOma ==
  ASSUME Induktiivinen, NEW p \in Tapahtumat, PoistoOK(tx[p]), NEW u, OmaAskel(p, tx[p], u)
  PROVE  PoistoOK(u)
<1> DEFINE t == tx[p]
           c == t.sopimus
           R == Paalle(t.liitokset, rivi)
           Q == Paalle(u.liitokset, rivi)
<1>1. /\ t \in Tx /\ KohteetOK(t) /\ VaiheOK(p, t) /\ OmatRivit(p) = R
      /\ rivi \in [Rivit -> LiitosRivi \union {Nil}]
  BY Tilanne
<1>2. \A v \in Rivit : /\ R[v] = IF t.liitokset[v] # Nil THEN t.liitokset[v] ELSE rivi[v]
                       /\ Q[v] = IF u.liitokset[v] # Nil THEN u.liitokset[v] ELSE rivi[v]
  BY <1>1 DEF Paalle
<1> HIDE DEF R, Q
<1>3. CASE u = Vapaa \/ Alkanut(p, u) \/ Edennyt(t, u)
  BY <1>3, NilAssumption DEF Vapaa, Alkanut, Edennyt, Tapahtumat, PoistoOK
<1>4. CASE Lukenut(p, t, u)
  <2>1. u.toiminto = t.toiminto /\ u.sopimus = c
        /\ (t.vaihe = "tarkistus" => Olemassa(sopimus, c))
    BY <1>4 DEF Lukenut
  <2>2. u.toiminto = "tutkinnot" => Olemassa(sopimus, u.sopimus)
    BY <2>1 DEF PoistoOK
  <2>3. u.toiminto = "poista" => u.vaihe # "valmis"
    BY <1>4 DEF Lukenut
  <2>4. ASSUME u.toiminto = "poista", u.vaihe = "rivit"
        PROVE  \A v \in Liitokset(Q, u.sopimus) : v \in u.kohde
    BY <1>1, <1>4, <2>1, <2>4 DEF Lukenut, Liitokset, R, Q
  <2>5. QED
    BY <2>2, <2>3, <2>4 DEF PoistoOK, Q
<1>5. CASE KirjannutSopimuksen(p, t, u)
  <2>1. /\ u.toiminto = t.toiminto /\ t.vaihe # "tarkistus"
        /\ u.toiminto # "eraajo" => u.sopimus = c
        /\ u.toiminto = "poista" => u.vaihe = "valinta"
    BY <1>5 DEF KirjannutSopimuksen
  <2>2. QED
    BY <2>1 DEF PoistoOK
<1>6. CASE KirjannutRivit(p, t, u)
  <2>1. PICK K \in SUBSET t.kohde :
          /\ u.kohde = t.kohde \ K
          /\ \A v \in Rivit \ K : u.liitokset[v] = t.liitokset[v]
          /\ \A v \in K : /\ u.liitokset[v] \in LiitosRivi
                          /\ t.toiminto = "poista" => u.liitokset[v].poistettu
    BY <1>6 DEF KirjannutRivit
  <2>2. /\ u.toiminto = t.toiminto /\ u.sopimus = c /\ t.vaihe = "rivit"
        /\ u.vaihe # "rivit" => u.kohde = {}
    BY <1>6 DEF KirjannutRivit
  <2>3. u.toiminto = "tutkinnot" => Olemassa(sopimus, u.sopimus)
    BY <2>2 DEF PoistoOK
  <2>4. ASSUME u.toiminto = "poista", NEW v \in Liitokset(Q, c)
        PROVE  u.vaihe = "rivit" /\ v \in u.kohde
    <3>1. v \in Rivit /\ Q[v] # Nil /\ Q[v].sopimus = c /\ ~ Q[v].poistettu
      BY DEF Liitokset, SopimuksenRivit
    <3>2. ASSUME v \in K
          PROVE  FALSE
      <4>1. u.liitokset[v] \in LiitosRivi /\ u.liitokset[v].poistettu
        BY <2>1, <2>2, <2>4, <3>2
      <4>2. Q[v] = u.liitokset[v]
        BY <1>2, <3>1, <4>1, NilAssumption
      <4>3. QED
        BY <3>1, <4>1, <4>2
    <3>3. v \in Liitokset(R, c)
      BY <1>2, <2>1, <3>1, <3>2 DEF Liitokset, SopimuksenRivit
    <3>4. v \in t.kohde
      BY <2>2, <2>4, <3>3 DEF PoistoOK, R
    <3>5. QED
      BY <2>1, <2>2, <3>2, <3>4
  <2>5. QED
    BY <2>2, <2>3, <2>4 DEF PoistoOK, Q
<1>7. CASE Lisannyt(t, u)
  BY <1>7 DEF Lisannyt, PoistoOK
<1>8. QED
  BY <1>3, <1>4, <1>5, <1>6, <1>7 DEF OmaAskel

\* What is to become of the rows stays in order when another transaction commits: it
\* removes no agreement of a POST of versions, and cannot write to one that is locked.
LEMMA PoistoMuut ==
  ASSUME Induktiivinen, Kirjoitetut, PoistotErillaan, NEW p \in Tapahtumat, PoistoOK(tx[p]),
         NEW q \in Tapahtumat, p # q, Vahvista(q)
  PROVE  PoistoOK(tx[p])'
<1> DEFINE t == tx[p]
           c == t.sopimus
           R == Paalle(t.liitokset, rivi)
           Q == Paalle(t.liitokset, rivi')
<1>1. /\ t \in Tx /\ VaiheOK(p, t) /\ VaiheOK(q, tx[q]) /\ tx'[p] = t
      /\ KirjoitetutOK(p, t) /\ KirjoitetutOK(q, tx[q])
  BY Tilanne, VahvistusNakyy DEF Kirjoitetut
<1>2. ASSUME t.toiminto = "tutkinnot", t.vaihe # "tarkistus"
      PROVE  Olemassa(sopimus', c)
  <2>1. Olemassa(sopimus, c) /\ c \in Sopimukset
    BY <1>1, <1>2, TxKentat DEF PoistoOK, VaiheOK
  <2>2. ~ (tx[q].toiminto = "poista" /\ tx[q].sopimus = c)
    BY <1>1, <1>2 DEF KirjoitetutOK, PoistotErillaan, Tapahtumat
  <2>3. sopimus'[c] # Nil /\ sopimus'[c].poistettu = sopimus[c].poistettu
    <3>1. sopimus[c].poistettu \in BOOLEAN
      BY <2>1 DEF Olemassa, Induktiivinen, TyyppiOK, SopimusRivi
    <3>2. QED
      BY <2>1, <2>2, <3>1, VahvistusKirjoittaa DEF Olemassa
  <2>4. QED
    BY <2>1, <2>3 DEF Olemassa
<1>3. ASSUME t.toiminto = "poista", t.vaihe \in {"rivit", "valmis"}, NEW v \in Liitokset(Q, c)
      PROVE  t.vaihe = "rivit" /\ v \in t.kohde
  <2>1. c \in Sopimukset /\ t.sopimukset[c] # Nil
    BY <1>1, <1>3, TxKentat DEF VaiheOK, LukkoPidossa
  <2>2. v \in Rivit /\ v \in SopimuksenRivit(Q, c) /\ ~ Q[v].poistettu
    BY DEF Liitokset, SopimuksenRivit
  <2>3. R[v] = Q[v]
    <3> HIDE DEF R, Q, c
    <3>1. \/ R[v] = Q[v]
          \/ v \notin SopimuksenRivit(Q, c)
      BY <2>1, <2>2, VahvistusNakyy DEF R, Q
    <3>2. QED
      BY <2>2, <3>1
  <2>4. v \in Liitokset(R, c)
    BY <2>2, <2>3 DEF Liitokset, SopimuksenRivit
  <2>5. QED
    BY <1>3, <2>4 DEF PoistoOK
<1>4. QED
  BY <1>1, <1>2, <1>3 DEF PoistoOK

\* A step leaves no rows under a removed agreement.
LEMMA PoistoAskel ==
  ASSUME Induktiivinen, Kirjoitetut, PoistotErillaan, PoistetullaEiRiveja,
         \A p \in Tapahtumat : PoistoOK(tx[p]), [Next]_vars
  PROVE  PoistetullaEiRiveja' /\ \A p \in Tapahtumat : PoistoOK(tx[p])'
<1>1. /\ tx \in [Tapahtumat -> Tx] /\ rivi \in [Rivit -> LiitosRivi \union {Nil}]
      /\ sopimus \in [Sopimukset -> SopimusRivi \union {Nil}] /\ RivienSopimukset
      /\ \A p \in Tapahtumat : KohteetOK(tx[p]) /\ VaiheOK(p, tx[p])
  BY Tilanne DEF Induktiivinen, TyyppiOK
<1>2. CASE UNCHANGED <<sopimus, rivi, tx>>
  BY <1>1, <1>2 DEF PoistetullaEiRiveja, PoistoOK
<1>3. ASSUME NEW q \in Tapahtumat, Askeltaa(q)
      PROVE  PoistetullaEiRiveja' /\ \A p \in Tapahtumat : PoistoOK(tx[p])'
  <2>1. rivi' = rivi /\ sopimus' = sopimus
    BY <1>3 DEF Askeltaa
  <2>2. PoistetullaEiRiveja'
    BY <2>1 DEF PoistetullaEiRiveja
  <2>3. ASSUME NEW p \in Tapahtumat
        PROVE  PoistoOK(tx[p])'
    <3>1. PoistoOK(tx'[p])
      BY <1>1, <1>3, PoistoOma DEF Askeltaa
    <3>2. QED
      BY <2>1, <3>1 DEF PoistoOK
  <2>4. QED
    BY <2>2, <2>3
<1>4. ASSUME NEW q \in Tapahtumat, Vahvista(q)
      PROVE  PoistetullaEiRiveja' /\ \A p \in Tapahtumat : PoistoOK(tx[p])'
  <2> DEFINE t == tx[q]
  <2>1. t.vaihe = "valmis" /\ VaiheOK(q, t) /\ t \in Tx
    BY <1>1, <1>4 DEF Vahvista
  <2>2. ASSUME NEW c \in Sopimukset, sopimus'[c] # Nil, sopimus'[c].poistettu
        PROVE  Liitokset(rivi', c) = {}
    <3>1. CASE t.toiminto = "poista" /\ t.sopimus = c
      <4>1. rivi' = Paalle(t.liitokset, rivi)
        BY <1>4, VahvistaTaulut
      <4>2. QED
        BY <2>1, <3>1, <4>1 DEF PoistoOK
    <3>2. CASE ~ (t.toiminto = "poista" /\ t.sopimus = c)
      <4>1. sopimus[c] # Nil /\ sopimus[c].poistettu
        BY <1>4, <2>2, <3>2, VahvistusKirjoittaa
      <4>2. Liitokset(rivi, c) = {}
        BY <4>1 DEF PoistetullaEiRiveja
      <4>3. ~ (t.toiminto = "tutkinnot" /\ t.sopimus = c)
        BY <2>1, <4>1 DEF PoistoOK, Olemassa
      <4>4. Supistuu(rivi, rivi', c)
        BY <1>4, <4>3, VahvistusKirjoittaa
      <4>5. QED
        BY <4>2, <4>4 DEF Supistuu
    <3>3. QED
      BY <3>1, <3>2
  <2>3. PoistetullaEiRiveja'
    BY <2>2 DEF PoistetullaEiRiveja
  <2>4. ASSUME NEW p \in Tapahtumat
        PROVE  PoistoOK(tx[p])'
    <3>1. CASE p = q
      <4>1. tx'[p] = Vapaa
        BY <1>1, <1>4, <3>1 DEF Vahvista
      <4>2. QED
        BY <4>1 DEF PoistoOK, Vapaa
    <3>2. CASE p # q
      BY <1>4, <3>2, PoistoMuut
    <3>3. QED
      BY <3>1, <3>2
  <2>5. QED
    BY <2>3, <2>4
<1>5. ASSUME NEW c \in Sopimukset, NEW k \in Toimikunnat, Lisaa(c, k)
      PROVE  PoistetullaEiRiveja' /\ \A p \in Tapahtumat : PoistoOK(tx[p])'
  <2>1. /\ rivi' = rivi /\ tx' = tx /\ sopimus[c] = Nil
        /\ \A d \in Sopimukset \ {c} : sopimus'[d] = sopimus[d]
    BY <1>1, <1>5 DEF Lisaa
  <2>2. Liitokset(rivi, c) = {}
    BY <1>1, <2>1 DEF RivienSopimukset, Liitokset, SopimuksenRivit
  <2>3. PoistetullaEiRiveja'
    BY <2>1, <2>2 DEF PoistetullaEiRiveja
  <2>4. ASSUME NEW p \in Tapahtumat
        PROVE  PoistoOK(tx[p])'
    <3>1. ASSUME tx[p].toiminto = "tutkinnot", tx[p].vaihe # "tarkistus"
          PROVE  Olemassa(sopimus', tx[p].sopimus)
      <4>1. Olemassa(sopimus, tx[p].sopimus) /\ tx[p].sopimus \in Sopimukset
        BY <1>1, <3>1, TxKentat DEF PoistoOK, VaiheOK
      <4>2. tx[p].sopimus # c
        BY <2>1, <4>1 DEF Olemassa
      <4>3. QED
        BY <2>1, <4>1, <4>2 DEF Olemassa
    <3>2. QED
      BY <2>1, <3>1 DEF PoistoOK
  <2>5. QED
    BY <2>3, <2>4
<1>6. QED
  BY <1>2, <1>3, <1>4, <1>5, Askeleet

\* As long as no POST of versions is under way while its agreement is removed, a removed
\* agreement has no rows, whatever PUTs, other DELETEs and nightly runs do meanwhile.
THEOREM PoistetunRivit == Spec /\ []PoistotErillaan => []PoistetullaEiRiveja
<1> DEFINE Sailyva == PoistetullaEiRiveja /\ \A p \in Tapahtumat : PoistoOK(tx[p])
<1>1. Init => Sailyva
  BY DEF Init, PoistetullaEiRiveja, PoistoOK, Vapaa, Liitokset, SopimuksenRivit
<1>2. Induktiivinen /\ Kirjoitetut /\ PoistotErillaan /\ Sailyva /\ [Next]_vars => Sailyva'
  BY PoistoAskel
<1>3. QED
  BY <1>1, <1>2, Pysyvyys, KirjoitetutAina, PTL DEF Spec

-----------------------------------------------------------------------------
(* The period of an agreement, when no request works on one whose days a nightly run *)
(* has read but not yet written                                                      *)

\* The days computed depend on the agreement's own first day and on its rows only.
LEMMA PaivatSamat ==
  ASSUME NEW S, NEW T, NEW R, NEW Q, NEW c, T[c].alkupvm = S[c].alkupvm,
         \A v \in Rivit : \/ R[v] = Q[v]
                          \/ v \notin SopimuksenRivit(R, c) /\ v \notin SopimuksenRivit(Q, c)
  PROVE  Alkupvm(T, Q, c) = Alkupvm(S, R, c) /\ Loppupvm(Q, c) = Loppupvm(R, c)
<1>1. Liitokset(Q, c) = Liitokset(R, c) /\ \A v \in Liitokset(R, c) : Q[v] = R[v]
  BY DEF Liitokset, SopimuksenRivit
<1>2. /\ {Q[v].alkupvm : v \in Liitokset(Q, c)} = {R[v].alkupvm : v \in Liitokset(R, c)}
      /\ {Q[v].loppupvm : v \in Liitokset(Q, c)} = {R[v].loppupvm : v \in Liitokset(R, c)}
  BY <1>1
<1>3. QED
  BY <1>2 DEF Alkupvm, Loppupvm

\* Once the first day computed is written, it is what is computed again.
LEMMA AlkupvmToistuu ==
  ASSUME NEW S \in [Sopimukset -> SopimusRivi \union {Nil}],
         NEW R \in [Rivit -> LiitosRivi \union {Nil}],
         NEW c \in Sopimukset, S[c] # Nil, NEW T, T[c].alkupvm = Alkupvm(S, R, c)
  PROVE  Alkupvm(T, R, c) = Alkupvm(S, R, c)
<1> DEFINE alut == {R[v].alkupvm : v \in Liitokset(R, c)}
           D == (alut \union {S[c].alkupvm}) \ {Nil}
           E == (alut \union {T[c].alkupvm}) \ {Nil}
<1>1. D \in SUBSET Paivat
  BY DEF Liitokset, SopimuksenRivit, LiitosRivi, SopimusRivi, Paiva
<1>2. /\ Alkupvm(S, R, c) = IF D = {} THEN Nil ELSE Pienin(D)
      /\ Alkupvm(T, R, c) = IF E = {} THEN Nil ELSE Pienin(E)
  BY DEF Alkupvm
<1>3. CASE D = {}
  <2>1. E = {}
    BY <1>2, <1>3
  <2>2. QED
    BY <1>2, <1>3, <2>1
<1>4. CASE D # {}
  <2> DEFINE a == Pienin(D)
  <2>1. a \in D /\ \A d \in D : a <= d
    <3> HIDE DEF D
    <3>1. QED
      BY <1>1, <1>4, PieninOlemassa
  <2>2. a \in E /\ E \subseteq D
    BY <1>2, <1>4, <2>1
  <2> HIDE DEF D, E
  <2>3. E \in SUBSET Paivat
    BY <1>1, <2>2
  <2>4. Pienin(E) \in E /\ \A d \in E : Pienin(E) <= d
    BY <2>2, <2>3, PieninOlemassa
  <2>5. a <= Pienin(E) /\ Pienin(E) <= a /\ a \in Nat /\ Pienin(E) \in Nat
    BY <1>1, <2>1, <2>2, <2>3, <2>4, PaivatAssumption
  <2>6. Pienin(E) = a
    BY <2>5
  <2>7. QED
    BY <1>2, <1>4, <2>2, <2>6
<1>5. QED
  BY <1>3, <1>4

\* A statement of a nightly run leaves what it has read and written the days as committed.
LEMMA EraajoOma ==
  ASSUME Induktiivinen, NEW p \in Tapahtumat, EraajoOK(tx[p]), NEW u, OmaAskel(p, tx[p], u)
  PROVE  EraajoOK(u)
<1> DEFINE t == tx[p]
           c == t.sopimus
<1>1. /\ t \in Tx /\ KohteetOK(t) /\ VaiheOK(p, t)
      /\ OmatSopimukset(p) = Paalle(t.sopimukset, sopimus)
      /\ OmatRivit(p) = Paalle(t.liitokset, rivi)
      /\ OmatRivit(p) \in [Rivit -> LiitosRivi \union {Nil}]
      /\ sopimus \in [Sopimukset -> SopimusRivi \union {Nil}]
      /\ rivi \in [Rivit -> LiitosRivi \union {Nil}]
  BY Tilanne
<1> SUFFICES ASSUME u.toiminto = "eraajo"
             PROVE  /\ u.vaihe = "kirjaus" =>
                         u.luettu = <<Alkupvm(sopimus, rivi, u.sopimus), Loppupvm(rivi, u.sopimus)>>
                    /\ \A d \in Sopimukset : u.sopimukset[d] # Nil =>
                         /\ u.sopimukset[d].alkupvm = Alkupvm(sopimus, rivi, d)
                         /\ u.sopimukset[d].loppupvm = Loppupvm(rivi, d)
  BY DEF EraajoOK
<1>2. CASE u = Vapaa \/ Alkanut(p, u)
  BY <1>2 DEF Vapaa, Alkanut
<1>3. CASE Lukenut(p, t, u)
  <2>1. t.toiminto = "eraajo" /\ u.sopimus = c /\ u.sopimukset = t.sopimukset
    BY <1>3 DEF Lukenut
  <2>2. ASSUME u.vaihe = "kirjaus"
        PROVE  u.luettu = <<Alkupvm(sopimus, rivi, c), Loppupvm(rivi, c)>>
    <3>1. /\ c # Nil
          /\ u.luettu = <<Alkupvm(OmatSopimukset(p), OmatRivit(p), c), Loppupvm(OmatRivit(p), c)>>
      BY <1>3, <2>2 DEF Lukenut
    <3>2. OmatRivit(p) = rivi
      <4>1. \A v \in Rivit : OmatRivit(p)[v] = rivi[v]
        BY <1>1, <2>1 DEF Paalle, VaiheOK
      <4>2. QED
        BY <1>1, <4>1
    <3>3. c \in Sopimukset /\ sopimus[c] # Nil
      BY <1>1, <3>1, TxKentat DEF KohteetOK
    <3>4. OmatSopimukset(p)[c] = IF t.sopimukset[c] # Nil THEN t.sopimukset[c] ELSE sopimus[c]
      BY <1>1, <3>3 DEF Paalle
    <3>5. CASE t.sopimukset[c] # Nil
      <4>1. OmatSopimukset(p)[c].alkupvm = Alkupvm(sopimus, rivi, c)
        BY <2>1, <3>3, <3>4, <3>5 DEF EraajoOK
      <4>2. Alkupvm(OmatSopimukset(p), rivi, c) = Alkupvm(sopimus, rivi, c)
        BY <1>1, <3>3, <4>1, AlkupvmToistuu
      <4>3. QED
        BY <3>1, <3>2, <4>2
    <3>6. CASE t.sopimukset[c] = Nil
      <4>1. Alkupvm(OmatSopimukset(p), rivi, c) = Alkupvm(sopimus, rivi, c)
        BY <3>4, <3>6 DEF Alkupvm
      <4>2. QED
        BY <3>1, <3>2, <4>1
    <3>7. QED
      BY <3>5, <3>6
  <2>3. QED
    BY <2>1, <2>2 DEF EraajoOK
<1>4. CASE Edennyt(t, u)
  BY <1>4 DEF Edennyt, EraajoOK
<1>5. CASE KirjannutSopimuksen(p, t, u)
  <2>1. /\ c \in Sopimukset /\ t.toiminto = "eraajo" /\ u.vaihe # "kirjaus"
        /\ \A d \in Sopimukset \ {c} : u.sopimukset[d] = t.sopimukset[d]
        /\ t.vaihe \in {"kirjaus", "voimassaolo"}
        /\ t.vaihe = "kirjaus" => /\ u.sopimukset[c].alkupvm = t.luettu[1]
                                  /\ u.sopimukset[c].loppupvm = t.luettu[2]
        /\ t.vaihe = "voimassaolo" => /\ t.sopimukset[c] # Nil
                                      /\ u.sopimukset[c].alkupvm = t.sopimukset[c].alkupvm
                                      /\ u.sopimukset[c].loppupvm = t.sopimukset[c].loppupvm
    BY <1>5 DEF KirjannutSopimuksen
  <2>2. /\ u.sopimukset[c].alkupvm = Alkupvm(sopimus, rivi, c)
        /\ u.sopimukset[c].loppupvm = Loppupvm(rivi, c)
    BY <2>1 DEF EraajoOK
  <2>3. ASSUME NEW d \in Sopimukset, d # c, u.sopimukset[d] # Nil
        PROVE  /\ u.sopimukset[d].alkupvm = Alkupvm(sopimus, rivi, d)
               /\ u.sopimukset[d].loppupvm = Loppupvm(rivi, d)
    BY <2>1, <2>3 DEF EraajoOK
  <2>4. QED
    BY <2>1, <2>2, <2>3
<1>6. CASE KirjannutRivit(p, t, u)
  BY <1>1, <1>6 DEF KirjannutRivit, VaiheOK
<1>7. CASE Lisannyt(t, u)
  BY <1>7 DEF Lisannyt
<1>8. QED
  BY <1>2, <1>3, <1>4, <1>5, <1>6, <1>7 DEF OmaAskel

\* So does the commit of another: of a nightly run, which writes the very same days, or
\* of a request on another agreement.
LEMMA EraajoMuut ==
  ASSUME Induktiivinen, Kirjoitetut, LuennatErillaan, \A e \in Tapahtumat : EraajoOK(tx[e]),
         NEW p \in Tapahtumat, NEW q \in Tapahtumat, p # q, Vahvista(q)
  PROVE  EraajoOK(tx[p])'
<1> DEFINE t == tx[p]
           c == t.sopimus
<1>1. /\ t \in Tx /\ VaiheOK(p, t) /\ VaiheOK(q, tx[q]) /\ KohteetOK(t) /\ tx'[p] = t
      /\ KirjoitetutOK(q, tx[q]) /\ tx[q].vaihe = "valmis"
      /\ sopimus \in [Sopimukset -> SopimusRivi \union {Nil}]
      /\ rivi \in [Rivit -> LiitosRivi \union {Nil}]
  BY Tilanne, VahvistusNakyy DEF Kirjoitetut, Vahvista
<1>2. ASSUME NEW d \in Sopimukset, t.sopimukset[d] # Nil
      PROVE  Alkupvm(sopimus', rivi', d) = Alkupvm(sopimus, rivi, d) /\ Loppupvm(rivi', d) = Loppupvm(rivi, d)
  <2>1. /\ sopimus'[d] = sopimus[d]
        /\ \A v \in Rivit : \/ rivi[v] = rivi'[v]
                            \/ v \notin SopimuksenRivit(rivi, d) /\ v \notin SopimuksenRivit(rivi', d)
    BY <1>2, VahvistusNakyy
  <2>2. QED
    BY <2>1, PaivatSamat
<1>3. ASSUME t.toiminto = "eraajo", t.vaihe = "kirjaus"
      PROVE  Alkupvm(sopimus', rivi', c) = Alkupvm(sopimus, rivi, c) /\ Loppupvm(rivi', c) = Loppupvm(rivi, c)
  <2>1. c \in Sopimukset /\ sopimus[c] # Nil /\ p \in Eraajot
    BY <1>1, <1>3, TxKentat DEF VaiheOK, KohteetOK, Tapahtumat
  <2>2. /\ sopimus'[c] = IF tx[q].sopimukset[c] # Nil THEN tx[q].sopimukset[c] ELSE sopimus[c]
        /\ rivi' \in [Rivit -> LiitosRivi \union {Nil}]
        /\ \A v \in Rivit :
             /\ rivi'[v] = IF tx[q].liitokset[v] # Nil THEN tx[q].liitokset[v] ELSE rivi[v]
             /\ tx[q].liitokset[v] # Nil =>
                  /\ tx[q].toiminto \notin {"ei", "eraajo"}
                  /\ tx[q].liitokset[v].sopimus = tx[q].sopimus
                  /\ rivi[v] # Nil => rivi[v].sopimus = tx[q].sopimus
    BY <2>1, VahvistaTaulut
  <2>3. CASE tx[q].toiminto = "eraajo"
    <3>1. rivi' = rivi
      BY <1>1, <2>2, <2>3
    <3>2. CASE tx[q].sopimukset[c] # Nil
      <4>1. sopimus'[c].alkupvm = Alkupvm(sopimus, rivi, c)
        BY <2>1, <2>2, <2>3, <3>2 DEF EraajoOK
      <4>2. Alkupvm(sopimus', rivi, c) = Alkupvm(sopimus, rivi, c)
        BY <1>1, <2>1, <4>1, AlkupvmToistuu
      <4>3. QED
        BY <3>1, <4>2
    <3>3. CASE tx[q].sopimukset[c] = Nil
      BY <2>2, <3>1, <3>3, PaivatSamat
    <3>4. QED
      BY <3>2, <3>3
  <2>4. CASE tx[q].toiminto # "eraajo"
    <3>1. q \in Pyynnot
      BY <1>1, <2>4 DEF KirjoitetutOK, VaiheOK, Tapahtumat
    <3>2. tx[q].sopimus # c
      BY <1>3, <2>1, <3>1 DEF LuennatErillaan
    <3>3. sopimus'[c] = sopimus[c]
      BY <1>1, <2>1, <2>2, <2>4, <3>2 DEF VaiheOK
    <3>4. \A v \in Rivit : \/ rivi[v] = rivi'[v]
                           \/ v \notin SopimuksenRivit(rivi, c) /\ v \notin SopimuksenRivit(rivi', c)
      BY <2>2, <3>2 DEF SopimuksenRivit
    <3>5. QED
      BY <3>3, <3>4, PaivatSamat
  <2>5. QED
    BY <2>3, <2>4
<1>4. EraajoOK(t)
  OBVIOUS
<1>5. QED
  BY <1>1, <1>2, <1>3, <1>4 DEF EraajoOK

\* Every step leaves what nightly runs have read and written the days as committed.
LEMMA EraajoAskel ==
  ASSUME Induktiivinen, Kirjoitetut, LuennatErillaan, \A e \in Tapahtumat : EraajoOK(tx[e]),
         [Next]_vars, NEW p \in Tapahtumat
  PROVE  EraajoOK(tx[p])'
<1>1. /\ EraajoOK(tx[p]) /\ KohteetOK(tx[p]) /\ VaiheOK(p, tx[p]) /\ tx[p] \in Tx
      /\ tx \in [Tapahtumat -> Tx] /\ sopimus \in [Sopimukset -> SopimusRivi \union {Nil}]
  BY Tilanne DEF Induktiivinen, TyyppiOK
<1>2. CASE UNCHANGED <<sopimus, rivi, tx>>
  BY <1>1, <1>2 DEF EraajoOK
<1>3. ASSUME NEW q \in Tapahtumat, Askeltaa(q)
      PROVE  EraajoOK(tx[p])'
  <2>1. EraajoOK(tx'[p])
    BY <1>1, <1>3, EraajoOma DEF Askeltaa
  <2>2. QED
    BY <1>3, <2>1 DEF Askeltaa, EraajoOK
<1>4. ASSUME NEW q \in Tapahtumat, Vahvista(q)
      PROVE  EraajoOK(tx[p])'
  <2>1. CASE p = q
    <3>1. tx'[p] = Vapaa
      BY <1>1, <1>4, <2>1 DEF Vahvista
    <3>2. QED
      BY <3>1 DEF EraajoOK, Vapaa
  <2>2. CASE p # q
    BY <1>4, <2>2, EraajoMuut
  <2>3. QED
    BY <2>1, <2>2
<1>5. ASSUME NEW c \in Sopimukset, NEW k \in Toimikunnat, Lisaa(c, k)
      PROVE  EraajoOK(tx[p])'
  <2>1. /\ rivi' = rivi /\ tx' = tx
        /\ \A d \in Sopimukset : sopimus[d] # Nil => sopimus'[d] = sopimus[d]
    BY <1>1, <1>5 DEF Lisaa
  <2>2. \A d \in Sopimukset : sopimus[d] # Nil => Alkupvm(sopimus', rivi, d) = Alkupvm(sopimus, rivi, d)
    BY <2>1 DEF Alkupvm
  <2>3. \A d \in Sopimukset : tx[p].sopimukset[d] # Nil => sopimus[d] # Nil
    BY <1>1 DEF KohteetOK
  <2>4. tx[p].vaihe = "kirjaus" => tx[p].sopimus \in Sopimukset /\ sopimus[tx[p].sopimus] # Nil
    BY <1>1, TxKentat DEF KohteetOK, VaiheOK
  <2>5. QED
    BY <1>1, <2>1, <2>2, <2>3, <2>4 DEF EraajoOK
<1>6. QED
  BY <1>2, <1>3, <1>4, <1>5, Askeleet

\* What nightly runs have read and written stays the days as committed, when no request
\* works on an agreement whose days one has read.
LEMMA EraajoAina == Spec /\ []LuennatErillaan => [](\A p \in Tapahtumat : EraajoOK(tx[p]))
<1> DEFINE Sailyva == \A p \in Tapahtumat : EraajoOK(tx[p])
<1>1. Init => Sailyva
  BY DEF Init, EraajoOK, Vapaa
<1>2. Induktiivinen /\ Kirjoitetut /\ LuennatErillaan /\ Sailyva /\ [Next]_vars => Sailyva'
  BY EraajoAskel
<1>3. QED
  BY <1>1, <1>2, Pysyvyys, KirjoitetutAina, PTL DEF Spec

\* What the commit of a nightly run writes.
LEMMA EraajoVahvistaa ==
  ASSUME Induktiivinen, NEW p \in Tapahtumat, Vahvista(p), EraajoOK(tx[p]),
         tx[p].toiminto = "eraajo", NEW c \in Sopimukset, tx[p].sopimukset[c] # Nil
  PROVE  /\ EiMyohemmin(sopimus'[c].alkupvm, sopimus[c].alkupvm)
         /\ Kattaa(sopimus'[c].alkupvm, sopimus'[c].loppupvm, rivi', c)
<1>1. /\ sopimus'[c] = tx[p].sopimukset[c] /\ sopimus[c] # Nil
      /\ rivi' \in [Rivit -> LiitosRivi \union {Nil}]
      /\ \A v \in Rivit :
           /\ rivi'[v] = IF tx[p].liitokset[v] # Nil THEN tx[p].liitokset[v] ELSE rivi[v]
           /\ tx[p].liitokset[v] # Nil => tx[p].toiminto \notin {"ei", "eraajo"}
  BY VahvistaTaulut
<1>2. /\ rivi \in [Rivit -> LiitosRivi \union {Nil}]
      /\ sopimus \in [Sopimukset -> SopimusRivi \union {Nil}]
  BY DEF Induktiivinen, TyyppiOK
<1>3. rivi' = rivi
  BY <1>1, <1>2
<1>4. sopimus'[c].alkupvm = Alkupvm(sopimus, rivi, c) /\ sopimus'[c].loppupvm = Loppupvm(rivi, c)
  BY <1>1 DEF EraajoOK
<1>5. /\ EiMyohemmin(Alkupvm(sopimus, rivi, c), sopimus[c].alkupvm)
      /\ Kattaa(Alkupvm(sopimus, rivi, c), Loppupvm(rivi, c), rivi, c)
  BY <1>1, <1>2, PaivatKattavat
<1>6. QED
  BY <1>3, <1>4, <1>5

\* A step keeps the period of every agreement that of its rows.
LEMMA PaivatAskel ==
  ASSUME Induktiivinen, PaivatRiveista, \A p \in Tapahtumat : EraajoOK(tx[p]), [Next]_vars
  PROVE  PaivatRiveista'
<1> SUFFICES ASSUME NEW c \in Sopimukset, sopimus'[c] # Nil, ~ sopimus'[c].poistettu
             PROVE  Kattaa(sopimus'[c].alkupvm, sopimus'[c].loppupvm, rivi', c)
  BY DEF PaivatRiveista, Olemassa, PaivatOikein
<1>1. ASSUME sopimus[c] # Nil, ~ sopimus[c].poistettu
      PROVE  Kattaa(sopimus[c].alkupvm, sopimus[c].loppupvm, rivi, c)
  BY <1>1 DEF PaivatRiveista, Olemassa, PaivatOikein
<1>2. CASE UNCHANGED <<sopimus, rivi>>
  BY <1>1, <1>2
<1>3. ASSUME NEW d \in Sopimukset, NEW k \in Toimikunnat, Lisaa(d, k)
      PROVE  Kattaa(sopimus'[c].alkupvm, sopimus'[c].loppupvm, rivi', c)
  <2>1. /\ sopimus \in [Sopimukset -> SopimusRivi \union {Nil}] /\ RivienSopimukset
        /\ rivi \in [Rivit -> LiitosRivi \union {Nil}]
    BY DEF Induktiivinen, TyyppiOK
  <2>2. CASE c = d
    <3>1. sopimus'[c].loppupvm = Nil /\ rivi' = rivi /\ sopimus[c] = Nil
      BY <1>3, <2>1, <2>2 DEF Lisaa
    <3>2. Liitokset(rivi, c) = {}
      BY <2>1, <3>1 DEF RivienSopimukset, Liitokset, SopimuksenRivit
    <3>3. QED
      BY <3>1, <3>2 DEF Kattaa
  <2>3. CASE c # d
    <3>1. sopimus'[c] = sopimus[c] /\ rivi' = rivi
      BY <1>3, <2>1, <2>3 DEF Lisaa
    <3>2. QED
      BY <1>1, <3>1
  <2>4. QED
    BY <2>2, <2>3
<1>4. ASSUME NEW p \in Tapahtumat, Vahvista(p)
      PROVE  Kattaa(sopimus'[c].alkupvm, sopimus'[c].loppupvm, rivi', c)
  <2> DEFINE t == tx[p]
  <2>1. /\ VaiheOK(p, t) /\ KirjoituksetOK(t) /\ t.vaihe = "valmis"
    BY <1>4, Tilanne DEF Vahvista
  <2>2. t.toiminto \notin {"ei", "eraajo"} => t.sopimukset[t.sopimus] # Nil
    BY <2>1 DEF VaiheOK, LukkoPidossa
  <2>3. /\ rivi' = Paalle(t.liitokset, rivi)
        /\ sopimus'[c] = IF t.sopimukset[c] # Nil THEN t.sopimukset[c] ELSE sopimus[c]
        /\ \A v \in Rivit :
             /\ rivi'[v] = IF t.liitokset[v] # Nil THEN t.liitokset[v] ELSE rivi[v]
             /\ t.liitokset[v] # Nil =>
                  /\ t.liitokset[v].sopimus = t.sopimus
                  /\ rivi[v] # Nil => rivi[v].sopimus = t.sopimus
    BY <1>4, VahvistaTaulut
  <2>4. CASE t.toiminto \notin {"ei", "eraajo"} /\ c = t.sopimus
    <3>1. sopimus'[c] = t.sopimukset[c] /\ t.toiminto # "poista"
      BY <2>1, <2>2, <2>3, <2>4 DEF VaiheOK, LukkoPidossa
    <3>2. QED
      BY <2>1, <2>2, <2>3, <2>4, <3>1 DEF KirjoituksetOK
  <2>5. CASE t.toiminto \notin {"ei", "eraajo"} /\ c # t.sopimus
    <3>1. sopimus'[c] = sopimus[c]
      BY <2>1, <2>3, <2>5 DEF VaiheOK
    <3>2. Kattaa(sopimus[c].alkupvm, sopimus[c].loppupvm, rivi, c)
      BY <1>1, <3>1
    <3>3. \A v \in Rivit : \/ rivi[v] = rivi'[v]
                           \/ v \notin SopimuksenRivit(rivi, c) /\ v \notin SopimuksenRivit(rivi', c)
      BY <2>3, <2>5 DEF SopimuksenRivit
    <3>4. Kattaa(sopimus[c].alkupvm, sopimus[c].loppupvm, rivi', c)
      BY <3>2, <3>3, KattaaSama
    <3>5. QED
      BY <3>1, <3>4
  <2>6. CASE t.toiminto = "eraajo"
    <3>1. CASE t.sopimukset[c] # Nil
      BY <1>4, <2>6, <3>1, EraajoVahvistaa
    <3>2. CASE t.sopimukset[c] = Nil
      <4>1. sopimus'[c] = sopimus[c] /\ \A v \in Rivit : rivi'[v] = rivi[v]
        BY <2>1, <2>3, <2>6, <3>2 DEF VaiheOK
      <4>2. Kattaa(sopimus[c].alkupvm, sopimus[c].loppupvm, rivi, c)
        BY <1>1, <4>1
      <4>3. Kattaa(sopimus[c].alkupvm, sopimus[c].loppupvm, rivi', c)
        BY <4>1, <4>2, KattaaSama
      <4>4. QED
        BY <4>1, <4>3
    <3>3. QED
      BY <3>1, <3>2
  <2>7. QED
    BY <2>1, <2>4, <2>5, <2>6 DEF VaiheOK
<1>5. QED
  BY <1>2, <1>3, <1>4, Askeleet DEF Askeltaa

\* A step puts off the first day of no agreement.
LEMMA AlkuAskel ==
  ASSUME Induktiivinen, \A p \in Tapahtumat : EraajoOK(tx[p]), [Next]_vars,
         NEW c \in Sopimukset, sopimus[c] # Nil
  PROVE  EiMyohemmin(sopimus'[c].alkupvm, sopimus[c].alkupvm)
<1>1. /\ sopimus \in [Sopimukset -> SopimusRivi \union {Nil}]
      /\ sopimus[c].alkupvm \in Paiva
  BY DEF Induktiivinen, TyyppiOK, SopimusRivi
<1>2. ASSUME sopimus'[c] = sopimus[c]
      PROVE  EiMyohemmin(sopimus'[c].alkupvm, sopimus[c].alkupvm)
  BY <1>1, <1>2, EiMyohemminItse
<1>3. ASSUME NEW d \in Sopimukset, NEW k \in Toimikunnat, Lisaa(d, k)
      PROVE  sopimus'[c] = sopimus[c]
  BY <1>1, <1>3 DEF Lisaa
<1>4. ASSUME NEW p \in Tapahtumat, Vahvista(p)
      PROVE  EiMyohemmin(sopimus'[c].alkupvm, sopimus[c].alkupvm)
  <2>1. /\ VaiheOK(p, tx[p]) /\ KirjoituksetOK(tx[p]) /\ tx[p].vaihe = "valmis"
    BY <1>4, Tilanne DEF Vahvista
  <2>2. sopimus'[c] = IF tx[p].sopimukset[c] # Nil THEN tx[p].sopimukset[c] ELSE sopimus[c]
    BY <1>4, VahvistaTaulut
  <2>3. CASE tx[p].toiminto \notin {"ei", "eraajo"}
    BY <1>2, <2>1, <2>2, <2>3 DEF KirjoituksetOK
  <2>4. CASE tx[p].toiminto = "eraajo"
    BY <1>2, <1>4, <2>2, <2>4, EraajoVahvistaa
  <2>5. QED
    BY <2>1, <2>3, <2>4 DEF VaiheOK
<1>5. QED
  BY <1>2, <1>3, <1>4, Askeleet DEF Askeltaa

\* Requests, however many race on however many agreements, and nightly runs among them
\* keep the period of every agreement that of its rows, as long as no request works on an
\* agreement whose days a nightly run has read, without a lock, and not yet written.
THEOREM Kaudet == Spec /\ []LuennatErillaan => []PaivatRiveista
<1>1. Init => PaivatRiveista
  BY DEF Init, PaivatRiveista, Olemassa
<1>2. /\ PaivatRiveista /\ Induktiivinen /\ (\A p \in Tapahtumat : EraajoOK(tx[p]))
      /\ [Next]_vars
      => PaivatRiveista'
  BY PaivatAskel
<1>3. QED
  BY <1>1, <1>2, Pysyvyys, EraajoAina, PTL DEF Spec

\* Whatever nightly runs are under way, a PUT or POST that commits leaves the period of
\* its agreement that of the rows.
THEOREM PyynnonPaivat == Spec => PyyntoKorjaaPaivat
<1> DEFINE Askel == \A r \in Pyynnot, c \in Sopimukset :
      Vahvista(r) /\ tx[r].sopimus = c /\ tx[r].toiminto # "poista" => PaivatOikein(c)'
<1>1. ASSUME Induktiivinen, NEW r \in Pyynnot, NEW c \in Sopimukset, Vahvista(r),
             tx[r].sopimus = c, tx[r].toiminto # "poista"
      PROVE  PaivatOikein(c)'
  <2>1. r \in Tapahtumat
    BY DEF Tapahtumat
  <2>2. /\ VaiheOK(r, tx[r]) /\ KirjoituksetOK(tx[r]) /\ tx[r].vaihe = "valmis"
    BY <1>1, <2>1, Tilanne DEF Vahvista
  <2>3. tx[r].toiminto \notin {"ei", "eraajo"} /\ tx[r].sopimukset[c] # Nil
    BY <1>1, <2>2 DEF VaiheOK, LukkoPidossa
  <2>4. sopimus'[c] = tx[r].sopimukset[c] /\ rivi' = Paalle(tx[r].liitokset, rivi)
    BY <1>1, <2>1, <2>3, VahvistaTaulut
  <2>5. Kattaa(sopimus'[c].alkupvm, sopimus'[c].loppupvm, rivi', c)
    BY <1>1, <2>2, <2>3, <2>4 DEF KirjoituksetOK
  <2>6. QED
    BY <2>5 DEF PaivatOikein
<1>2. Induktiivinen /\ [Next]_vars => [Askel]_vars
  BY <1>1
<1>3. QED
  BY <1>2, Pysyvyys, PTL DEF Spec, PyyntoKorjaaPaivat

\* Nor does anything then put off the day an agreement begins.
THEOREM Alut == Spec /\ []LuennatErillaan => AlkuEiSiirryEteenpain
<1> DEFINE Askel == \A c \in Sopimukset :
      sopimus[c] # Nil => EiMyohemmin(sopimus'[c].alkupvm, sopimus[c].alkupvm)
<1>1. Induktiivinen /\ (\A p \in Tapahtumat : EraajoOK(tx[p])) /\ [Next]_vars => [Askel]_vars
  BY AlkuAskel
<1>2. QED
  BY <1>1, Pysyvyys, EraajoAina, PTL DEF Spec, AlkuEiSiirryEteenpain

-----------------------------------------------------------------------------
(* The validity of an agreement, when neither the day nor a term of office nor a *)
(* transition period changes                                                     *)

\* A transaction that is about to commit, or a nightly run from one agreement on, has
\* made the column voimassa of every agreement it has written what the rules say of the
\* agreement and the rows it sees.
VoimassaOK(t) ==
  \A d \in Sopimukset :
    /\ t.sopimukset[d] # Nil /\ ~ t.sopimukset[d].poistettu
    /\ t.vaihe = "valmis" \/ t.toiminto = "eraajo"
    /\ ~ (t.vaihe = "voimassaolo" /\ d = t.sopimus)
    => t.sopimukset[d].voimassa =
         Voimassa(Paalle(t.sopimukset, sopimus), Paalle(t.liitokset, rivi), d)

\* What the rules say of an agreement depends on its own columns but voimassa, and on
\* its rows, only.
LEMMA VoimassaSama ==
  ASSUME NEW S, NEW T, NEW R, NEW Q, NEW c,
         T[c].poistettu = S[c].poistettu, T[c].toimikunta = S[c].toimikunta,
         T[c].alkupvm = S[c].alkupvm, T[c].loppupvm = S[c].loppupvm,
         \A v \in Rivit : \/ R[v] = Q[v]
                          \/ v \notin SopimuksenRivit(R, c) /\ v \notin SopimuksenRivit(Q, c)
  PROVE  Voimassa(T, Q, c) = Voimassa(S, R, c)
<1>1. LiitetytVersiot(Q, c) = LiitetytVersiot(R, c)
  <2>1. Liitokset(Q, c) = Liitokset(R, c) /\ \A v \in Liitokset(R, c) : Q[v] = R[v]
    BY DEF Liitokset, SopimuksenRivit
  <2>2. QED
    BY <2>1 DEF LiitetytVersiot
<1>2. QED
  BY <1>1 DEF Voimassa

\* A statement of p leaves what p has made of voimassa right.
LEMMA VoimassaOma ==
  ASSUME Induktiivinen, NEW p \in Tapahtumat, VoimassaOK(tx[p]), NEW u, OmaAskel(p, tx[p], u)
  PROVE  VoimassaOK(u)
<1> DEFINE t == tx[p]
           c == t.sopimus
           S == Paalle(t.sopimukset, sopimus)
           T == Paalle(u.sopimukset, sopimus)
           R == Paalle(t.liitokset, rivi)
           Q == Paalle(u.liitokset, rivi)
<1>1. /\ t \in Tx /\ KohteetOK(t) /\ VaiheOK(p, t)
      /\ OmatSopimukset(p) = S /\ OmatRivit(p) = R
      /\ sopimus \in [Sopimukset -> SopimusRivi \union {Nil}]
  BY Tilanne
<1>2. \A d \in Sopimukset :
        /\ S[d] = IF t.sopimukset[d] # Nil THEN t.sopimukset[d] ELSE sopimus[d]
        /\ T[d] = IF u.sopimukset[d] # Nil THEN u.sopimukset[d] ELSE sopimus[d]
  BY <1>1 DEF Paalle
<1> SUFFICES ASSUME NEW d \in Sopimukset,
                    u.sopimukset[d] # Nil, ~ u.sopimukset[d].poistettu,
                    u.vaihe = "valmis" \/ u.toiminto = "eraajo",
                    ~ (u.vaihe = "voimassaolo" /\ d = u.sopimus)
             PROVE  u.sopimukset[d].voimassa = Voimassa(T, Q, d)
  BY DEF VoimassaOK
<1>3. ASSUME u.sopimukset = t.sopimukset, u.liitokset = t.liitokset, t.toiminto = "eraajo",
             t.vaihe # "voimassaolo"
      PROVE  u.sopimukset[d].voimassa = Voimassa(T, Q, d)
  BY <1>3 DEF VoimassaOK
<1>4. CASE u = Vapaa \/ Alkanut(p, u)
  BY <1>4 DEF Vapaa, Alkanut
<1>5. CASE Lukenut(p, t, u) \/ Edennyt(t, u)
  BY <1>3, <1>5 DEF Lukenut, Edennyt
<1>6. CASE KirjannutSopimuksen(p, t, u)
  <2>1. /\ c \in Sopimukset /\ u.liitokset = t.liitokset /\ u.toiminto = t.toiminto
        /\ \A e \in Sopimukset \ {c} : u.sopimukset[e] = t.sopimukset[e]
        /\ u.sopimukset[c] # Nil
    BY <1>6 DEF KirjannutSopimuksen
  <2>2. CASE d = c
    <3>1. t.vaihe = "voimassaolo"
      BY <1>6, <2>2 DEF KirjannutSopimuksen
    <3>2. /\ t.sopimukset[c] # Nil
          /\ u.sopimukset[c].toimikunta = t.sopimukset[c].toimikunta
          /\ u.sopimukset[c].alkupvm = t.sopimukset[c].alkupvm
          /\ u.sopimukset[c].loppupvm = t.sopimukset[c].loppupvm
          /\ u.sopimukset[c].voimassa = (Olemassa(S, c) /\ Voimassa(S, R, c))
      BY <1>1, <1>6, <3>1 DEF KirjannutSopimuksen
    <3>3. u.sopimukset[c].poistettu = (t.toiminto = "poista" \/ S[c].poistettu)
      BY <1>1, <1>6 DEF KirjannutSopimuksen
    <3>4. T[c] = u.sopimukset[c] /\ S[c] = t.sopimukset[c]
      BY <1>2, <2>1, <3>2
    <3>5. t.toiminto # "poista" /\ t.sopimukset[c] \in SopimusRivi
      BY <1>1, <2>1, <3>1, <3>2 DEF VaiheOK, Tx
    <3>6. S[c].poistettu \in BOOLEAN
      BY <3>4, <3>5 DEF SopimusRivi
    <3>7. T[c].poistettu = S[c].poistettu /\ Olemassa(S, c)
      BY <2>2, <3>2, <3>3, <3>4, <3>5, <3>6 DEF Olemassa
    <3>8. Voimassa(T, R, c) = Voimassa(S, R, c)
      <4> HIDE DEF S, T, R
      <4>1. QED
        BY <3>2, <3>4, <3>7, VoimassaSama
    <3>9. Voimassa(S, R, c) \in BOOLEAN
      BY DEF Voimassa
    <3>10. QED
      BY <2>1, <2>2, <3>2, <3>7, <3>8, <3>9
  <2>3. CASE d # c
    <3>1. u.sopimukset[d] = t.sopimukset[d] /\ T[d] = S[d]
      BY <1>2, <2>1, <2>3
    <3>2. t.toiminto = "eraajo"
      <4>1. t.vaihe # "vapaa"
        BY <1>6 DEF KirjannutSopimuksen
      <4>2. QED
        BY <1>1, <2>3, <3>1, <4>1 DEF VaiheOK
    <3>3. t.sopimukset[d].voimassa = Voimassa(S, R, d)
      BY <2>3, <3>1, <3>2 DEF VoimassaOK
    <3>4. Voimassa(T, R, d) = Voimassa(S, R, d)
      <4> HIDE DEF S, T, R
      <4>1. QED
        BY <3>1, VoimassaSama
    <3>5. QED
      BY <2>1, <3>1, <3>3, <3>4
  <2>4. QED
    BY <2>2, <2>3
<1>7. CASE KirjannutRivit(p, t, u)
  <2>1. t.toiminto = "poista" /\ u.sopimukset = t.sopimukset
    BY <1>1, <1>7 DEF KirjannutRivit, VaiheOK
  <2>2. t.sopimukset[d].poistettu
    BY <1>1, <1>7, <2>1 DEF KirjannutRivit, VaiheOK, LukkoPidossa
  <2>3. QED
    BY <2>1, <2>2
<1>8. CASE Lisannyt(t, u)
  BY <1>8 DEF Lisannyt
<1>9. QED
  BY <1>4, <1>5, <1>6, <1>7, <1>8 DEF OmaAskel

\* So does the commit of another transaction: it writes neither the agreements this one
\* has locked nor their rows.
LEMMA VoimassaMuut ==
  ASSUME Induktiivinen, NEW p \in Tapahtumat, VoimassaOK(tx[p]),
         NEW q \in Tapahtumat, p # q, Vahvista(q)
  PROVE  VoimassaOK(tx[p])'
<1> DEFINE t == tx[p]
           S == Paalle(t.sopimukset, sopimus)
           T == Paalle(t.sopimukset, sopimus')
           R == Paalle(t.liitokset, rivi)
           Q == Paalle(t.liitokset, rivi')
<1>1. /\ tx'[p] = t /\ UNCHANGED ymparisto
      /\ sopimus \in [Sopimukset -> SopimusRivi \union {Nil}]
      /\ sopimus' \in [Sopimukset -> SopimusRivi \union {Nil}]
  BY VahvistusNakyy, VahvistaTaulut DEF Vahvista, Induktiivinen, TyyppiOK
<1>2. ASSUME NEW d \in Sopimukset, t.sopimukset[d] # Nil
      PROVE  Voimassa(T, Q, d) = Voimassa(S, R, d)
  <2>1. \A v \in Rivit : \/ R[v] = Q[v]
                         \/ v \notin SopimuksenRivit(R, d) /\ v \notin SopimuksenRivit(Q, d)
    BY <1>2, VahvistusNakyy
  <2>2. T[d] = S[d]
    BY <1>1, <1>2 DEF Paalle
  <2> HIDE DEF S, T, R, Q
  <2>3. QED
    BY <2>1, <2>2, VoimassaSama
<1>3. VoimassaOK(t)' <=>
        \A d \in Sopimukset :
          /\ t'.sopimukset[d] # Nil /\ ~ t'.sopimukset[d].poistettu
          /\ t'.vaihe = "valmis" \/ t'.toiminto = "eraajo"
          /\ ~ (t'.vaihe = "voimassaolo" /\ d = t'.sopimus)
          => t'.sopimukset[d].voimassa =
               Voimassa(Paalle(t'.sopimukset, sopimus'), Paalle(t'.liitokset, rivi'), d)
  BY <1>1 DEF VoimassaOK, Voimassa, Sisaltaa, ymparisto
<1>4. QED
  BY <1>1, <1>2, <1>3 DEF VoimassaOK

\* Every step does, as long as the day and what others decide stay as they are.
LEMMA VoimassaOKAskel ==
  ASSUME Induktiivinen, NEW p \in Tapahtumat, VoimassaOK(tx[p]), [Next]_vars, UNCHANGED ymparisto
  PROVE  VoimassaOK(tx[p])'
<1>1. /\ KohteetOK(tx[p]) /\ tx \in [Tapahtumat -> Tx]
      /\ sopimus \in [Sopimukset -> SopimusRivi \union {Nil}]
  BY Tilanne DEF Induktiivinen, TyyppiOK
<1>2. ASSUME UNCHANGED <<sopimus, rivi>>, VoimassaOK(tx'[p])
      PROVE  VoimassaOK(tx[p])'
  BY <1>2 DEF VoimassaOK, Voimassa, Sisaltaa, ymparisto
<1>3. CASE UNCHANGED <<sopimus, rivi, tx>>
  BY <1>2, <1>3
<1>4. ASSUME NEW q \in Tapahtumat, Askeltaa(q)
      PROVE  VoimassaOK(tx[p])'
  <2>1. VoimassaOK(tx'[p])
    BY <1>4, VoimassaOma DEF Askeltaa
  <2>2. QED
    BY <1>2, <1>4, <2>1 DEF Askeltaa
<1>5. ASSUME NEW q \in Tapahtumat, Vahvista(q)
      PROVE  VoimassaOK(tx[p])'
  <2>1. CASE p = q
    <3>1. tx'[p] = Vapaa
      BY <1>1, <1>5, <2>1 DEF Vahvista
    <3>2. QED
      BY <3>1 DEF VoimassaOK, Vapaa
  <2>2. CASE p # q
    BY <1>5, <2>2, VoimassaMuut
  <2>3. QED
    BY <2>1, <2>2
<1>6. ASSUME NEW c \in Sopimukset, NEW k \in Toimikunnat, Lisaa(c, k)
      PROVE  VoimassaOK(tx[p])'
  <2>1. rivi' = rivi /\ tx' = tx
    BY <1>6 DEF Lisaa
  <2>2. ASSUME NEW d \in Sopimukset, tx[p].sopimukset[d] # Nil
        PROVE  Voimassa(Paalle(tx[p].sopimukset, sopimus'), Paalle(tx[p].liitokset, rivi), d)
                 = Voimassa(Paalle(tx[p].sopimukset, sopimus), Paalle(tx[p].liitokset, rivi), d)
    <3>1. Paalle(tx[p].sopimukset, sopimus')[d] = Paalle(tx[p].sopimukset, sopimus)[d]
      BY <1>1, <1>6, <2>2 DEF Paalle, Lisaa
    <3>2. QED
      BY <3>1, VoimassaSama
  <2>3. \A d \in Sopimukset :
          /\ tx'[p].sopimukset[d] # Nil /\ ~ tx'[p].sopimukset[d].poistettu
          /\ tx'[p].vaihe = "valmis" \/ tx'[p].toiminto = "eraajo"
          /\ ~ (tx'[p].vaihe = "voimassaolo" /\ d = tx'[p].sopimus)
          => tx'[p].sopimukset[d].voimassa =
               Voimassa(Paalle(tx'[p].sopimukset, sopimus'), Paalle(tx'[p].liitokset, rivi'), d)
    BY <2>1, <2>2 DEF VoimassaOK
  <2>4. QED
    BY <2>3 DEF VoimassaOK, Voimassa, Sisaltaa, ymparisto
<1>7. QED
  BY <1>3, <1>4, <1>5, <1>6, Askeleet

\* A step keeps the column voimassa of every agreement what the rules say.
LEMMA VoimassaAskel ==
  ASSUME Induktiivinen, NEW c \in Sopimukset, Olemassa(sopimus, c) => VoimassaOikein(c),
         \A p \in Tapahtumat : VoimassaOK(tx[p]), [Next]_vars, UNCHANGED ymparisto,
         sopimus'[c] # Nil, ~ sopimus'[c].poistettu
  PROVE  sopimus'[c].voimassa = Voimassa(sopimus', rivi', c)
<1>1. /\ sopimus \in [Sopimukset -> SopimusRivi \union {Nil}]
      /\ rivi \in [Rivit -> LiitosRivi \union {Nil}]
  BY DEF Induktiivinen, TyyppiOK
<1>2. ASSUME sopimus'[c] = sopimus[c],
             \A v \in Rivit : \/ rivi[v] = rivi'[v]
                              \/ /\ v \notin SopimuksenRivit(rivi, c)
                                 /\ v \notin SopimuksenRivit(rivi', c)
      PROVE  sopimus'[c].voimassa = Voimassa(sopimus', rivi', c)
  <2>1. sopimus[c].voimassa = Voimassa(sopimus, rivi, c)
    BY <1>2 DEF Olemassa, VoimassaOikein
  <2>2. Voimassa(sopimus', rivi', c) = Voimassa(sopimus, rivi, c)
    BY <1>2, VoimassaSama
  <2>3. QED
    BY <1>2, <2>1, <2>2
<1>3. CASE UNCHANGED <<sopimus, rivi>>
  BY <1>2, <1>3
<1>4. ASSUME NEW d \in Sopimukset, NEW k \in Toimikunnat, Lisaa(d, k)
      PROVE  sopimus'[c].voimassa = Voimassa(sopimus', rivi', c)
  <2>1. CASE c = d
    <3>1. sopimus'[c].alkupvm = Nil /\ sopimus'[c].voimassa = FALSE
      BY <1>1, <1>4, <2>1 DEF Lisaa
    <3>2. QED
      BY <3>1 DEF Voimassa
  <2>2. CASE c # d
    <3>1. sopimus'[c] = sopimus[c] /\ rivi' = rivi
      BY <1>1, <1>4, <2>2 DEF Lisaa
    <3>2. QED
      BY <1>2, <3>1
  <2>3. QED
    BY <2>1, <2>2
<1>5. ASSUME NEW p \in Tapahtumat, Vahvista(p)
      PROVE  sopimus'[c].voimassa = Voimassa(sopimus', rivi', c)
  <2> DEFINE t == tx[p]
  <2>1. /\ sopimus' = Paalle(t.sopimukset, sopimus) /\ rivi' = Paalle(t.liitokset, rivi)
        /\ sopimus'[c] = IF t.sopimukset[c] # Nil THEN t.sopimukset[c] ELSE sopimus[c]
        /\ \A v \in Rivit :
             /\ rivi'[v] = IF t.liitokset[v] # Nil THEN t.liitokset[v] ELSE rivi[v]
             /\ t.liitokset[v] # Nil =>
                  /\ t.toiminto \notin {"ei", "eraajo"}
                  /\ t.sopimukset[t.sopimus] # Nil
                  /\ t.liitokset[v].sopimus = t.sopimus
                  /\ rivi[v] # Nil => rivi[v].sopimus = t.sopimus
    BY <1>5, VahvistaTaulut, Tilanne DEF Vahvista
  <2>2. t.vaihe = "valmis"
    BY <1>5 DEF Vahvista
  <2>3. CASE t.sopimukset[c] # Nil
    <3>1. t.sopimukset[c].voimassa
            = Voimassa(Paalle(t.sopimukset, sopimus), Paalle(t.liitokset, rivi), c)
      BY <2>1, <2>2, <2>3 DEF VoimassaOK
    <3>2. QED
      BY <2>1, <2>3, <3>1
  <2>4. CASE t.sopimukset[c] = Nil
    <3>1. \A v \in Rivit : \/ rivi[v] = rivi'[v]
                           \/ v \notin SopimuksenRivit(rivi, c) /\ v \notin SopimuksenRivit(rivi', c)
      BY <2>1, <2>4 DEF SopimuksenRivit
    <3>2. QED
      BY <1>2, <2>1, <2>4, <3>1
  <2>5. QED
    BY <2>3, <2>4
<1>6. QED
  BY <1>3, <1>4, <1>5, Askeleet DEF Askeltaa

\* Requests and nightly runs, however they overlap, commit no column voimassa that the
\* rules do not give: it is wrong only when the day, a term of office or a transition
\* period has changed, and a nightly run whose days are stale computes it from the days
\* it writes with them.
THEOREM VoimassaSaannoista ==
  Spec /\ [][UNCHANGED ymparisto]_vars
    => [](\A c \in Sopimukset : Olemassa(sopimus, c) => VoimassaOikein(c))
<1> DEFINE Oikein == \A c \in Sopimukset : Olemassa(sopimus, c) => VoimassaOikein(c)
           Sailyva == Oikein /\ \A p \in Tapahtumat : VoimassaOK(tx[p])
<1>1. Init => Sailyva
  BY DEF Init, Olemassa, VoimassaOK, Vapaa
<1>2. ASSUME Induktiivinen, Sailyva, [Next]_vars, [UNCHANGED ymparisto]_vars
      PROVE  Sailyva'
  <2>1. UNCHANGED ymparisto
    BY <1>2 DEF vars
  <2>2. \A p \in Tapahtumat : VoimassaOK(tx[p])'
    BY <1>2, <2>1, VoimassaOKAskel
  <2>3. ASSUME NEW c \in Sopimukset, sopimus'[c] # Nil, ~ sopimus'[c].poistettu
        PROVE  sopimus'[c].voimassa = Voimassa(sopimus', rivi', c)
    BY <1>2, <2>1, <2>3, VoimassaAskel
  <2>4. ASSUME NEW c \in Sopimukset, Olemassa(sopimus, c)'
        PROVE  VoimassaOikein(c)'
    BY <2>1, <2>3, <2>4 DEF Olemassa, VoimassaOikein, Voimassa, Sisaltaa, ymparisto
  <2>5. QED
    BY <2>2, <2>4
<1>3. QED
  BY <1>1, <1>2, Pysyvyys, PTL DEF Spec
=============================================================================
