-------------------------- MODULE SuorituksetProofs --------------------------
(***************************************************************************)
(* Theorems about module Suoritukset, for every set of requests, records,  *)
(* rows and dates: its inductive invariant, the safety properties that     *)
(* follow from it, and that it implements Suorituselinkaari; and, as long  *)
(* as no laheta or hyvaksy of a record overlaps another request that has   *)
(* checked that it is a draft, that such a request finds a draft.          *)
(***************************************************************************)
EXTENDS Suoritukset, TLAPS

-----------------------------------------------------------------------------
(* Parts of several actions *)

\* Every change a statement makes to the transaction of its request keeps its type.
LEMMA TxTyyppi ==
  ASSUME NEW t \in Tx
  PROVE  /\ \A vaihe \in Vaihe : [t EXCEPT !.vaihe = vaihe] \in Tx
         /\ \A k \in Kerrat : [t EXCEPT !.kasitellyt = @ \union {k}] \in Tx
         /\ \A vaihe \in Vaihe, P \in SUBSET Rivit :
              [t EXCEPT !.vaihe = vaihe, !.poistettavat = P] \in Tx
         /\ \A v \in Rivit : [t EXCEPT !.poistettavat = @ \ {v}] \in Tx
BY DEF Tx

\* A transaction that does nothing is well typed.
LEMMA VapaaTyyppi ==
  /\ Vapaa \in Tx
  /\ \A toiminto \in Toiminto, vaihe \in Vaihe, K \in SUBSET Kerrat, lomake \in SUBSET Osat :
       [Vapaa EXCEPT !.toiminto = toiminto, !.vaihe = vaihe, !.kohde = K, !.lomake = lomake] \in Tx
BY DEF Vapaa, Tx, Toiminto, Vaihe

\* Replacing values of a function by a value of its range keeps its type.
LEMMA KorvaaTyyppi ==
  ASSUME NEW S, NEW T, NEW f \in [S -> T], NEW D, NEW v \in T
  PROVE  Korvaa(f, D, v) \in [S -> T]
BY DEF Korvaa

\* The end of a transaction leaves the locks and transactions well typed.
LEMMA PaataTyyppi ==
  ASSUME TyyppiOK, NEW r \in Pyynnot, Paata(r)
  PROVE  /\ kertaLukko' \in [Kerrat -> Pyynnot \union {Nil}]
         /\ rivinLukko' \in [Rivit -> Pyynnot \union {Nil}]
         /\ tx' \in [Pyynnot -> Tx]
BY VapaaTyyppi DEF Paata, TyyppiOK

\* A rollback keeps every variable in its type.
LEMMA PeruTyyppi ==
  ASSUME TyyppiOK, NEW r \in Pyynnot, Peru(r)
  PROVE  TyyppiOK'
BY PaataTyyppi DEF Peru, TyyppiOK, tietokanta, kertaVars, osaVars

\* Moving on to the next statement keeps every variable in its type.
LEMMA EteneTyyppi ==
  ASSUME TyyppiOK, NEW r \in Pyynnot, NEW vaihe \in Vaihe, Etene(r, vaihe)
  PROVE  TyyppiOK'
<1>1. tx' \in [Pyynnot -> Tx]
  BY TxTyyppi DEF Etene, TyyppiOK
<1>2. QED
  BY <1>1 DEF Etene, TyyppiOK, tietokanta, kertaVars, osaVars, lukot

\* A request that comes in keeps every variable in its type.
LEMMA AloitaTyyppi ==
  ASSUME TyyppiOK, NEW r \in Pyynnot, NEW toiminto \in Toiminto, NEW vaihe \in Vaihe,
         NEW K \in SUBSET Kerrat, NEW lomake \in SUBSET Osat,
         Aloita(r, toiminto, vaihe, K, lomake)
  PROVE  TyyppiOK'
<1>1. tx' \in [Pyynnot -> Tx]
  BY VapaaTyyppi DEF Aloita, TyyppiOK
<1>2. QED
  BY <1>1 DEF Aloita, TyyppiOK, tietokanta, kertaVars, osaVars, lukot

-----------------------------------------------------------------------------
(* Types *)

\* The empty tables are well typed.
LEMMA AlkuTyyppi == Init => TyyppiOK
BY VapaaTyyppi DEF Init, TyyppiOK, Tila

\* No step of a request, nor an insert, takes a variable out of its type.
LEMMA AskelTyyppi == TyyppiOK /\ [Next]_vars => TyyppiOK'
<1> SUFFICES ASSUME TyyppiOK, [Next]_vars
             PROVE  TyyppiOK'
  OBVIOUS
<1>1. CASE LisaaUusi
  <2> PICK k \in Kerrat, uudet \in SUBSET Osat, koko \in SUBSET Osat,
           rivit \in SUBSET Rivit, s \in Sisallot : Lisaa(k, uudet, koko, rivit, s)
    BY <1>1 DEF LisaaUusi
  <2>1. /\ osanKerta' \in [Osat -> Kerrat \union {Nil}]
        /\ rivinKerta' \in [Rivit -> Kerrat \union {Nil}]
    BY KorvaaTyyppi DEF Lisaa, TyyppiOK
  <2>2. QED
    BY <2>1 DEF Lisaa, TyyppiOK, Tila, Kirjattu, lukot
<1>2. ASSUME NEW r \in Pyynnot, AloitaPoisto(r) \/ AloitaMuokkaus(r) \/ AloitaSiirto(r)
      PROVE  TyyppiOK'
  <2>1. {"poista", "muokkaa", "hyvaksy", "laheta", "palauta"} \subseteq Toiminto
        /\ {"tarkistus", "lukitus"} \subseteq Vaihe
    BY DEF Toiminto, Siirto, Vaihe
  <2>2. kaytetyt \subseteq Osat
    BY DEF TyyppiOK
  <2>3. CASE AloitaPoisto(r)
    <3> PICK k \in Nakyneet : Aloita(r, "poista", "tarkistus", {k}, {})
      BY <2>3 DEF AloitaPoisto
    <3>1. {k} \in SUBSET Kerrat
      BY DEF Nakyneet
    <3>2. QED
      BY <2>1, <3>1, AloitaTyyppi
  <2>4. CASE AloitaMuokkaus(r)
    <3> PICK k \in Nakyneet, lomake \in SUBSET kaytetyt :
               Aloita(r, "muokkaa", "tarkistus", {k}, lomake)
      BY <2>4 DEF AloitaMuokkaus
    <3>1. {k} \in SUBSET Kerrat /\ lomake \in SUBSET Osat
      BY <2>2 DEF Nakyneet
    <3>2. QED
      BY <2>1, <3>1, AloitaTyyppi
  <2>5. CASE AloitaSiirto(r)
    <3> PICK K \in SUBSET Kerrat : \/ Aloita(r, "hyvaksy", "tarkistus", K, {})
                                   \/ Aloita(r, "laheta", "lukitus", K, {})
                                   \/ Aloita(r, "palauta", "lukitus", K, {})
      BY <2>5 DEF AloitaSiirto, Nakyneet
    <3>1. QED
      BY <2>1, AloitaTyyppi
  <2>6. QED
    BY <1>2, <2>3, <2>4, <2>5
<1>3. ASSUME NEW r \in Pyynnot, TarkistaYksi(r) \/ TarkistaKaikki(r) \/ JatkaMuokkausta(r)
                               \/ ArvioijatLukittu(r)
      PROVE  TyyppiOK'
  <2>1. PICK vaihe \in Vaihe : Etene(r, vaihe) \/ Peru(r)
    BY <1>3 DEF TarkistaYksi, TarkistaKaikki, JatkaMuokkausta, ArvioijatLukittu, Vaihe
  <2>2. QED
    BY <2>1, EteneTyyppi, PeruTyyppi
<1>4. ASSUME NEW r \in Pyynnot, NEW k \in Kerrat, LukitseKerta(r, k)
      PROVE  TyyppiOK'
  <2>1. tx' \in [Pyynnot -> Tx]
    BY <1>4, TxTyyppi DEF LukitseKerta, Kasitelty, TyyppiOK
  <2>2. kertaLukko' \in [Kerrat -> Pyynnot \union {Nil}]
    BY <1>4 DEF LukitseKerta, TyyppiOK
  <2>3. QED
    BY <1>4, <2>1, <2>2 DEF LukitseKerta, TyyppiOK, tietokanta, kertaVars, osaVars
<1>5. ASSUME NEW r \in Pyynnot, ValitseArvioijat(r)
      PROVE  TyyppiOK'
  <2>1. tx' \in [Pyynnot -> Tx]
    BY <1>5, TxTyyppi DEF ValitseArvioijat, TyyppiOK, Vaihe
  <2>2. QED
    BY <1>5, <2>1 DEF ValitseArvioijat, TyyppiOK, tietokanta, kertaVars, osaVars, lukot
<1>6. ASSUME NEW r \in Pyynnot, NEW v \in Rivit, LukitseArvioija(r, v)
      PROVE  TyyppiOK'
  <2>1. tx' \in [Pyynnot -> Tx]
    <3>1. tx' = tx \/ tx' = [tx EXCEPT ![r] = [tx[r] EXCEPT !.poistettavat = @ \ {v}]]
      BY <1>6 DEF LukitseArvioija
    <3>2. tx \in [Pyynnot -> Tx]
      BY DEF TyyppiOK
    <3>3. [tx[r] EXCEPT !.poistettavat = @ \ {v}] \in Tx
      BY <3>2, TxTyyppi
    <3>4. QED
      BY <3>1, <3>2, <3>3
  <2>2. rivinLukko' \in [Rivit -> Pyynnot \union {Nil}]
    BY <1>6 DEF LukitseArvioija, TyyppiOK
  <2>3. QED
    BY <1>6, <2>1, <2>2 DEF LukitseArvioija, TyyppiOK, tietokanta, kertaVars, osaVars
<1>7. ASSUME NEW r \in Pyynnot,
             (\E pvm \in Paivat : Laheta(r, pvm) \/ Hyvaksy(r, pvm)) \/ Palauta(r)
      PROVE  TyyppiOK'
  <2>1. Paata(r)
    BY <1>7 DEF Laheta, Hyvaksy, Palauta
  <2>2. tila' \in [Kerrat -> Tila]
    BY <1>7 DEF Laheta, Hyvaksy, Palauta, Korvaa, TyyppiOK, Tila, Kirjattu
  <2>3. /\ ehdotusaika' \in [Kerrat -> Paivat \union {Nil}]
        /\ hyvaksymisaika' \in [Kerrat -> Paivat \union {Nil}]
    BY <1>7 DEF Laheta, Hyvaksy, Palauta, Korvaa, TyyppiOK
  <2>4. UNCHANGED <<sisalto, osaVars, rivinKerta>>
    BY <1>7 DEF Laheta, Hyvaksy, Palauta
  <2>5. QED
    BY <2>1, <2>2, <2>3, <2>4, PaataTyyppi DEF TyyppiOK, osaVars
<1>8. ASSUME NEW r \in Pyynnot, Poista(r)
      PROVE  TyyppiOK'
  <2>1. Paata(r)
    BY <1>8 DEF Poista
  <2>2. tila' \in [Kerrat -> Tila]
    BY <1>8 DEF Poista, Korvaa, TyyppiOK, Tila
  <2>3. /\ osanKerta' \in [Osat -> Kerrat \union {Nil}]
        /\ rivinKerta' \in [Rivit -> Kerrat \union {Nil}]
    BY <1>8, KorvaaTyyppi DEF Poista, TyyppiOK
  <2>4. QED
    BY <1>8, <2>1, <2>2, <2>3, PaataTyyppi DEF Poista, TyyppiOK
<1>9. ASSUME NEW r \in Pyynnot, TallennaMuokkaus(r)
      PROVE  TyyppiOK'
  <2> PICK k \in Kerrat, uudet \in SUBSET Osat, koko \in SUBSET Osat,
           rivit \in SUBSET Rivit, s \in Sisallot : Tallenna(r, k, uudet, koko, rivit, s)
    BY <1>9 DEF TallennaMuokkaus
  <2>1. Paata(r)
    BY DEF Tallenna
  <2>2. sisalto' \in [Kerrat -> Sisallot \union {Nil}]
    BY DEF Tallenna, TyyppiOK
  <2>3. osanKerta' \in [Osat -> Kerrat \union {Nil}]
    BY DEF Tallenna, Korvaa, TyyppiOK
  <2>4. rivinKerta' \in [Rivit -> Kerrat \union {Nil}]
    BY DEF Tallenna, Korvaa, TyyppiOK
  <2>5. QED
    BY <2>1, <2>2, <2>3, <2>4, PaataTyyppi DEF Tallenna, TyyppiOK
<1>10. ASSUME NEW r \in Pyynnot,
              PoistoKaatuu(r) \/ TallennusKaatuu(r) \/ Keskeytys(r) \/ Lukkiuma(r)
       PROVE  TyyppiOK'
  BY <1>10, PeruTyyppi DEF PoistoKaatuu, TallennusKaatuu, Keskeytys, Lukkiuma
<1>11. CASE UNCHANGED vars
  BY <1>11 DEF TyyppiOK, vars, tietokanta, kertaVars, osaVars, lukot
<1>12. QED
  BY <1>1, <1>2, <1>3, <1>4, <1>5, <1>6, <1>7, <1>8, <1>9, <1>10, <1>11
     DEF Next, Palvele, LukitseSeuraava, LukitseSeuraavaArvioija

\* Every variable keeps to its type.
THEOREM Tyypit == Spec => []TyyppiOK
BY AlkuTyyppi, AskelTyyppi, PTL DEF Spec

-----------------------------------------------------------------------------
(* Parts of the inductive invariant *)

\* The fields of a transaction after each change a statement makes.
LEMMA TxKentat ==
  ASSUME NEW t \in Tx, NEW vaihe, NEW k, NEW P
  PROVE  /\ LET u == [t EXCEPT !.vaihe = vaihe]
            IN  /\ u.toiminto = t.toiminto /\ u.vaihe = vaihe /\ u.kohde = t.kohde /\ u.lomake = t.lomake
                /\ u.kasitellyt = t.kasitellyt /\ u.poistettavat = t.poistettavat
         /\ LET u == [t EXCEPT !.kasitellyt = @ \union {k}]
            IN  /\ u.toiminto = t.toiminto /\ u.vaihe = t.vaihe /\ u.kohde = t.kohde /\ u.lomake = t.lomake
                /\ u.kasitellyt = t.kasitellyt \union {k} /\ u.poistettavat = t.poistettavat
         /\ LET u == [t EXCEPT !.vaihe = vaihe, !.poistettavat = P]
            IN  /\ u.toiminto = t.toiminto /\ u.vaihe = vaihe /\ u.kohde = t.kohde /\ u.lomake = t.lomake
                /\ u.kasitellyt = t.kasitellyt /\ u.poistettavat = P
         /\ LET u == [t EXCEPT !.poistettavat = @ \ {k}]
            IN  /\ u.toiminto = t.toiminto /\ u.vaihe = t.vaihe /\ u.kohde = t.kohde /\ u.lomake = t.lomake
                /\ u.kasitellyt = t.kasitellyt /\ u.poistettavat = t.poistettavat \ {k}
BY DEF Tx

\* What a statement that writes nothing keeps.
LEMMA TietokantaEnnallaan ==
  ASSUME Induktiivinen, UNCHANGED tietokanta
  PROVE  ViitteetEheat' /\ AjatVastaavatTilaa' /\ LuomatonTyhja'
BY DEF Induktiivinen, tietokanta, kertaVars, osaVars, ViitteetEheat, Kirjatut, LuomatonTyhja,
       AjatVastaavatTilaa, Elinkaari!AjatVastaavatTilaa

\* A transaction that ends disturbs no other one, as long as it has changed the
\* state, and added assessors, only of records it holds.
LEMMA PaataLukot ==
  ASSUME TyyppiOK, LukotOK, PyynnotOK, NEW r \in Pyynnot, Paata(r),
         \A k \in Kerrat \ Lukitut(r) : tila'[k] = tila[k],
         \A v \in Rivit : rivinKerta'[v] = rivinKerta[v] \/ rivinKerta'[v] \in Lukitut(r) \union {Nil}
  PROVE  LukotOK' /\ PyynnotOK'
<1>1. /\ tx'[r] = Vapaa
      /\ \A q \in Pyynnot \ {r} : tx'[q] = tx[q]
      /\ \A q \in Pyynnot : tx[q] \in Tx
  BY DEF Paata, TyyppiOK
<1>2. \A k \in Kerrat, q \in Pyynnot :
        kertaLukko'[k] = q <=> q # r /\ kertaLukko[k] = q
  BY NilAssumption DEF Paata, TyyppiOK
<1>3. LukotOK'
  <2> SUFFICES ASSUME NEW k \in Kerrat, NEW q \in Pyynnot, kertaLukko'[k] = q
               PROVE  /\ k \in tx'[q].kasitellyt
                      /\ tila'[k] \in Kirjattu
                      /\ tx'[q].vaihe \in {"lukitus", "arvioijat", "arvioijaLukot", "tallennus"}
                      /\ tx'[q].toiminto = "poista" => tila'[k] = "luonnos"
    BY DEF LukotOK
  <2>1. q # r /\ kertaLukko[k] = q
    BY <1>2
  <2>2. tila'[k] = tila[k] /\ tx'[q] = tx[q]
    BY <1>1, <2>1 DEF Lukitut
  <2>3. QED
    BY <2>1, <2>2 DEF LukotOK
<1>4. PyynnotOK'
  <2> DEFINE Muokkaa(q, vaiheet) == tx'[q].toiminto = "muokkaa" /\ tx'[q].vaihe \in vaiheet
  <2> SUFFICES ASSUME NEW q \in Pyynnot
               PROVE  /\ tx'[q].kasitellyt \subseteq tx'[q].kohde
                      /\ tx'[q].toiminto \in {"poista", "muokkaa"} => \E k \in Kerrat : tx'[q].kohde = {k}
                      /\ tx'[q].vaihe \in {"arvioijat", "arvioijaLukot"}
                           => tx'[q].toiminto \in {"poista", "muokkaa"}
                      /\ tx'[q].vaihe = "tallennus" => tx'[q].toiminto = "muokkaa"
                      /\ Muokkaa(q, {"arvioijat", "arvioijaLukot", "tallennus"})
                           => tx'[q].kohde \subseteq Lukitut(q)'
                      /\ Muokkaa(q, {"arvioijaLukot", "tallennus"}) =>
                           \A v \in Rivit : rivinKerta'[v] \in tx'[q].kohde => v \in tx'[q].poistettavat
    BY DEF PyynnotOK
  <2>1. CASE q = r
    BY <1>1, <2>1 DEF Vapaa
  <2>2. CASE q # r
    <3>1. tx'[q] = tx[q]
      BY <1>1, <2>2
    <3>2. Lukitut(q)' = Lukitut(q)
      BY <1>2, <2>2 DEF Lukitut
    <3>3. Lukitut(q) \intersect (Lukitut(r) \union {Nil}) = {}
      BY <2>2, NilAssumption DEF Lukitut
    <3>4. ASSUME Muokkaa(q, {"arvioijaLukot", "tallennus"}),
                 NEW v \in Rivit, rivinKerta'[v] \in tx'[q].kohde
          PROVE  v \in tx'[q].poistettavat
      <4>1. rivinKerta'[v] \in Lukitut(q)
        BY <3>1, <3>4 DEF PyynnotOK
      <4>2. rivinKerta'[v] = rivinKerta[v]
        BY <3>3, <4>1
      <4>3. QED
        BY <3>1, <3>4, <4>2 DEF PyynnotOK
    <3>5. QED
      BY <3>1, <3>2, <3>4 DEF PyynnotOK
  <2>3. QED
    BY <2>1, <2>2
<1>5. QED
  BY <1>3, <1>4

\* A rollback keeps the inductive invariant: it releases locks and writes nothing.
LEMMA PeruInd ==
  ASSUME Induktiivinen, NEW r \in Pyynnot, Peru(r)
  PROVE  Induktiivinen'
<1>1. TyyppiOK'
  BY PeruTyyppi DEF Induktiivinen
<1>2. Paata(r) /\ UNCHANGED tietokanta
  BY DEF Peru
<1>3. UNCHANGED <<tila, rivinKerta>>
  BY <1>2 DEF tietokanta, kertaVars
<1>4. LukotOK' /\ PyynnotOK'
  BY <1>2, <1>3, PaataLukot DEF Induktiivinen
<1>5. QED
  BY <1>1, <1>2, <1>4, TietokantaEnnallaan DEF Induktiivinen

\* A statement that writes nothing and takes no lock.
LEMMA LukotEnnallaan ==
  ASSUME TyyppiOK, LukotOK, PyynnotOK, NEW r \in Pyynnot,
         UNCHANGED <<tila, rivinKerta, kertaLukko>>,
         \A q \in Pyynnot \ {r} : tx'[q] = tx[q],
         Lukitut(r) # {} => /\ tx'[r].toiminto = tx[r].toiminto
                            /\ tx[r].kasitellyt \subseteq tx'[r].kasitellyt
                            /\ tx'[r].vaihe \in {"lukitus", "arvioijat", "arvioijaLukot", "tallennus"},
         tx'[r].kasitellyt \subseteq tx'[r].kohde,
         tx'[r].toiminto \in {"poista", "muokkaa"} => \E k \in Kerrat : tx'[r].kohde = {k},
         tx'[r].vaihe \in {"arvioijat", "arvioijaLukot"} => tx'[r].toiminto \in {"poista", "muokkaa"},
         tx'[r].vaihe = "tallennus" => tx'[r].toiminto = "muokkaa",
         tx'[r].toiminto = "muokkaa" /\ tx'[r].vaihe \in {"arvioijat", "arvioijaLukot", "tallennus"}
           => tx'[r].kohde \subseteq Lukitut(r),
         tx'[r].toiminto = "muokkaa" /\ tx'[r].vaihe \in {"arvioijaLukot", "tallennus"} =>
           \A v \in Rivit : rivinKerta[v] \in tx'[r].kohde => v \in tx'[r].poistettavat
  PROVE  LukotOK' /\ PyynnotOK'
<1>1. LukotOK'
  <2> SUFFICES ASSUME NEW k \in Kerrat, NEW q \in Pyynnot, kertaLukko[k] = q
               PROVE  /\ k \in tx'[q].kasitellyt
                      /\ tila[k] \in Kirjattu
                      /\ tx'[q].vaihe \in {"lukitus", "arvioijat", "arvioijaLukot", "tallennus"}
                      /\ tx'[q].toiminto = "poista" => tila[k] = "luonnos"
    BY DEF LukotOK
  <2>1. CASE q = r
    BY <2>1 DEF LukotOK, Lukitut
  <2>2. CASE q # r
    BY <2>2 DEF LukotOK
  <2>3. QED
    BY <2>1, <2>2
<1>2. \A q \in Pyynnot : Lukitut(q)' = Lukitut(q)
  BY DEF Lukitut
<1>3. PyynnotOK'
  <2> SUFFICES ASSUME NEW q \in Pyynnot
               PROVE  /\ tx'[q].kasitellyt \subseteq tx'[q].kohde
                      /\ tx'[q].toiminto \in {"poista", "muokkaa"} => \E k \in Kerrat : tx'[q].kohde = {k}
                      /\ tx'[q].vaihe \in {"arvioijat", "arvioijaLukot"}
                           => tx'[q].toiminto \in {"poista", "muokkaa"}
                      /\ tx'[q].vaihe = "tallennus" => tx'[q].toiminto = "muokkaa"
                      /\ tx'[q].toiminto = "muokkaa" /\ tx'[q].vaihe \in {"arvioijat", "arvioijaLukot", "tallennus"}
                           => tx'[q].kohde \subseteq Lukitut(q)
                      /\ tx'[q].toiminto = "muokkaa" /\ tx'[q].vaihe \in {"arvioijaLukot", "tallennus"} =>
                           \A v \in Rivit : rivinKerta[v] \in tx'[q].kohde => v \in tx'[q].poistettavat
    BY <1>2 DEF PyynnotOK
  <2>1. CASE q = r
    BY <2>1
  <2>2. CASE q # r
    BY <2>2 DEF PyynnotOK
  <2>3. QED
    BY <2>1, <2>2
<1>4. QED
  BY <1>1, <1>3

\* A request holds no row of suorituskerta before it has come to its UPDATE or DELETE.
LEMMA EiLukkoa ==
  ASSUME LukotOK, NEW r \in Pyynnot, tx[r].vaihe \in {"vapaa", "tarkistus"}
  PROVE  Lukitut(r) = {}
BY DEF LukotOK, Lukitut

\* A request that comes in holds no lock yet and so keeps the inductive invariant.
LEMMA AloitaInd ==
  ASSUME Induktiivinen, NEW r \in Pyynnot, NEW toiminto \in Toiminto,
         NEW vaihe \in {"tarkistus", "lukitus"}, NEW K \in SUBSET Kerrat, NEW lomake \in SUBSET Osat,
         Aloita(r, toiminto, vaihe, K, lomake),
         toiminto \in {"poista", "muokkaa"} => \E k \in Kerrat : K = {k}
  PROVE  Induktiivinen'
<1>1. TyyppiOK'
  BY AloitaTyyppi DEF Induktiivinen, Vaihe
<1>2. /\ tx'[r].toiminto = toiminto /\ tx'[r].vaihe = vaihe
      /\ tx'[r].kohde = K /\ tx'[r].kasitellyt = {}
      /\ \A q \in Pyynnot \ {r} : tx'[q] = tx[q]
  BY DEF Aloita, Vapaa, Induktiivinen, TyyppiOK
<1>3. UNCHANGED <<tila, rivinKerta, kertaLukko>> /\ UNCHANGED tietokanta
  BY DEF Aloita, tietokanta, kertaVars, lukot
<1>4. Lukitut(r) = {}
  BY EiLukkoa DEF Aloita, Induktiivinen
<1>5. LukotOK' /\ PyynnotOK'
  BY <1>2, <1>3, <1>4, LukotEnnallaan DEF Induktiivinen
<1>6. QED
  BY <1>1, <1>3, <1>5, TietokantaEnnallaan DEF Induktiivinen

\* The statements of a request that only move it on.
LEMMA EteneInd ==
  ASSUME Induktiivinen, NEW r \in Pyynnot, NEW vaihe \in {"lukitus", "arvioijat"},
         Etene(r, vaihe), tx[r].toiminto \in {"poista", "muokkaa"} \/ vaihe = "lukitus",
         vaihe = "arvioijat" /\ tx[r].toiminto = "muokkaa" => tx[r].kohde \subseteq Lukitut(r)
  PROVE  Induktiivinen'
<1>1. TyyppiOK'
  BY EteneTyyppi DEF Induktiivinen, Vaihe
<1>2. tx[r] \in Tx
  BY DEF Induktiivinen, TyyppiOK
<1>3. /\ tx'[r] = [tx[r] EXCEPT !.vaihe = vaihe]
      /\ \A q \in Pyynnot \ {r} : tx'[q] = tx[q]
  BY DEF Etene, Induktiivinen, TyyppiOK
<1>4. /\ tx'[r].toiminto = tx[r].toiminto /\ tx'[r].vaihe = vaihe
      /\ tx'[r].kohde = tx[r].kohde /\ tx'[r].kasitellyt = tx[r].kasitellyt
  BY <1>2, <1>3, TxKentat
<1>5. UNCHANGED <<tila, rivinKerta, kertaLukko>> /\ UNCHANGED tietokanta
  BY DEF Etene, tietokanta, kertaVars, lukot
<1>6. LukotOK' /\ PyynnotOK'
  <2>1. /\ tx[r].kasitellyt \subseteq tx[r].kohde
        /\ tx[r].toiminto \in {"poista", "muokkaa"} => \E k \in Kerrat : tx[r].kohde = {k}
    BY DEF Induktiivinen, PyynnotOK
  <2>2. QED
    BY <1>3, <1>4, <1>5, <2>1, LukotEnnallaan DEF Induktiivinen
<1>7. QED
  BY <1>1, <1>5, <1>6, TietokantaEnnallaan DEF Induktiivinen

\* Taking the row lock of a record, or passing over it, keeps the inductive invariant.
LEMMA LukitseKertaInd ==
  ASSUME Induktiivinen, NEW r \in Pyynnot, NEW k \in Kerrat, LukitseKerta(r, k), TyyppiOK'
  PROVE  Induktiivinen'
<1>1. /\ tx[r] \in Tx
      /\ tx'[r] = [tx[r] EXCEPT !.kasitellyt = @ \union {k}]
      /\ \A q \in Pyynnot \ {r} : tx'[q] = tx[q]
  BY DEF LukitseKerta, Kasitelty, Induktiivinen, TyyppiOK
<1>2. /\ tx'[r].toiminto = tx[r].toiminto /\ tx'[r].vaihe = "lukitus" /\ tx[r].vaihe = "lukitus"
      /\ tx'[r].kohde = tx[r].kohde /\ tx'[r].kasitellyt = tx[r].kasitellyt \union {k}
      /\ k \in tx[r].kohde
  BY <1>1, TxKentat DEF LukitseKerta
<1>3. UNCHANGED <<tila, rivinKerta>> /\ UNCHANGED tietokanta
  BY DEF LukitseKerta, tietokanta, kertaVars
<1>4. /\ \A j \in Kerrat : kertaLukko'[j] # kertaLukko[j] =>
           j = k /\ kertaLukko[j] = Nil /\ kertaLukko'[j] = r /\ Tasmaa(r, k)
      /\ kertaLukko' \in [Kerrat -> Pyynnot \union {Nil}]
  BY DEF LukitseKerta, Induktiivinen, TyyppiOK
<1>5. LukotOK'
  <2> SUFFICES ASSUME NEW j \in Kerrat, NEW q \in Pyynnot, kertaLukko'[j] = q
               PROVE  /\ j \in tx'[q].kasitellyt
                      /\ tila[j] \in Kirjattu
                      /\ tx'[q].vaihe \in {"lukitus", "arvioijat", "arvioijaLukot", "tallennus"}
                      /\ tx'[q].toiminto = "poista" => tila[j] = "luonnos"
    BY <1>3 DEF LukotOK
  <2>1. CASE kertaLukko[j] = q
    <3>1. /\ j \in tx[q].kasitellyt
          /\ tila[j] \in Kirjattu
          /\ tx[q].vaihe \in {"lukitus", "arvioijat", "arvioijaLukot", "tallennus"}
          /\ tx[q].toiminto = "poista" => tila[j] = "luonnos"
      BY <2>1 DEF Induktiivinen, LukotOK
    <3>2. QED
      BY <1>1, <1>2, <3>1
  <2>2. CASE kertaLukko[j] # q
    <3>1. j = k /\ q = r /\ Tasmaa(r, k)
      BY <1>4, <2>2
    <3>2. QED
      BY <1>2, <3>1 DEF Tasmaa, Kirjattu
  <2>3. QED
    BY <2>1, <2>2
<1>6. PyynnotOK'
  <2>1. \A q \in Pyynnot : Lukitut(q) \subseteq Lukitut(q)'
    BY <1>4, NilAssumption DEF Lukitut
  <2> SUFFICES ASSUME NEW q \in Pyynnot
               PROVE  /\ tx'[q].kasitellyt \subseteq tx'[q].kohde
                      /\ tx'[q].toiminto \in {"poista", "muokkaa"} => \E j \in Kerrat : tx'[q].kohde = {j}
                      /\ tx'[q].vaihe \in {"arvioijat", "arvioijaLukot"}
                           => tx'[q].toiminto \in {"poista", "muokkaa"}
                      /\ tx'[q].vaihe = "tallennus" => tx'[q].toiminto = "muokkaa"
                      /\ tx'[q].toiminto = "muokkaa" /\ tx'[q].vaihe \in {"arvioijat", "arvioijaLukot", "tallennus"}
                           => tx'[q].kohde \subseteq Lukitut(q)'
                      /\ tx'[q].toiminto = "muokkaa" /\ tx'[q].vaihe \in {"arvioijaLukot", "tallennus"} =>
                           \A v \in Rivit : rivinKerta[v] \in tx'[q].kohde => v \in tx'[q].poistettavat
    BY <1>3 DEF PyynnotOK
  <2>2. CASE q = r
    BY <1>2, <2>2 DEF Induktiivinen, PyynnotOK
  <2>3. CASE q # r
    BY <1>1, <2>1, <2>3 DEF Induktiivinen, PyynnotOK
  <2>4. QED
    BY <2>2, <2>3
<1>7. QED
  BY <1>3, <1>5, <1>6, TietokantaEnnallaan DEF Induktiivinen

\* Selecting the assessor rows keeps the inductive invariant: an edit holds its
\* record then, so it selects all the rows the record has.
LEMMA ValitseArvioijatInd ==
  ASSUME Induktiivinen, NEW r \in Pyynnot, ValitseArvioijat(r), TyyppiOK'
  PROVE  Induktiivinen'
<1> DEFINE P == {v \in Rivit : rivinKerta[v] \in tx[r].kohde}
<1>1. /\ tx[r] \in Tx
      /\ tx'[r] = [tx[r] EXCEPT !.vaihe = "arvioijaLukot", !.poistettavat = P]
      /\ \A q \in Pyynnot \ {r} : tx'[q] = tx[q]
      /\ tx[r].vaihe = "arvioijat"
  BY DEF ValitseArvioijat, Induktiivinen, TyyppiOK
<1>2. /\ tx'[r].toiminto = tx[r].toiminto /\ tx'[r].vaihe = "arvioijaLukot"
      /\ tx'[r].kohde = tx[r].kohde /\ tx'[r].kasitellyt = tx[r].kasitellyt
      /\ tx'[r].poistettavat = P
  BY <1>1, TxKentat
<1>3. UNCHANGED <<tila, rivinKerta, kertaLukko>> /\ UNCHANGED tietokanta
  BY DEF ValitseArvioijat, tietokanta, kertaVars, lukot
<1>4. /\ tx[r].kasitellyt \subseteq tx[r].kohde
      /\ tx[r].toiminto \in {"poista", "muokkaa"} /\ \E k \in Kerrat : tx[r].kohde = {k}
      /\ tx[r].toiminto = "muokkaa" => tx[r].kohde \subseteq Lukitut(r)
  BY <1>1 DEF Induktiivinen, PyynnotOK
<1>5. LukotOK' /\ PyynnotOK'
  BY <1>1, <1>2, <1>3, <1>4, LukotEnnallaan DEF Induktiivinen
<1>6. QED
  BY <1>3, <1>5, TietokantaEnnallaan DEF Induktiivinen

\* Taking an assessor row keeps the inductive invariant: one that is passed over is
\* gone, so an edit still holds all the rows its record has.
LEMMA LukitseArvioijaInd ==
  ASSUME Induktiivinen, NEW r \in Pyynnot, NEW v \in Rivit, LukitseArvioija(r, v), TyyppiOK'
  PROVE  Induktiivinen'
<1>1. /\ tx[r] \in Tx
      /\ tx[r].vaihe = "arvioijaLukot"
      /\ UNCHANGED <<tila, rivinKerta, kertaLukko>> /\ UNCHANGED tietokanta
      /\ TyyppiOK /\ LukotOK /\ PyynnotOK
  BY DEF LukitseArvioija, Induktiivinen, TyyppiOK, tietokanta, kertaVars
<1>2. CASE UNCHANGED tx
  <2>1. LukotOK' /\ PyynnotOK'
    BY <1>1, <1>2 DEF LukotOK, PyynnotOK, Lukitut
  <2>2. QED
    BY <1>1, <2>1, TietokantaEnnallaan DEF Induktiivinen
<1>3. CASE rivinKerta[v] = Nil /\ tx' = [tx EXCEPT ![r].poistettavat = @ \ {v}]
  <2>1. /\ tx'[r] = [tx[r] EXCEPT !.poistettavat = @ \ {v}]
        /\ \A q \in Pyynnot \ {r} : tx'[q] = tx[q]
    BY <1>3 DEF Induktiivinen, TyyppiOK
  <2>2. /\ tx'[r].toiminto = tx[r].toiminto /\ tx'[r].vaihe = tx[r].vaihe
        /\ tx'[r].kohde = tx[r].kohde /\ tx'[r].kasitellyt = tx[r].kasitellyt
        /\ tx'[r].poistettavat = tx[r].poistettavat \ {v}
    BY <1>1, <2>1, TxKentat
  <2>3. /\ tx[r].kasitellyt \subseteq tx[r].kohde
        /\ tx[r].toiminto \in {"poista", "muokkaa"} /\ \E k \in Kerrat : tx[r].kohde = {k}
    BY <1>1 DEF PyynnotOK
  <2>4. tx[r].toiminto = "muokkaa" =>
          /\ tx[r].kohde \subseteq Lukitut(r)
          /\ \A w \in Rivit : rivinKerta[w] \in tx[r].kohde => w \in tx[r].poistettavat \ {v}
    <3>1. Nil \notin tx[r].kohde
      BY <1>1, NilAssumption DEF Tx
    <3>2. QED
      BY <1>1, <1>3, <3>1 DEF PyynnotOK
  <2>5. LukotOK' /\ PyynnotOK'
    BY <1>1, <2>1, <2>2, <2>3, <2>4, LukotEnnallaan
  <2>6. QED
    BY <1>1, <2>5, TietokantaEnnallaan DEF Induktiivinen
<1>4. QED
  BY <1>2, <1>3 DEF LukitseArvioija

\* Going on once the assessor rows are locked keeps the inductive invariant.
LEMMA ArvioijatLukittuInd ==
  ASSUME Induktiivinen, NEW r \in Pyynnot, ArvioijatLukittu(r), TyyppiOK'
  PROVE  Induktiivinen'
<1> DEFINE vaihe == IF tx[r].toiminto = "poista" THEN "lukitus" ELSE "tallennus"
<1>1. /\ tx[r] \in Tx
      /\ tx'[r] = [tx[r] EXCEPT !.vaihe = vaihe]
      /\ \A q \in Pyynnot \ {r} : tx'[q] = tx[q]
      /\ tx[r].vaihe = "arvioijaLukot"
  BY DEF ArvioijatLukittu, Etene, Induktiivinen, TyyppiOK
<1>2. vaihe = "lukitus" \/ (vaihe = "tallennus" /\ tx[r].toiminto # "poista")
  OBVIOUS
<1> HIDE DEF vaihe
<1>3. /\ tx'[r].toiminto = tx[r].toiminto /\ tx'[r].vaihe = vaihe
      /\ tx'[r].kohde = tx[r].kohde /\ tx'[r].kasitellyt = tx[r].kasitellyt
      /\ tx'[r].poistettavat = tx[r].poistettavat
  BY <1>1, TxKentat
<1>4. UNCHANGED <<tila, rivinKerta, kertaLukko>> /\ UNCHANGED tietokanta
  BY DEF ArvioijatLukittu, Etene, tietokanta, kertaVars, lukot
<1>5. /\ tx[r].kasitellyt \subseteq tx[r].kohde
      /\ tx[r].toiminto \in {"poista", "muokkaa"} /\ \E k \in Kerrat : tx[r].kohde = {k}
      /\ tx[r].toiminto = "muokkaa" =>
           /\ tx[r].kohde \subseteq Lukitut(r)
           /\ \A v \in Rivit : rivinKerta[v] \in tx[r].kohde => v \in tx[r].poistettavat
  BY <1>1 DEF Induktiivinen, PyynnotOK
<1>6. LukotOK' /\ PyynnotOK'
  <2>0. TyyppiOK /\ LukotOK /\ PyynnotOK
    BY DEF Induktiivinen
  <2>1. CASE vaihe = "lukitus"
    BY <1>1, <1>3, <1>4, <1>5, <2>0, <2>1, LukotEnnallaan
  <2>2. CASE vaihe = "tallennus" /\ tx[r].toiminto = "muokkaa"
    BY <1>1, <1>3, <1>4, <1>5, <2>0, <2>2, LukotEnnallaan
  <2>3. QED
    BY <1>2, <1>5, <2>1, <2>2
<1>7. QED
  BY <1>4, <1>6, TietokantaEnnallaan DEF Induktiivinen

\* A commit that sets the state of the records of a request, to one they may have.
LEMMA SiirtoInd ==
  ASSUME Induktiivinen, TyyppiOK', NEW r \in Pyynnot, Paata(r),
         UNCHANGED <<osaVars, rivinKerta>>,
         NEW s \in Kirjattu, tila' = Korvaa(tila, Lukitut(r), s)
  PROVE  /\ LukotOK' /\ PyynnotOK' /\ ViitteetEheat'
         /\ \A k \in Kerrat : tila'[k] = IF k \in Lukitut(r) THEN s ELSE tila[k]
         /\ \A k \in Kerrat : tila'[k] = "ei_luotu" => tila[k] = "ei_luotu" /\ k \notin Lukitut(r)
<1>1. \A k \in Kerrat : tila'[k] = IF k \in Lukitut(r) THEN s ELSE tila[k]
  BY DEF Korvaa, Induktiivinen, TyyppiOK
<1>2. LukotOK' /\ PyynnotOK'
  BY <1>1, PaataLukot DEF Induktiivinen
<1>3. Kirjatut \subseteq Kirjatut'
  BY <1>1 DEF Kirjatut
<1>4. ViitteetEheat'
  BY <1>3 DEF Induktiivinen, ViitteetEheat, osaVars
<1>5. \A k \in Kerrat : tila'[k] = "ei_luotu" => tila[k] = "ei_luotu" /\ k \notin Lukitut(r)
  BY <1>1 DEF Kirjattu
<1>6. QED
  BY <1>1, <1>2, <1>4, <1>5

\* laheta! keeps the inductive invariant.
LEMMA LahetaInd ==
  ASSUME Induktiivinen, TyyppiOK', NEW r \in Pyynnot, NEW pvm \in Paivat, Laheta(r, pvm)
  PROVE  Induktiivinen'
<1>1. /\ LukotOK' /\ PyynnotOK' /\ ViitteetEheat'
      /\ \A k \in Kerrat : tila'[k] = IF k \in Lukitut(r) THEN "ehdotettu" ELSE tila[k]
      /\ \A k \in Kerrat : tila'[k] = "ei_luotu" => tila[k] = "ei_luotu" /\ k \notin Lukitut(r)
  BY SiirtoInd DEF Laheta, Kirjattu
<1>2. \A k \in Kerrat : /\ ehdotusaika'[k] = IF k \in Lukitut(r) THEN pvm ELSE ehdotusaika[k]
                        /\ hyvaksymisaika'[k] = IF k \in Lukitut(r) THEN Nil ELSE hyvaksymisaika[k]
  BY DEF Laheta, Korvaa, Induktiivinen, TyyppiOK
<1>3. AjatVastaavatTilaa' /\ LuomatonTyhja'
  BY <1>1, <1>2 DEF Induktiivinen, AjatVastaavatTilaa, Elinkaari!AjatVastaavatTilaa, LuomatonTyhja
<1>4. QED
  BY <1>1, <1>3 DEF Induktiivinen

\* hyvaksy! keeps the inductive invariant.
LEMMA HyvaksyInd ==
  ASSUME Induktiivinen, TyyppiOK', NEW r \in Pyynnot, NEW pvm \in Paivat, Hyvaksy(r, pvm)
  PROVE  Induktiivinen'
<1>1. /\ LukotOK' /\ PyynnotOK' /\ ViitteetEheat'
      /\ \A k \in Kerrat : tila'[k] = IF k \in Lukitut(r) THEN "hyvaksytty" ELSE tila[k]
      /\ \A k \in Kerrat : tila'[k] = "ei_luotu" => tila[k] = "ei_luotu" /\ k \notin Lukitut(r)
  BY SiirtoInd DEF Hyvaksy, Kirjattu
<1>2. \A k \in Kerrat : /\ ehdotusaika'[k] = ehdotusaika[k]
                        /\ hyvaksymisaika'[k] = IF k \in Lukitut(r) THEN pvm ELSE hyvaksymisaika[k]
  BY DEF Hyvaksy, Korvaa, Induktiivinen, TyyppiOK
<1>3. AjatVastaavatTilaa' /\ LuomatonTyhja'
  BY <1>1, <1>2 DEF Induktiivinen, AjatVastaavatTilaa, Elinkaari!AjatVastaavatTilaa, LuomatonTyhja
<1>4. QED
  BY <1>1, <1>3 DEF Induktiivinen

\* palauta! keeps the inductive invariant.
LEMMA PalautaInd ==
  ASSUME Induktiivinen, TyyppiOK', NEW r \in Pyynnot, Palauta(r)
  PROVE  Induktiivinen'
<1>1. /\ LukotOK' /\ PyynnotOK' /\ ViitteetEheat'
      /\ \A k \in Kerrat : tila'[k] = IF k \in Lukitut(r) THEN "luonnos" ELSE tila[k]
      /\ \A k \in Kerrat : tila'[k] = "ei_luotu" => tila[k] = "ei_luotu" /\ k \notin Lukitut(r)
  BY SiirtoInd DEF Palauta, Kirjattu
<1>2. \A k \in Kerrat : /\ ehdotusaika'[k] = IF k \in Lukitut(r) THEN Nil ELSE ehdotusaika[k]
                        /\ hyvaksymisaika'[k] = IF k \in Lukitut(r) THEN Nil ELSE hyvaksymisaika[k]
  BY DEF Palauta, Korvaa, Induktiivinen, TyyppiOK
<1>3. AjatVastaavatTilaa' /\ LuomatonTyhja'
  BY <1>1, <1>2 DEF Induktiivinen, AjatVastaavatTilaa, Elinkaari!AjatVastaavatTilaa, LuomatonTyhja
<1>4. QED
  BY <1>1, <1>3 DEF Induktiivinen

\* poista! keeps the inductive invariant: nothing that refers to the record is left.
LEMMA PoistaInd ==
  ASSUME Induktiivinen, TyyppiOK', NEW r \in Pyynnot, Poista(r)
  PROVE  Induktiivinen'
<1> DEFINE osat == UNION {KerranOsat(k) : k \in Lukitut(r)}
<1>1. /\ Paata(r) /\ ~ ViitteetEstavatPoiston(r)
      /\ UNCHANGED <<ehdotusaika, hyvaksymisaika, kaytetyt, tutkintosuoritus>>
      /\ kokotutkinto' = kokotutkinto \ osat
  BY DEF Poista
<1>2. \A k \in Kerrat : tila'[k] = IF k \in Lukitut(r) THEN "poistettu" ELSE tila[k]
  BY DEF Poista, Korvaa, Induktiivinen, TyyppiOK
<1>3. \A o \in Osat : osanKerta'[o] = IF osanKerta[o] \in Lukitut(r) THEN Nil ELSE osanKerta[o]
  <2>1. \A o \in Osat : o \in osat <=> osanKerta[o] \in Lukitut(r)
    BY DEF KerranOsat
  <2>2. osanKerta' = Korvaa(osanKerta, osat, Nil)
    BY DEF Poista
  <2>3. QED
    BY <2>1, <2>2 DEF Korvaa, Induktiivinen, TyyppiOK
<1>4. \A v \in Rivit : rivinKerta'[v] = IF v \in tx[r].poistettavat THEN Nil ELSE rivinKerta[v]
  BY DEF Poista, Korvaa, Induktiivinen, TyyppiOK
<1>5. LukotOK' /\ PyynnotOK'
  BY <1>1, <1>2, <1>4, PaataLukot DEF Induktiivinen
<1>6. ViitteetEheat'
  <2>1. Kirjatut' = Kirjatut \ Lukitut(r)
    BY <1>2 DEF Kirjatut, Kirjattu
  <2>2. ASSUME NEW o \in Osat, osanKerta'[o] # Nil
        PROVE  osanKerta'[o] \in Kirjatut' /\ o \in kaytetyt'
    BY <1>1, <1>3, <2>1, <2>2 DEF Induktiivinen, ViitteetEheat
  <2>3. ASSUME NEW v \in Rivit, rivinKerta'[v] # Nil
        PROVE  rivinKerta'[v] \in Kirjatut'
    <3>1. rivinKerta'[v] = rivinKerta[v] /\ v \notin tx[r].poistettavat
      BY <1>4, <2>3
    <3>2. rivinKerta[v] \in Kirjatut
      BY <2>3, <3>1 DEF Induktiivinen, ViitteetEheat
    <3>3. rivinKerta[v] \notin Lukitut(r)
      BY <1>1, <3>1 DEF ViitteetEstavatPoiston, KerranRivit
    <3>4. QED
      BY <2>1, <3>1, <3>2, <3>3
  <2>4. ASSUME NEW o \in tutkintosuoritus' \union kokotutkinto'
        PROVE  osanKerta'[o] # Nil
    <3>1. o \in Osat /\ o \in tutkintosuoritus \union kokotutkinto
      BY <1>1, <2>4 DEF Induktiivinen, TyyppiOK
    <3>2. osanKerta[o] # Nil
      BY <3>1 DEF Induktiivinen, ViitteetEheat
    <3>3. osanKerta[o] \notin Lukitut(r)
      BY <1>1, <2>4, <3>1 DEF ViitteetEstavatPoiston, KerranOsat
    <3>4. QED
      BY <1>3, <3>1, <3>2, <3>3
  <2>5. QED
    BY <2>2, <2>3, <2>4 DEF ViitteetEheat
<1>7. AjatVastaavatTilaa' /\ LuomatonTyhja'
  BY <1>1, <1>2 DEF Induktiivinen, AjatVastaavatTilaa, Elinkaari!AjatVastaavatTilaa, LuomatonTyhja
<1>8. QED
  BY <1>5, <1>6, <1>7 DEF Induktiivinen

\* The commit of an edit keeps the inductive invariant: its new rows refer to a
\* record that the edit holds and that therefore still exists.
LEMMA TallennaInd ==
  ASSUME Induktiivinen, TyyppiOK', NEW r \in Pyynnot, NEW k \in Kerrat,
         NEW uudet \in SUBSET Osat, NEW koko \in SUBSET Osat, NEW rivit \in SUBSET Rivit,
         NEW s \in Sisallot, Tallenna(r, k, uudet, koko, rivit, s)
  PROVE  Induktiivinen'
<1> DEFINE poistuvat == KerranOsat(k) \ tx[r].lomake
           jaavat == tx[r].lomake \union uudet
<1>1. /\ Paata(r) /\ LomakeKelpaa(r, k)
      /\ tx[r].vaihe = "tallennus" /\ k \in tx[r].kohde
      /\ UNCHANGED <<tila, ehdotusaika, hyvaksymisaika, tutkintosuoritus>>
      /\ kaytetyt' = kaytetyt \union uudet /\ uudet \subseteq Osat \ kaytetyt
      /\ kokotutkinto' = (kokotutkinto \ (poistuvat \union jaavat)) \union koko
      /\ koko \subseteq jaavat
  BY DEF Tallenna
<1>2. k \in Lukitut(r) /\ k \in Kirjatut
  BY <1>1 DEF Induktiivinen, PyynnotOK, LukotOK, Lukitut, Kirjatut
<1>3. \A o \in Osat : osanKerta'[o] = IF o \in jaavat THEN k
                                      ELSE IF o \in poistuvat THEN Nil ELSE osanKerta[o]
  BY DEF Tallenna, Korvaa, Induktiivinen, TyyppiOK
<1>4. \A v \in Rivit : rivinKerta'[v] = IF v \in rivit THEN k
                                        ELSE IF v \in tx[r].poistettavat THEN Nil ELSE rivinKerta[v]
  BY DEF Tallenna, Korvaa, Induktiivinen, TyyppiOK
<1>5. LukotOK' /\ PyynnotOK'
  BY <1>1, <1>2, <1>4, PaataLukot DEF Induktiivinen
<1>6. ViitteetEheat'
  <2>1. Kirjatut' = Kirjatut
    BY <1>1 DEF Kirjatut
  <2>2. k # Nil
    BY NilAssumption
  <2>3. ASSUME NEW o \in Osat, osanKerta'[o] # Nil
        PROVE  osanKerta'[o] \in Kirjatut' /\ o \in kaytetyt'
    <3>1. CASE o \in uudet
      BY <1>1, <1>2, <1>3, <2>1, <3>1
    <3>2. CASE o \in tx[r].lomake
      BY <1>1, <1>2, <1>3, <2>1, <3>2 DEF LomakeKelpaa, Induktiivinen, ViitteetEheat
    <3>3. CASE o \notin jaavat
      BY <1>1, <1>3, <2>1, <2>3, <3>3 DEF Induktiivinen, ViitteetEheat
    <3>4. QED
      BY <3>1, <3>2, <3>3
  <2>4. ASSUME NEW v \in Rivit, rivinKerta'[v] # Nil
        PROVE  rivinKerta'[v] \in Kirjatut'
    BY <1>2, <1>4, <2>1, <2>4 DEF Induktiivinen, ViitteetEheat
  <2>5. ASSUME NEW o \in tutkintosuoritus' \union kokotutkinto'
        PROVE  osanKerta'[o] # Nil
    <3>1. o \in Osat
      BY <2>5 DEF TyyppiOK
    <3>2. CASE o \in jaavat
      BY <1>3, <2>2, <3>1, <3>2
    <3>3. CASE o \notin jaavat
      <4>1. o \in tutkintosuoritus \union kokotutkinto /\ o \notin poistuvat
        BY <1>1, <2>5, <3>3 DEF LomakeKelpaa
      <4>2. QED
        BY <1>3, <3>1, <3>3, <4>1 DEF Induktiivinen, ViitteetEheat
    <3>4. QED
      BY <3>2, <3>3
  <2>6. QED
    BY <2>3, <2>4, <2>5 DEF ViitteetEheat
<1>7. AjatVastaavatTilaa' /\ LuomatonTyhja'
  BY <1>1 DEF Induktiivinen, AjatVastaavatTilaa, Elinkaari!AjatVastaavatTilaa, LuomatonTyhja
<1>8. QED
  BY <1>5, <1>6, <1>7 DEF Induktiivinen

\* lisaa! keeps the inductive invariant: its rows refer to the record it inserts.
LEMMA LisaaInd ==
  ASSUME Induktiivinen, TyyppiOK', NEW k \in Kerrat,
         NEW uudet \in SUBSET Osat, NEW koko \in SUBSET Osat, NEW rivit \in SUBSET Rivit,
         NEW s \in Sisallot, Lisaa(k, uudet, koko, rivit, s)
  PROVE  Induktiivinen'
<1>1. /\ tila[k] = "ei_luotu" /\ koko \subseteq uudet /\ uudet \subseteq Osat \ kaytetyt
      /\ kaytetyt' = kaytetyt \union uudet
      /\ kokotutkinto' = kokotutkinto \union koko
      /\ tutkintosuoritus' = tutkintosuoritus \union koko
      /\ UNCHANGED <<ehdotusaika, hyvaksymisaika, kertaLukko, rivinLukko, tx>>
  BY DEF Lisaa, lukot
<1>2. \A j \in Kerrat : tila'[j] = IF j = k THEN "luonnos" ELSE tila[j]
  BY DEF Lisaa, Induktiivinen, TyyppiOK
<1>3. \A o \in Osat : osanKerta'[o] = IF o \in uudet THEN k ELSE osanKerta[o]
  BY DEF Lisaa, Korvaa, Induktiivinen, TyyppiOK
<1>4. \A v \in Rivit : rivinKerta'[v] = IF v \in rivit THEN k ELSE rivinKerta[v]
  BY DEF Lisaa, Korvaa, Induktiivinen, TyyppiOK
<1>5. \A q \in Pyynnot : k \notin Lukitut(q)
  BY <1>1 DEF Induktiivinen, LukotOK, Lukitut, Kirjattu
<1>6. LukotOK'
  BY <1>1, <1>2, <1>5 DEF Induktiivinen, LukotOK, Lukitut
<1>7. PyynnotOK'
  <2> SUFFICES ASSUME NEW q \in Pyynnot
               PROVE  /\ tx[q].kasitellyt \subseteq tx[q].kohde
                      /\ tx[q].toiminto \in {"poista", "muokkaa"} => \E j \in Kerrat : tx[q].kohde = {j}
                      /\ tx[q].vaihe \in {"arvioijat", "arvioijaLukot"}
                           => tx[q].toiminto \in {"poista", "muokkaa"}
                      /\ tx[q].vaihe = "tallennus" => tx[q].toiminto = "muokkaa"
                      /\ tx[q].toiminto = "muokkaa" /\ tx[q].vaihe \in {"arvioijat", "arvioijaLukot", "tallennus"}
                           => tx[q].kohde \subseteq Lukitut(q)'
                      /\ tx[q].toiminto = "muokkaa" /\ tx[q].vaihe \in {"arvioijaLukot", "tallennus"} =>
                           \A v \in Rivit : rivinKerta'[v] \in tx[q].kohde => v \in tx[q].poistettavat
    BY <1>1 DEF PyynnotOK
  <2>1. Lukitut(q)' = Lukitut(q)
    BY <1>1 DEF Lukitut
  <2>2. QED
    BY <1>4, <1>5, <2>1 DEF Induktiivinen, PyynnotOK
<1>8. ViitteetEheat'
  <2>1. Kirjatut' = Kirjatut \union {k} /\ k # Nil
    BY <1>2, NilAssumption DEF Kirjatut, Kirjattu
  <2>2. \A o \in tutkintosuoritus' \union kokotutkinto' : o \in Osat
    BY DEF TyyppiOK
  <2>3. QED
    BY <1>1, <1>3, <1>4, <2>1, <2>2 DEF Induktiivinen, ViitteetEheat
<1>9. AjatVastaavatTilaa' /\ LuomatonTyhja'
  BY <1>1, <1>2 DEF Induktiivinen, AjatVastaavatTilaa, Elinkaari!AjatVastaavatTilaa, LuomatonTyhja
<1>10. QED
  BY <1>6, <1>7, <1>8, <1>9 DEF Induktiivinen

-----------------------------------------------------------------------------
(* The inductive invariant *)

\* The empty tables satisfy the inductive invariant.
LEMMA AlkuInd == Init => Induktiivinen
<1> SUFFICES ASSUME Init
             PROVE  Induktiivinen
  OBVIOUS
<1>1. TyyppiOK
  BY AlkuTyyppi
<1>2. LukotOK /\ PyynnotOK
  BY NilAssumption DEF Init, LukotOK, PyynnotOK, Vapaa
<1>3. ViitteetEheat
  BY DEF Init, ViitteetEheat
<1>4. AjatVastaavatTilaa /\ LuomatonTyhja
  BY DEF Init, AjatVastaavatTilaa, Elinkaari!AjatVastaavatTilaa, LuomatonTyhja
<1>5. QED
  BY <1>1, <1>2, <1>3, <1>4 DEF Induktiivinen

\* Every step keeps the inductive invariant.
LEMMA AskelInd == Induktiivinen /\ [Next]_vars => Induktiivinen'
<1> SUFFICES ASSUME Induktiivinen, [Next]_vars
             PROVE  Induktiivinen'
  OBVIOUS
<1>0. TyyppiOK /\ TyyppiOK'
  BY AskelTyyppi DEF Induktiivinen
<1>1. CASE LisaaUusi
  BY <1>0, <1>1, LisaaInd DEF LisaaUusi
<1>2. ASSUME NEW r \in Pyynnot, AloitaPoisto(r)
      PROVE  Induktiivinen'
  <2> PICK k \in Kerrat : Aloita(r, "poista", "tarkistus", {k}, {})
    BY <1>2 DEF AloitaPoisto, Nakyneet
  <2>1. QED
    BY AloitaInd DEF Toiminto
<1>3. ASSUME NEW r \in Pyynnot, AloitaMuokkaus(r)
      PROVE  Induktiivinen'
  <2> PICK k \in Kerrat, lomake \in SUBSET kaytetyt :
             Aloita(r, "muokkaa", "tarkistus", {k}, lomake)
    BY <1>3 DEF AloitaMuokkaus, Nakyneet
  <2>1. lomake \in SUBSET Osat
    BY <1>0 DEF TyyppiOK
  <2>2. QED
    BY <2>1, AloitaInd DEF Toiminto
<1>4. ASSUME NEW r \in Pyynnot, AloitaSiirto(r)
      PROVE  Induktiivinen'
  <2> PICK K \in SUBSET Kerrat : \/ Aloita(r, "hyvaksy", "tarkistus", K, {})
                                 \/ Aloita(r, "laheta", "lukitus", K, {})
                                 \/ Aloita(r, "palauta", "lukitus", K, {})
    BY <1>4 DEF AloitaSiirto, Nakyneet
  <2>1. QED
    BY AloitaInd DEF Toiminto, Siirto
<1>5. ASSUME NEW r \in Pyynnot, TarkistaYksi(r)
      PROVE  Induktiivinen'
  <2>1. CASE Peru(r)
    BY <2>1, PeruInd
  <2>2. CASE tx[r].toiminto = "poista" /\ Etene(r, "arvioijat")
    BY <2>2, EteneInd
  <2>3. CASE tx[r].toiminto = "muokkaa" /\ Etene(r, "lukitus")
    BY <2>3, EteneInd
  <2>4. QED
    BY <1>5, <2>1, <2>2, <2>3 DEF TarkistaYksi
<1>6. ASSUME NEW r \in Pyynnot, TarkistaKaikki(r)
      PROVE  Induktiivinen'
  BY <1>6, PeruInd, EteneInd DEF TarkistaKaikki
<1>7. ASSUME NEW r \in Pyynnot, JatkaMuokkausta(r)
      PROVE  Induktiivinen'
  BY <1>7, PeruInd, EteneInd DEF JatkaMuokkausta
<1>8. ASSUME NEW r \in Pyynnot, NEW k \in Kerrat, LukitseKerta(r, k)
      PROVE  Induktiivinen'
  BY <1>0, <1>8, LukitseKertaInd
<1>9. ASSUME NEW r \in Pyynnot, ValitseArvioijat(r) \/ LukitseSeuraavaArvioija(r) \/ ArvioijatLukittu(r)
      PROVE  Induktiivinen'
  BY <1>0, <1>9, ValitseArvioijatInd, LukitseArvioijaInd, ArvioijatLukittuInd
     DEF LukitseSeuraavaArvioija
<1>10. ASSUME NEW r \in Pyynnot, NEW pvm \in Paivat, Laheta(r, pvm) \/ Hyvaksy(r, pvm)
       PROVE  Induktiivinen'
  BY <1>0, <1>10, LahetaInd, HyvaksyInd
<1>11. ASSUME NEW r \in Pyynnot, Palauta(r) \/ Poista(r)
       PROVE  Induktiivinen'
  BY <1>0, <1>11, PalautaInd, PoistaInd
<1>12. ASSUME NEW r \in Pyynnot, TallennaMuokkaus(r)
       PROVE  Induktiivinen'
  BY <1>0, <1>12, TallennaInd DEF TallennaMuokkaus
<1>13. ASSUME NEW r \in Pyynnot,
              PoistoKaatuu(r) \/ TallennusKaatuu(r) \/ Keskeytys(r) \/ Lukkiuma(r)
       PROVE  Induktiivinen'
  BY <1>13, PeruInd DEF PoistoKaatuu, TallennusKaatuu, Keskeytys, Lukkiuma
<1>14. CASE UNCHANGED vars
  <2>1. UNCHANGED tietokanta /\ UNCHANGED <<tila, rivinKerta, kertaLukko, tx>>
    BY <1>14 DEF vars, tietokanta, kertaVars, lukot
  <2>2. LukotOK' /\ PyynnotOK'
    BY <2>1 DEF Induktiivinen, LukotOK, PyynnotOK, Lukitut
  <2>3. QED
    BY <1>0, <2>1, <2>2, TietokantaEnnallaan DEF Induktiivinen
<1>15. QED
  BY <1>1, <1>2, <1>3, <1>4, <1>5, <1>6, <1>7, <1>8, <1>9, <1>10, <1>11, <1>12, <1>13, <1>14
     DEF Next, Palvele, LukitseSeuraava

\* The inductive invariant holds in every reachable state.
THEOREM Pysyvyys == Spec => []Induktiivinen
BY AlkuInd, AskelInd, PTL DEF Spec

\* No interleaving of requests leaves a dangling reference.
THEOREM Viitteet == Spec => []ViitteetEheat
<1>1. Induktiivinen => ViitteetEheat
  BY DEF Induktiivinen
<1>2. QED
  BY <1>1, Pysyvyys, PTL

\* The time stamps of a record always are the ones of its state.
THEOREM Ajat == Spec => []AjatVastaavatTilaa
<1>1. Induktiivinen => AjatVastaavatTilaa
  BY DEF Induktiivinen
<1>2. QED
  BY <1>1, Pysyvyys, PTL

-----------------------------------------------------------------------------
(* Edits do not mix *)

\* The assessors of a record are always those of one form: the edit that adds its
\* own has deleted every earlier row, because it has held the record since it
\* selected them.
THEOREM YhdenLomakkeenArvioijat == Spec => EiVanhojaArvioijia
<1> DEFINE Ehto == \A k \in Kirjatut :
                     (\E v \in Rivit : rivinKerta[v] # k /\ rivinKerta'[v] = k) =>
                       \A v \in KerranRivit(k) : rivinKerta'[v] # k
<1>1. Induktiivinen /\ [Next]_vars => [Ehto]_vars
  <2> SUFFICES ASSUME Induktiivinen, Next
               PROVE  Ehto
    OBVIOUS
  <2>1. CASE LisaaUusi
    <3> PICK k \in Kerrat, uudet \in SUBSET Osat, koko \in SUBSET Osat,
             rivit \in SUBSET Rivit, s \in Sisallot : Lisaa(k, uudet, koko, rivit, s)
      BY <2>1 DEF LisaaUusi
    <3>1. k \notin Kirjatut
      BY DEF Lisaa, Kirjatut, Kirjattu
    <3>2. \A v \in Rivit : rivinKerta'[v] = IF v \in rivit THEN k ELSE rivinKerta[v]
      BY DEF Lisaa, Korvaa, Induktiivinen, TyyppiOK
    <3>3. QED
      BY <3>1, <3>2
  <2>2. ASSUME NEW r \in Pyynnot, TallennaMuokkaus(r)
        PROVE  Ehto
    <3> PICK k \in Kerrat, uudet \in SUBSET Osat, koko \in SUBSET Osat,
             rivit \in SUBSET Rivit, s \in Sisallot : Tallenna(r, k, uudet, koko, rivit, s)
      BY <2>2 DEF TallennaMuokkaus
    <3>1. \A v \in Rivit : rivinKerta'[v] = IF v \in rivit THEN k
                                            ELSE IF v \in tx[r].poistettavat THEN Nil ELSE rivinKerta[v]
      BY DEF Tallenna, Korvaa, Induktiivinen, TyyppiOK
    <3>2. KerranRivit(k) \subseteq tx[r].poistettavat
      BY DEF Tallenna, KerranRivit, Induktiivinen, PyynnotOK
    <3>3. rivit \intersect tx[r].poistettavat = {}
      BY DEF Tallenna, VapaatRivit
    <3>4. k # Nil /\ Nil \notin Kirjatut
      BY NilAssumption DEF Kirjatut
    <3>5. \A v \in KerranRivit(k) : v \in Rivit /\ rivinKerta'[v] = Nil
      BY <3>1, <3>2, <3>3 DEF KerranRivit
    <3>6. QED
      BY <3>1, <3>4, <3>5
  <2>3. ASSUME NEW r \in Pyynnot, Poista(r)
        PROVE  Ehto
    <3>1. \A v \in Rivit : rivinKerta'[v] \in {rivinKerta[v], Nil}
      BY <2>3 DEF Poista, Korvaa, Induktiivinen, TyyppiOK
    <3>2. Nil \notin Kirjatut
      BY NilAssumption DEF Kirjatut
    <3>3. QED
      BY <3>1, <3>2
  <2>4. CASE UNCHANGED rivinKerta
    BY <2>4
  <2>5. QED
    BY <2>1, <2>2, <2>3, <2>4
       DEF Next, Palvele, LukitseSeuraava, AloitaPoisto, AloitaMuokkaus, AloitaSiirto, Aloita,
           TarkistaYksi, TarkistaKaikki, Etene, Peru, LukitseKerta, ValitseArvioijat,
           LukitseSeuraavaArvioija, LukitseArvioija, ArvioijatLukittu,
           Laheta, Hyvaksy, Palauta, PoistoKaatuu, JatkaMuokkausta,
           TallennusKaatuu, Keskeytys, Lukkiuma, tietokanta
<1>2. QED
  BY <1>1, Pysyvyys, PTL DEF Spec, EiVanhojaArvioijia

-----------------------------------------------------------------------------
(* Refinement *)

\* A request that commits acts on existing records, and a DELETE on a draft alone.
LEMMA LukitutKirjatut ==
  ASSUME Induktiivinen, NEW r \in Pyynnot
  PROVE  /\ Lukitut(r) \subseteq Kirjatut
         /\ tx[r].toiminto = "poista" =>
              \/ Lukitut(r) = {}
              \/ \E k \in Kerrat : Lukitut(r) = {k} /\ tila[k] = "luonnos"
<1>1. Lukitut(r) \subseteq Kirjatut
  BY DEF Induktiivinen, LukotOK, Lukitut, Kirjatut
<1>2. ASSUME tx[r].toiminto = "poista", NEW k \in Lukitut(r)
      PROVE  k \in Kerrat /\ Lukitut(r) = {k} /\ tila[k] = "luonnos"
  <2>1. k \in Kerrat /\ tila[k] = "luonnos"
    BY <1>2 DEF Induktiivinen, LukotOK, Lukitut
  <2>2. Lukitut(r) \subseteq tx[r].kohde
    BY DEF Induktiivinen, LukotOK, PyynnotOK, Lukitut
  <2>3. PICK j \in Kerrat : tx[r].kohde = {j}
    BY <1>2 DEF Induktiivinen, PyynnotOK
  <2>4. QED
    BY <2>1, <2>2, <2>3
<1>3. QED
  BY <1>1, <1>2

\* Module Suoritukset implements Suorituselinkaari: whatever the interleaving, a
\* batch takes effect on its records in one step, and only a draft is removed.
THEOREM Toteutus == Spec => ToteuttaaElinkaaren
<1>1. Init => Elinkaari!Init
  BY DEF Init, Elinkaari!Init
<1>2. Induktiivinen /\ [Next]_vars => [Elinkaari!Next]_(Elinkaari!elinkaari)
  <2> SUFFICES ASSUME Induktiivinen, [Next]_vars
               PROVE  Elinkaari!Next \/ UNCHANGED Elinkaari!elinkaari
    OBVIOUS
  <2>1. /\ tila \in [Kerrat -> Tila]
        /\ ehdotusaika \in [Kerrat -> Paivat \union {Nil}]
        /\ hyvaksymisaika \in [Kerrat -> Paivat \union {Nil}]
        /\ Elinkaari!Kirjatut = Kirjatut
    BY DEF Induktiivinen, TyyppiOK, Elinkaari!Kirjatut, Kirjatut, Elinkaari!Kirjattu, Kirjattu
  <2>2. CASE LisaaUusi
    <3> PICK k \in Kerrat, uudet \in SUBSET Osat, koko \in SUBSET Osat,
             rivit \in SUBSET Rivit, s \in Sisallot : Lisaa(k, uudet, koko, rivit, s)
      BY <2>2 DEF LisaaUusi
    <3>1. Elinkaari!Luo(k)
      BY DEF Lisaa, Elinkaari!Luo
    <3>2. QED
      BY <3>1 DEF Elinkaari!Next
  <2>3. ASSUME NEW r \in Pyynnot, NEW pvm \in Paivat, Laheta(r, pvm)
        PROVE  Elinkaari!Next
    <3>1. Elinkaari!Laheta(Lukitut(r), pvm)
      BY <2>1, <2>3 DEF Laheta, Korvaa, Elinkaari!Laheta, Elinkaari!Korvaa
    <3>2. QED
      BY <2>1, <3>1, LukitutKirjatut DEF Elinkaari!Next
  <2>4. ASSUME NEW r \in Pyynnot, NEW pvm \in Paivat, Hyvaksy(r, pvm)
        PROVE  Elinkaari!Next
    <3>1. Elinkaari!Hyvaksy(Lukitut(r), pvm)
      BY <2>1, <2>4 DEF Hyvaksy, Korvaa, Elinkaari!Hyvaksy, Elinkaari!Korvaa
    <3>2. QED
      BY <2>1, <3>1, LukitutKirjatut DEF Elinkaari!Next
  <2>5. ASSUME NEW r \in Pyynnot, Palauta(r)
        PROVE  Elinkaari!Next
    <3>1. Elinkaari!Palauta(Lukitut(r))
      BY <2>1, <2>5 DEF Palauta, Korvaa, Elinkaari!Palauta, Elinkaari!Korvaa
    <3>2. QED
      BY <2>1, <3>1, LukitutKirjatut DEF Elinkaari!Next
  <2>6. ASSUME NEW r \in Pyynnot, Poista(r)
        PROVE  Elinkaari!Next \/ UNCHANGED Elinkaari!elinkaari
    <3>1. /\ tila' = Korvaa(tila, Lukitut(r), "poistettu")
          /\ UNCHANGED <<ehdotusaika, hyvaksymisaika>>
          /\ tx[r].toiminto = "poista"
      BY <2>6 DEF Poista
    <3>2. CASE Lukitut(r) = {}
      BY <2>1, <3>1, <3>2 DEF Korvaa, Elinkaari!elinkaari
    <3>3. ASSUME NEW k \in Kerrat, Lukitut(r) = {k}, tila[k] = "luonnos"
          PROVE  Elinkaari!Next
      <4>1. Elinkaari!Poista(k)
        BY <2>1, <3>1, <3>3 DEF Korvaa, Elinkaari!Poista
      <4>2. QED
        BY <4>1 DEF Elinkaari!Next
    <3>4. QED
      BY <3>1, <3>2, <3>3, LukitutKirjatut
  <2>7. ASSUME NEW r \in Pyynnot, TallennaMuokkaus(r)
        PROVE  UNCHANGED <<tila, ehdotusaika, hyvaksymisaika>>
    BY <2>7 DEF TallennaMuokkaus, Tallenna
  <2>8. CASE UNCHANGED <<tila, ehdotusaika, hyvaksymisaika>>
    BY <2>8 DEF Elinkaari!elinkaari
  <2>9. QED
    BY <2>2, <2>3, <2>4, <2>5, <2>6, <2>7, <2>8
       DEF Next, Palvele, LukitseSeuraava, AloitaPoisto, AloitaMuokkaus, AloitaSiirto, Aloita,
           TarkistaYksi, TarkistaKaikki, Etene, Peru, LukitseKerta, ValitseArvioijat,
           LukitseSeuraavaArvioija, LukitseArvioija, ArvioijatLukittu,
           PoistoKaatuu, JatkaMuokkausta, TallennusKaatuu, Keskeytys,
           Lukkiuma, vars, tietokanta, kertaVars
<1>3. QED
  BY <1>1, <1>2, Pysyvyys, PTL DEF Spec, ToteuttaaElinkaaren, Elinkaari!Spec

-----------------------------------------------------------------------------
(* What a check of the state is worth *)

\* An edit lists units of its own record or units that are gone, and a DELETE has
\* selected assessors of the records the request names.
OmatRivit ==
  \A r \in Pyynnot :
    /\ \A o \in tx[r].lomake : o \in kaytetyt /\ osanKerta[o] \in tx[r].kohde \union {Nil}
    /\ \A v \in tx[r].poistettavat : rivinKerta[v] \in tx[r].kohde \union {Nil}

\* A request that does one of T and has passed its check names drafts only, and
\* records that are gone.
Tarkistettu(T) ==
  \A r \in Pyynnot :
    tx[r].toiminto \in T /\ tx[r].vaihe \notin {"vapaa", "tarkistus"} =>
      \A k \in tx[r].kohde \intersect Kirjatut : tila[k] = "luonnos"

\* What a step may do to the transaction of a request: end it, leave its task alone,
\* with a DELETE that has fewer rows left, select the rows of a DELETE, or begin it.
LEMMA TxAskel ==
  ASSUME Induktiivinen, [Next]_vars, NEW q \in Pyynnot
  PROVE  \/ tx'[q] = Vapaa
         \/ /\ tx'[q].toiminto = tx[q].toiminto /\ tx'[q].kohde = tx[q].kohde
            /\ tx'[q].lomake = tx[q].lomake
            /\ \/ tx'[q].poistettavat \subseteq tx[q].poistettavat
               \/ /\ UNCHANGED tietokanta
                  /\ tx'[q].poistettavat = {v \in Rivit : rivinKerta[v] \in tx[q].kohde}
            /\ \/ tx'[q].vaihe = tx[q].vaihe
               \/ tx[q].vaihe \notin {"vapaa", "tarkistus"}
               \/ /\ UNCHANGED tietokanta
                  /\ muokkaus_sallittu_kaikille(tx[q].kohde)
         \/ /\ UNCHANGED tietokanta
            /\ tx'[q].poistettavat = {}
            /\ \A o \in tx'[q].lomake : o \in kaytetyt /\ osanKerta[o] \in tx'[q].kohde \union {Nil}
            /\ tx'[q].vaihe = "tarkistus" \/ tx'[q].toiminto \in {"laheta", "palauta"}
<1> DEFINE Alkaa == /\ UNCHANGED tietokanta
                    /\ tx'[q].poistettavat = {}
                    /\ \A o \in tx'[q].lomake :
                         o \in kaytetyt /\ osanKerta[o] \in tx'[q].kohde \union {Nil}
                    /\ tx'[q].vaihe = "tarkistus" \/ tx'[q].toiminto \in {"laheta", "palauta"}
           Jatkuu == /\ tx'[q].toiminto = tx[q].toiminto /\ tx'[q].kohde = tx[q].kohde
                     /\ tx'[q].lomake = tx[q].lomake
                     /\ \/ tx'[q].poistettavat \subseteq tx[q].poistettavat
                        \/ /\ UNCHANGED tietokanta
                           /\ tx'[q].poistettavat = {v \in Rivit : rivinKerta[v] \in tx[q].kohde}
                     /\ \/ tx'[q].vaihe = tx[q].vaihe
                        \/ tx[q].vaihe \notin {"vapaa", "tarkistus"}
                        \/ /\ UNCHANGED tietokanta
                           /\ muokkaus_sallittu_kaikille(tx[q].kohde)
<1> SUFFICES tx'[q] = Vapaa \/ Jatkuu \/ Alkaa
  OBVIOUS
<1>0. /\ tx \in [Pyynnot -> Tx]
      /\ tx[q] \in Tx
  BY DEF Induktiivinen, TyyppiOK
<1>1. CASE tx'[q] = tx[q]
  BY <1>1
<1>2. ASSUME NEW r \in Pyynnot, AloitaPoisto(r) \/ AloitaMuokkaus(r) \/ AloitaSiirto(r)
      PROVE  tx'[q] = tx[q] \/ Alkaa
  <2>1. PICK toiminto, vaihe, K, lomake :
               /\ Aloita(r, toiminto, vaihe, K, lomake)
               /\ vaihe = "tarkistus" \/ toiminto \in {"laheta", "palauta"}
               /\ \A o \in lomake : o \in kaytetyt /\ osanKerta[o] \in K \union {Nil}
    <3>1. CASE AloitaPoisto(r)
      BY <3>1 DEF AloitaPoisto
    <3>2. CASE AloitaMuokkaus(r)
      <4> PICK k \in Nakyneet :
                 \E lomake \in SUBSET {o \in kaytetyt : osanKerta[o] \in {k, Nil}} \ {{}} :
                   Aloita(r, "muokkaa", "tarkistus", {k}, lomake)
        BY <3>2 DEF AloitaMuokkaus
      <4>1. PICK lomake \in SUBSET {o \in kaytetyt : osanKerta[o] \in {k, Nil}} :
                   Aloita(r, "muokkaa", "tarkistus", {k}, lomake)
        OBVIOUS
      <4>2. QED
        BY <4>1
    <3>3. CASE AloitaSiirto(r)
      BY <3>3 DEF AloitaSiirto
    <3>4. QED
      BY <1>2, <3>1, <3>2, <3>3
  <2>2. CASE q # r
    BY <1>0, <2>1, <2>2 DEF Aloita
  <2>3. CASE q = r
    <3>1. tx'[q] = [Vapaa EXCEPT !.toiminto = toiminto, !.vaihe = vaihe,
                                 !.kohde = K, !.lomake = lomake]
      BY <1>0, <2>1, <2>3 DEF Aloita
    <3>2. /\ tx'[q].toiminto = toiminto /\ tx'[q].vaihe = vaihe /\ tx'[q].kohde = K
          /\ tx'[q].lomake = lomake /\ tx'[q].poistettavat = {}
      BY <3>1 DEF Vapaa
    <3>3. QED
      BY <2>1, <3>2 DEF Aloita
  <2>4. QED
    BY <2>2, <2>3
<1>3. ASSUME NEW r \in Pyynnot, TarkistaYksi(r) \/ TarkistaKaikki(r) \/ JatkaMuokkausta(r)
                               \/ ArvioijatLukittu(r)
      PROVE  tx'[q] \in {Vapaa, tx[q]} \/ Jatkuu
  <2>1. CASE Peru(r)
    BY <1>0, <2>1 DEF Peru, Paata
  <2>2. ASSUME NEW vaihe, Etene(r, vaihe),
               \/ tx[r].vaihe \in {"lukitus", "arvioijaLukot"}
               \/ muokkaus_sallittu_kaikille(tx[r].kohde)
        PROVE  tx'[q] = tx[q] \/ Jatkuu
    BY <1>0, <2>2, TxKentat DEF Etene
  <2>3. (\A k \in tx[r].kohde : muokkaus_sallittu(k)) => muokkaus_sallittu_kaikille(tx[r].kohde)
    BY DEF muokkaus_sallittu, muokkaus_sallittu_kaikille
  <2>4. QED
    BY <1>3, <2>1, <2>2, <2>3 DEF TarkistaYksi, TarkistaKaikki, JatkaMuokkausta,
                                   ArvioijatLukittu, Kasitellyt
<1>4. ASSUME NEW r \in Pyynnot, NEW k \in Kerrat, LukitseKerta(r, k)
      PROVE  tx'[q] = tx[q] \/ Jatkuu
  BY <1>0, <1>4, TxKentat DEF LukitseKerta, Kasitelty
<1>5. ASSUME NEW r \in Pyynnot, ValitseArvioijat(r)
      PROVE  tx'[q] = tx[q] \/ Jatkuu
  BY <1>0, <1>5, TxKentat DEF ValitseArvioijat
<1>6. ASSUME NEW r \in Pyynnot, NEW v \in Rivit, LukitseArvioija(r, v)
      PROVE  tx'[q] = tx[q] \/ Jatkuu
  <2>1. CASE tx' = tx
    BY <2>1
  <2>2. CASE tx' = [tx EXCEPT ![r] = [tx[r] EXCEPT !.poistettavat = @ \ {v}]]
    BY <1>0, <2>2, TxKentat
  <2>3. QED
    BY <1>6, <2>1, <2>2 DEF LukitseArvioija
<1>7. ASSUME NEW r \in Pyynnot, Paata(r)
      PROVE  tx'[q] \in {Vapaa, tx[q]}
  BY <1>0, <1>7 DEF Paata
<1>8. CASE LisaaUusi \/ UNCHANGED vars
  BY <1>1, <1>8 DEF LisaaUusi, Lisaa, vars
<1>9. ASSUME NEW r \in Pyynnot, Palvele(r) \/ Lukkiuma(r) \/ Keskeytys(r)
      PROVE  Paata(r) \/ TarkistaYksi(r) \/ TarkistaKaikki(r) \/ JatkaMuokkausta(r)
               \/ ValitseArvioijat(r) \/ ArvioijatLukittu(r)
  BY <1>9 DEF Palvele, Laheta, Hyvaksy, Palauta, Poista, PoistoKaatuu,
              TallennaMuokkaus, Tallenna, TallennusKaatuu, Keskeytys, Lukkiuma, Peru
<1> HIDE DEF Alkaa, Jatkuu
<1>10. QED
  BY <1>1, <1>2, <1>3, <1>4, <1>5, <1>6, <1>7, <1>8, <1>9
     DEF Next, LukitseSeuraava, LukitseSeuraavaArvioija

\* What a step may do to the rows: a unit in use stays with its record or goes, so
\* does an assessor that a DELETE has selected, and only laheta! and hyvaksy! give a
\* record another state than draft.
LEMMA KantaAskel ==
  ASSUME Induktiivinen, OmatRivit, [Next]_vars
  PROVE  /\ \A o \in kaytetyt : o \in kaytetyt' /\ osanKerta'[o] \in {osanKerta[o], Nil}
         /\ \A q \in Pyynnot : \A v \in tx[q].poistettavat : rivinKerta'[v] \in {rivinKerta[v], Nil}
         /\ \A k \in Kerrat :
              \/ tila'[k] \in {tila[k], "luonnos", "poistettu"}
              \/ \E r \in Pyynnot : /\ k \in tx[r].kohde /\ tx'[r] = Vapaa
                                    /\ tx[r].toiminto \in {"laheta", "hyvaksy"}
<1> DEFINE Osat1 == \A o \in kaytetyt : o \in kaytetyt' /\ osanKerta'[o] \in {osanKerta[o], Nil}
           Rivit1 == \A q \in Pyynnot : \A v \in tx[q].poistettavat :
                       rivinKerta'[v] \in {rivinKerta[v], Nil}
           Tilat1 == \A k \in Kerrat :
                       \/ tila'[k] \in {tila[k], "luonnos", "poistettu"}
                       \/ \E r \in Pyynnot : /\ k \in tx[r].kohde /\ tx'[r] = Vapaa
                                             /\ tx[r].toiminto \in {"laheta", "hyvaksy"}
<1> SUFFICES Osat1 /\ Rivit1 /\ Tilat1
  OBVIOUS
<1>0. TyyppiOK
  BY DEF Induktiivinen
<1>1. \A q \in Pyynnot : tx[q].poistettavat \subseteq Rivit
  BY <1>0 DEF TyyppiOK, Tx
<1>2. CASE LisaaUusi
  <2> PICK k \in Kerrat, uudet \in SUBSET Osat, koko \in SUBSET Osat,
           rivit \in SUBSET Rivit, s \in Sisallot : Lisaa(k, uudet, koko, rivit, s)
    BY <1>2 DEF LisaaUusi
  <2>1. Osat1
    BY <1>0 DEF Lisaa, Korvaa, TyyppiOK
  <2>2. Rivit1
    BY <1>0, <1>1 DEF Lisaa, Korvaa, VapaatRivit, TyyppiOK
  <2>3. Tilat1
    BY <1>0 DEF Lisaa, TyyppiOK
  <2>4. QED
    BY <2>1, <2>2, <2>3
<1>3. ASSUME NEW r \in Pyynnot, TallennaMuokkaus(r)
      PROVE  Osat1 /\ Rivit1 /\ Tilat1
  <2> PICK k \in Kerrat, uudet \in SUBSET Osat, koko \in SUBSET Osat,
           rivit \in SUBSET Rivit, s \in Sisallot : Tallenna(r, k, uudet, koko, rivit, s)
    BY <1>3 DEF TallennaMuokkaus
  <2> DEFINE poistuvat == KerranOsat(k) \ tx[r].lomake
             jaavat == tx[r].lomake \union uudet
  <2>1. tx[r].kohde = {k}
    BY DEF Tallenna, Induktiivinen, PyynnotOK
  <2>2. \A o \in tx[r].lomake : osanKerta[o] = k
    BY <2>1 DEF Tallenna, LomakeKelpaa, OmatRivit
  <2>3. \A o \in Osat : osanKerta'[o] = IF o \in jaavat THEN k
                                        ELSE IF o \in poistuvat THEN Nil ELSE osanKerta[o]
    BY <1>0 DEF Tallenna, Korvaa, TyyppiOK
  <2>4. Osat1
    BY <1>0, <2>2, <2>3 DEF Tallenna, TyyppiOK
  <2>5. Rivit1
    <3>1. \A v \in Rivit : rivinKerta'[v] = IF v \in rivit THEN k
                                            ELSE IF v \in tx[r].poistettavat THEN Nil ELSE rivinKerta[v]
      BY <1>0 DEF Tallenna, Korvaa, TyyppiOK
    <3>2. \A q \in Pyynnot : rivit \intersect tx[q].poistettavat = {}
      BY DEF Tallenna, VapaatRivit
    <3>3. QED
      BY <1>1, <3>1, <3>2
  <2>6. Tilat1
    BY DEF Tallenna
  <2>7. QED
    BY <2>4, <2>5, <2>6
<1>4. ASSUME NEW r \in Pyynnot, Poista(r)
      PROVE  Osat1 /\ Rivit1 /\ Tilat1
  <2>1. Osat1
    BY <1>0, <1>4 DEF Poista, Korvaa, TyyppiOK
  <2>2. Rivit1
    BY <1>0, <1>1, <1>4 DEF Poista, Korvaa, TyyppiOK
  <2>3. Tilat1
    BY <1>0, <1>4 DEF Poista, Korvaa, TyyppiOK
  <2>4. QED
    BY <2>1, <2>2, <2>3
<1>5. ASSUME NEW r \in Pyynnot,
             (\E pvm \in Paivat : Laheta(r, pvm) \/ Hyvaksy(r, pvm)) \/ Palauta(r)
      PROVE  Osat1 /\ Rivit1 /\ Tilat1
  <2>1. UNCHANGED <<osanKerta, kaytetyt, rivinKerta>> /\ Paata(r)
    BY <1>5 DEF Laheta, Hyvaksy, Palauta, osaVars
  <2>2. tx'[r] = Vapaa /\ Lukitut(r) \subseteq tx[r].kohde
    BY <1>0, <2>1 DEF Paata, TyyppiOK, Induktiivinen, LukotOK, PyynnotOK, Lukitut
  <2>3. \A k \in Kerrat : tila'[k] = tila[k] \/ (k \in Lukitut(r) /\ tila'[k] = "luonnos")
                          \/ (k \in Lukitut(r) /\ tx[r].toiminto \in {"laheta", "hyvaksy"})
    BY <1>0, <1>5 DEF Laheta, Hyvaksy, Palauta, Korvaa, TyyppiOK
  <2>4. QED
    BY <2>1, <2>2, <2>3
<1>6. CASE UNCHANGED tietokanta
  BY <1>6 DEF tietokanta, kertaVars, osaVars
<1>7. [Next]_vars => \/ LisaaUusi
                     \/ \E r \in Pyynnot :
                          \/ TallennaMuokkaus(r) \/ Poista(r) \/ Palauta(r)
                          \/ \E pvm \in Paivat : Laheta(r, pvm) \/ Hyvaksy(r, pvm)
                     \/ UNCHANGED tietokanta
  BY DEF Next, Palvele, LukitseSeuraava, AloitaPoisto, AloitaMuokkaus, AloitaSiirto, Aloita,
         TarkistaYksi, TarkistaKaikki, Etene, Peru, LukitseKerta, ValitseArvioijat,
         LukitseSeuraavaArvioija, LukitseArvioija, ArvioijatLukittu,
         PoistoKaatuu, JatkaMuokkausta, TallennusKaatuu, Keskeytys,
         Lukkiuma, vars
<1>8. QED
  BY <1>2, <1>3, <1>4, <1>5, <1>6, <1>7

\* Every step keeps OmatRivit.
LEMMA OmatRivitAskel == Induktiivinen /\ OmatRivit /\ [Next]_vars => OmatRivit'
<1> SUFFICES ASSUME Induktiivinen, OmatRivit, [Next]_vars, NEW q \in Pyynnot
             PROVE  /\ \A o \in tx'[q].lomake :
                         o \in kaytetyt' /\ osanKerta'[o] \in tx'[q].kohde \union {Nil}
                    /\ \A v \in tx'[q].poistettavat : rivinKerta'[v] \in tx'[q].kohde \union {Nil}
  BY DEF OmatRivit
<1>1. UNCHANGED tietokanta => UNCHANGED <<osanKerta, kaytetyt, rivinKerta>>
  BY DEF tietokanta, osaVars
<1>2. /\ \A o \in tx[q].lomake : o \in kaytetyt' /\ osanKerta'[o] \in tx[q].kohde \union {Nil}
      /\ \A v \in tx[q].poistettavat : rivinKerta'[v] \in tx[q].kohde \union {Nil}
  BY KantaAskel DEF OmatRivit
<1>3. Vapaa.lomake = {} /\ Vapaa.poistettavat = {}
  BY DEF Vapaa
<1>4. QED
  BY <1>1, <1>2, <1>3, TxAskel

\* Edits and DELETEs only ever touch rows of the records they name.
THEOREM VainOmatRivit == Spec => []OmatRivit
<1>1. Init => OmatRivit
  <2>1. ASSUME Init, NEW r \in Pyynnot
        PROVE  tx[r].lomake = {} /\ tx[r].poistettavat = {}
    BY <2>1 DEF Init, Vapaa
  <2>2. QED
    BY <2>1 DEF OmatRivit
<1>2. QED
  BY <1>1, OmatRivitAskel, Pysyvyys, PTL DEF Spec

\* What a request found when it checked its records stays true until it commits, if
\* no laheta or hyvaksy of another request is under way on them.
LEMMA TarkistettuAskel ==
  ASSUME NEW T \in SUBSET {"muokkaa", "poista", "hyvaksy"},
         Induktiivinen, OmatRivit, Tarkistettu(T), SiirrotErillaan(T), [Next]_vars
  PROVE  Tarkistettu(T)'
<1> SUFFICES ASSUME NEW q \in Pyynnot,
                    tx'[q].toiminto \in T, tx'[q].vaihe \notin {"vapaa", "tarkistus"},
                    NEW k \in tx'[q].kohde, k \in Kerrat, tila'[k] \in Kirjattu
             PROVE  tila'[k] = "luonnos"
  BY DEF Tarkistettu, Kirjatut
<1>1. tx'[q] # Vapaa
  BY DEF Vapaa
<1>2. /\ tx'[q].toiminto = tx[q].toiminto /\ tx'[q].kohde = tx[q].kohde
      /\ \/ tx'[q].vaihe = tx[q].vaihe
         \/ tx[q].vaihe \notin {"vapaa", "tarkistus"}
         \/ UNCHANGED tietokanta /\ muokkaus_sallittu_kaikille(tx[q].kohde)
  BY <1>1, TxAskel
<1>3. CASE tx[q].vaihe \in {"vapaa", "tarkistus"}
  <2>1. tila' = tila /\ muokkaus_sallittu_kaikille(tx[q].kohde)
    BY <1>2, <1>3 DEF tietokanta, kertaVars
  <2>2. QED
    BY <1>2, <2>1 DEF muokkaus_sallittu_kaikille, Kirjatut
<1>4. CASE tx[q].vaihe \notin {"vapaa", "tarkistus"}
  <2>1. tila[k] \in Kirjattu => tila[k] = "luonnos"
    BY <1>2, <1>4 DEF Tarkistettu, Kirjatut
  <2>2. ASSUME NEW r \in Pyynnot, k \in tx[r].kohde, tx'[r] = Vapaa,
               tx[r].toiminto \in {"laheta", "hyvaksy"}
        PROVE  FALSE
    <3>1. q # r
      BY <1>1, <2>2
    <3>2. QED
      BY <1>2, <2>2, <3>1 DEF SiirrotErillaan
  <2>3. tila'[k] \in {tila[k], "luonnos", "poistettu"}
    BY <2>2, KantaAskel
  <2>4. QED
    BY <2>1, <2>3 DEF Kirjattu
<1>5. QED
  BY <1>3, <1>4

\* Nobody has checked anything yet.
LEMMA TarkistettuAlku ==
  ASSUME NEW T, Init
  PROVE  Tarkistettu(T)
<1>1. \A r \in Pyynnot : tx[r].vaihe = "vapaa"
  BY DEF Init, Vapaa
<1>2. QED
  BY <1>1 DEF Tarkistettu

\* An edit that is saved has its record locked and holds nothing but a draft.
LEMMA TallennusLuonnokselle ==
  ASSUME Induktiivinen, Tarkistettu({"muokkaa"}), NEW r \in Pyynnot,
         NEW k \in tx[r].kohde, tx[r].vaihe = "tallennus"
  PROVE  tx[r].kohde = {k} /\ k \in Kirjatut /\ tila[k] = "luonnos"
<1>1. tx[r].toiminto = "muokkaa" /\ tx[r].kohde \subseteq Lukitut(r)
  BY DEF Induktiivinen, PyynnotOK
<1>2. k \in Kirjatut
  BY <1>1, LukitutKirjatut
<1>3. tila[k] = "luonnos"
  BY <1>1, <1>2 DEF Tarkistettu
<1>4. tx[r].kohde = {k}
  BY <1>1 DEF Induktiivinen, PyynnotOK
<1>5. QED
  BY <1>2, <1>3, <1>4

\* The columns and units of a record change only while it is a draft, as long as
\* nobody sends or approves a record that is being edited: edits, deletions and
\* returns to draft may interleave with an edit in any way.
THEOREM MuokkausLuonnokselle ==
  Spec /\ []SiirrotErillaan({"muokkaa"}) => VainLuonnostaMuokataan
<1> DEFINE Ehto == \A k \in Kirjatut :
                     tila[k] # "luonnos" => MuokattuSisalto(k)' = MuokattuSisalto(k)
<1>1. Init => Tarkistettu({"muokkaa"})
  BY TarkistettuAlku
<1>2. /\ Induktiivinen /\ OmatRivit /\ Tarkistettu({"muokkaa"})
      /\ SiirrotErillaan({"muokkaa"}) /\ [Next]_vars
      => Tarkistettu({"muokkaa"})'
  BY TarkistettuAskel
<1>3. Induktiivinen /\ OmatRivit /\ Tarkistettu({"muokkaa"}) /\ [Next]_vars => [Ehto]_vars
  <2> SUFFICES ASSUME Induktiivinen, OmatRivit, Tarkistettu({"muokkaa"}), Next,
                      NEW k \in Kirjatut, tila[k] # "luonnos"
               PROVE  MuokattuSisalto(k)' = MuokattuSisalto(k)
    OBVIOUS
  <2>0. TyyppiOK /\ k \in Kerrat /\ k # Nil
    BY NilAssumption DEF Induktiivinen, Kirjatut
  <2>1. CASE LisaaUusi
    <3> PICK j \in Kerrat, uudet \in SUBSET Osat, koko \in SUBSET Osat,
             rivit \in SUBSET Rivit, s \in Sisallot : Lisaa(j, uudet, koko, rivit, s)
      BY <2>1 DEF LisaaUusi
    <3>1. j # k /\ sisalto'[k] = sisalto[k]
      BY <2>0 DEF Lisaa, Kirjatut, Kirjattu, TyyppiOK
    <3>2. \A o \in Osat : osanKerta'[o] = IF o \in uudet THEN j ELSE osanKerta[o]
      BY <2>0 DEF Lisaa, Korvaa, TyyppiOK
    <3>3. \A o \in uudet : osanKerta[o] # k
      BY <2>0 DEF Lisaa, Induktiivinen, ViitteetEheat
    <3>4. KerranOsat(k)' = KerranOsat(k) /\ KerranOsat(k) \intersect uudet = {}
      BY <3>1, <3>2, <3>3 DEF KerranOsat
    <3>5. kokotutkinto' = kokotutkinto \union koko /\ koko \subseteq uudet
      BY DEF Lisaa
    <3>6. KerranOsat(k)' \intersect kokotutkinto' = KerranOsat(k) \intersect kokotutkinto
      BY <3>4, <3>5
    <3>7. QED
      BY <3>1, <3>4, <3>6 DEF MuokattuSisalto
  <2>2. ASSUME NEW r \in Pyynnot, TallennaMuokkaus(r)
        PROVE  MuokattuSisalto(k)' = MuokattuSisalto(k)
    <3> PICK j \in Kerrat, uudet \in SUBSET Osat, koko \in SUBSET Osat,
             rivit \in SUBSET Rivit, s \in Sisallot : Tallenna(r, j, uudet, koko, rivit, s)
      BY <2>2 DEF TallennaMuokkaus
    <3> DEFINE poistuvat == KerranOsat(j) \ tx[r].lomake
               jaavat == tx[r].lomake \union uudet
    <3>1. tx[r].kohde = {j} /\ j # k
      BY TallennusLuonnokselle DEF Tallenna
    <3>2. sisalto'[k] = sisalto[k]
      BY <2>0, <3>1 DEF Tallenna, TyyppiOK
    <3>3. \A o \in Osat : osanKerta'[o] = IF o \in jaavat THEN j
                                          ELSE IF o \in poistuvat THEN Nil ELSE osanKerta[o]
      BY <2>0 DEF Tallenna, Korvaa, TyyppiOK
    <3>4. \A o \in poistuvat \union jaavat : osanKerta[o] # k
      <4>1. \A o \in poistuvat : osanKerta[o] = j
        BY DEF KerranOsat
      <4>2. \A o \in tx[r].lomake : osanKerta[o] \in {j, Nil}
        BY <3>1 DEF OmatRivit
      <4>3. \A o \in uudet : osanKerta[o] # k
        BY <2>0 DEF Tallenna, Induktiivinen, ViitteetEheat
      <4>4. QED
        BY <2>0, <3>1, <4>1, <4>2, <4>3
    <3> HIDE DEF poistuvat, jaavat
    <3>5. /\ KerranOsat(k)' = KerranOsat(k)
          /\ KerranOsat(k) \intersect (poistuvat \union jaavat) = {}
      BY <2>0, <3>1, <3>3, <3>4 DEF KerranOsat
    <3>6. /\ kokotutkinto' = (kokotutkinto \ (poistuvat \union jaavat)) \union koko
          /\ koko \subseteq jaavat
      BY DEF Tallenna, poistuvat, jaavat
    <3>7. KerranOsat(k)' \intersect kokotutkinto' = KerranOsat(k) \intersect kokotutkinto
      BY <3>5, <3>6
    <3>8. QED
      BY <3>2, <3>5, <3>7 DEF MuokattuSisalto
  <2>3. ASSUME NEW r \in Pyynnot, Poista(r)
        PROVE  MuokattuSisalto(k)' = MuokattuSisalto(k)
    <3> DEFINE osat == UNION {KerranOsat(j) : j \in Lukitut(r)}
    <3>1. k \notin Lukitut(r)
      BY <2>3, LukitutKirjatut DEF Poista
    <3>2. /\ \A o \in Osat : osanKerta'[o] = IF o \in osat THEN Nil ELSE osanKerta[o]
          /\ kokotutkinto' = kokotutkinto \ osat /\ sisalto' = sisalto
      BY <2>0, <2>3 DEF Poista, Korvaa, TyyppiOK
    <3>3. \A o \in osat : osanKerta[o] # k
      BY <3>1 DEF KerranOsat
    <3> HIDE DEF osat
    <3>4. KerranOsat(k)' = KerranOsat(k) /\ KerranOsat(k) \intersect osat = {}
      BY <2>0, <3>2, <3>3 DEF KerranOsat
    <3>5. KerranOsat(k)' \intersect kokotutkinto' = KerranOsat(k) \intersect kokotutkinto
      BY <3>2, <3>4
    <3>6. QED
      BY <3>2, <3>4, <3>5 DEF MuokattuSisalto
  <2>4. CASE UNCHANGED <<sisalto, osaVars>>
    BY <2>4 DEF osaVars, MuokattuSisalto, KerranOsat
  <2>5. QED
    BY <2>1, <2>2, <2>3, <2>4
       DEF Next, Palvele, LukitseSeuraava, AloitaPoisto, AloitaMuokkaus, AloitaSiirto, Aloita,
           TarkistaYksi, TarkistaKaikki, Etene, Peru, LukitseKerta, ValitseArvioijat,
           LukitseSeuraavaArvioija, LukitseArvioija, ArvioijatLukittu,
           Laheta, Hyvaksy, Palauta, PoistoKaatuu, JatkaMuokkausta,
           TallennusKaatuu, Keskeytys, Lukkiuma, tietokanta, kertaVars
<1>4. QED
  BY <1>1, <1>2, <1>3, Pysyvyys, VainOmatRivit, PTL DEF Spec, VainLuonnostaMuokataan

\* The assessors of a record change only while it is a draft, as long as nobody sends
\* or approves a record that is being edited or deleted, although neither the edit
\* nor the DELETE repeats its check when it comes to the assessors.
THEOREM ArvioijatLuonnokselle ==
  Spec /\ []SiirrotErillaan({"muokkaa", "poista"}) => VainLuonnoksenArvioijatMuuttuvat
<1> DEFINE T == {"muokkaa", "poista"}
           Ehto == \A k \in Kirjatut : tila[k] # "luonnos" => KerranRivit(k)' = KerranRivit(k)
<1>1. Init => Tarkistettu(T)
  BY TarkistettuAlku
<1>2. Induktiivinen /\ OmatRivit /\ Tarkistettu(T) /\ SiirrotErillaan(T) /\ [Next]_vars
        => Tarkistettu(T)'
  BY TarkistettuAskel
<1>3. Induktiivinen /\ OmatRivit /\ Tarkistettu(T) /\ [Next]_vars => [Ehto]_vars
  <2> SUFFICES ASSUME Induktiivinen, OmatRivit, Tarkistettu(T), Next,
                      NEW k \in Kirjatut, tila[k] # "luonnos"
               PROVE  KerranRivit(k)' = KerranRivit(k)
    OBVIOUS
  <2>0. TyyppiOK /\ k \in Kerrat /\ k # Nil
    BY NilAssumption DEF Induktiivinen, Kirjatut
  <2>1. CASE LisaaUusi
    <3> PICK j \in Kerrat, uudet \in SUBSET Osat, koko \in SUBSET Osat,
             rivit \in SUBSET Rivit, s \in Sisallot : Lisaa(j, uudet, koko, rivit, s)
      BY <2>1 DEF LisaaUusi
    <3>1. j # k
      BY DEF Lisaa, Kirjatut, Kirjattu
    <3>2. \A v \in Rivit : rivinKerta'[v] = IF v \in rivit THEN j ELSE rivinKerta[v]
      BY <2>0 DEF Lisaa, Korvaa, TyyppiOK
    <3>3. \A v \in rivit : rivinKerta[v] # k
      BY <2>0 DEF Lisaa, VapaatRivit
    <3>4. QED
      BY <3>1, <3>2, <3>3 DEF KerranRivit
  <2>2. ASSUME NEW r \in Pyynnot, tx[r].toiminto \in T,
               tx[r].vaihe \notin {"vapaa", "tarkistus"}
        PROVE  \A v \in tx[r].poistettavat : rivinKerta[v] # k
    <3>1. k \notin tx[r].kohde
      BY <2>2 DEF Tarkistettu
    <3>2. QED
      BY <2>0, <3>1 DEF OmatRivit
  <2>3. ASSUME NEW r \in Pyynnot, TallennaMuokkaus(r)
        PROVE  KerranRivit(k)' = KerranRivit(k)
    <3> PICK j \in Kerrat, uudet \in SUBSET Osat, koko \in SUBSET Osat,
             rivit \in SUBSET Rivit, s \in Sisallot : Tallenna(r, j, uudet, koko, rivit, s)
      BY <2>3 DEF TallennaMuokkaus
    <3>1. tx[r].vaihe = "tallennus" /\ tx[r].toiminto = "muokkaa"
      BY DEF Tallenna, Induktiivinen, PyynnotOK
    <3>2. j # k
      <4>1. tx[r].kohde \subseteq Lukitut(r) /\ j \in tx[r].kohde
        BY <3>1 DEF Tallenna, Induktiivinen, PyynnotOK
      <4>2. j \in Kirjatut
        BY <4>1, LukitutKirjatut
      <4>3. tila[j] = "luonnos"
        BY <3>1, <4>1, <4>2 DEF Tarkistettu
      <4>4. QED
        BY <4>3
    <3>3. \A v \in Rivit : rivinKerta'[v] = IF v \in rivit THEN j
                                            ELSE IF v \in tx[r].poistettavat THEN Nil ELSE rivinKerta[v]
      BY <2>0 DEF Tallenna, Korvaa, TyyppiOK
    <3>4. \A v \in rivit : rivinKerta[v] # k
      BY <2>0 DEF Tallenna, VapaatRivit
    <3>5. \A v \in tx[r].poistettavat : rivinKerta[v] # k
      BY <2>2, <3>1
    <3>6. QED
      BY <2>0, <3>2, <3>3, <3>4, <3>5 DEF KerranRivit
  <2>4. ASSUME NEW r \in Pyynnot, Poista(r)
        PROVE  KerranRivit(k)' = KerranRivit(k)
    <3>1. \A v \in Rivit : rivinKerta'[v] = IF v \in tx[r].poistettavat THEN Nil ELSE rivinKerta[v]
      BY <2>0, <2>4 DEF Poista, Korvaa, TyyppiOK
    <3>2. \A v \in tx[r].poistettavat : rivinKerta[v] # k
      BY <2>2, <2>4 DEF Poista, Kasitellyt
    <3>3. QED
      BY <2>0, <3>1, <3>2 DEF KerranRivit
  <2>5. CASE UNCHANGED rivinKerta
    BY <2>5 DEF KerranRivit
  <2>6. QED
    BY <2>1, <2>3, <2>4, <2>5
       DEF Next, Palvele, LukitseSeuraava, AloitaPoisto, AloitaMuokkaus, AloitaSiirto, Aloita,
           TarkistaYksi, TarkistaKaikki, Etene, Peru, LukitseKerta, ValitseArvioijat,
           LukitseSeuraavaArvioija, LukitseArvioija, ArvioijatLukittu,
           Laheta, Hyvaksy, Palauta, PoistoKaatuu, JatkaMuokkausta,
           TallennusKaatuu, Keskeytys, Lukkiuma, tietokanta
<1> HIDE DEF T
<1>4. Spec /\ []SiirrotErillaan(T) => VainLuonnoksenArvioijatMuuttuvat
  BY <1>1, <1>2, <1>3, Pysyvyys, VainOmatRivit, PTL DEF Spec, VainLuonnoksenArvioijatMuuttuvat
<1>5. QED
  BY <1>4 DEF T

\* Only a draft is approved, as long as no two transitions that send or approve one
\* record are under way at once.
THEOREM HyvaksyntaLuonnokselle ==
  Spec /\ []SiirrotErillaan({"hyvaksy"}) => VainLuonnosHyvaksytaan
<1> DEFINE Ehto == \A k \in Kerrat :
                     /\ tila'[k] = "hyvaksytty"
                     /\ tila[k] # "hyvaksytty" \/ hyvaksymisaika'[k] # hyvaksymisaika[k]
                     => tila[k] = "luonnos"
<1>1. Init => Tarkistettu({"hyvaksy"})
  BY TarkistettuAlku
<1>2. /\ Induktiivinen /\ OmatRivit /\ Tarkistettu({"hyvaksy"})
      /\ SiirrotErillaan({"hyvaksy"}) /\ [Next]_vars
      => Tarkistettu({"hyvaksy"})'
  BY TarkistettuAskel
<1>3. Induktiivinen /\ OmatRivit /\ Tarkistettu({"hyvaksy"}) /\ [Next]_vars => [Ehto]_vars
  <2> SUFFICES ASSUME Induktiivinen, OmatRivit, Tarkistettu({"hyvaksy"}), Next, NEW k \in Kerrat,
                      tila'[k] = "hyvaksytty",
                      tila[k] # "hyvaksytty" \/ hyvaksymisaika'[k] # hyvaksymisaika[k]
               PROVE  tila[k] = "luonnos"
    OBVIOUS
  <2>0. TyyppiOK
    BY DEF Induktiivinen
  <2>1. CASE LisaaUusi
    BY <2>0, <2>1 DEF LisaaUusi, Lisaa, TyyppiOK
  <2>2. ASSUME NEW r \in Pyynnot, NEW pvm \in Paivat, Hyvaksy(r, pvm)
        PROVE  tila[k] = "luonnos"
    <3>1. k \in Lukitut(r)
      BY <2>0, <2>2 DEF Hyvaksy, Korvaa, TyyppiOK
    <3>2. k \in tx[r].kohde /\ k \in Kirjatut
      BY <3>1, LukitutKirjatut DEF Induktiivinen, LukotOK, PyynnotOK, Lukitut
    <3>3. QED
      BY <2>2, <3>2 DEF Hyvaksy, Kasitellyt, Tarkistettu
  <2>3. ASSUME NEW r \in Pyynnot,
               (\E pvm \in Paivat : Laheta(r, pvm)) \/ Palauta(r) \/ Poista(r)
        PROVE  FALSE
    BY <2>0, <2>3 DEF Laheta, Palauta, Poista, Korvaa, TyyppiOK
  <2>4. CASE UNCHANGED <<tila, hyvaksymisaika>>
    BY <2>4
  <2>5. ASSUME NEW r \in Pyynnot, TallennaMuokkaus(r)
        PROVE  UNCHANGED <<tila, hyvaksymisaika>>
    BY <2>5 DEF TallennaMuokkaus, Tallenna
  <2>6. \/ LisaaUusi
        \/ \E r \in Pyynnot : \/ \E pvm \in Paivat : Laheta(r, pvm) \/ Hyvaksy(r, pvm)
                              \/ Palauta(r) \/ Poista(r)
        \/ UNCHANGED <<tila, hyvaksymisaika>>
    BY <2>5 DEF Next, Palvele, LukitseSeuraava, AloitaPoisto, AloitaMuokkaus, AloitaSiirto, Aloita,
           TarkistaYksi, TarkistaKaikki, Etene, Peru, LukitseKerta, ValitseArvioijat,
           LukitseSeuraavaArvioija, LukitseArvioija, ArvioijatLukittu,
           PoistoKaatuu, JatkaMuokkausta,
           TallennusKaatuu, Keskeytys, Lukkiuma, tietokanta, kertaVars
  <2>7. QED
    BY <2>1, <2>2, <2>3, <2>4, <2>6
<1>4. QED
  BY <1>1, <1>2, <1>3, Pysyvyys, VainOmatRivit, PTL DEF Spec, VainLuonnosHyvaksytaan
=============================================================================
