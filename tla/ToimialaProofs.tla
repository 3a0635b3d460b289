--------------------------- MODULE ToimialaProofs ---------------------------
(***************************************************************************)
(* Theorems about module Toimiala, for any qualifications and any number   *)
(* of tabs: a save removes only what was confirmed or what other saves     *)
(* have brought, and the transactions implement Toimialalupaus.  That      *)
(* every save is answered is liveness and left to TLC.                     *)
(***************************************************************************)
EXTENDS Toimiala, TLAPS

\* Two transactions never hold the same row or key, and what one has deleted
\* is still there for the others until it commits.
LukotErillaan ==
  \A t \in Valilehdet :
    /\ poistetut[t] \subseteq kanta
    /\ lisatyt[t] \intersect kanta \subseteq poistetut[t]
    /\ \A u \in Valilehdet \ {t} :
         (poistetut[t] \union lisatyt[t]) \intersect (poistetut[u] \union lisatyt[u]) = {}

\* What the DELETE may still find is committed.
NakyvatOlemassa == \A t \in Valilehdet : naki[t] \subseteq kanta

\* While the tab of t may still save its list, every committed qualification
\* is one the page was given or one that other saves have brought since.
ListaTiedossa ==
  \A t \in Valilehdet :
    \/ vaihe[t] \in {"kiinni", "haussa"}
    \/ vaihe[t] = "vastaus" /\ onnistui[t]
    \/ kanta \subseteq alussa[t] \union muiden[t]

\* The inductive invariant.
Induktiivinen == TyyppiOK /\ LukotErillaan /\ NakyvatOlemassa /\ ListaTiedossa

-----------------------------------------------------------------------------
\* The committee's rows, whatever they are, satisfy the invariant before any
\* tab is opened.
LEMMA AlkuInd == Init => Induktiivinen
<1> SUFFICES ASSUME Init PROVE Induktiivinen
  OBVIOUS
<1>1. TyyppiOK
  BY DEF Init, TyyppiOK, Tyhja, Vaiheet
<1>2. LukotErillaan /\ NakyvatOlemassa /\ ListaTiedossa
  BY DEF Init, LukotErillaan, NakyvatOlemassa, ListaTiedossa, Tyhja
<1>3. QED
  BY <1>1, <1>2 DEF Induktiivinen

\* The page: opening, leaving and loading it, and changing its list, touch
\* neither rows nor locks.
LEMMA SivuInd ==
  ASSUME Induktiivinen, NEW t \in Valilehdet,
         \/ Avaa(t) \/ Poistu(t) \/ Lataa(t) \/ tallenna(t) \/ Vastaus(t) \/ Torju(t)
         \/ \E q \in Tutkinnot : lisaa(t, q) \/ poista(t, q)
  PROVE  Induktiivinen'
<1>1. TyyppiOK /\ LukotErillaan /\ NakyvatOlemassa /\ ListaTiedossa
  BY DEF Induktiivinen
<1>2. kanta' = kanta /\ naki' = naki /\ poistetut' = poistetut /\ lisatyt' = lisatyt
      /\ onnistui' = onnistui
  BY DEF Avaa, Poistu, Lataa, tallenna, Vastaus, Torju, lisaa, poista, tapahtumaVars
<1>3. LukotErillaan' /\ NakyvatOlemassa'
  BY <1>1, <1>2 DEF LukotErillaan, NakyvatOlemassa
<1>4. TyyppiOK' /\ ListaTiedossa'
  <2>1. CASE Avaa(t) \/ Poistu(t) \/ Torju(t)
    BY <1>1, <2>1 DEF Avaa, Poistu, Torju, tapahtumaVars, sivuVars, TyyppiOK, Vaiheet,
       ListaTiedossa
  <2>2. CASE Lataa(t)
    BY <1>1, <2>2 DEF Lataa, tapahtumaVars, TyyppiOK, Vaiheet, ListaTiedossa
  <2>3. CASE tallenna(t)
    BY <1>1, <2>3 DEF tallenna, tapahtumaVars, sivuVars, TyyppiOK, Vaiheet, ListaTiedossa
  <2>4. CASE Vastaus(t)
    BY <1>1, <2>4 DEF Vastaus, tapahtumaVars, sivuVars, TyyppiOK, Vaiheet, ListaTiedossa
  <2>5. CASE \E q \in Tutkinnot : lisaa(t, q) \/ poista(t, q)
    BY <1>1, <2>5 DEF lisaa, poista, tapahtumaVars, TyyppiOK, Vaiheet, ListaTiedossa
  <2>6. QED
    BY <2>1, <2>2, <2>3, <2>4, <2>5
<1>5. QED
  BY <1>3, <1>4 DEF Induktiivinen

\* The DELETE begins with the committed rows.
LEMMA AloitaPoistoInd ==
  ASSUME Induktiivinen, NEW t \in Valilehdet, AloitaPoisto(t)
  PROVE  Induktiivinen'
<1>1. TyyppiOK /\ LukotErillaan /\ NakyvatOlemassa /\ ListaTiedossa
  BY DEF Induktiivinen
<1>2. TyyppiOK'
  BY <1>1 DEF AloitaPoisto, TyyppiOK, Vaiheet, sivuVars
<1>3. LukotErillaan' /\ NakyvatOlemassa' /\ ListaTiedossa'
  BY <1>1 DEF AloitaPoisto, TyyppiOK, LukotErillaan, NakyvatOlemassa, ListaTiedossa, sivuVars
<1>4. QED
  BY <1>2, <1>3 DEF Induktiivinen

\* A row that is deleted is free: nobody has deleted it, and a key inserted
\* again would belong to a deleted row.
LEMMA PoistaRiviInd ==
  ASSUME Induktiivinen, NEW t \in Valilehdet, NEW q \in Tutkinnot, PoistaRivi(t, q)
  PROVE  Induktiivinen'
<1>1. TyyppiOK /\ LukotErillaan /\ NakyvatOlemassa /\ ListaTiedossa
  BY DEF Induktiivinen
<1>2. /\ UNCHANGED <<kanta, vaihe, alussa, valitut, naki, lisatyt, onnistui, muiden>>
      /\ poistetut' = [poistetut EXCEPT ![t] = @ \union {q}]
      /\ vaihe[t] = "tapahtuma" /\ q \in naki[t]
      /\ \A u \in Valilehdet : q \notin poistetut[u]
  BY DEF PoistaRivi, sivuVars
<1>3. \A u \in Valilehdet : poistetut'[u] = IF u = t THEN poistetut[t] \union {q} ELSE poistetut[u]
  BY <1>1, <1>2 DEF TyyppiOK
<1>4. q \in kanta /\ \A u \in Valilehdet : q \notin lisatyt[u]
  BY <1>1, <1>2 DEF LukotErillaan, NakyvatOlemassa
<1>5. TyyppiOK'
  BY <1>1, <1>2, <1>3 DEF TyyppiOK
<1>6. LukotErillaan'
  BY <1>1, <1>2, <1>3, <1>4 DEF LukotErillaan
<1>7. NakyvatOlemassa' /\ ListaTiedossa'
  BY <1>1, <1>2 DEF NakyvatOlemassa, ListaTiedossa
<1>8. QED
  BY <1>5, <1>6, <1>7 DEF Induktiivinen

\* A key that is inserted is free.
LEMMA LisaaRiviInd ==
  ASSUME Induktiivinen, NEW t \in Valilehdet, NEW q \in Tutkinnot, LisaaRivi(t, q)
  PROVE  Induktiivinen'
<1>1. TyyppiOK /\ LukotErillaan /\ NakyvatOlemassa /\ ListaTiedossa
  BY DEF Induktiivinen
<1>2. /\ UNCHANGED <<kanta, vaihe, alussa, valitut, naki, poistetut, onnistui, muiden>>
      /\ lisatyt' = [lisatyt EXCEPT ![t] = @ \union {q}]
      /\ vaihe[t] = "tapahtuma" /\ (q \in kanta => q \in poistetut[t])
      /\ \A u \in Valilehdet \ {t} : q \notin lisatyt[u] \union poistetut[u]
  BY DEF LisaaRivi, Lisataan, sivuVars
<1>3. \A u \in Valilehdet : lisatyt'[u] = IF u = t THEN lisatyt[t] \union {q} ELSE lisatyt[u]
  BY <1>1, <1>2 DEF TyyppiOK
<1>4. TyyppiOK'
  BY <1>1, <1>2, <1>3 DEF TyyppiOK
<1>5. LukotErillaan'
  BY <1>1, <1>2, <1>3 DEF LukotErillaan
<1>6. NakyvatOlemassa' /\ ListaTiedossa'
  BY <1>1, <1>2 DEF NakyvatOlemassa, ListaTiedossa
<1>7. QED
  BY <1>4, <1>5, <1>6 DEF Induktiivinen

\* A transaction that ends holds nothing any more.
LEMMA PaataLukot ==
  ASSUME TyyppiOK, NEW t \in Valilehdet, NEW ok \in BOOLEAN, Paata(t, ok)
  PROVE  \A u \in Valilehdet :
           /\ vaihe'[u] = IF u = t THEN "vastaus" ELSE vaihe[u]
           /\ onnistui'[u] = IF u = t THEN ok ELSE onnistui[u]
           /\ poistetut'[u] = IF u = t THEN {} ELSE poistetut[u]
           /\ lisatyt'[u] = IF u = t THEN {} ELSE lisatyt[u]
BY DEF Paata, TyyppiOK

\* The types after a transaction has ended.
LEMMA PaataTyypit ==
  ASSUME TyyppiOK, NEW t \in Valilehdet, NEW ok \in BOOLEAN, Paata(t, ok)
  PROVE  /\ vaihe' \in [Valilehdet -> Vaiheet] /\ onnistui' \in [Valilehdet -> BOOLEAN]
         /\ poistetut' \in [Valilehdet -> SUBSET Tutkinnot]
         /\ lisatyt' \in [Valilehdet -> SUBSET Tutkinnot]
         /\ \A u \in Valilehdet : vaihe'[u] # "tapahtuma" => poistetut'[u] \union lisatyt'[u] = {}
BY DEF Paata, TyyppiOK, Vaiheet

\* A rollback, after a key that is taken or a deadlock, only frees locks.
LEMMA PeruInd ==
  ASSUME Induktiivinen, NEW t \in Valilehdet, AvainVarattu(t) \/ Lukkiuma(t)
  PROVE  Induktiivinen'
<1>1. TyyppiOK /\ LukotErillaan /\ NakyvatOlemassa /\ ListaTiedossa
  BY DEF Induktiivinen
<1>2. Paata(t, FALSE) /\ UNCHANGED <<kanta, alussa, valitut, naki, muiden>>
  BY DEF AvainVarattu, Lukkiuma, sivuVars
<1>3. vaihe[t] = "tapahtuma"
  BY DEF AvainVarattu, Lukkiuma, Lisataan, Odottaa
<1>4. \A u \in Valilehdet :
        /\ vaihe'[u] = IF u = t THEN "vastaus" ELSE vaihe[u]
        /\ onnistui'[u] = IF u = t THEN FALSE ELSE onnistui[u]
        /\ poistetut'[u] = IF u = t THEN {} ELSE poistetut[u]
        /\ lisatyt'[u] = IF u = t THEN {} ELSE lisatyt[u]
  BY <1>1, <1>2, PaataLukot
<1>5. TyyppiOK'
  BY <1>1, <1>2, PaataTyypit DEF TyyppiOK
<1>6. LukotErillaan'
  BY <1>1, <1>2, <1>4 DEF LukotErillaan
<1>7. NakyvatOlemassa' /\ ListaTiedossa'
  BY <1>1, <1>2, <1>3, <1>4 DEF NakyvatOlemassa, ListaTiedossa
<1>8. QED
  BY <1>5, <1>6, <1>7 DEF Induktiivinen

\* What a commit does to the rows, and to what the other tabs know of them.
LEMMA VahvistaRivit ==
  ASSUME TyyppiOK, NEW t \in Valilehdet, Vahvista(t)
  PROVE  /\ vaihe[t] = "tapahtuma" /\ naki[t] \subseteq poistetut[t] /\ lisatyt[t] = valitut[t]
         /\ kanta' = (kanta \ poistetut[t]) \union valitut[t]
         /\ UNCHANGED <<alussa, valitut>>
         /\ Paata(t, TRUE)
         /\ \A u \in Valilehdet :
              /\ naki'[u] = naki[u] \ poistetut[t]
              /\ muiden'[u] = IF u = t THEN {} ELSE muiden[u] \union lisatyt[t]
         /\ naki' \in [Valilehdet -> SUBSET Tutkinnot]
         /\ muiden' \in [Valilehdet -> SUBSET Tutkinnot]
         /\ kanta' \in SUBSET Tutkinnot
BY DEF Vahvista, Lisataan, sivuVars, TyyppiOK

\* A commit keeps the invariant: what it deletes and inserts nobody else holds.
LEMMA VahvistaInd ==
  ASSUME Induktiivinen, NEW t \in Valilehdet, Vahvista(t)
  PROVE  Induktiivinen'
<1>1. TyyppiOK /\ LukotErillaan /\ NakyvatOlemassa /\ ListaTiedossa
  BY DEF Induktiivinen
<1>2. /\ vaihe[t] = "tapahtuma" /\ lisatyt[t] = valitut[t]
      /\ kanta' = (kanta \ poistetut[t]) \union lisatyt[t]
      /\ UNCHANGED <<alussa, valitut>> /\ Paata(t, TRUE)
      /\ \A u \in Valilehdet :
           /\ naki'[u] = naki[u] \ poistetut[t]
           /\ muiden'[u] = IF u = t THEN {} ELSE muiden[u] \union lisatyt[t]
  BY <1>1, VahvistaRivit
<1>3. \A u \in Valilehdet :
        /\ vaihe'[u] = IF u = t THEN "vastaus" ELSE vaihe[u]
        /\ onnistui'[u] = IF u = t THEN TRUE ELSE onnistui[u]
        /\ poistetut'[u] = IF u = t THEN {} ELSE poistetut[u]
        /\ lisatyt'[u] = IF u = t THEN {} ELSE lisatyt[u]
  BY <1>1, <1>2, PaataLukot
<1>4. TyyppiOK'
  BY <1>1, <1>2, VahvistaRivit, PaataTyypit DEF TyyppiOK
<1>5. LukotErillaan'
  <2>1. ASSUME NEW u \in Valilehdet
        PROVE  /\ poistetut'[u] \subseteq kanta'
               /\ lisatyt'[u] \intersect kanta' \subseteq poistetut'[u]
    <3>1. CASE u = t
      BY <1>3, <3>1
    <3>2. CASE u # t
      <4>1. (poistetut[u] \union lisatyt[u]) \intersect (poistetut[t] \union lisatyt[t]) = {}
        BY <1>1, <3>2 DEF LukotErillaan
      <4>2. poistetut[u] \subseteq kanta /\ lisatyt[u] \intersect kanta \subseteq poistetut[u]
        BY <1>1 DEF LukotErillaan
      <4>3. QED
        BY <1>2, <1>3, <3>2, <4>1, <4>2
    <3>3. QED
      BY <3>1, <3>2
  <2>2. QED
    BY <1>1, <1>3, <2>1 DEF LukotErillaan
<1>6. NakyvatOlemassa'
  BY <1>1, <1>2 DEF NakyvatOlemassa
<1>7. ListaTiedossa'
  BY <1>1, <1>2, <1>3 DEF ListaTiedossa
<1>8. QED
  BY <1>4, <1>5, <1>6, <1>7 DEF Induktiivinen

\* Every step of a tab or of a transaction keeps the inductive invariant.
LEMMA AskelInd == Induktiivinen /\ [Next]_vars => Induktiivinen'
<1> SUFFICES ASSUME Induktiivinen, [Next]_vars PROVE Induktiivinen'
  OBVIOUS
<1>1. CASE UNCHANGED vars
  BY <1>1 DEF vars, sivuVars, tapahtumaVars, Induktiivinen, TyyppiOK, LukotErillaan,
     NakyvatOlemassa, ListaTiedossa
<1>2. ASSUME NEW t \in Valilehdet,
             \/ Avaa(t) \/ Poistu(t) \/ Lataa(t) \/ tallenna(t) \/ Vastaus(t) \/ Torju(t)
             \/ \E q \in Tutkinnot : lisaa(t, q) \/ poista(t, q)
      PROVE  Induktiivinen'
  BY <1>2, SivuInd
<1>3. ASSUME NEW t \in Valilehdet, Palvelin(t)
      PROVE  Induktiivinen'
  BY <1>3, AloitaPoistoInd, PoistaRiviInd, LisaaRiviInd, PeruInd, VahvistaInd DEF Palvelin
<1>4. QED
  BY <1>1, <1>2, <1>3 DEF Next

-----------------------------------------------------------------------------
(* Theorems *)

\* The inductive invariant: locks are apart, the DELETE's snapshot is of
\* committed rows, and what is committed is known to the page or new.
THEOREM Pysyvyys == Spec => []Induktiivinen
BY AlkuInd, AskelInd, PTL DEF Spec

\* The variables keep to their types, and a save without a transaction holds
\* no row and no key.
THEOREM Tyypit == Spec => []TyyppiOK
<1>1. Induktiivinen => TyyppiOK
  BY DEF Induktiivinen
<1>2. QED
  BY <1>1, Pysyvyys, PTL

\* The end of a transaction is its commit or its rollback.
LEMMA PaattyvaAskel ==
  ASSUME Induktiivinen, Next, NEW t \in Valilehdet, vaihe[t] = "tapahtuma",
         vaihe'[t] # "tapahtuma"
  PROVE  Vahvista(t) \/ kanta' = kanta
<1>1. ASSUME NEW u \in Valilehdet, Vahvista(u), u # t
      PROVE  FALSE
  <2>1. TyyppiOK
    BY DEF Induktiivinen
  <2>2. Paata(u, TRUE)
    BY <1>1, <2>1, VahvistaRivit, Zenon
  <2>3. vaihe'[t] = vaihe[t]
    BY <1>1, <2>1, <2>2, PaataLukot
  <2>4. QED
    BY <2>3
<1>2. ASSUME NEW u \in Valilehdet, ~Vahvista(u),
             \/ Avaa(u) \/ Poistu(u) \/ Lataa(u) \/ tallenna(u) \/ Vastaus(u)
             \/ (\E q \in Tutkinnot : lisaa(u, q) \/ poista(u, q))
             \/ Torju(u) \/ Palvelin(u)
      PROVE  kanta' = kanta
  BY <1>2 DEF Avaa, Poistu, Lataa, tallenna, Vastaus, lisaa, poista, Torju, Palvelin,
     AloitaPoisto, PoistaRivi, LisaaRivi, AvainVarattu, Lukkiuma
<1>3. QED
  BY <1>1, <1>2 DEF Next

\* A save removes only what the user was asked about (varmistaTallennus) and
\* what other saves have brought since the page was loaded.
THEOREM Poistot == Spec => PoistotVarmistettu
<1> DEFINE Poisto(t) == vaihe[t] = "tapahtuma" /\ vaihe'[t] = "vastaus" =>
                          kanta \ kanta' \subseteq poistettavat(t) \union muiden[t]
<1>1. ASSUME Induktiivinen, Next, NEW t \in Valilehdet,
             vaihe[t] = "tapahtuma", vaihe'[t] = "vastaus"
      PROVE  kanta \ kanta' \subseteq poistettavat(t) \union muiden[t]
  <2>1. CASE Vahvista(t)
    <3>1. kanta' = (kanta \ poistetut[t]) \union valitut[t]
      BY <2>1 DEF Vahvista
    <3>2. kanta \subseteq alussa[t] \union muiden[t]
      BY <1>1 DEF Induktiivinen, ListaTiedossa
    <3>3. QED
      BY <3>1, <3>2 DEF poistettavat
  <2>2. CASE kanta' = kanta
    BY <2>2
  <2>3. QED
    BY <1>1, <2>1, <2>2, PaattyvaAskel
<1>2. Induktiivinen /\ [Next]_vars => [\A t \in Valilehdet : Poisto(t)]_vars
  BY <1>1
<1>3. QED
  BY <1>2, Pysyvyys, PTL DEF Spec, PoistotVarmistettu

-----------------------------------------------------------------------------
(* The refinement *)

\* A step that leaves the rows, every transaction's list and what a DELETE
\* does not see alone is no step of Toimialalupaus.
LEMMA Hiljainen ==
  ASSUME TyyppiOK, kanta' = kanta,
         \A u \in Valilehdet :
           /\ vaihe'[u] = "tapahtuma" <=> vaihe[u] = "tapahtuma"
           /\ vaihe[u] = "tapahtuma" => valitut'[u] = valitut[u] /\ naki'[u] = naki[u]
  PROVE  UNCHANGED Lupaus!vars
<1>1. Tallennettava' = Tallennettava
  BY DEF Tallennettava
<1>2. Nakematta' = Nakematta
  BY DEF Nakematta
<1>3. QED
  BY <1>1, <1>2 DEF Lupaus!vars

\* The page is not seen by Toimialalupaus.
LEMMA SivuHiljainen ==
  ASSUME TyyppiOK, NEW t \in Valilehdet,
         \/ Avaa(t) \/ Poistu(t) \/ Lataa(t) \/ tallenna(t) \/ Vastaus(t) \/ Torju(t)
         \/ \E q \in Tutkinnot : lisaa(t, q) \/ poista(t, q) \/ PoistaRivi(t, q) \/ LisaaRivi(t, q)
  PROVE  UNCHANGED Lupaus!vars
<1>1. kanta' = kanta /\ naki' = naki
  BY DEF Avaa, Poistu, Lataa, tallenna, Vastaus, Torju, lisaa, poista, PoistaRivi, LisaaRivi,
     tapahtumaVars
<1>2. \A u \in Valilehdet : vaihe'[u] = "tapahtuma" <=> vaihe[u] = "tapahtuma"
  BY DEF Avaa, Poistu, Lataa, tallenna, Vastaus, Torju, lisaa, poista, PoistaRivi, LisaaRivi,
     TyyppiOK
<1>3. \A u \in Valilehdet : vaihe[u] = "tapahtuma" => valitut'[u] = valitut[u]
  BY DEF Avaa, Poistu, Lataa, tallenna, Vastaus, Torju, lisaa, poista, PoistaRivi, LisaaRivi,
     TyyppiOK, sivuVars
<1>4. QED
  BY <1>1, <1>2, <1>3, Hiljainen

\* The start of the DELETE is the start of the save.
LEMMA AloitusToteutuu ==
  ASSUME Induktiivinen, NEW t \in Valilehdet, AloitaPoisto(t)
  PROVE  Lupaus!Next
<1>1. TyyppiOK
  BY DEF Induktiivinen
<1>2. kanta' = kanta /\ vaihe[t] = "saapuu" /\ UNCHANGED valitut
      /\ \A u \in Valilehdet : /\ vaihe'[u] = IF u = t THEN "tapahtuma" ELSE vaihe[u]
                               /\ naki'[u] = IF u = t THEN kanta ELSE naki[u]
  BY <1>1 DEF AloitaPoisto, TyyppiOK, sivuVars
<1>3. Tallennettava' = [Tallennettava EXCEPT ![t] = {valitut[t]}] /\ Tallennettava[t] = {}
  BY <1>2 DEF Tallennettava
<1>4. Nakematta' = Nakematta
  BY <1>2 DEF Nakematta
<1>5. valitut[t] \in SUBSET Tutkinnot
  BY <1>1 DEF TyyppiOK
<1>6. Lupaus!Aloita(t, valitut[t])
  BY <1>2, <1>3, <1>4 DEF Lupaus!Aloita
<1>7. QED
  BY <1>5, <1>6 DEF Lupaus!Next

\* A rollback is a save that fails.
LEMMA PeruutusToteutuu ==
  ASSUME Induktiivinen, NEW t \in Valilehdet, AvainVarattu(t) \/ Lukkiuma(t)
  PROVE  Lupaus!Next
<1>1. TyyppiOK
  BY DEF Induktiivinen
<1>2. Paata(t, FALSE) /\ UNCHANGED <<kanta, valitut, naki>> /\ vaihe[t] = "tapahtuma"
  BY DEF AvainVarattu, Lukkiuma, Lisataan, Odottaa, sivuVars
<1>3. \A u \in Valilehdet : vaihe'[u] = IF u = t THEN "vastaus" ELSE vaihe[u]
  BY <1>1, <1>2, PaataLukot
<1>4. Tallennettava' = [Tallennettava EXCEPT ![t] = {}] /\ Tallennettava[t] # {}
  BY <1>2, <1>3 DEF Tallennettava
<1>5. Nakematta' = [Nakematta EXCEPT ![t] = {}]
  BY <1>2, <1>3 DEF Nakematta
<1>6. Nakematta'[t] = {}
  BY <1>5 DEF Nakematta
<1>7. Lupaus!Peru(t)
  BY <1>2, <1>4, <1>5, <1>6 DEF Lupaus!Peru, Lupaus!Lopeta
<1>8. QED
  BY <1>7 DEF Lupaus!Next

\* A commit leaves the list of its tab, and nothing else but rows its DELETE
\* did not see.
LEMMA VahvistusToteutuu ==
  ASSUME Induktiivinen, NEW t \in Valilehdet, Vahvista(t)
  PROVE  Lupaus!Next
<1> DEFINE L == valitut[t]
<1>1. TyyppiOK /\ LukotErillaan /\ NakyvatOlemassa
  BY DEF Induktiivinen
<1>2. /\ vaihe[t] = "tapahtuma" /\ naki[t] \subseteq poistetut[t]
      /\ kanta' = (kanta \ poistetut[t]) \union L
      /\ valitut' = valitut
      /\ \A u \in Valilehdet : naki'[u] = naki[u] \ poistetut[t]
      /\ kanta' \in SUBSET Tutkinnot
  BY <1>1, VahvistaRivit
<1>3. \A u \in Valilehdet : vaihe'[u] = IF u = t THEN "vastaus" ELSE vaihe[u]
  <2>1. Paata(t, TRUE)
    BY <1>1, VahvistaRivit, Zenon
  <2>2. QED
    BY <1>1, <2>1, PaataLukot
<1>4. Tallennettava' = [Tallennettava EXCEPT ![t] = {}] /\ Tallennettava[t] = {L}
  BY <1>2, <1>3 DEF Tallennettava
<1>5. Nakematta[t] = kanta \ naki[t]
  BY <1>2 DEF Nakematta
<1>6. Nakematta'[t] = {}
  BY <1>3 DEF Nakematta
<1>7. L \subseteq kanta' /\ kanta' \subseteq L \union Nakematta[t]
  BY <1>2, <1>5
<1>8. Nakematta' \in [Valilehdet -> SUBSET Tutkinnot]
  BY <1>2 DEF Nakematta
<1>9. ASSUME NEW u \in Valilehdet
      PROVE  Nakematta'[u] \subseteq Nakematta[u] \union L
  <2>1. CASE u = t
    BY <1>6, <2>1
  <2>2. CASE u # t /\ vaihe[u] = "tapahtuma"
    <3>1. Nakematta'[u] = kanta' \ naki'[u] /\ Nakematta[u] = kanta \ naki[u]
      BY <1>3, <2>2 DEF Nakematta
    <3>2. QED
      BY <1>2, <3>1
  <2>3. CASE u # t /\ vaihe[u] # "tapahtuma"
    BY <1>3, <2>3 DEF Nakematta
  <2>4. QED
    BY <2>1, <2>2, <2>3
<1>10. L \in SUBSET Tutkinnot
  BY <1>1 DEF TyyppiOK
<1>11. Lupaus!Vahvista(t, L)
  BY <1>4, <1>6, <1>7, <1>8, <1>9 DEF Lupaus!Vahvista, Lupaus!Lopeta
<1>12. QED
  BY <1>10, <1>11 DEF Lupaus!Next

\* Module Toimiala implements Toimialalupaus: a save that succeeds leaves its
\* list whole, and nothing else but what the ones that ended meanwhile
\* brought.
THEOREM Toteutus == Spec => ToteuttaaToimialalupauksen
<1>1. Init => Lupaus!Init
  BY DEF Init, Lupaus!Init, Tallennettava, Nakematta, Lupaus!Tyhja
<1>2. ASSUME Induktiivinen, [Next]_vars
      PROVE  [Lupaus!Next]_(Lupaus!vars)
  <2>1. CASE UNCHANGED vars
    <3>1. UNCHANGED <<kanta, vaihe, valitut, naki>>
      BY <2>1 DEF vars, sivuVars, tapahtumaVars
    <3>2. QED
      BY <3>1 DEF Lupaus!vars, Tallennettava, Nakematta
  <2>2. ASSUME NEW t \in Valilehdet,
               \/ Avaa(t) \/ Poistu(t) \/ Lataa(t) \/ tallenna(t) \/ Vastaus(t) \/ Torju(t)
               \/ \E q \in Tutkinnot :
                    lisaa(t, q) \/ poista(t, q) \/ PoistaRivi(t, q) \/ LisaaRivi(t, q)
        PROVE  UNCHANGED Lupaus!vars
    BY <1>2, <2>2, SivuHiljainen DEF Induktiivinen
  <2>3. ASSUME NEW t \in Valilehdet,
               AloitaPoisto(t) \/ AvainVarattu(t) \/ Lukkiuma(t) \/ Vahvista(t)
        PROVE  Lupaus!Next
    BY <1>2, <2>3, AloitusToteutuu, PeruutusToteutuu, VahvistusToteutuu
  <2>4. QED
    BY <1>2, <2>1, <2>2, <2>3 DEF Next, Palvelin
<1>3. QED
  BY <1>1, <1>2, Pysyvyys, PTL DEF Spec, ToteuttaaToimialalupauksen, Lupaus!Spec
=============================================================================
