--------------------------- MODULE PalautteetProofs ---------------------------
(***************************************************************************)
(* Theorems about Palautteet, for all sets of methods and any number of    *)
(* answers: no message is lost, and the messages stay as long as           *)
(* Ilmoitukset promises.                                                   *)
(***************************************************************************)
EXTENDS Palautteet, TLAPS

\* An answer that waits has left a stamp the watcher has not seen: what makes
\* KaikkiNaytetty, and the bound on the list in TyyppiOK, inductive.
Induktiivinen ==
  /\ TyyppiOK
  /\ lista # <<>> => paivitetty # nahty

Nakyvat == {v \in Vastaukset : naytaPalauteVastaukselle(v)}

\* The pages left by the messages P.
Sivut(P) ==
  [v \in Nakyvat |->
     IF [viesti |-> v, redirectFlag |-> TRUE] \in P THEN 2
     ELSE IF [viesti |-> v, redirectFlag |-> FALSE] \in P THEN 1 ELSE 0]

\* Messages have their type and each text has one (apimetodiPalauteController).
PalautteetOK(P) ==
  /\ P \subseteq [viesti : Vastaukset, redirectFlag : BOOLEAN]
  /\ \A p, q \in P : p.viesti = q.viesti => p = q
  /\ \A p \in P : p.redirectFlag => ~p.viesti.virhe

-----------------------------------------------------------------------------
\* Without answers there is nothing to add (luoPalautteetVastauksista).
LEMMA TyhjaLista == lista = <<>> => luoPalautteetVastauksista(lista) = palautteet
<1>1. lista = <<>> => luoPalautteet(lista) = {}
  BY DEF luoPalautteet, ToSet
<1> QED BY <1>1 DEF luoPalautteetVastauksista, yhdistaPalautteet

\* Making the messages of answers keeps them well formed (luoPalaute,
\* yhdistaPalautteet).
LEMMA LuodutOK ==
  ASSUME TyyppiOK
  PROVE  PalautteetOK(luoPalautteetVastauksista(lista))
<1> DEFINE U == luoPalautteet(lista)
           P == luoPalautteetVastauksista(lista)
<1>1. ToSet(lista) \subseteq Vastaukset
  BY DEF ToSet, TyyppiOK
<1>2. \A u \in U : \E v \in Vastaukset : u = [viesti |-> v, redirectFlag |-> ~v.virhe]
  BY <1>1 DEF luoPalautteet
<1>3. \A v \in Vastaukset : v.virhe \in BOOLEAN
  BY DEF Vastaukset
<1>4. PalautteetOK(U)
  <2>1. ASSUME NEW u \in U
        PROVE  /\ u \in [viesti : Vastaukset, redirectFlag : BOOLEAN]
               /\ u = [viesti |-> u.viesti, redirectFlag |-> ~u.viesti.virhe]
    <3>1. PICK v \in Vastaukset : u = [viesti |-> v, redirectFlag |-> ~v.virhe]
      BY <1>2
    <3>2. (~v.virhe) \in BOOLEAN
      OBVIOUS
    <3>3. PICK f \in BOOLEAN : f = ~v.virhe
      BY <3>2, Zenon
    <3>4. u = [viesti |-> v, redirectFlag |-> f]
      BY <3>1, <3>3, Zenon
    <3>5. u.viesti = v /\ u \in [viesti : Vastaukset, redirectFlag : BOOLEAN]
      BY <3>4
    <3> QED BY <3>1, <3>5, Zenon
  <2>2. \A p, q \in U : p.viesti = q.viesti => p = q
    <3> SUFFICES ASSUME NEW p \in U, NEW q \in U, p.viesti = q.viesti PROVE p = q
      OBVIOUS
    <3>1. p = [viesti |-> p.viesti, redirectFlag |-> ~p.viesti.virhe]
      BY <2>1
    <3>2. q = [viesti |-> q.viesti, redirectFlag |-> ~q.viesti.virhe]
      BY <2>1
    <3> QED BY <3>1, <3>2, Zenon
  <2>3. \A p \in U : p.redirectFlag => ~p.viesti.virhe
    <3> SUFFICES ASSUME NEW p \in U, p.redirectFlag PROVE ~p.viesti.virhe
      OBVIOUS
    <3>1. PICK v \in Vastaukset : p = [viesti |-> v, redirectFlag |-> ~v.virhe]
      BY <1>2
    <3>2. p.viesti = v /\ p.redirectFlag = ~v.virhe
      BY <3>1
    <3> QED BY <3>2, Zenon
  <2> QED BY <2>1, <2>2, <2>3, Zenon DEF PalautteetOK
<1>5. PalautteetOK(palautteet)
  BY Zenon DEF TyyppiOK, PalautteetOK
<1>6. P = U \union {p \in palautteet : \A u \in U : u.viesti # p.viesti}
  BY DEF luoPalautteetVastauksista, yhdistaPalautteet
<1> HIDE DEF U, P
<1>7. PalautteetOK(P)
  <2>1. P \subseteq [viesti : Vastaukset, redirectFlag : BOOLEAN]
    BY <1>4, <1>5, <1>6 DEF PalautteetOK
  <2>2. \A p, q \in P : p.viesti = q.viesti => p = q
    BY <1>4, <1>5, <1>6, Zenon DEF PalautteetOK
  <2>3. \A p \in P : p.redirectFlag => ~p.viesti.virhe
    BY <1>4, <1>5, <1>6, Zenon DEF PalautteetOK
  <2> QED BY <2>1, <2>2, <2>3, Zenon DEF PalautteetOK
<1> QED BY <1>7 DEF P

\* What a page change leaves of P: the flagged messages, without the flag
\* (poistaNaytetyt).
LEMMA PoistetutNaytetyt ==
  ASSUME NEW P, PalautteetOK(P)
  PROVE  /\ PalautteetOK(poistaNaytetyt(P))
         /\ \A v \in Vastaukset :
              /\ [viesti |-> v, redirectFlag |-> TRUE] \notin poistaNaytetyt(P)
              /\ [viesti |-> v, redirectFlag |-> FALSE] \in poistaNaytetyt(P)
                   <=> [viesti |-> v, redirectFlag |-> TRUE] \in P
<1> DEFINE Q == poistaNaytetyt(P)
<1>1. \A q \in P : /\ q = [viesti |-> q.viesti, redirectFlag |-> q.redirectFlag]
                   /\ q.viesti \in Vastaukset /\ q.redirectFlag \in BOOLEAN
  BY DEF PalautteetOK
<1>2. \A p \in Q : \E q \in P : q.redirectFlag /\ p = [viesti |-> q.viesti, redirectFlag |-> FALSE]
  <2> SUFFICES ASSUME NEW p \in Q
               PROVE  \E q \in P : q.redirectFlag /\ p = [viesti |-> q.viesti, redirectFlag |-> FALSE]
    OBVIOUS
  <2>1. PICK q \in {r \in P : r.redirectFlag} : p = [q EXCEPT !.redirectFlag = FALSE]
    BY DEF poistaNaytetyt
  <2>2. q \in P /\ q.redirectFlag
    BY Zenon
  <2>3. q = [viesti |-> q.viesti, redirectFlag |-> q.redirectFlag]
    BY <1>1, <2>2
  <2>4. p = [viesti |-> q.viesti, redirectFlag |-> FALSE]
    BY <2>1, <2>3
  <2> QED BY <2>2, <2>4, Zenon
<1>3. \A q \in P : q.redirectFlag => [viesti |-> q.viesti, redirectFlag |-> FALSE] \in Q
  <2> SUFFICES ASSUME NEW q \in P, q.redirectFlag
               PROVE  [viesti |-> q.viesti, redirectFlag |-> FALSE] \in Q
    OBVIOUS
  <2>1. q \in [viesti : Vastaukset, redirectFlag : BOOLEAN]
    BY DEF PalautteetOK
  <2>2. \A c : [q EXCEPT !.redirectFlag = c] = [viesti |-> q.viesti, redirectFlag |-> c]
    BY <2>1
  <2>4. [q EXCEPT !.redirectFlag = FALSE] = [viesti |-> q.viesti, redirectFlag |-> FALSE]
    BY <2>2, Zenon
  <2>3. [q EXCEPT !.redirectFlag = FALSE] \in Q
    BY Zenon DEF poistaNaytetyt
  <2> QED BY <2>3, <2>4, Zenon
<1> HIDE DEF Q
<1>4. PalautteetOK(Q)
  <2>1. Q \subseteq [viesti : Vastaukset, redirectFlag : BOOLEAN]
    <3> SUFFICES ASSUME NEW p \in Q
                 PROVE  p \in [viesti : Vastaukset, redirectFlag : BOOLEAN]
      OBVIOUS
    <3>1. PICK q \in P : p = [viesti |-> q.viesti, redirectFlag |-> FALSE]
      BY <1>2
    <3>2. q.viesti \in Vastaukset
      BY <1>1
    <3>3. PICK f \in BOOLEAN : f = FALSE
      OBVIOUS
    <3>4. p = [viesti |-> q.viesti, redirectFlag |-> f]
      BY <3>1, <3>3, Zenon
    <3> QED BY <3>2, <3>4
  <2>2. \A p \in Q : p = [viesti |-> p.viesti, redirectFlag |-> FALSE]
    BY <1>2
  <2>3. \A p, q \in Q : p.viesti = q.viesti => p = q
    BY <2>2, Zenon
  <2>4. \A p \in Q : p.redirectFlag = FALSE
    BY <2>2
  <2> QED BY <2>1, <2>3, <2>4, Zenon DEF PalautteetOK
<1>5. ASSUME NEW v \in Vastaukset
      PROVE  /\ [viesti |-> v, redirectFlag |-> TRUE] \notin Q
             /\ [viesti |-> v, redirectFlag |-> FALSE] \in Q
                  <=> [viesti |-> v, redirectFlag |-> TRUE] \in P
  <2>1. [viesti |-> v, redirectFlag |-> TRUE] \notin Q
    BY <1>2
  <2>2. ASSUME [viesti |-> v, redirectFlag |-> FALSE] \in Q
        PROVE  [viesti |-> v, redirectFlag |-> TRUE] \in P
    <3>1. PICK q \in P : q.redirectFlag /\ [viesti |-> v, redirectFlag |-> FALSE]
                                           = [viesti |-> q.viesti, redirectFlag |-> FALSE]
      BY <1>2, <2>2
    <3>2. q.viesti = v
      BY <3>1
    <3>3. q.redirectFlag = TRUE
      BY <1>1, <3>1
    <3> QED BY <1>1, <3>2, <3>3
  <2>3. ASSUME [viesti |-> v, redirectFlag |-> TRUE] \in P
        PROVE  [viesti |-> v, redirectFlag |-> FALSE] \in Q
    <3> DEFINE q == [viesti |-> v, redirectFlag |-> TRUE]
    <3>1. q.redirectFlag /\ q.viesti = v
      OBVIOUS
    <3>2. q \in P
      BY <2>3
    <3> HIDE DEF q
    <3> QED BY <1>3, <3>1, <3>2
  <2> QED BY <2>1, <2>2, <2>3
<1> QED BY <1>4, <1>5 DEF Q

-----------------------------------------------------------------------------
\* An answer finds the list empty (apiVastaus).
LEMMA EnsimmainenVastaus ==
  ASSUME Induktiivinen, NEW v \in Vastaukset, apiVastaus(v)
  PROVE  lista = <<>> /\ lista' = <<v>>
<1>1. lista = <<>>
  BY DEF Induktiivinen, apiVastaus, Vakaa
<1>2. lista' = Append(<<>>, v)
  BY <1>1 DEF apiVastaus
<1> QED BY <1>1, <1>2

\* Every reachable state satisfies the inductive invariant.
THEOREM Pysyvyys == Spec => []Induktiivinen
<1>1. Init => Induktiivinen
  BY DEF Init, Induktiivinen, TyyppiOK
<1>2. Induktiivinen /\ [Next]_vars => Induktiivinen'
  <2> SUFFICES ASSUME Induktiivinen, [Next]_vars PROVE Induktiivinen'
    OBVIOUS
  <2> USE DEF Induktiivinen
  <2>0. TyyppiOK
    OBVIOUS
  <2>1. ASSUME NEW v \in Vastaukset, apiVastaus(v) PROVE Induktiivinen'
    <3>1. lista = <<>> /\ lista' = <<v>>
      BY <2>1, EnsimmainenVastaus
    <3>2. lista' \in Seq(Vastaukset) /\ Len(lista') <= 1
      BY <3>1
    <3>3. paivitetty' # nahty' /\ paivitetty' \in Nat /\ nahty' \in Nat
      BY <2>1 DEF apiVastaus, Vakaa, aikaleima, TyyppiOK
    <3>4. vaihto' \in {"ei", "askel", "osoite"}
      BY <2>1 DEF apiVastaus
    <3>5. palautteet' = palautteet
      BY <2>1 DEF apiVastaus
    <3>6. PalautteetOK(palautteet')
      BY <2>0, <3>5, Zenon DEF TyyppiOK, PalautteetOK
    <3>7. TyyppiOK'
      BY <3>2, <3>3, <3>4, <3>6, Zenon DEF TyyppiOK, PalautteetOK
    <3> QED BY <3>3, <3>7
  <2>2. CASE SivunVaihto
    <3>1. vaihto' \in {"ei", "askel", "osoite"}
      BY <2>2 DEF SivunVaihto
    <3>2. UNCHANGED <<lista, paivitetty, palautteet, nahty>>
      BY <2>2 DEF SivunVaihto
    <3> QED BY <3>1, <3>2, Zenon DEF TyyppiOK
  <2>3. CASE paivitaPalautteet
    <3>1. PalautteetOK(palautteet')
      BY <2>0, <2>3, LuodutOK, PoistetutNaytetyt DEF paivitaPalautteet
    <3>2. lista' = <<>> /\ vaihto' = "ei" /\ UNCHANGED <<paivitetty, nahty>>
      BY <2>3 DEF paivitaPalautteet
    <3>3. lista' \in Seq(Vastaukset) /\ Len(lista') <= 1
      BY <3>2
    <3>4. TyyppiOK'
      BY <2>0, <3>1, <3>2, <3>3, Zenon DEF TyyppiOK, PalautteetOK
    <3> QED BY <3>2, <3>4
  <2>4. CASE Katselija
    <3>1. PalautteetOK(palautteet')
      BY <2>0, <2>4, LuodutOK DEF Katselija
    <3>2. lista' = <<>> /\ nahty' = paivitetty /\ UNCHANGED <<paivitetty, vaihto>>
      BY <2>4 DEF Katselija
    <3>3. lista' \in Seq(Vastaukset) /\ Len(lista') <= 1
      BY <3>2
    <3>4. TyyppiOK'
      BY <2>0, <3>1, <3>2, <3>3, Zenon DEF TyyppiOK, PalautteetOK
    <3> QED BY <3>2, <3>4
  <2>5. CASE UNCHANGED vars
    BY <2>5, Zenon DEF vars, TyyppiOK
  <2> QED BY <2>1, <2>2, <2>3, <2>4, <2>5 DEF Next
<1> QED BY <1>1, <1>2, PTL DEF Spec

\* The answers, stamps and messages keep their types, and a text is never
\* shown twice.
THEOREM Tyypit == Spec => []TyyppiOK
<1>1. Induktiivinen => TyyppiOK
  BY DEF Induktiivinen
<1> QED BY <1>1, Pysyvyys, PTL

\* No answer is left without its message when the digest is done (the watcher
\* of vastaukset.paivitetty).
THEOREM Naytetyt == Spec => []KaikkiNaytetty
<1>1. Induktiivinen => KaikkiNaytetty
  BY DEF Induktiivinen, KaikkiNaytetty, Vakaa
<1> QED BY <1>1, Pysyvyys, PTL

\* The abstract variable is the pages left by the messages of the list and
\* the scope together.
LEMMA JaljellaSivut == Jaljella = Sivut(luoPalautteetVastauksista(lista))
BY DEF Jaljella, Sivut, Nakyvat

\* One answer v adds its message and replaces the earlier one of its text.
LEMMA UusiViesti ==
  ASSUME NEW v \in Nakyvat, NEW P, PalautteetOK(P)
  PROVE  Sivut(yhdistaPalautteet(P, {[viesti |-> v, redirectFlag |-> ~v.virhe]}))
           = [Sivut(P) EXCEPT ![v] = IF v.virhe THEN 1 ELSE 2]
<1> DEFINE u == [viesti |-> v, redirectFlag |-> ~v.virhe]
           Q == yhdistaPalautteet(P, {u})
<1>1. v.virhe \in BOOLEAN
  BY DEF Nakyvat, Vastaukset
<1>2. ASSUME NEW w \in Nakyvat, w # v, NEW f \in BOOLEAN
      PROVE  [viesti |-> w, redirectFlag |-> f] \in Q <=> [viesti |-> w, redirectFlag |-> f] \in P
  BY <1>2 DEF yhdistaPalautteet
<1>3. ASSUME NEW f \in BOOLEAN
      PROVE  [viesti |-> v, redirectFlag |-> f] \in Q <=> f = ~v.virhe
  BY <1>1 DEF yhdistaPalautteet
<1> HIDE DEF Q
<1>4. ASSUME NEW w \in Nakyvat
      PROVE  Sivut(Q)[w] = [Sivut(P) EXCEPT ![v] = IF v.virhe THEN 1 ELSE 2][w]
  <2>1. CASE w # v
    BY <1>2, <2>1 DEF Sivut
  <2>2. CASE w = v
    BY <1>1, <1>3, <2>2 DEF Sivut
  <2> QED BY <2>1, <2>2
<1>5. Sivut(Q) = [Sivut(P) EXCEPT ![v] = IF v.virhe THEN 1 ELSE 2]
  BY <1>4 DEF Sivut
<1> QED BY <1>5 DEF Q

\* A step of Palautteet brings a message, changes the page, or shows nothing.
LEMMA Askel ==
  ASSUME Induktiivinen, Next
  PROVE  Lupaus!Next \/ UNCHANGED Jaljella
<1> DEFINE P == luoPalautteetVastauksista(lista)
<1>0. TyyppiOK
  BY DEF Induktiivinen
<1>1. PalautteetOK(P) /\ Jaljella = Sivut(P) /\ Jaljella' = Sivut(P')
  BY <1>0, LuodutOK, JaljellaSivut DEF Jaljella, Sivut, Nakyvat
<1>2. ASSUME NEW v \in Vastaukset, apiVastaus(v)
      PROVE  Lupaus!Next \/ UNCHANGED Jaljella
  <2>1. lista = <<>> /\ lista' = <<v>> /\ palautteet' = palautteet
    BY <1>2, EnsimmainenVastaus DEF apiVastaus
  <2>2. P = palautteet
    BY <2>1, TyhjaLista
  <2>3. ToSet(lista') = {v}
    BY <2>1 DEF ToSet
  <2>4. P' = yhdistaPalautteet(palautteet, luoPalautteet(lista'))
    BY <2>1 DEF luoPalautteetVastauksista
  <2>5. CASE v \in Nakyvat
    <3>1. luoPalautteet(lista') = {[viesti |-> v, redirectFlag |-> ~v.virhe]}
      BY <2>3, <2>5 DEF luoPalautteet, Nakyvat
    <3>2. P' = yhdistaPalautteet(P, {[viesti |-> v, redirectFlag |-> ~v.virhe]})
      BY <2>2, <2>4, <3>1
    <3>3. Jaljella' = [Jaljella EXCEPT ![v] = IF v.virhe THEN 1 ELSE 2]
      BY <1>1, <2>5, <3>2, UusiViesti
    <3>4. Lupaus!Saapuu(v)
      BY <3>3 DEF Lupaus!Saapuu, Lupaus!Elinika
    <3> QED BY <2>5, <3>4 DEF Lupaus!Next, Nakyvat
  <2>6. CASE v \notin Nakyvat
    <3>1. luoPalautteet(lista') = {}
      BY <2>3, <2>6 DEF luoPalautteet, Nakyvat
    <3>2. P' = P
      BY <2>2, <2>4, <3>1 DEF yhdistaPalautteet
    <3> QED BY <1>1, <3>2
  <2> QED BY <2>5, <2>6
<1>3. CASE SivunVaihto
  <2>1. UNCHANGED <<lista, palautteet>>
    BY <1>3 DEF SivunVaihto
  <2>2. P' = P
    BY <2>1 DEF luoPalautteetVastauksista
  <2> QED BY <1>1, <2>2
<1>4. CASE paivitaPalautteet
  <2>1. lista' = <<>> /\ palautteet' = poistaNaytetyt(P)
    BY <1>4 DEF paivitaPalautteet
  <2>2. P' = palautteet'
    <3>1. luoPalautteet(lista') = {}
      BY <2>1 DEF luoPalautteet, ToSet
    <3> QED BY <3>1 DEF luoPalautteetVastauksista, yhdistaPalautteet
  <2> DEFINE Q == poistaNaytetyt(P)
  <2>3. P' = Q
    BY <2>1, <2>2
  <2>4. \A v \in Nakyvat :
          /\ [viesti |-> v, redirectFlag |-> TRUE] \notin Q
          /\ [viesti |-> v, redirectFlag |-> FALSE] \in Q
               <=> [viesti |-> v, redirectFlag |-> TRUE] \in P
    BY <1>1, PoistetutNaytetyt DEF Nakyvat
  <2> HIDE DEF P, Q
  <2>5. Sivut(Q) = [v \in Nakyvat |-> IF Sivut(P)[v] = 0 THEN 0 ELSE Sivut(P)[v] - 1]
    <3>1. ASSUME NEW v \in Nakyvat
          PROVE  Sivut(Q)[v] = IF Sivut(P)[v] = 0 THEN 0 ELSE Sivut(P)[v] - 1
      BY <2>4 DEF Sivut
    <3> QED BY <3>1 DEF Sivut
  <2>6. Lupaus!SivuVaihtuu
    BY <1>1, <2>3, <2>5 DEF Lupaus!SivuVaihtuu, Nakyvat
  <2> QED BY <2>6 DEF Lupaus!Next
<1>5. CASE Katselija
  <2>1. lista' = <<>> /\ palautteet' = P
    BY <1>5 DEF Katselija
  <2>2. P' = palautteet'
    <3>1. luoPalautteet(lista') = {}
      BY <2>1 DEF luoPalautteet, ToSet
    <3> QED BY <3>1 DEF luoPalautteetVastauksista, yhdistaPalautteet
  <2> QED BY <1>1, <2>1, <2>2
<1> QED BY <1>2, <1>3, <1>4, <1>5 DEF Next

\* The messages stay on the page, and over one page change, as long as
\* Ilmoitukset promises, whatever the order of the listener and the watcher.
THEOREM Toteutus == Spec => ToteuttaaIlmoitukset
<1>1. Init => Lupaus!Init
  <2> SUFFICES ASSUME Init PROVE Lupaus!Init
    OBVIOUS
  <2>1. luoPalautteetVastauksista(lista) = {}
    BY TyhjaLista DEF Init
  <2>2. Jaljella = Sivut({})
    BY <2>1, JaljellaSivut
  <2> QED BY <2>2 DEF Lupaus!Init, Sivut, Nakyvat
<1>2. Induktiivinen /\ [Next]_vars => [Lupaus!Next]_Jaljella
  <2>1. UNCHANGED vars => UNCHANGED Jaljella
    BY DEF vars, Jaljella, luoPalautteetVastauksista
  <2> QED BY <2>1, Askel
<1> QED BY <1>1, <1>2, Pysyvyys, PTL DEF Spec, ToteuttaaIlmoitukset, Lupaus!Spec
=============================================================================
