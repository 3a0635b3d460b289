---------------------------- MODULE SelainProofs ----------------------------
(***************************************************************************)
(* Theorems about module Selain, for any pages, methods and number of      *)
(* requests in flight: the counters of the interceptor tell the requests   *)
(* in flight, a form whose button waits for its method is not sent twice   *)
(* at a time, and a form that warns of unsaved edits goes on warning.      *)
(* That a disabled button is enabled again is liveness and left to TLC.    *)
(***************************************************************************)
EXTENDS Selain, RajapintakutsutProofs

\* The requests k and the counters P fit each other.
Sopivat(k, P) ==
  /\ k \in [Paikat -> Kutsut \union {Nil}]
  /\ P \in [Metodit -> Int]
  /\ Tasmaavat(k, P)

\* A request whose callback still has its page was sent by the open page s,
\* and only a wizard saves a person.
Omistetut(k, s) ==
  \A c \in Paikat : k[c] # Nil =>
    /\ k[c].oma => k[c].sivu = s
    /\ k[c].id = Henkilotallennus => Laji[k[c].sivu] = "velho"

\* No guarded save is under way twice.
Kerran(k) == \A m \in Suojatut : Cardinality(Kohti(k, m)) <= 1

Kunnossa(k, P, s) == Sopivat(k, P) /\ Omistetut(k, s) /\ Kerran(k)

\* The types of the variables of the page.
SivuTyyppi ==
  /\ sivu \in Sivut /\ edellinen \in Sivut /\ nykyinenAskel \in 0..2
  /\ henkilo \in {"ei", "loydetty", "uusi"}
  /\ kysyVarmistus \in BOOLEAN /\ muokattu \in BOOLEAN /\ vieras \in BOOLEAN

\* The inductive invariant.
Induktiivinen == SivuTyyppi /\ Kunnossa(kutsu, pyynnot, sivu) /\ MuokkaussivuVaroittaa

-----------------------------------------------------------------------------
(* Requests *)

\* The methods that fill forms, search persons and save persons are told
\* apart from the guarded ones: only a save button sends a guarded method.
LEMMA EiSuojattuja ==
  ASSUME SelainOletus
  PROVE  /\ \A s \in Sivut : Haku[s] \notin Suojatut /\ Haku[s] # Henkilotallennus
         /\ Henkilohaku \notin Suojatut /\ Henkilohaku # Henkilotallennus
         /\ \A s \in Sivut : Tallennus[s] # Henkilotallennus
BY DEF SelainOletus, Suojatut, Tallennukset

\* A request that leaves keeps everything in order, when a guarded method is
\* sent only while none is under way.
LEMMA LahetaKunnossa ==
  ASSUME SelainOletus, NEW k, NEW P, NEW s \in Sivut, Kunnossa(k, P, s),
         NEW m \in Metodit, m = Henkilotallennus => Laji[s] = "velho",
         m \in Suojatut => Kohti(k, m) = {},
         Laheta(m, s, k, P)
  PROVE  Kunnossa(kutsu', pyynnot', s)
<1> DEFINE p == [id |-> m, sivu |-> s, oma |-> TRUE, naytolla |-> m = Henkilohaku]
<1>1. PICK c \in Vapaat(k) : /\ kutsu' = [k EXCEPT ![c] = p]
                             /\ pyynnot' = apiPyynto(P, m)
  BY DEF Laheta
<1>2. c \in Paikat /\ k[c] = Nil
  BY DEF Vapaat
<1>3. p \in Kutsut /\ p # Nil /\ p.id = m /\ p.sivu = s /\ p.oma
  <2>1. p \in Kutsut /\ p.id = m /\ p.sivu = s /\ p.oma
    BY DEF Kutsut
  <2>2. Nil \notin Kutsut
    BY DEF SelainOletus
  <2>3. QED
    BY <2>1, <2>2
<1>4. k \in [Paikat -> Kutsut \union {Nil}] /\ P \in [Metodit -> Int] /\ Tasmaavat(k, P)
  BY DEF Kunnossa, Sopivat
<1> HIDE DEF p
<1>5. kutsu' \in [Paikat -> Kutsut \union {Nil}]
      /\ \A d \in Paikat : kutsu'[d] = IF d = c THEN p ELSE k[d]
  BY <1>1, <1>2, <1>3, <1>4
<1>6. pyynnot' \in [Metodit -> Int]
  BY <1>1, <1>4 DEF apiPyynto
<1>7. IsFiniteSet(Paikat)
  BY DEF SelainOletus
<1>8. /\ Tasmaavat(kutsu', apiPyynto(P, m))
      /\ \A i : i # m => Kohti(kutsu', i) = Kohti(k, i)
      /\ Cardinality(Kohti(kutsu', m)) = Cardinality(Kohti(k, m)) + 1
  BY <1>2, <1>3, <1>4, <1>5, <1>7, PyyntoLasketaan
<1>9. Kerran(kutsu')
  <2> SUFFICES ASSUME NEW i \in Suojatut PROVE Cardinality(Kohti(kutsu', i)) <= 1
    BY DEF Kerran
  <2>1. CASE i = m
    <3>1. Cardinality(Kohti(k, m)) = 0
      BY <2>1, FS_EmptySet
    <3>2. QED
      BY <1>8, <2>1, <3>1
  <2>2. CASE i # m
    BY <1>8, <2>2 DEF Kunnossa, Kerran
  <2>3. QED
    BY <2>1, <2>2
<1>10. Omistetut(kutsu', s)
  BY <1>3, <1>5 DEF Kunnossa, Omistetut
<1>11. QED
  BY <1>1, <1>5, <1>6, <1>8, <1>9, <1>10 DEF Kunnossa, Sopivat

\* Requests stay in order when all that changes is what is remembered of their page.
LEMMA MerkitytKunnossa ==
  ASSUME NEW k, NEW P, NEW s, NEW t, Kunnossa(k, P, s),
         NEW n \in [Paikat -> Kutsut \union {Nil}],
         \A c \in Paikat :
           /\ k[c] = Nil <=> n[c] = Nil
           /\ k[c] # Nil => /\ n[c].id = k[c].id /\ n[c].sivu = k[c].sivu
                            /\ n[c].oma => k[c].oma /\ t = s
  PROVE  Kunnossa(n, P, t)
<1>1. k \in [Paikat -> Kutsut \union {Nil}] /\ Tasmaavat(k, P) /\ P \in [Metodit -> Int]
  BY DEF Kunnossa, Sopivat
<1>2. (\A m : Kohti(n, m) = Kohti(k, m)) /\ Tasmaavat(n, P)
  BY <1>1, SamatPyynnot
<1>3. Omistetut(n, t)
  BY DEF Kunnossa, Omistetut
<1>4. Kerran(n)
  BY <1>2 DEF Kunnossa, Kerran
<1>5. QED
  BY <1>1, <1>2, <1>3, <1>4 DEF Kunnossa, Sopivat

\* The requests of a page that is left stay under way, without their page.
LEMMA VieraatKunnossa ==
  ASSUME SelainOletus, NEW k, NEW P, NEW s, NEW t, Kunnossa(k, P, s)
  PROVE  Kunnossa(Vieraat(k), P, t)
<1> DEFINE n == Vieraat(k)
<1>1. k \in [Paikat -> Kutsut \union {Nil}] /\ Nil \notin Kutsut
  BY DEF Kunnossa, Sopivat, SelainOletus
<1>2. ASSUME NEW c \in Paikat, k[c] # Nil
      PROVE  /\ n[c] \in Kutsut /\ ~n[c].oma
             /\ n[c].id = k[c].id /\ n[c].sivu = k[c].sivu
  <2>1. k[c] \in Kutsut
    BY <1>1, <1>2
  <2>2. n[c] = [k[c] EXCEPT !.oma = FALSE, !.naytolla = FALSE]
    BY <1>2 DEF Vieraat
  <2>3. QED
    BY <2>1, <2>2 DEF Kutsut
<1>3. n = [c \in Paikat |-> n[c]] /\ \A c \in Paikat : k[c] = Nil => n[c] = Nil
  BY DEF Vieraat
<1> HIDE DEF n
<1>4. n \in [Paikat -> Kutsut \union {Nil}]
  BY <1>2, <1>3
<1>5. Kunnossa(n, P, t)
  BY <1>1, <1>2, <1>3, <1>4, MerkitytKunnossa
<1>6. QED
  BY <1>5 DEF n

\* The searches whose list a new search replaces stay under way on their page.
LEMMA KorvatutKunnossa ==
  ASSUME SelainOletus, NEW k, NEW P, NEW s, Kunnossa(k, P, s)
  PROVE  Kunnossa(Korvatut(k), P, s)
<1> DEFINE n == Korvatut(k)
<1>1. k \in [Paikat -> Kutsut \union {Nil}] /\ Nil \notin Kutsut
  BY DEF Kunnossa, Sopivat, SelainOletus
<1>2. ASSUME NEW c \in Paikat, k[c] # Nil
      PROVE  /\ n[c] \in Kutsut /\ n[c].oma = k[c].oma
             /\ n[c].id = k[c].id /\ n[c].sivu = k[c].sivu
  <2>1. k[c] \in Kutsut
    BY <1>1, <1>2
  <2>2. n[c] = [k[c] EXCEPT !.naytolla = FALSE]
    BY <1>2 DEF Korvatut
  <2>3. QED
    BY <2>1, <2>2 DEF Kutsut
<1>3. n = [c \in Paikat |-> n[c]] /\ \A c \in Paikat : k[c] = Nil => n[c] = Nil
  BY DEF Korvatut
<1> HIDE DEF n
<1>4. n \in [Paikat -> Kutsut \union {Nil}]
  BY <1>2, <1>3
<1>5. Kunnossa(n, P, s)
  BY <1>1, <1>2, <1>3, <1>4, MerkitytKunnossa
<1>6. QED
  BY <1>5 DEF n

\* A tab that has just been loaded has no requests.
LEMMA TyhjaKunnossa ==
  ASSUME SelainOletus, NEW s
  PROVE  Kunnossa([c \in Paikat |-> Nil], EiPyyntoja, s)
<1> DEFINE n == [c \in Paikat |-> Nil]
<1>1. n \in [Paikat -> Kutsut \union {Nil}] /\ EiPyyntoja \in [Metodit -> Int]
  BY DEF EiPyyntoja
<1>2. Tasmaavat(n, EiPyyntoja)
  BY TyhjatTasmaavat
<1>3. \A m : Kohti(n, m) = {}
  BY DEF Kohti
<1> HIDE DEF n
<1>4. Kerran(n)
  <2>1. Cardinality({}) = 0
    BY FS_EmptySet
  <2>2. \A m : Cardinality(Kohti(n, m)) = 0
    BY <1>3, <2>1, Zenon
  <2>3. QED
    BY <2>2 DEF Kerran
<1> USE DEF n
<1>5. Omistetut(n, s)
  BY DEF Omistetut
<1> HIDE DEF n
<1>6. Kunnossa(n, EiPyyntoja, s)
  BY <1>1, <1>2, <1>4, <1>5 DEF Kunnossa, Sopivat
<1>7. QED
  BY <1>6 DEF n

\* An answer to the request in place c leaves the others in order.
LEMMA VastausKunnossa ==
  ASSUME SelainOletus, NEW k, NEW P, NEW s, Kunnossa(k, P, s),
         NEW c \in Paikat, k[c] # Nil, NEW virhe
  PROVE  Kunnossa([k EXCEPT ![c] = Nil], apiVastaus(P, k[c].id, virhe), s)
<1> DEFINE n == [k EXCEPT ![c] = Nil]
           Q == apiVastaus(P, k[c].id, virhe)
<1>1. k \in [Paikat -> Kutsut \union {Nil}] /\ P \in [Metodit -> Int] /\ Tasmaavat(k, P)
  BY DEF Kunnossa, Sopivat
<1>2. k[c].id \in Metodit /\ IsFiniteSet(Paikat)
  BY <1>1 DEF Kutsut, SelainOletus
<1>3. n \in [Paikat -> Kutsut \union {Nil}]
      /\ \A d \in Paikat : n[d] = IF d = c THEN Nil ELSE k[d]
  BY <1>1
<1>4. Q \in [Metodit -> Int]
  BY <1>1, <1>2 DEF apiVastaus
<1> HIDE DEF n
<1>5. Tasmaavat(n, Q) /\ \A m : Kohti(n, m) \subseteq Kohti(k, m)
  BY <1>1, <1>2, <1>3, VastausLasketaan
<1> HIDE DEF Q
<1>6. Kerran(n)
  <2> SUFFICES ASSUME NEW m \in Suojatut PROVE Cardinality(Kohti(n, m)) <= 1
    BY DEF Kerran
  <2>1. IsFiniteSet(Kohti(k, m)) /\ Kohti(n, m) \in SUBSET Kohti(k, m)
    BY <1>2, <1>5, KohtiAarellinen
  <2>2. Cardinality(Kohti(n, m)) <= Cardinality(Kohti(k, m))
    BY <2>1, FS_Subset
  <2>3. Cardinality(Kohti(k, m)) <= 1
    BY DEF Kunnossa, Kerran
  <2>4. Cardinality(Kohti(n, m)) \in Nat /\ Cardinality(Kohti(k, m)) \in Nat
    BY <1>2, KohtiAarellinen
  <2>5. QED
    BY <2>2, <2>3, <2>4
<1>7. Omistetut(n, s)
  BY <1>3 DEF Kunnossa, Omistetut
<1>8. Kunnossa(n, Q, s)
  BY <1>3, <1>4, <1>5, <1>6, <1>7 DEF Kunnossa, Sopivat
<1>9. QED
  BY <1>8 DEF n, Q

-----------------------------------------------------------------------------
(* Pages *)

\* The controller of page s starts: its variables have their types, the form
\* is asked with a method that is not guarded, and it warns from the start.
LEMMA KaynnistaInd ==
  ASSUME SelainOletus, NEW k, NEW P, NEW s \in Sivut, Kunnossa(k, P, s),
         Kaynnista(s, k, P), edellinen' \in Sivut
  PROVE  Induktiivinen'
<1>1. SivuTyyppi' /\ MuokkaussivuVaroittaa' /\ sivu' = s
  <2>1. /\ sivu' = s /\ nykyinenAskel' = 0 /\ henkilo' = "ei"
        /\ muokattu' = FALSE /\ vieras' = FALSE
        /\ kysyVarmistus' = (Laji[s] = "crud")
    BY DEF Kaynnista
  <2>2. kysyVarmistus' \in BOOLEAN /\ (Laji[s] = "crud" => kysyVarmistus')
    BY <2>1, Zenon
  <2>3. SivuTyyppi'
    <3>1. kysyVarmistus' \in BOOLEAN /\ muokattu' \in BOOLEAN /\ vieras' \in BOOLEAN
      BY <2>1, <2>2, Zenon
    <3>2. nykyinenAskel' \in 0..2 /\ henkilo' \in {"ei", "loydetty", "uusi"}
      BY <2>1
    <3>3. QED
      BY <2>1, <3>1, <3>2 DEF SivuTyyppi
  <2>4. MuokkaussivuVaroittaa'
    BY <2>1, <2>2 DEF MuokkaussivuVaroittaa
  <2>5. QED
    BY <2>1, <2>3, <2>4
<1>2. Kunnossa(kutsu', pyynnot', s)
  <2>1. CASE Haku[s] = Nil
    BY <2>1 DEF Kaynnista
  <2>2. CASE Haku[s] # Nil
    <3>1. Laheta(Haku[s], s, k, P) /\ Haku[s] \in Metodit
      BY <2>2 DEF Kaynnista, SelainOletus
    <3>2. QED
      BY <3>1, LahetaKunnossa, EiSuojattuja
  <2>3. QED
    BY <2>1, <2>2
<1>3. QED
  BY <1>1, <1>2 DEF Induktiivinen

\* Another page opens, or the user stays: an open form goes on warning when
\* the flag was not lowered for it.
LEMMA SiirryInd ==
  ASSUME SelainOletus, SivuTyyppi,
         NEW s \in Sivut, NEW varmistus \in BOOLEAN,
         NEW k, NEW P, Kunnossa(k, P, sivu),
         Siirry(s, varmistus, k, P),
         s = sivu /\ Laji[sivu] = "crud" /\ ~varmistus => vieras
  PROVE  Induktiivinen'
<1>1. CASE s # sivu /\ edellinen' = sivu /\ Kaynnista(s, Vieraat(k), P)
  <2>1. Kunnossa(Vieraat(k), P, s)
    BY VieraatKunnossa
  <2>2. edellinen' \in Sivut
    BY <1>1 DEF SivuTyyppi
  <2>3. QED
    BY <1>1, <2>1, <2>2, KaynnistaInd
<1>2. CASE /\ s = sivu \/ varmistus
           /\ kysyVarmistus' = varmistus /\ kutsu' = k /\ pyynnot' = P
           /\ UNCHANGED <<sivu, edellinen, nykyinenAskel, henkilo, muokattu, vieras>>
  <2>1. SivuTyyppi' /\ MuokkaussivuVaroittaa'
    BY <1>2 DEF SivuTyyppi, MuokkaussivuVaroittaa
  <2>2. QED
    BY <1>2, <2>1 DEF Induktiivinen
<1>3. QED
  BY <1>1, <1>2 DEF Siirry

\* A tab that opens satisfies the inductive invariant.
LEMMA AlkuInd == SelainOletus /\ Init => Induktiivinen
<1> SUFFICES ASSUME SelainOletus, Init PROVE Induktiivinen
  OBVIOUS
<1>1. SivuTyyppi /\ MuokkaussivuVaroittaa
  <2>1. Alkusivu \in Sivut /\ Laji[Alkusivu] = "katselu"
    BY DEF SelainOletus
  <2>2. SivuTyyppi
    <3>1. kysyVarmistus \in BOOLEAN /\ muokattu \in BOOLEAN /\ vieras \in BOOLEAN
      BY Zenon DEF Init
    <3>2. nykyinenAskel \in 0..2 /\ henkilo \in {"ei", "loydetty", "uusi"}
      BY DEF Init
    <3>3. QED
      BY <2>1, <3>1, <3>2 DEF Init, SivuTyyppi
  <2>3. MuokkaussivuVaroittaa
    BY <2>1 DEF Init, MuokkaussivuVaroittaa
  <2>4. QED
    BY <2>2, <2>3
<1>2. Kunnossa(kutsu, pyynnot, sivu)
  BY TyhjaKunnossa DEF Init, KutsuInit
<1>3. QED
  BY <1>1, <1>2 DEF Induktiivinen

-----------------------------------------------------------------------------
(* The user's events *)

\* A link keeps the inductive invariant: the flag is not touched.
LEMMA LinkkiInd ==
  ASSUME SelainOletus, Induktiivinen, NEW s \in Sivut, Linkki(s)
  PROVE  Induktiivinen'
<1>1. SivuTyyppi /\ kysyVarmistus \in BOOLEAN /\ Kunnossa(kutsu, pyynnot, sivu)
  BY DEF Induktiivinen, SivuTyyppi
<1>2. s # sivu /\ Siirry(s, kysyVarmistus, kutsu, pyynnot)
  BY DEF Linkki
<1>3. QED
  BY <1>1, <1>2, SiirryInd

\* Cancelling keeps it: the flag is raised, if anything.
LEMMA PeruutaInd ==
  ASSUME SelainOletus, Induktiivinen, Peruuta
  PROVE  Induktiivinen'
<1> DEFINE s == IF Peruutus[sivu] = Nil THEN edellinen ELSE Peruutus[sivu]
           varmistus == kysyVarmistus \/ Laji[sivu] # "crud"
<1>1. SivuTyyppi /\ Kunnossa(kutsu, pyynnot, sivu) /\ MuokkaussivuVaroittaa
  BY DEF Induktiivinen
<1>2. Siirry(s, varmistus, kutsu, pyynnot)
  BY DEF Peruuta
<1>3. s \in Sivut /\ varmistus \in BOOLEAN
  BY <1>1 DEF SivuTyyppi, SelainOletus
<1>4. s = sivu /\ Laji[sivu] = "crud" /\ ~varmistus => vieras
  BY <1>1 DEF MuokkaussivuVaroittaa
<1> HIDE DEF s, varmistus
<1>5. QED
  BY <1>1, <1>2, <1>3, <1>4, SiirryInd

\* Editing the form and moving within the wizard send nothing and leave the
\* flag alone; the wizard stays within its three steps.
LEMMA MuokkaaInd ==
  ASSUME SelainOletus, Induktiivinen,
         Muokkaa \/ SiirryHeti \/ vaihdaTila \/ \E a \in {0, 1} : Askeleelle(a)
  PROVE  Induktiivinen'
<1>1. SivuTyyppi /\ Kunnossa(kutsu, pyynnot, sivu) /\ MuokkaussivuVaroittaa
  BY DEF Induktiivinen
<1>2. UNCHANGED <<sivu, edellinen, kysyVarmistus, vieras, kutsu, pyynnot>>
  BY DEF Muokkaa, SiirryHeti, vaihdaTila, Askeleelle, kutsuVars
<1>3. SivuTyyppi'
  <2>1. nykyinenAskel' \in 0..2 /\ muokattu' \in BOOLEAN
    <3>1. nykyinenAskel \in 0..2 /\ muokattu \in BOOLEAN
      BY <1>1 DEF SivuTyyppi
    <3>2. CASE Muokkaa
      BY <3>1, <3>2 DEF Muokkaa
    <3>3. CASE SiirryHeti
      BY <3>1, <3>3 DEF SiirryHeti, siirrySeuraavaan
    <3>4. CASE vaihdaTila
      BY <3>1, <3>4 DEF vaihdaTila
    <3>5. CASE \E a \in {0, 1} : Askeleelle(a)
      BY <3>1, <3>5 DEF Askeleelle
    <3>6. QED
      BY <3>2, <3>3, <3>4, <3>5
  <2>2. henkilo' \in {"ei", "loydetty", "uusi"}
    BY <1>1 DEF SivuTyyppi, Muokkaa, SiirryHeti, vaihdaTila, Askeleelle, siirrySeuraavaan
  <2>3. QED
    BY <1>1, <1>2, <2>1, <2>2 DEF SivuTyyppi
<1>4. MuokkaussivuVaroittaa'
  BY <1>1, <1>2 DEF MuokkaussivuVaroittaa
<1>5. QED
  BY <1>1, <1>2, <1>3, <1>4 DEF Induktiivinen

\* A search for a person sends a method that is not guarded.
LEMMA HaeHenkilotInd ==
  ASSUME SelainOletus, Induktiivinen, HaeHenkilot
  PROVE  Induktiivinen'
<1>1. SivuTyyppi /\ Kunnossa(kutsu, pyynnot, sivu) /\ MuokkaussivuVaroittaa
  BY DEF Induktiivinen
<1>2. SivuTyyppi' /\ MuokkaussivuVaroittaa' /\ sivu' = sivu
  BY <1>1 DEF HaeHenkilot, SivuTyyppi, MuokkaussivuVaroittaa
<1>3. /\ Laheta(Henkilohaku, sivu, Korvatut(kutsu), pyynnot)
      /\ Henkilohaku \in Metodit /\ sivu \in Sivut
  BY <1>1 DEF HaeHenkilot, SelainOletus, SivuTyyppi
<1>4. Kunnossa(Korvatut(kutsu), pyynnot, sivu)
  BY <1>1, KorvatutKunnossa
<1>5. Kunnossa(kutsu', pyynnot', sivu)
  BY <1>3, <1>4, LahetaKunnossa, EiSuojattuja
<1>6. QED
  BY <1>2, <1>5 DEF Induktiivinen

\* The save button of a form whose method is guarded is enabled only while
\* the method is idle.
LEMMA TallennaInd ==
  ASSUME SelainOletus, Induktiivinen, Tallenna
  PROVE  Induktiivinen'
<1>1. SivuTyyppi /\ Kunnossa(kutsu, pyynnot, sivu) /\ MuokkaussivuVaroittaa
  BY DEF Induktiivinen
<1>2. SivuTyyppi' /\ MuokkaussivuVaroittaa' /\ sivu' = sivu
  BY <1>1 DEF Tallenna, sivuVars, SivuTyyppi, MuokkaussivuVaroittaa
<1>3. /\ Laheta(Tallentaa, sivu, kutsu, pyynnot) /\ Laji[sivu] # "katselu"
      /\ ~PyyntojaKaynnissa(Odottaa) /\ sivu \in Sivut
  BY <1>1 DEF Tallenna, SivuTyyppi
<1>4. Tallentaa \in Metodit
  BY <1>3 DEF Tallentaa, SelainOletus
<1>5. Tallentaa = Henkilotallennus => Laji[sivu] = "velho"
  BY <1>3, EiSuojattuja DEF Tallentaa
<1>6. Tallentaa \in Suojatut => Tallentaa \in Odottaa
  BY <1>3, EiSuojattuja DEF Tallentaa, Odottaa, Suojatut
<1>7. Tallentaa \in Suojatut => Kohti(kutsu, Tallentaa) = {}
  <2>1. Tallentaa \in Odottaa => pyynnot[Tallentaa] = 0
    BY <1>3 DEF PyyntojaKaynnissa
  <2>2. Tasmaavat(kutsu, pyynnot) /\ IsFiniteSet(Paikat)
    BY <1>1 DEF Kunnossa, Sopivat, SelainOletus
  <2>3. QED
    BY <1>4, <1>6, <2>1, <2>2, LaskuriNolla
<1>8. Kunnossa(kutsu', pyynnot', sivu)
  BY <1>1, <1>3, <1>4, <1>5, <1>7, LahetaKunnossa
<1>9. QED
  BY <1>2, <1>8 DEF Induktiivinen

\* Loading the page again forgets every request.
LEMMA LataaUudelleenInd ==
  ASSUME SelainOletus, Induktiivinen, LataaUudelleen
  PROVE  Induktiivinen'
<1>1. sivu \in Sivut
  BY DEF Induktiivinen, SivuTyyppi
<1>2. Kaynnista(sivu, [c \in Paikat |-> Nil], EiPyyntoja) /\ edellinen' \in Sivut
  BY <1>1 DEF LataaUudelleen
<1>3. QED
  BY <1>1, <1>2, TyhjaKunnossa, KaynnistaInd

-----------------------------------------------------------------------------
(* Answers *)

\* The callback that moves a wizard on lowers the flag only for its own
\* wizard, or counts as the save of another page.
LEMMA VelhoEteneeInd ==
  ASSUME SelainOletus, SivuTyyppi, MuokkaussivuVaroittaa,
         NEW p \in Kutsut, p.id \in {Henkilohaku, Henkilotallennus},
         p.oma => p.sivu = sivu, p.id = Henkilotallennus => Laji[p.sivu] = "velho",
         NEW varmistus \in BOOLEAN,
         varmistus = kysyVarmistus \/ (varmistus = FALSE /\ p.id = Henkilotallennus),
         NEW k, NEW P, Kunnossa(k, P, sivu),
         VelhoEtenee(p, varmistus, k, P)
  PROVE  Induktiivinen'
<1>1. kutsu' = k /\ pyynnot' = P /\ sivu' = sivu /\ edellinen' = edellinen
      /\ kysyVarmistus' = varmistus
  BY DEF VelhoEtenee
<1>2. vieras' = (vieras \/ (~p.oma /\ p.id = Henkilotallennus))
      /\ muokattu' = (muokattu /\ ~p.oma)
  BY DEF VelhoEtenee
<1>3. muokattu' \in BOOLEAN /\ vieras' \in BOOLEAN /\ kysyVarmistus' \in BOOLEAN
  BY <1>1, <1>2, Zenon
<1>4. nykyinenAskel' \in 0..2 /\ henkilo' \in {"ei", "loydetty", "uusi"}
  <2>1. nykyinenAskel \in 0..2 /\ henkilo \in {"ei", "loydetty", "uusi"}
    BY DEF SivuTyyppi
  <2>2. CASE p.oma
    BY <2>1, <2>2 DEF VelhoEtenee, siirrySeuraavaan
  <2>3. CASE ~p.oma
    BY <2>1, <2>3 DEF VelhoEtenee
  <2>4. QED
    BY <2>2, <2>3
<1>5. SivuTyyppi'
  BY <1>1, <1>3, <1>4 DEF SivuTyyppi
<1>6. MuokkaussivuVaroittaa'
  <2> SUFFICES ASSUME Laji[sivu] = "crud", ~varmistus PROVE vieras'
    BY <1>1 DEF MuokkaussivuVaroittaa
  <2>1. CASE varmistus = kysyVarmistus
    BY <1>2, <2>1 DEF MuokkaussivuVaroittaa
  <2>2. CASE p.id = Henkilotallennus
    <3>1. ~p.oma
      BY <2>2
    <3>2. QED
      BY <1>2, <2>2, <3>1
  <2>3. QED
    BY <2>1, <2>2
<1>7. QED
  BY <1>1, <1>5, <1>6 DEF Induktiivinen

\* An answer keeps the inductive invariant.
LEMMA VastausInd ==
  ASSUME SelainOletus, Induktiivinen,
         NEW c \in Paikat, NEW virhe \in BOOLEAN, Vastaus(c, virhe)
  PROVE  Induktiivinen'
<1> DEFINE p == kutsu[c]
           k == [kutsu EXCEPT ![c] = Nil]
           P == apiVastaus(pyynnot, p.id, virhe)
<1>1. SivuTyyppi /\ Kunnossa(kutsu, pyynnot, sivu) /\ MuokkaussivuVaroittaa
  BY DEF Induktiivinen
<1>2. p # Nil
  BY DEF Vastaus
<1>3. p \in Kutsut
  BY <1>1, <1>2 DEF Kunnossa, Sopivat
<1>4. /\ p.oma => p.sivu = sivu
      /\ p.id = Henkilotallennus => Laji[p.sivu] = "velho"
  BY <1>1, <1>2 DEF Kunnossa, Omistetut
<1>5. Kunnossa(k, P, sivu)
  BY <1>1, <1>2, VastausKunnossa
<1>6. p.sivu \in Sivut /\ p.oma \in BOOLEAN
  BY <1>3 DEF Kutsut
<1>7. \/ /\ muokattu' = (muokattu /\ (virhe \/ ~p.oma))
         /\ kutsu' = k /\ pyynnot' = P
         /\ UNCHANGED <<sivu, edellinen, nykyinenAskel, henkilo, kysyVarmistus, vieras>>
      \/ p.id = Henkilohaku /\ VelhoEtenee(p, kysyVarmistus, k, P)
      \/ p.id = Henkilotallennus /\ VelhoEtenee(p, FALSE, k, P)
      \/ TallennusOnnistui(p, k, P)
  BY DEF Vastaus
<1> HIDE DEF p, k, P
<1>8. CASE /\ muokattu' = (muokattu /\ (virhe \/ ~p.oma))
           /\ kutsu' = k /\ pyynnot' = P
           /\ UNCHANGED <<sivu, edellinen, nykyinenAskel, henkilo, kysyVarmistus, vieras>>
  <2>1. muokattu' \in BOOLEAN
    BY <1>8, Zenon
  <2>2. SivuTyyppi' /\ MuokkaussivuVaroittaa'
    BY <1>1, <1>8, <2>1 DEF SivuTyyppi, MuokkaussivuVaroittaa
  <2>3. QED
    BY <1>5, <1>8, <2>2 DEF Induktiivinen
<1>9. CASE p.id = Henkilohaku /\ VelhoEtenee(p, kysyVarmistus, k, P)
  <2>1. PICK varmistus \in BOOLEAN : varmistus = kysyVarmistus
    BY <1>1 DEF SivuTyyppi
  <2>2. p.id \in {Henkilohaku, Henkilotallennus} /\ VelhoEtenee(p, varmistus, k, P)
    BY <1>9, <2>1
  <2>3. QED
    BY <1>1, <1>3, <1>4, <1>5, <2>1, <2>2, VelhoEteneeInd
<1>10. CASE p.id = Henkilotallennus /\ VelhoEtenee(p, FALSE, k, P)
  BY <1>1, <1>3, <1>4, <1>5, <1>10, VelhoEteneeInd
<1>11. CASE TallennusOnnistui(p, k, P)
  <2> DEFINE s == Paluu[p.sivu]
             varmistus == kysyVarmistus /\ Laji[p.sivu] = "uusi"
  <2>1. s \in Sivut /\ Laji[s] # "crud"
    BY <1>6 DEF SelainOletus
  <2>2. varmistus \in BOOLEAN
    BY Zenon
  <2>3. Siirry(s, varmistus, k, P)
    BY <1>11 DEF TallennusOnnistui
  <2> HIDE DEF s, varmistus
  <2>4. QED
    BY <1>1, <1>5, <2>1, <2>2, <2>3, SiirryInd
<1>12. QED
  BY <1>7, <1>8, <1>9, <1>10, <1>11

\* Every event of the tab keeps the inductive invariant.
LEMMA AskelInd == SelainOletus /\ Induktiivinen /\ [Next]_vars => Induktiivinen'
<1> SUFFICES ASSUME SelainOletus, Induktiivinen, [Next]_vars PROVE Induktiivinen'
  OBVIOUS
<1>1. CASE \E s \in Sivut : Linkki(s)
  BY <1>1, LinkkiInd
<1>2. CASE Peruuta
  BY <1>2, PeruutaInd
<1>3. CASE Muokkaa \/ SiirryHeti \/ vaihdaTila \/ \E a \in {0, 1} : Askeleelle(a)
  BY <1>3, MuokkaaInd
<1>4. CASE Tallenna
  BY <1>4, TallennaInd
<1>5. CASE HaeHenkilot
  BY <1>5, HaeHenkilotInd
<1>6. CASE LataaUudelleen
  BY <1>6, LataaUudelleenInd
<1>7. CASE \E c \in Paikat, virhe \in BOOLEAN : Vastaus(c, virhe)
  BY <1>7, VastausInd
<1>8. CASE UNCHANGED vars
  <2>1. UNCHANGED <<sivu, edellinen, nykyinenAskel, henkilo, kysyVarmistus, muokattu, vieras,
                    kutsu, pyynnot>>
    BY <1>8 DEF vars, sivuVars, kutsuVars
  <2>2. QED
    BY <2>1 DEF Induktiivinen, SivuTyyppi, MuokkaussivuVaroittaa
<1>9. QED
  BY <1>1, <1>2, <1>3, <1>4, <1>5, <1>6, <1>7, <1>8 DEF Next

-----------------------------------------------------------------------------
(* Theorems *)

\* The inductive invariant holds whatever the user does and however late the
\* answers are: counters and requests fit each other, guarded forms are sent
\* once, forms go on warning.
THEOREM Pysyvyys == Spec => []Induktiivinen
<1>1. Init => Induktiivinen
  BY SelainOletus, AlkuInd
<1>2. Induktiivinen /\ [Next]_vars => Induktiivinen'
  BY SelainOletus, AskelInd
<1>3. QED
  BY <1>1, <1>2, PTL DEF Spec

\* Every variable keeps to its type; the wizard never goes beyond its last
\* step (siirrySeuraavaan).
THEOREM Tyypit == Spec => []TyyppiOK
<1>1. Induktiivinen => TyyppiOK
  BY DEF Induktiivinen, SivuTyyppi, Kunnossa, Sopivat, TyyppiOK
<1>2. QED
  BY <1>1, Pysyvyys, PTL

\* The interceptor's counters tell exactly the requests in flight (apiPyynto,
\* apiVastaus).
THEOREM Laskurit == Spec => []LaskuritTasmaavat
<1>1. Induktiivinen => LaskuritTasmaavat
  BY DEF Induktiivinen, Kunnossa, Sopivat, Tasmaavat, LaskuritTasmaavat, Kohti, Kaynnissa
<1>2. QED
  BY <1>1, Pysyvyys, PTL

\* A form whose button waits for its method (the directive tallenna) is not
\* sent a second time before the first answer.
THEOREM YksiTallennus == Spec => []EiRinnakkaisiaTallennuksia
<1>1. Induktiivinen => EiRinnakkaisiaTallennuksia
  BY DEF Induktiivinen, Kunnossa, Kerran, EiRinnakkaisiaTallennuksia, Kohti, Kaynnissa
<1>2. QED
  BY <1>1, Pysyvyys, PTL

\* A page that warns of unsaved edits (varmistaPoistuminen) goes on warning
\* unless another page's save is acknowledged on it.
THEOREM Varoitus == Spec => []MuokkaussivuVaroittaa
<1>1. Induktiivinen => MuokkaussivuVaroittaa
  BY DEF Induktiivinen
<1>2. QED
  BY <1>1, Pysyvyys, PTL
=============================================================================
