---------------------- MODULE ArviointipaatoksetProofs -----------------------
(***************************************************************************)
(* Theorems about Arviointipaatokset, for all sets of records, criteria    *)
(* and requests in flight, and any number of changes by others: once       *)
(* everything is answered the list is what the server has, unless one of   *)
(* the named events has made it unreliable; and the server makes only      *)
(* steps of Suorituselinkaari.                                             *)
(***************************************************************************)
EXTENDS Arviointipaatokset, TLAPS

Kutsut == Haut \union Muutospyynnot \union {Nil}

HakuKaynnissa(c) == kutsu[c] # Nil /\ kutsu[c].laji = "haku"

\* A change has been carried out and the page does not know yet: an approval
\* or a return (paivitaSuoritustenTila is to come), or a deletion.
TilaMuuttunut(c) ==
  kutsu[c] # Nil /\ kutsu[c].laji \in {"hyvaksy", "palauta"} /\ kutsu[c].vastaus = 200
RiviPoistettu(c) == kutsu[c] # Nil /\ kutsu[c].laji = "poista" /\ kutsu[c].vastaus = 200

Odottaa == \E c \in Paikat : TilaMuuttunut(c)
Poistettu(k) == \E c \in Paikat : RiviPoistettu(c) /\ k \in kutsu[c].kohteet

\* A search that is the fresh one asks with the form as it is, or another will
\* follow; its answer is true still, or another will follow.
HautOK ==
  \A c \in Paikat : HakuKaynnissa(c) /\ kutsu[c].tuore =>
    /\ kutsu[c].ehto = hakuForm \/ ajastin
    /\ kutsu[c].vastaus # Nil => kutsu[c].vastaus = Tulos(kutsu[c].ehto) \/ Odottaa

\* What the page removes from its list the server has removed.
PoistotOK ==
  \A c \in Paikat : RiviPoistettu(c) => \A k \in kutsu[c].kohteet : tila[k] = "poissa"

\* A list nothing has made unreliable is that of the server, up to the rows
\* whose removal is being answered, or a search is to come.
ListaOK ==
  luotettava =>
    \/ ajastin \/ Odottaa
    \/ \E c \in Paikat : HakuKaynnissa(c)
    \/ {s \in suoritukset : ~Poistettu(s.kerta)} = Tulos(hakuForm)

Induktiivinen == TyyppiOK /\ HautOK /\ PoistotOK /\ ListaOK

-----------------------------------------------------------------------------
\* y is the request x, perhaps gone stale (Vanhenna, LahetaHaku).
Vanhentunut(x, y) ==
  \/ y = x
  \/ /\ x # Nil /\ x.laji = "haku"
     /\ y \in Haut /\ y.ehto = x.ehto /\ y.vastaus = x.vastaus /\ y.tuore = FALSE

\* The assumption in the form the proofs use: Nil is no request and no answer
\* of a change, and requests of different kinds are told apart by laji.
LEMMA NilErillinen ==
  /\ Nil # 200 /\ Nil # 403 /\ Nil # 404
  /\ \A x \in Haut : x # Nil /\ x.laji = "haku"
  /\ \A x \in Muutospyynnot : x # Nil /\ x.laji # "haku"
  /\ Alkuehto \in Ehdot
BY ArviointipaatoksetOletus DEF Haut, Muutospyynnot, Muutokset

\* A request of a kind has the type of that kind (the resource methods of
\* Suoritus).
LEMMA KutsunLaji ==
  ASSUME NEW x \in Kutsut, x # Nil
  PROVE  /\ x.laji = "haku" => x \in Haut
         /\ x.laji # "haku" => x \in Muutospyynnot
BY NilErillinen DEF Kutsut

\* A search made stale differs in nothing else.
LEMMA Vanhentaminen ==
  ASSUME NEW x \in Haut
  PROVE  /\ [x EXCEPT !.tuore = FALSE] \in Haut
         /\ [x EXCEPT !.tuore = FALSE].tuore = FALSE
         /\ Vanhentunut(x, [x EXCEPT !.tuore = FALSE])
<1> DEFINE y == [x EXCEPT !.tuore = FALSE]
<1>1. y \in Haut /\ y.ehto = x.ehto /\ y.vastaus = x.vastaus
  BY DEF Haut
<1>2. y.tuore = FALSE
  BY DEF Haut
<1>3. x # Nil /\ x.laji = "haku"
  BY NilErillinen
<1> HIDE DEF y
<1>4. Vanhentunut(x, y)
  BY <1>1, <1>2, <1>3, Zenon DEF Vanhentunut
<1> QED BY <1>1, <1>2, <1>4, Zenon DEF y

\* Being the same or stale keeps a request's type and its kind.
LEMMA VanhentunutTyyppi ==
  ASSUME NEW x \in Kutsut, NEW y, Vanhentunut(x, y)
  PROVE  /\ y \in Kutsut /\ (y = Nil <=> x = Nil)
         /\ x # Nil => y.laji = x.laji
         /\ x # Nil /\ x.laji # "haku" => y = x
<1>1. CASE y = x
  BY <1>1
<1>2. CASE y # x
  <2>1. y \in Haut /\ x # Nil /\ x.laji = "haku"
    BY <1>2, Zenon DEF Vanhentunut
  <2> QED BY <2>1, NilErillinen DEF Kutsut
<1> QED BY <1>1, <1>2

\* What Vanhenna leaves of the requests k.
LEMMA VanhennaTulos ==
  ASSUME NEW k \in [Paikat -> Kutsut]
  PROVE  /\ Vanhenna(k) \in [Paikat -> Kutsut]
         /\ \A d \in Paikat :
              /\ Vanhentunut(k[d], Vanhenna(k)[d])
              /\ k[d] # Nil /\ k[d].laji = "haku" /\ k[d].vastaus # Nil
                   => Vanhenna(k)[d].tuore = FALSE
<1>1. ASSUME NEW d \in Paikat
      PROVE  /\ Vanhentunut(k[d], Vanhenna(k)[d])
             /\ k[d] # Nil /\ k[d].laji = "haku" /\ k[d].vastaus # Nil
                  => Vanhenna(k)[d].tuore = FALSE
  <2>1. CASE k[d] # Nil /\ k[d].laji = "haku" /\ k[d].vastaus # Nil
    <3>1. Vanhenna(k)[d] = [k[d] EXCEPT !.tuore = FALSE]
      BY <2>1, Zenon DEF Vanhenna
    <3>2. k[d] \in Haut
      BY <2>1, KutsunLaji
    <3> QED BY <3>1, <3>2, Vanhentaminen, Zenon
  <2>2. CASE ~(k[d] # Nil /\ k[d].laji = "haku" /\ k[d].vastaus # Nil)
    <3>1. Vanhenna(k)[d] = k[d]
      BY <2>2, Zenon DEF Vanhenna
    <3> QED BY <2>2, <3>1, Zenon DEF Vanhentunut
  <2> QED BY <2>1, <2>2, Zenon
<1>2. ASSUME NEW d \in Paikat PROVE Vanhenna(k)[d] \in Kutsut
  <2>1. k[d] \in Kutsut
    OBVIOUS
  <2> QED BY <1>1, <2>1, VanhentunutTyyppi
<1>3. Vanhenna(k) \in [Paikat -> Kutsut]
  BY <1>2 DEF Vanhenna
<1> QED BY <1>1, <1>3, Zenon

\* A search that leaves is the only fresh one (haeSuoritukset).
LEMMA HakuLahtee ==
  ASSUME NEW k \in [Paikat -> Kutsut], NEW e \in Ehdot, LahetaHaku(k, e)
  PROVE  /\ kutsu' \in [Paikat -> Kutsut]
         /\ \E c \in Paikat :
              /\ k[c] = Nil
              /\ HakuKaynnissa(c)'
              /\ kutsu'[c].ehto = e /\ kutsu'[c].vastaus = Nil
              /\ \A d \in Paikat \ {c} :
                   /\ Vanhentunut(k[d], kutsu'[d])
                   /\ k[d] # Nil /\ k[d].laji = "haku" => kutsu'[d].tuore = FALSE
<1> DEFINE uusi == [laji |-> "haku", ehto |-> e, vastaus |-> Nil, tuore |-> TRUE]
           f(c) == [d \in Paikat |->
                      IF d = c THEN uusi
                      ELSE IF k[d] # Nil /\ k[d].laji = "haku" THEN [k[d] EXCEPT !.tuore = FALSE]
                      ELSE k[d]]
<1>1. PICK c \in {d \in Paikat : k[d] = Nil} : kutsu' = f(c)
  BY Zenon DEF LahetaHaku
<1>2. c \in Paikat /\ k[c] = Nil
  BY Zenon
<1>3. uusi \in Haut /\ uusi.ehto = e /\ uusi.vastaus = Nil
  <2>1. PICK t \in BOOLEAN : t = TRUE
    OBVIOUS
  <2>2. uusi = [laji |-> "haku", ehto |-> e, vastaus |-> Nil, tuore |-> t]
    BY <2>1, Zenon
  <2> HIDE DEF uusi
  <2> QED BY <2>2 DEF Haut
<1>4. kutsu'[c] = uusi
  BY <1>1, <1>2, Zenon
<1>5. HakuKaynnissa(c)'
  <2>1. uusi # Nil /\ uusi.laji = "haku"
    BY <1>3, NilErillinen, Zenon
  <2> HIDE DEF uusi
  <2> QED BY <1>4, <2>1 DEF HakuKaynnissa
<1>6. ASSUME NEW d \in Paikat \ {c}
      PROVE  /\ Vanhentunut(k[d], kutsu'[d])
             /\ k[d] # Nil /\ k[d].laji = "haku" => kutsu'[d].tuore = FALSE
  <2>0. d \in Paikat /\ d # c
    BY Zenon
  <2>1. CASE k[d] # Nil /\ k[d].laji = "haku"
    <3>1. kutsu'[d] = [k[d] EXCEPT !.tuore = FALSE]
      BY <1>1, <2>0, <2>1, Zenon
    <3>2. k[d] \in Haut
      BY <2>0, <2>1, KutsunLaji
    <3> QED BY <3>1, <3>2, Vanhentaminen, Zenon
  <2>2. CASE ~(k[d] # Nil /\ k[d].laji = "haku")
    <3>1. kutsu'[d] = k[d]
      BY <1>1, <2>0, <2>2, Zenon
    <3> QED BY <2>2, <3>1, Zenon DEF Vanhentunut
  <2> QED BY <2>1, <2>2, Zenon
<1>7. ASSUME NEW d \in Paikat PROVE f(c)[d] \in Kutsut
  <2>1. k[d] \in Kutsut
    OBVIOUS
  <2>2. CASE d = c
    BY <1>1, <1>3, <1>4, <2>2 DEF Kutsut
  <2>3. CASE d # c
    <3>1. Vanhentunut(k[d], kutsu'[d])
      BY <1>6, <2>3
    <3>2. kutsu'[d] \in Kutsut
      BY <2>1, <3>1, VanhentunutTyyppi
    <3> QED BY <1>1, <3>2
  <2> QED BY <2>2, <2>3
<1>8. kutsu' \in [Paikat -> Kutsut]
  <2>1. f(c) \in [Paikat -> Kutsut]
    BY <1>7, Zenon
  <2> QED BY <1>1, <2>1, Zenon
<1> QED BY <1>2, <1>3, <1>4, <1>5, <1>6, <1>8, Zenon

-----------------------------------------------------------------------------
\* What the server finds are rows, and depends on its records only.
LEMMA TulosRivit == ASSUME NEW e \in Ehdot PROVE Tulos(e) \subseteq Rivit
BY ArviointipaatoksetOletus DEF Tulos, Rivit

\* A step that changes neither the requests nor what the list depends on.
LEMMA Ennallaan ==
  ASSUME Induktiivinen, UNCHANGED <<hakuForm, ajastin, suoritukset, kutsu, tila, luotettava>>
  PROVE  HautOK' /\ PoistotOK' /\ ListaOK'
<1>1. \A c : /\ HakuKaynnissa(c)' = HakuKaynnissa(c)
             /\ TilaMuuttunut(c)' = TilaMuuttunut(c)
             /\ RiviPoistettu(c)' = RiviPoistettu(c)
  BY Zenon DEF HakuKaynnissa, TilaMuuttunut, RiviPoistettu
<1>2. \A e : Tulos(e)' = Tulos(e)
  BY Zenon DEF Tulos
<1>3. Odottaa' = Odottaa /\ \A k : Poistettu(k)' = Poistettu(k)
  BY <1>1, Zenon DEF Odottaa, Poistettu
<1>4. HautOK'
  BY <1>1, <1>2, <1>3 DEF HautOK, Induktiivinen
<1>5. PoistotOK'
  BY <1>1 DEF PoistotOK, Induktiivinen
<1>6. ListaOK'
  <2>1. {s \in suoritukset : ~Poistettu(s.kerta)}' = {s \in suoritukset : ~Poistettu(s.kerta)}
    BY <1>3
  <2> QED BY <1>1, <1>2, <1>3, <2>1, Zenon DEF ListaOK, Induktiivinen
<1> QED BY <1>4, <1>5, <1>6

\* A search leaves where only the ticks and the list change: it is the fresh
\* one, and asks with the form as it is (the last call of
\* paivitaSuoritustenTila, and the timer).
LEMMA HakuLahteeOK ==
  ASSUME Induktiivinen, NEW k \in [Paikat -> Kutsut], LahetaHaku(k, hakuForm),
         UNCHANGED <<hakuForm, tila>>,
         \A d \in Paikat : k[d] = kutsu[d] \/ k[d] = Nil
  PROVE  kutsu' \in [Paikat -> Kutsut] /\ HautOK' /\ PoistotOK' /\ ListaOK'
<1>1. hakuForm \in Ehdot
  BY DEF Induktiivinen, TyyppiOK
<1>2. kutsu' \in [Paikat -> Kutsut]
  BY <1>1, HakuLahtee
<1>3. PICK c \in Paikat :
        /\ k[c] = Nil
        /\ HakuKaynnissa(c)'
        /\ kutsu'[c].ehto = hakuForm /\ kutsu'[c].vastaus = Nil
        /\ \A d \in Paikat \ {c} :
             /\ Vanhentunut(k[d], kutsu'[d])
             /\ k[d] # Nil /\ k[d].laji = "haku" => kutsu'[d].tuore = FALSE
  BY <1>1, HakuLahtee, Zenon
<1>4. ASSUME NEW d \in Paikat, d # c
      PROVE  /\ kutsu'[d] = Nil <=> k[d] = Nil
             /\ k[d] # Nil => kutsu'[d].laji = k[d].laji
             /\ k[d] # Nil /\ k[d].laji # "haku" => kutsu'[d] = k[d]
  <2>1. k[d] \in Kutsut /\ Vanhentunut(k[d], kutsu'[d])
    BY <1>3, <1>4
  <2> QED BY <2>1, VanhentunutTyyppi
<1>5. ASSUME NEW d \in Paikat, HakuKaynnissa(d)', d # c PROVE kutsu'[d].tuore = FALSE
  <2>1. kutsu'[d] # Nil /\ kutsu'[d].laji = "haku"
    BY <1>5 DEF HakuKaynnissa
  <2>2. k[d] # Nil /\ k[d].laji = "haku"
    BY <1>4, <1>5, <2>1
  <2> QED BY <1>3, <1>5, <2>2
<1>6. HautOK'
  <2> SUFFICES ASSUME NEW d \in Paikat, HakuKaynnissa(d)', kutsu'[d].tuore
               PROVE  kutsu'[d].ehto = hakuForm' /\ kutsu'[d].vastaus = Nil
    BY DEF HautOK
  <2>1. d = c
    BY <1>5, Zenon
  <2> QED BY <1>3, <2>1
<1>7. PoistotOK'
  <2> SUFFICES ASSUME NEW d \in Paikat, RiviPoistettu(d)', NEW j \in kutsu'[d].kohteet
               PROVE  tila[j] = "poissa"
    BY DEF PoistotOK
  <2>1. kutsu'[d] # Nil /\ kutsu'[d].laji = "poista" /\ kutsu'[d].vastaus = 200
    BY DEF RiviPoistettu
  <2>2. d # c
    BY <1>3, <2>1, NilErillinen
  <2>3. k[d] # Nil /\ k[d].laji = "poista"
    BY <1>4, <2>1, <2>2
  <2>4. kutsu'[d] = kutsu[d]
    BY <1>4, <2>2, <2>3
  <2>5. RiviPoistettu(d)
    BY <2>1, <2>4 DEF RiviPoistettu
  <2> QED BY <2>4, <2>5 DEF PoistotOK, Induktiivinen
<1>8. ListaOK'
  BY <1>3, Zenon DEF ListaOK
<1> QED BY <1>2, <1>6, <1>7, <1>8

\* Requests that have gone stale, with one place emptied, and a list that is
\* no longer relied on (Virhe, MuuKayttaja); no record comes back.
LEMMA VanhetessaOK ==
  ASSUME Induktiivinen, kutsu' \in [Paikat -> Kutsut],
         UNCHANGED <<hakuForm, ajastin>>,
         \A d \in Paikat : \/ kutsu'[d] = Nil
                           \/ kutsu'[d] = Vanhenna(kutsu)[d],
         \A k \in Kerrat : tila[k] = "poissa" => tila'[k] = "poissa",
         luotettava' = FALSE
  PROVE  HautOK' /\ PoistotOK' /\ ListaOK'
<1>1. kutsu \in [Paikat -> Kutsut]
  BY Zenon DEF Induktiivinen, TyyppiOK, Kutsut
<1>2. ASSUME NEW d \in Paikat, kutsu'[d] # Nil
      PROVE  /\ kutsu[d] \in Kutsut
             /\ Vanhentunut(kutsu[d], kutsu'[d])
             /\ kutsu[d] # Nil /\ kutsu[d].laji = "haku" /\ kutsu[d].vastaus # Nil
                  => kutsu'[d].tuore = FALSE
  <2>1. kutsu'[d] = Vanhenna(kutsu)[d]
    BY <1>2
  <2>2. kutsu[d] \in Kutsut
    BY <1>1
  <2>3. /\ Vanhentunut(kutsu[d], Vanhenna(kutsu)[d])
        /\ kutsu[d] # Nil /\ kutsu[d].laji = "haku" /\ kutsu[d].vastaus # Nil
             => Vanhenna(kutsu)[d].tuore = FALSE
    BY <1>1, VanhennaTulos, Zenon
  <2> QED BY <2>1, <2>2, <2>3, Zenon
<1>3. HautOK'
  <2> SUFFICES ASSUME NEW d \in Paikat, HakuKaynnissa(d)', kutsu'[d].tuore
               PROVE  /\ kutsu'[d].ehto = hakuForm \/ ajastin
                      /\ kutsu'[d].vastaus = Nil
    BY DEF HautOK
  <2>1. kutsu'[d] # Nil /\ kutsu'[d].laji = "haku"
    BY DEF HakuKaynnissa
  <2>2. kutsu'[d] = kutsu[d]
    BY <1>2, <2>1, Zenon DEF Vanhentunut
  <2>3. kutsu[d].vastaus = Nil
    BY <1>2, <2>1, <2>2, Zenon
  <2>4. HakuKaynnissa(d) /\ kutsu[d].tuore
    BY <2>1, <2>2, Zenon DEF HakuKaynnissa
  <2>5. kutsu[d].ehto = hakuForm \/ ajastin
    BY <2>4, Zenon DEF HautOK, Induktiivinen
  <2> QED BY <2>2, <2>3, <2>5, Zenon
<1>4. PoistotOK'
  <2> SUFFICES ASSUME NEW d \in Paikat, RiviPoistettu(d)', NEW j \in kutsu'[d].kohteet
               PROVE  tila'[j] = "poissa"
    BY DEF PoistotOK
  <2>1. kutsu'[d] # Nil /\ kutsu'[d].laji = "poista" /\ kutsu'[d].vastaus = 200
    BY DEF RiviPoistettu
  <2>2. kutsu'[d] = kutsu[d]
    <3>1. kutsu[d] \in Kutsut /\ Vanhentunut(kutsu[d], kutsu'[d])
      BY <1>2, <2>1
    <3>2. kutsu[d] # Nil /\ kutsu[d].laji = kutsu'[d].laji
      BY <2>1, <3>1, VanhentunutTyyppi
    <3>3. kutsu[d].laji # "haku"
      BY <2>1, <3>2
    <3> QED BY <3>1, <3>2, <3>3, VanhentunutTyyppi, Zenon
  <2>3. tila[j] = "poissa"
    BY <2>1, <2>2 DEF RiviPoistettu, PoistotOK, Induktiivinen
  <2>4. kutsu[d] \in Muutospyynnot
    BY <1>2, <2>1, <2>2, KutsunLaji
  <2>5. j \in Kerrat
    BY <2>2, <2>4 DEF Muutospyynnot
  <2> QED BY <2>3, <2>5
<1>5. ListaOK'
  BY DEF ListaOK
<1> QED BY <1>3, <1>4, <1>5

-----------------------------------------------------------------------------
(* The actions, one lemma each *)

\* The criteria change, or the button is pressed (haeSuoritukset).
LEMMA HakuTilattu ==
  ASSUME Induktiivinen, NEW e \in Ehdot, haeSuoritukset(e)
  PROVE  Induktiivinen'
<1>1. hakuForm' = e /\ ajastin' = TRUE /\ UNCHANGED <<suoritukset, form, dialogi, kutsu, tila, muut, luotettava>>
  BY DEF haeSuoritukset
<1>2. TyyppiOK'
  BY <1>1 DEF Induktiivinen, TyyppiOK
<1>3. \A c : /\ HakuKaynnissa(c)' = HakuKaynnissa(c)
             /\ TilaMuuttunut(c)' = TilaMuuttunut(c)
             /\ RiviPoistettu(c)' = RiviPoistettu(c)
  BY <1>1, Zenon DEF HakuKaynnissa, TilaMuuttunut, RiviPoistettu
<1>4. \A x : Tulos(x)' = Tulos(x)
  BY <1>1, Zenon DEF Tulos
<1>5. HautOK'
  BY <1>1, <1>3, <1>4 DEF HautOK, Odottaa, Induktiivinen
<1>6. PoistotOK'
  BY <1>1, <1>3 DEF PoistotOK, Induktiivinen
<1>7. ListaOK'
  BY <1>1 DEF ListaOK
<1> QED BY <1>2, <1>5, <1>6, <1>7 DEF Induktiivinen

\* A tick, and the questions (suoritusvalinta, varmistaHyvaksynta): the list
\* and the requests stay.
LEMMA Rastitettu ==
  ASSUME Induktiivinen, NEW k \in Kerrat, Rastita(k)
  PROVE  Induktiivinen'
<1>1. TyyppiOK'
  <2>1. form' \subseteq Kerrat \union {Pvm}
    BY DEF Rastita, Induktiivinen, TyyppiOK
  <2> QED BY <2>1, Zenon DEF Rastita, Induktiivinen, TyyppiOK
<1>2. UNCHANGED <<hakuForm, ajastin, suoritukset, kutsu, tila, luotettava>>
  BY DEF Rastita
<1> QED BY <1>1, <1>2, Ennallaan DEF Induktiivinen

\* The date is chosen or cleared (pvm-valitsin).
LEMMA PvmValittu ==
  ASSUME Induktiivinen, ValitsePvm
  PROVE  Induktiivinen'
<1>1. TyyppiOK'
  <2>1. form' \subseteq Kerrat \union {Pvm}
    BY DEF ValitsePvm, Induktiivinen, TyyppiOK
  <2> QED BY <2>1, Zenon DEF ValitsePvm, Induktiivinen, TyyppiOK
<1>2. UNCHANGED <<hakuForm, ajastin, suoritukset, kutsu, tila, luotettava>>
  BY DEF ValitsePvm
<1> QED BY <1>1, <1>2, Ennallaan DEF Induktiivinen

LEMMA NakyvatKerrat == TyyppiOK => Nakyvat \subseteq Kerrat
BY DEF TyyppiOK, Nakyvat, Rivit

\* A question opens (varmista).
LEMMA Kysytty ==
  ASSUME Induktiivinen, Kysy
  PROVE  Induktiivinen'
<1>1. dialogi' \in [laji : {"hyvaksy", "palauta"}, kohde : {Nil}]
                 \union [laji : {"poista"}, kohde : Kerrat] \union {Nil}
  <2>1. dialogi' \in
       {[laji |-> l, kohde |-> Nil] : l \in
          IF form = {} \/ Tilaehto[hakuForm] = Nil THEN {}
          ELSE IF Tilaehto[hakuForm] = "luonnos" THEN {"hyvaksy"} ELSE {"palauta"}}
       \union {[laji |-> "poista", kohde |-> k] : k \in
                 IF Tilaehto[hakuForm] = "luonnos" THEN Nakyvat ELSE {}}
    BY DEF Kysy
  <2>2. Nakyvat \subseteq Kerrat
    BY NakyvatKerrat DEF Induktiivinen
  <2> QED BY <2>1, <2>2
<1>2. UNCHANGED <<hakuForm, ajastin, suoritukset, form, kutsu, tila, muut, luotettava>>
  BY DEF Kysy
<1>3. TyyppiOK'
  BY <1>1, <1>2, Zenon DEF Induktiivinen, TyyppiOK
<1> QED BY <1>2, <1>3, Ennallaan DEF Induktiivinen

\* The question is answered no.
LEMMA Peruttu ==
  ASSUME Induktiivinen, Peruuta
  PROVE  Induktiivinen'
<1>1. dialogi' = Nil /\ UNCHANGED <<hakuForm, ajastin, suoritukset, form, kutsu, tila, muut, luotettava>>
  BY DEF Peruuta
<1>2. TyyppiOK'
  BY <1>1, Zenon DEF Induktiivinen, TyyppiOK
<1> QED BY <1>1, <1>2, Ennallaan DEF Induktiivinen

\* One place changes, and not from or to a search or a change carried out:
\* what the requests say of the list stays.
LEMMA KutsuMuuttuu ==
  ASSUME Induktiivinen, NEW c \in Paikat, NEW x,
         kutsu' = [kutsu EXCEPT ![c] = x],
         kutsu[c] = Nil \/ kutsu[c].vastaus = Nil,
         x # Nil, x.laji \in Muutokset, x.vastaus = Nil \/ x.vastaus = 403 \/ x.vastaus = 404,
         kutsu[c] # Nil => kutsu[c].laji \in Muutokset,
         UNCHANGED <<hakuForm, ajastin, suoritukset, tila, luotettava>>
  PROVE  HautOK' /\ PoistotOK' /\ ListaOK'
<1>1. kutsu'[c] = x /\ \A d \in Paikat : d # c => kutsu'[d] = kutsu[d]
  BY DEF Induktiivinen, TyyppiOK
<1>2. /\ HakuKaynnissa(c)' <=> HakuKaynnissa(c)
      /\ TilaMuuttunut(c)' <=> TilaMuuttunut(c)
      /\ RiviPoistettu(c)' <=> RiviPoistettu(c)
  BY <1>1, NilErillinen DEF HakuKaynnissa, TilaMuuttunut, RiviPoistettu, Muutokset
<1>3. ASSUME NEW d \in Paikat
      PROVE  /\ HakuKaynnissa(d)' <=> HakuKaynnissa(d)
             /\ TilaMuuttunut(d)' <=> TilaMuuttunut(d)
             /\ RiviPoistettu(d)' <=> RiviPoistettu(d)
             /\ HakuKaynnissa(d) \/ RiviPoistettu(d) => kutsu'[d] = kutsu[d]
  <2>1. CASE d = c
    <3>1. ~HakuKaynnissa(c) /\ ~RiviPoistettu(c)
      BY NilErillinen DEF HakuKaynnissa, RiviPoistettu, Muutokset
    <3> QED BY <1>2, <2>1, <3>1, Zenon
  <2>2. CASE d # c
    <3>1. kutsu'[d] = kutsu[d]
      BY <1>1, <2>2
    <3>2. HakuKaynnissa(d)' <=> HakuKaynnissa(d)
      BY <3>1 DEF HakuKaynnissa
    <3>3. TilaMuuttunut(d)' <=> TilaMuuttunut(d)
      BY <3>1 DEF TilaMuuttunut
    <3>4. RiviPoistettu(d)' <=> RiviPoistettu(d)
      BY <3>1 DEF RiviPoistettu
    <3> QED BY <3>1, <3>2, <3>3, <3>4, Zenon
  <2> QED BY <2>1, <2>2, Zenon
<1>4. \A e : Tulos(e)' = Tulos(e)
  BY Zenon DEF Tulos
<1>5. Odottaa' <=> Odottaa
  BY <1>3, Zenon DEF Odottaa
<1>6. ASSUME NEW k PROVE Poistettu(k)' <=> Poistettu(k)
  <2>1. ASSUME NEW d \in Paikat
        PROVE  (RiviPoistettu(d) /\ k \in kutsu[d].kohteet)' <=> RiviPoistettu(d) /\ k \in kutsu[d].kohteet
    BY <1>3
  <2>2. ASSUME Poistettu(k) PROVE Poistettu(k)'
    <3>1. PICK d \in Paikat : RiviPoistettu(d) /\ k \in kutsu[d].kohteet
      BY <2>2, Zenon DEF Poistettu
    <3>2. (RiviPoistettu(d) /\ k \in kutsu[d].kohteet)'
      BY <2>1, <3>1, Zenon
    <3> QED BY <3>2, Zenon DEF Poistettu
  <2>3. ASSUME Poistettu(k)' PROVE Poistettu(k)
    <3>1. PICK d \in Paikat : (RiviPoistettu(d) /\ k \in kutsu[d].kohteet)'
      BY <2>3, Zenon DEF Poistettu
    <3>2. RiviPoistettu(d) /\ k \in kutsu[d].kohteet
      BY <2>1, <3>1, Zenon
    <3> QED BY <3>2, Zenon DEF Poistettu
  <2> QED BY <2>2, <2>3, Zenon
<1>7. HautOK'
  BY <1>3, <1>4, <1>5 DEF HautOK, Induktiivinen
<1>8. PoistotOK'
  BY <1>3 DEF PoistotOK, Induktiivinen
<1>9. ListaOK'
  <2>1. {s \in suoritukset : ~Poistettu(s.kerta)}' = {s \in suoritukset : ~Poistettu(s.kerta)}
    BY <1>6
  <2>2. (\E d \in Paikat : HakuKaynnissa(d))' = (\E d \in Paikat : HakuKaynnissa(d))
    BY <1>3, Zenon
  <2> QED BY <1>4, <1>5, <2>1, <2>2, Zenon DEF ListaOK, Induktiivinen
<1> QED BY <1>7, <1>8, <1>9

\* The question is answered yes: the change leaves (hyvaksySuoritukset).
LEMMA Vahvistettu ==
  ASSUME Induktiivinen, Vahvista
  PROVE  Induktiivinen'
<1> DEFINE kohteet == IF dialogi.laji = "poista" THEN {dialogi.kohde} ELSE form \intersect Kerrat
           x == [laji |-> dialogi.laji, kohteet |-> kohteet, vastaus |-> Nil]
<1>0. UNCHANGED <<hakuForm, ajastin, suoritukset, form, tila, muut, luotettava>> /\ dialogi' = Nil
  BY DEF Vahvista
<1>1. PICK c \in {d \in Paikat : kutsu[d] = Nil} : kutsu' = [kutsu EXCEPT ![c] = x]
  BY Zenon DEF Vahvista, LahetaMuutos
<1>2. c \in Paikat /\ kutsu[c] = Nil
  BY Zenon
<1>3. dialogi.laji \in Muutokset /\ (dialogi.laji = "poista" => dialogi.kohde \in Kerrat)
  BY DEF Vahvista, Induktiivinen, TyyppiOK, Muutokset
<1>5. x \in Muutospyynnot
  BY <1>3 DEF Muutospyynnot, Induktiivinen, TyyppiOK
<1>6. x # Nil /\ x.laji \in Muutokset /\ x.vastaus = Nil
  BY <1>3, <1>5, NilErillinen
<1> HIDE DEF x
<1>7. HautOK' /\ PoistotOK' /\ ListaOK'
  <2>1. UNCHANGED <<hakuForm, ajastin, suoritukset, tila, luotettava>>
    BY <1>0
  <2>2. c \in Paikat /\ (kutsu[c] = Nil \/ kutsu[c].vastaus = Nil)
        /\ (kutsu[c] # Nil => kutsu[c].laji \in Muutokset)
    BY <1>2
  <2>3. kutsu' = [kutsu EXCEPT ![c] = x]
    BY <1>1
  <2> QED BY <1>6, <2>1, <2>2, <2>3, KutsuMuuttuu, Zenon
<1>8. kutsu' \in [Paikat -> Haut \union Muutospyynnot \union {Nil}]
  BY <1>1, <1>2, <1>5 DEF Induktiivinen, TyyppiOK
<1>9. TyyppiOK'
  BY <1>0, <1>8, Zenon DEF Induktiivinen, TyyppiOK
<1> QED BY <1>7, <1>9 DEF Induktiivinen

\* The half second has passed (haeSuorituksetTimeoutPromise).
LEMMA AjastinLauennut ==
  ASSUME Induktiivinen, AjastinLaukeaa
  PROVE  Induktiivinen'
<1>1. /\ LahetaHaku(kutsu, hakuForm) /\ ajastin' = FALSE
      /\ UNCHANGED <<hakuForm, suoritukset, form, dialogi, tila, muut, luotettava>>
  BY DEF AjastinLaukeaa
<1>2. kutsu \in [Paikat -> Kutsut]
  BY Zenon DEF Induktiivinen, TyyppiOK, Kutsut
<1>3. kutsu' \in [Paikat -> Kutsut] /\ HautOK' /\ PoistotOK' /\ ListaOK'
  BY <1>1, <1>2, HakuLahteeOK
<1>4. kutsu' \in [Paikat -> Haut \union Muutospyynnot \union {Nil}]
  BY <1>3, Zenon DEF Kutsut
<1>5. TyyppiOK'
  BY <1>1, <1>4 DEF Induktiivinen, TyyppiOK
<1> QED BY <1>3, <1>5 DEF Induktiivinen

\* The server answers a search with what it has then.
LEMMA Haettu ==
  ASSUME Induktiivinen, NEW c \in Paikat, PalvelinHakee(c)
  PROVE  Induktiivinen'
<1>1. /\ kutsu[c] # Nil /\ kutsu[c].laji = "haku"
      /\ UNCHANGED <<hakuForm, ajastin, suoritukset, form, dialogi, tila, muut, luotettava>>
  BY DEF PalvelinHakee, selainVars
<1>2. kutsu[c] \in Haut
  <2>1. kutsu[c] \in Kutsut
    BY DEF Induktiivinen, TyyppiOK, Kutsut
  <2> QED BY <1>1, <2>1, KutsunLaji
<1> DEFINE T == Tulos(kutsu[c].ehto)
           x == [kutsu[c] EXCEPT !.vastaus = T]
<1>3. T \subseteq Rivit
  BY <1>2, TulosRivit DEF Haut
<1>4. kutsu' = [kutsu EXCEPT ![c] = x]
  BY DEF PalvelinHakee
<1> HIDE DEF T
<1>5. x \in Haut /\ x.ehto = kutsu[c].ehto /\ x.vastaus = T /\ x.tuore = kutsu[c].tuore
  BY <1>2, <1>3 DEF Haut
<1> HIDE DEF x
<1>6. kutsu'[c] = x /\ \A d \in Paikat : d # c => kutsu'[d] = kutsu[d]
  BY <1>4 DEF Induktiivinen, TyyppiOK
<1>7. x # Nil /\ x.laji = "haku"
  BY <1>5, NilErillinen
<1>8. ASSUME NEW d \in Paikat, kutsu'[d] # Nil, kutsu'[d].laji # "haku" \/ d # c
      PROVE  kutsu'[d] = kutsu[d]
  BY <1>6, <1>7, <1>8
<1>9. \A e : Tulos(e)' = Tulos(e)
  BY <1>1, Zenon DEF Tulos
<1>10. ASSUME NEW d \in Paikat
       PROVE  /\ TilaMuuttunut(d) <=> TilaMuuttunut(d)'
              /\ RiviPoistettu(d) <=> RiviPoistettu(d)'
              /\ HakuKaynnissa(d) => HakuKaynnissa(d)'
  <2>1. CASE d = c
    BY <1>1, <1>6, <1>7, <2>1 DEF TilaMuuttunut, RiviPoistettu, HakuKaynnissa
  <2>2. CASE d # c
    <3>1. kutsu'[d] = kutsu[d]
      BY <1>6, <2>2
    <3> QED BY <3>1 DEF TilaMuuttunut, RiviPoistettu, HakuKaynnissa
  <2> QED BY <2>1, <2>2
<1>11. Odottaa <=> Odottaa'
  BY <1>10, Zenon DEF Odottaa
<1>12. ASSUME NEW d \in Paikat, RiviPoistettu(d) PROVE kutsu'[d] = kutsu[d]
  BY <1>1, <1>6, <1>12 DEF RiviPoistettu
<1>13. ASSUME NEW k PROVE Poistettu(k) <=> Poistettu(k)'
  BY <1>10, <1>12, Zenon DEF Poistettu
<1>14. HautOK'
  <2> SUFFICES ASSUME NEW d \in Paikat, HakuKaynnissa(d)', kutsu'[d].tuore
               PROVE  /\ kutsu'[d].ehto = hakuForm \/ ajastin
                      /\ kutsu'[d].vastaus # Nil => kutsu'[d].vastaus = Tulos(kutsu'[d].ehto) \/ Odottaa
    BY <1>1, <1>9, <1>11, Zenon DEF HautOK
  <2>1. CASE d = c
    <3>1. kutsu'[d] = x /\ HakuKaynnissa(c) /\ kutsu[c].tuore
      BY <1>1, <1>5, <1>6, <2>1, Zenon DEF HakuKaynnissa
    <3>2. kutsu[c].ehto = hakuForm \/ ajastin
      BY <3>1, Zenon DEF HautOK, Induktiivinen
    <3> QED BY <1>5, <3>1, <3>2, Zenon DEF T
  <2>2. CASE d # c
    <3>1. kutsu'[d] = kutsu[d]
      BY <1>6, <2>2
    <3>2. HakuKaynnissa(d) /\ kutsu[d].tuore
      BY <3>1, Zenon DEF HakuKaynnissa
    <3> QED BY <3>1, <3>2, Zenon DEF HautOK, Induktiivinen
  <2> QED BY <2>1, <2>2
<1>15. PoistotOK'
  BY <1>1, <1>10, <1>12 DEF PoistotOK, Induktiivinen
<1>16. ListaOK'
  <2>1. {s \in suoritukset : ~Poistettu(s.kerta)}' = {s \in suoritukset : ~Poistettu(s.kerta)}
    BY <1>1, <1>13
  <2>2. (\E d \in Paikat : HakuKaynnissa(d)) => (\E d \in Paikat : HakuKaynnissa(d))'
    BY <1>10, Zenon
  <2>3. luotettava' = luotettava /\ ajastin' = ajastin /\ Tulos(hakuForm)' = Tulos(hakuForm)
    BY <1>1, Zenon DEF Tulos
  <2> QED BY <1>11, <2>1, <2>2, <2>3, Zenon DEF ListaOK, Induktiivinen
<1>17. TyyppiOK'
  <2>1. kutsu' \in [Paikat -> Haut \union Muutospyynnot \union {Nil}]
    BY <1>4, <1>5 DEF Induktiivinen, TyyppiOK
  <2> QED BY <1>1, <2>1, Zenon DEF Induktiivinen, TyyppiOK
<1> QED BY <1>14, <1>15, <1>16, <1>17 DEF Induktiivinen

\* An answer to a search, or the failure of a request, leaves the other
\* requests as they were.
LEMMA TyhjennettyPaikka ==
  ASSUME Induktiivinen, NEW c \in Paikat, kutsu' = [kutsu EXCEPT ![c] = Nil]
  PROVE  /\ kutsu' \in [Paikat -> Haut \union Muutospyynnot \union {Nil}]
         /\ kutsu'[c] = Nil
         /\ \A d \in Paikat : d # c => kutsu'[d] = kutsu[d]
BY DEF Induktiivinen, TyyppiOK

\* The list of a search that was answered is shown.
LEMMA HakuSaapunut ==
  ASSUME Induktiivinen, NEW c \in Paikat, HakuVastaus(c)
  PROVE  Induktiivinen'
<1>1. /\ kutsu[c] # Nil /\ kutsu[c].laji = "haku" /\ kutsu[c].vastaus # Nil
      /\ suoritukset' = kutsu[c].vastaus /\ luotettava' = kutsu[c].tuore
      /\ kutsu' = [kutsu EXCEPT ![c] = Nil]
      /\ UNCHANGED <<hakuForm, ajastin, form, dialogi, tila, muut>>
  BY DEF HakuVastaus
<1>2. kutsu[c] \in Haut
  <2>1. kutsu[c] \in Kutsut
    BY DEF Induktiivinen, TyyppiOK, Kutsut
  <2> QED BY <1>1, <2>1, KutsunLaji
<1>3. /\ kutsu' \in [Paikat -> Haut \union Muutospyynnot \union {Nil}]
      /\ kutsu'[c] = Nil
      /\ \A d \in Paikat : d # c => kutsu'[d] = kutsu[d]
  BY <1>1, TyhjennettyPaikka
<1>4. \A e : Tulos(e)' = Tulos(e)
  BY <1>1, Zenon DEF Tulos
<1>5. ASSUME NEW d \in Paikat
      PROVE  /\ TilaMuuttunut(d) <=> TilaMuuttunut(d)'
             /\ RiviPoistettu(d) <=> RiviPoistettu(d)'
             /\ HakuKaynnissa(d)' => HakuKaynnissa(d) /\ kutsu'[d] = kutsu[d]
             /\ RiviPoistettu(d)' => kutsu'[d] = kutsu[d]
  <2>1. CASE d = c
    BY <1>1, <1>3, <2>1 DEF TilaMuuttunut, RiviPoistettu, HakuKaynnissa
  <2>2. CASE d # c
    <3>1. kutsu'[d] = kutsu[d]
      BY <1>3, <2>2
    <3> QED BY <3>1 DEF TilaMuuttunut, RiviPoistettu, HakuKaynnissa
  <2> QED BY <2>1, <2>2
<1>6. Odottaa <=> Odottaa'
  BY <1>5, Zenon DEF Odottaa
<1>7. HautOK'
  <2> SUFFICES ASSUME NEW d \in Paikat, HakuKaynnissa(d)', kutsu'[d].tuore
               PROVE  /\ kutsu'[d].ehto = hakuForm \/ ajastin
                      /\ kutsu'[d].vastaus # Nil => kutsu'[d].vastaus = Tulos(kutsu'[d].ehto) \/ Odottaa
    BY <1>1, <1>4, <1>6, Zenon DEF HautOK
  <2>1. HakuKaynnissa(d) /\ kutsu'[d] = kutsu[d]
    BY <1>5
  <2>2. kutsu[d].tuore
    BY <2>1, Zenon
  <2> QED BY <2>1, <2>2, Zenon DEF HautOK, Induktiivinen
<1>8. PoistotOK'
  BY <1>1, <1>5 DEF PoistotOK, Induktiivinen
<1>9. ListaOK'
  <2> SUFFICES ASSUME luotettava', ~ajastin', ~Odottaa'
               PROVE  {s \in suoritukset : ~Poistettu(s.kerta)}' = Tulos(hakuForm)'
    BY Zenon DEF ListaOK
  <2>1. HakuKaynnissa(c) /\ kutsu[c].tuore
    BY <1>1, Zenon DEF HakuKaynnissa
  <2>2. suoritukset' = Tulos(hakuForm)
    <3>1. ~ajastin /\ ~Odottaa
      BY <1>1, <1>6
    <3>2. kutsu[c].ehto = hakuForm /\ kutsu[c].vastaus = Tulos(kutsu[c].ehto)
      BY <1>1, <2>1, <3>1, Zenon DEF HautOK, Induktiivinen
    <3> QED BY <1>1, <3>2, Zenon
  <2>3. Tulos(hakuForm)' = Tulos(hakuForm)
    BY <1>1, Zenon DEF Tulos
  <2>4. ASSUME NEW s \in Tulos(hakuForm) PROVE ~Poistettu(s.kerta)'
    <3>1. tila[s.kerta] \in {"luonnos", "hyvaksytty"}
      BY <2>4 DEF Tulos
    <3> QED BY <1>1, <1>8, <3>1 DEF Poistettu, PoistotOK
  <2> QED BY <2>2, <2>3, <2>4
<1>10. TyyppiOK'
  <2>1. suoritukset' \subseteq Rivit /\ luotettava' \in BOOLEAN
    BY <1>1, <1>2 DEF Haut
  <2> QED BY <1>1, <1>3, <2>1, Zenon DEF Induktiivinen, TyyppiOK
<1> QED BY <1>7, <1>8, <1>9, <1>10 DEF Induktiivinen

\* A request of the place c that changes records: its type.
LEMMA MuutoksenTyyppi ==
  ASSUME Induktiivinen, NEW c \in Paikat, kutsu[c] # Nil, kutsu[c].laji \in Muutokset
  PROVE  kutsu[c] \in Muutospyynnot
<1>1. kutsu[c] \in Kutsut
  BY DEF Induktiivinen, TyyppiOK, Kutsut
<1>2. kutsu[c].laji # "haku"
  BY DEF Muutokset
<1> QED BY <1>1, <1>2, KutsunLaji

\* The new state of a record is one of a record (hyvaksy!, palauta!, poista!).
LEMMA UudetTilat ==
  ASSUME NEW laji \in Muutokset
  PROVE  /\ Uusi(laji) \in {"luonnos", "hyvaksytty", "poissa"}
         /\ laji # "poista" => Uusi(laji) \in {"luonnos", "hyvaksytty"}
         /\ laji = "poista" => Uusi(laji) = "poissa"
BY DEF Muutokset, Uusi

\* The server carries out an approval or a return: a search is to follow.
LEMMA TilaVaihtunut ==
  ASSUME Induktiivinen, NEW c \in Paikat, NEW x \in Muutospyynnot,
         kutsu'[c] = x, \A d \in Paikat : d # c => kutsu'[d] = kutsu[d],
         kutsu[c] # Nil, kutsu[c].laji \in Muutokset, kutsu[c].vastaus = Nil,
         x.laji \in {"hyvaksy", "palauta"}, x.vastaus = 200,
         \A k \in Kerrat : tila[k] = "poissa" => tila'[k] = "poissa",
         UNCHANGED <<hakuForm, ajastin, suoritukset, luotettava>>
  PROVE  HautOK' /\ PoistotOK' /\ ListaOK'
<1>1. kutsu'[c] = x /\ \A d \in Paikat : d # c => kutsu'[d] = kutsu[d]
  OBVIOUS
<1>2. TilaMuuttunut(c)'
  BY <1>1, NilErillinen DEF TilaMuuttunut
<1>3. Odottaa'
  BY <1>2, Zenon DEF Odottaa
<1>4. ASSUME NEW d \in Paikat, HakuKaynnissa(d)' \/ RiviPoistettu(d)'
      PROVE  kutsu'[d] = kutsu[d]
  BY <1>1, <1>4, NilErillinen DEF HakuKaynnissa, RiviPoistettu
<1>5. HautOK'
  <2> SUFFICES ASSUME NEW d \in Paikat, HakuKaynnissa(d)', kutsu'[d].tuore
               PROVE  kutsu'[d].ehto = hakuForm \/ ajastin
    BY <1>3, Zenon DEF HautOK
  <2>1. kutsu'[d] = kutsu[d]
    BY <1>4
  <2>2. HakuKaynnissa(d) /\ kutsu[d].tuore
    BY <2>1, Zenon DEF HakuKaynnissa
  <2>3. kutsu[d].ehto = hakuForm \/ ajastin
    BY <2>2, Zenon DEF HautOK, Induktiivinen
  <2> QED BY <2>1, <2>3, Zenon
<1>6. PoistotOK'
  <2> SUFFICES ASSUME NEW d \in Paikat, RiviPoistettu(d)', NEW k \in kutsu'[d].kohteet
               PROVE  tila'[k] = "poissa"
    BY DEF PoistotOK
  <2>1. kutsu'[d] = kutsu[d]
    BY <1>4
  <2>2. RiviPoistettu(d) /\ kutsu[d].laji \in Muutokset
    BY <2>1 DEF RiviPoistettu, Muutokset
  <2>3. kutsu[d] \in Muutospyynnot
    BY <2>2, MuutoksenTyyppi DEF RiviPoistettu
  <2>4. k \in Kerrat /\ tila[k] = "poissa"
    BY <2>1, <2>2, <2>3 DEF PoistotOK, Induktiivinen, Muutospyynnot
  <2> QED BY <2>4
<1>7. ListaOK'
  BY <1>3, Zenon DEF ListaOK
<1> QED BY <1>5, <1>6, <1>7

\* The server carries out a deletion: answers found before are stale, and the
\* row is to be removed.
LEMMA RiviPoistunut ==
  ASSUME Induktiivinen, NEW c \in Paikat, NEW x \in Muutospyynnot,
         NEW v \in [Paikat -> Kutsut], kutsu' = Vanhenna(v),
         v[c] = x, \A d \in Paikat : d # c => v[d] = kutsu[d],
         kutsu[c] # Nil, kutsu[c].laji \in Muutokset, kutsu[c].vastaus = Nil,
         x.laji = "poista", x.vastaus = 200,
         tila' = [k \in Kerrat |-> IF k \in x.kohteet THEN "poissa" ELSE tila[k]],
         UNCHANGED <<hakuForm, ajastin, suoritukset, luotettava>>
  PROVE  kutsu' \in [Paikat -> Kutsut] /\ HautOK' /\ PoistotOK' /\ ListaOK'
<1>1. v[c] = x /\ \A d \in Paikat : d # c => v[d] = kutsu[d]
  OBVIOUS
<1>2. kutsu' = Vanhenna(v)
  OBVIOUS
<1>3. kutsu' \in [Paikat -> Kutsut]
  BY VanhennaTulos, Zenon
<1>4. ASSUME NEW d \in Paikat
      PROVE  /\ v[d] \in Kutsut /\ Vanhentunut(v[d], kutsu'[d])
             /\ v[d] # Nil /\ v[d].laji = "haku" /\ v[d].vastaus # Nil => kutsu'[d].tuore = FALSE
  <2>1. v[d] \in Kutsut
    OBVIOUS
  <2> QED BY <2>1, VanhennaTulos, Zenon
<1>5. ASSUME NEW d \in Paikat
      PROVE  /\ (kutsu'[d] = Nil <=> v[d] = Nil) /\ (v[d] # Nil => kutsu'[d].laji = v[d].laji)
             /\ v[d] # Nil /\ v[d].laji # "haku" => kutsu'[d] = v[d]
  <2>1. v[d] \in Kutsut /\ Vanhentunut(v[d], kutsu'[d])
    BY <1>4
  <2> QED BY <2>1, VanhentunutTyyppi
<1>6. x # Nil /\ kutsu'[c] = x
  BY <1>1, <1>5, NilErillinen
<1>7. RiviPoistettu(c)'
  BY <1>6 DEF RiviPoistettu
<1>8. HautOK'
  <2> SUFFICES ASSUME NEW d \in Paikat, HakuKaynnissa(d)', kutsu'[d].tuore
               PROVE  /\ kutsu'[d].ehto = hakuForm \/ ajastin
                      /\ kutsu'[d].vastaus = Nil
    BY Zenon DEF HautOK
  <2>1. kutsu'[d] # Nil /\ kutsu'[d].laji = "haku"
    BY DEF HakuKaynnissa
  <2>2. d # c
    BY <1>6, <2>1
  <2>3. kutsu'[d] = v[d] /\ v[d] = kutsu[d]
    BY <1>1, <1>4, <2>2, Zenon DEF Vanhentunut
  <2>4. kutsu[d].vastaus = Nil
    <3>1. v[d] # Nil /\ v[d].laji = "haku" /\ v[d].vastaus # Nil => kutsu'[d].tuore = FALSE
      BY <1>4
    <3>2. v[d] # Nil /\ v[d].laji = "haku"
      BY <2>1, <2>3, Zenon
    <3>3. v[d].vastaus = Nil
      BY <3>1, <3>2, Zenon
    <3> QED BY <2>3, <3>3, Zenon
  <2>5. kutsu'[d] = kutsu[d]
    BY <2>3
  <2>6. HakuKaynnissa(d)
    BY <2>1, <2>5 DEF HakuKaynnissa
  <2>7. kutsu[d].tuore
    BY <2>5, Zenon
  <2>8. HautOK
    BY Zenon DEF Induktiivinen
  <2>9. kutsu[d].ehto = hakuForm \/ ajastin
    BY <2>6, <2>7, <2>8 DEF HautOK
  <2> QED BY <2>4, <2>5, <2>9
<1>9. ASSUME NEW d \in Paikat, d # c
      PROVE  /\ RiviPoistettu(d)' <=> RiviPoistettu(d)
             /\ RiviPoistettu(d) => kutsu'[d] = kutsu[d] /\ kutsu[d].kohteet \subseteq Kerrat
             /\ TilaMuuttunut(d) => TilaMuuttunut(d)'
             /\ HakuKaynnissa(d) => HakuKaynnissa(d)'
  <2>1. v[d] = kutsu[d]
    BY <1>1, <1>9
  <2>2. HakuKaynnissa(d) => HakuKaynnissa(d)'
    BY <1>5, <2>1 DEF HakuKaynnissa
  <2>3. TilaMuuttunut(d) => TilaMuuttunut(d)'
    BY <1>5, <2>1 DEF TilaMuuttunut
  <2>4. RiviPoistettu(d)' <=> RiviPoistettu(d)
    BY <1>5, <2>1 DEF RiviPoistettu
  <2>5. RiviPoistettu(d) => kutsu'[d] = kutsu[d]
    BY <1>5, <2>1 DEF RiviPoistettu
  <2>6. RiviPoistettu(d) => kutsu[d].kohteet \subseteq Kerrat
    <3>1. RiviPoistettu(d) => kutsu[d] # Nil /\ kutsu[d].laji \in Muutokset
      BY DEF RiviPoistettu, Muutokset
    <3>2. RiviPoistettu(d) => kutsu[d] \in Muutospyynnot
      BY <3>1, MuutoksenTyyppi
    <3> QED BY <3>2 DEF Muutospyynnot
  <2> QED BY <2>2, <2>3, <2>4, <2>5, <2>6
<1>10. x.kohteet \subseteq Kerrat
  BY DEF Muutospyynnot
<1>11. PoistotOK'
  <2> SUFFICES ASSUME NEW d \in Paikat, RiviPoistettu(d)', NEW k \in kutsu'[d].kohteet
               PROVE  tila'[k] = "poissa"
    BY DEF PoistotOK
  <2>1. CASE d = c
    BY <1>6, <1>10, <2>1
  <2>2. CASE d # c
    <3>1. RiviPoistettu(d) /\ k \in kutsu[d].kohteet /\ k \in Kerrat
      BY <1>9, <2>2
    <3>2. tila[k] = "poissa"
      BY <3>1 DEF PoistotOK, Induktiivinen
    <3> QED BY <3>1, <3>2
  <2> QED BY <2>1, <2>2
<1>12. ASSUME NEW k PROVE Poistettu(k)' <=> Poistettu(k) \/ k \in x.kohteet
  <2>1. ~RiviPoistettu(c)
    BY NilErillinen DEF RiviPoistettu
  <2>2. Poistettu(k)' => Poistettu(k) \/ k \in x.kohteet
    <3>1. ASSUME NEW d \in Paikat, RiviPoistettu(d)', k \in kutsu'[d].kohteet, d # c
          PROVE  Poistettu(k)
      BY <1>9, <3>1 DEF Poistettu
    <3>2. ASSUME NEW d \in Paikat, RiviPoistettu(d)', k \in kutsu'[d].kohteet, d = c
          PROVE  k \in x.kohteet
      BY <1>6, <3>2
    <3> QED BY <3>1, <3>2, Zenon DEF Poistettu
  <2>3. Poistettu(k) => Poistettu(k)'
    <3> SUFFICES ASSUME NEW d \in Paikat, RiviPoistettu(d), k \in kutsu[d].kohteet
                 PROVE  Poistettu(k)'
      BY Zenon DEF Poistettu
    <3>1. RiviPoistettu(d)' /\ kutsu'[d] = kutsu[d]
      BY <1>9, <2>1
    <3> QED BY <3>1, Zenon DEF Poistettu
  <2>4. k \in x.kohteet => Poistettu(k)'
    BY <1>6, <1>7, Zenon DEF Poistettu
  <2> QED BY <2>2, <2>3, <2>4, Zenon
<1>13. ListaOK'
  <2>1. ASSUME Odottaa PROVE Odottaa'
    <3>1. PICK d \in Paikat : TilaMuuttunut(d)
      BY <2>1, Zenon DEF Odottaa
    <3>2. d # c
      BY <3>1, NilErillinen DEF TilaMuuttunut
    <3> QED BY <1>9, <3>1, <3>2, Zenon DEF Odottaa
  <2>2. ASSUME NEW d \in Paikat, HakuKaynnissa(d) PROVE HakuKaynnissa(d)'
    <3>1. d # c
      BY <2>2 DEF HakuKaynnissa, Muutokset
    <3> QED BY <1>9, <2>2, <3>1
  <2>3. ASSUME {s \in suoritukset : ~Poistettu(s.kerta)} = Tulos(hakuForm)
        PROVE  {s \in suoritukset : ~Poistettu(s.kerta)}' = Tulos(hakuForm)'
    <3>1. {s \in suoritukset : ~Poistettu(s.kerta)}'
            = {s \in Tulos(hakuForm) : s.kerta \notin x.kohteet}
      BY <1>12, <2>3
    <3>2. hakuForm \in Ehdot /\ tila \in [Kerrat -> {"luonnos", "hyvaksytty", "poissa"}]
      BY DEF Induktiivinen, TyyppiOK
    <3>3. Osuvat[hakuForm] \subseteq Kerrat
      BY <3>2, ArviointipaatoksetOletus
    <3>4. Tulos(hakuForm)' = {s \in Tulos(hakuForm) : s.kerta \notin x.kohteet}
      BY <3>2, <3>3 DEF Tulos
    <3> QED BY <3>1, <3>4
  <2> QED BY <2>1, <2>2, <2>3, Zenon DEF ListaOK, Induktiivinen
<1> QED BY <1>3, <1>8, <1>11, <1>13

\* The server answers a change (hyvaksy, palauta, poista).
LEMMA Muutettu ==
  ASSUME Induktiivinen, NEW c \in Paikat, PalvelinMuuttaa(c)
  PROVE  Induktiivinen'
<1> DEFINE p == kutsu[c]
           ok == [p EXCEPT !.vastaus = 200]
           koodi == IF Sallittu(p.laji, p.kohteet) THEN 404 ELSE 403
           ei == [p EXCEPT !.vastaus = koodi]
<1>1. /\ p # Nil /\ p.laji \in Muutokset /\ p.vastaus = Nil
      /\ UNCHANGED <<hakuForm, ajastin, suoritukset, form, dialogi, muut, luotettava>>
  BY DEF PalvelinMuuttaa, selainVars
<1>2. p \in Muutospyynnot
  BY <1>1, MuutoksenTyyppi
<1>3. /\ ok \in Muutospyynnot /\ ok.laji = p.laji /\ ok.kohteet = p.kohteet /\ ok.vastaus = 200
      /\ ei \in Muutospyynnot /\ ei.laji = p.laji /\ (ei.vastaus = 403 \/ ei.vastaus = 404)
  BY <1>2 DEF Muutospyynnot
<1>4. tila \in [Kerrat -> {"luonnos", "hyvaksytty", "poissa"}]
  BY DEF Induktiivinen, TyyppiOK
<1>5. CASE Sallittu(p.laji, p.kohteet) /\ Loytyvat(p.kohteet) # {}
  <2> DEFINE v == [kutsu EXCEPT ![c] = ok]
  <2>1. /\ tila' = [k \in Kerrat |->
                      IF k \in p.kohteet /\ tila[k] # "poissa" THEN Uusi(p.laji) ELSE tila[k]]
        /\ kutsu' = IF p.laji = "poista" THEN Vanhenna(v) ELSE v
    BY <1>5 DEF PalvelinMuuttaa, Loytyvat
  <2>2. /\ v \in [Paikat -> Kutsut]
        /\ v[c] = ok
        /\ \A d \in Paikat : d # c => v[d] = kutsu[d]
    <3> HIDE DEF ok
    <3> QED BY <1>3 DEF Induktiivinen, TyyppiOK, Kutsut
  <2>3. tila' \in [Kerrat -> {"luonnos", "hyvaksytty", "poissa"}]
    BY <1>1, <1>4, <2>1, UudetTilat
  <2>4. kutsu' \in [Paikat -> Kutsut] /\ HautOK' /\ PoistotOK' /\ ListaOK'
    <3>1. CASE p.laji = "poista"
      <4>1. tila' = [k \in Kerrat |-> IF k \in ok.kohteet THEN "poissa" ELSE tila[k]]
        <5>1. Uusi("poista") = "poissa"
          BY UudetTilat DEF Muutokset
        <5> HIDE DEF ok
        <5> QED BY <1>3, <1>4, <2>1, <3>1, <5>1
      <4>2. kutsu' = Vanhenna(v) /\ ok.laji = "poista"
        BY <1>3, <2>1, <3>1, Zenon
      <4> HIDE DEF v, ok
      <4> QED BY <1>1, <1>3, <2>2, <4>1, <4>2, RiviPoistunut
    <3>2. CASE p.laji # "poista"
      <4>1. kutsu' = v /\ ok.laji \in {"hyvaksy", "palauta"}
        BY <1>1, <1>3, <2>1, <3>2 DEF Muutokset
      <4>2. \A k \in Kerrat : tila[k] = "poissa" => tila'[k] = "poissa"
        BY <2>1
      <4>3. kutsu'[c] = ok /\ \A d \in Paikat : d # c => kutsu'[d] = kutsu[d]
        BY <2>2, <4>1, Zenon
      <4>4. ok \in Muutospyynnot /\ ok.vastaus = 200
        BY <1>3, Zenon
      <4>5. UNCHANGED <<hakuForm, ajastin, suoritukset, luotettava>>
        BY <1>1
      <4>7. kutsu[c] # Nil /\ kutsu[c].laji \in Muutokset /\ kutsu[c].vastaus = Nil
        BY <1>1
      <4> HIDE DEF v, ok, p
      <4>6. HautOK' /\ PoistotOK' /\ ListaOK'
        BY <4>1, <4>2, <4>3, <4>4, <4>5, <4>7, TilaVaihtunut
      <4> QED BY <2>2, <4>1, <4>6, Zenon
    <3> QED BY <3>1, <3>2
  <2>5. TyyppiOK'
    <3>1. kutsu' \in [Paikat -> Haut \union Muutospyynnot \union {Nil}]
      BY <2>4, Zenon DEF Kutsut
    <3> QED BY <1>1, <2>3, <3>1, Zenon DEF Induktiivinen, TyyppiOK
  <2> QED BY <2>4, <2>5 DEF Induktiivinen
<1>6. CASE ~(Sallittu(p.laji, p.kohteet) /\ Loytyvat(p.kohteet) # {})
  <2>1. tila' = tila /\ kutsu' = [kutsu EXCEPT ![c] = ei]
    BY <1>6 DEF PalvelinMuuttaa
  <2>2. ei # Nil /\ ei.laji \in Muutokset
    BY <1>1, <1>3, NilErillinen
  <2> HIDE DEF ei
  <2>3. HautOK' /\ PoistotOK' /\ ListaOK'
    BY <1>1, <1>3, <2>1, <2>2, KutsuMuuttuu
  <2>4. kutsu' \in [Paikat -> Haut \union Muutospyynnot \union {Nil}]
    BY <1>3, <2>1 DEF Induktiivinen, TyyppiOK
  <2>5. TyyppiOK'
    BY <1>1, <2>1, <2>4, Zenon DEF Induktiivinen, TyyppiOK
  <2> QED BY <2>3, <2>5 DEF Induktiivinen
<1> QED BY <1>5, <1>6

\* Another user changes a record.
LEMMA MuuMuuttanut ==
  ASSUME Induktiivinen, NEW k \in Kerrat, MuuKayttaja(k)
  PROVE  Induktiivinen'
<1>1. /\ muut < MaxMuut /\ muut' = muut + 1 /\ kutsu' = Vanhenna(kutsu) /\ luotettava' = FALSE
      /\ UNCHANGED <<hakuForm, ajastin, suoritukset, form, dialogi>>
  BY DEF MuuKayttaja, selainVars
<1>2. PICK laji \in Muutokset : tila[k] # "poissa" /\ tila' = [tila EXCEPT ![k] = Uusi(laji)]
  BY Zenon DEF MuuKayttaja
<1>3. /\ tila' \in [Kerrat -> {"luonnos", "hyvaksytty", "poissa"}]
      /\ \A j \in Kerrat : tila[j] = "poissa" => tila'[j] = "poissa"
  <2>1. Uusi(laji) \in {"luonnos", "hyvaksytty", "poissa"}
    BY UudetTilat
  <2>2. tila \in [Kerrat -> {"luonnos", "hyvaksytty", "poissa"}]
    BY DEF Induktiivinen, TyyppiOK
  <2> QED BY <1>2, <2>1, <2>2
<1>4. kutsu \in [Paikat -> Kutsut]
  BY Zenon DEF Induktiivinen, TyyppiOK, Kutsut
<1>5. kutsu' \in [Paikat -> Kutsut]
  BY <1>1, <1>4, VanhennaTulos
<1>6. HautOK' /\ PoistotOK' /\ ListaOK'
  <2>1. \A d \in Paikat : kutsu'[d] = Vanhenna(kutsu)[d]
    BY <1>1, Zenon
  <2> QED BY <1>1, <1>3, <1>5, <2>1, VanhetessaOK
<1>7. TyyppiOK'
  <2>1. kutsu' \in [Paikat -> Haut \union Muutospyynnot \union {Nil}]
    BY <1>5, Zenon DEF Kutsut
  <2>2. muut' \in 0..MaxMuut
    <3>1. MaxMuut \in Nat /\ muut \in 0..MaxMuut
      BY ArviointipaatoksetOletus, Zenon DEF Induktiivinen, TyyppiOK
    <3> QED BY <1>1, <3>1
  <2>3. luotettava' \in BOOLEAN
    BY <1>1
  <2> QED BY <1>1, <1>3, <2>1, <2>2, <2>3, Zenon DEF Induktiivinen, TyyppiOK
<1> QED BY <1>6, <1>7 DEF Induktiivinen

\* A request fails: nothing is known of it.
LEMMA Epaonnistunut ==
  ASSUME Induktiivinen, NEW c \in Paikat, Virhe(c)
  PROVE  Induktiivinen'
<1>1. /\ kutsu' = [Vanhenna(kutsu) EXCEPT ![c] = Nil] /\ luotettava' = FALSE
      /\ UNCHANGED <<hakuForm, ajastin, suoritukset, form, dialogi, tila, muut>>
  BY DEF Virhe, selainVars
<1>2. kutsu \in [Paikat -> Kutsut]
  BY Zenon DEF Induktiivinen, TyyppiOK, Kutsut
<1>3. Vanhenna(kutsu) \in [Paikat -> Kutsut]
  BY <1>2, VanhennaTulos
<1>4. /\ kutsu' \in [Paikat -> Kutsut]
      /\ \A d \in Paikat : kutsu'[d] = Nil \/ kutsu'[d] = Vanhenna(kutsu)[d]
  BY <1>1, <1>3 DEF Kutsut
<1>5. HautOK' /\ PoistotOK' /\ ListaOK'
  BY <1>1, <1>4, VanhetessaOK
<1>6. TyyppiOK'
  <2>1. kutsu' \in [Paikat -> Haut \union Muutospyynnot \union {Nil}]
    BY <1>4, Zenon DEF Kutsut
  <2>2. luotettava' \in BOOLEAN
    BY <1>1
  <2> QED BY <1>1, <2>1, <2>2, Zenon DEF Induktiivinen, TyyppiOK
<1> QED BY <1>5, <1>6 DEF Induktiivinen

\* The page is loaded again (apiCallInterceptor, 403).
LEMMA Ladattu ==
  ASSUME Induktiivinen, LataaUudelleen
  PROVE  Induktiivinen'
<1>1. /\ hakuForm' = Alkuehto /\ ajastin' = FALSE
      /\ suoritukset' = {} /\ form' = {} /\ dialogi' = Nil
      /\ kutsu' = [c \in Paikat |-> Nil]
      /\ luotettava' = FALSE
      /\ UNCHANGED <<tila, muut>>
  BY DEF LataaUudelleen
<1>2. TyyppiOK'
  BY <1>1, NilErillinen DEF Induktiivinen, TyyppiOK
<1>3. HautOK'
  BY <1>1 DEF HautOK, HakuKaynnissa
<1>4. PoistotOK'
  BY <1>1 DEF PoistotOK, RiviPoistettu
<1>5. ListaOK'
  BY <1>1 DEF ListaOK
<1> QED BY <1>2, <1>3, <1>4, <1>5 DEF Induktiivinen

\* An approval or a return went well (paivitaSuoritustenTila).
LEMMA TilatPaivitetty ==
  ASSUME Induktiivinen, NEW c \in Paikat, paivitaSuoritustenTila(c)
  PROVE  Induktiivinen'
<1> DEFINE p == kutsu[c]
           k == [kutsu EXCEPT ![c] = Nil]
<1>1. /\ p # Nil /\ p.laji \in {"hyvaksy", "palauta"}
      /\ suoritukset' = {IF s.kerta \in p.kohteet THEN [s EXCEPT !.tila = Uusi(p.laji)] ELSE s :
                           s \in suoritukset}
      /\ form' = {} /\ LahetaHaku(k, hakuForm)
      /\ UNCHANGED <<hakuForm, ajastin, dialogi, tila, muut, luotettava>>
  BY DEF paivitaSuoritustenTila
<1>2. k \in [Paikat -> Kutsut] /\ \A d \in Paikat : k[d] = kutsu[d] \/ k[d] = Nil
  BY DEF Induktiivinen, TyyppiOK, Kutsut
<1>3. suoritukset' \subseteq Rivit
  <2>1. Uusi(p.laji) \in {"luonnos", "hyvaksytty"}
    BY <1>1, UudetTilat DEF Muutokset
  <2>2. ASSUME NEW s \in suoritukset PROVE s \in Rivit /\ [s EXCEPT !.tila = Uusi(p.laji)] \in Rivit
    BY <2>1 DEF Rivit, Induktiivinen, TyyppiOK
  <2> QED BY <1>1, <2>2
<1> HIDE DEF k
<1>4. kutsu' \in [Paikat -> Kutsut] /\ HautOK' /\ PoistotOK' /\ ListaOK'
  BY <1>1, <1>2, HakuLahteeOK
<1>5. TyyppiOK'
  <2>1. kutsu' \in [Paikat -> Haut \union Muutospyynnot \union {Nil}]
    BY <1>4, Zenon DEF Kutsut
  <2>2. form' \subseteq Kerrat \union {Pvm}
    BY <1>1
  <2> QED BY <1>1, <1>3, <2>1, <2>2, Zenon DEF Induktiivinen, TyyppiOK
<1> QED BY <1>4, <1>5 DEF Induktiivinen

\* The server found no record: only the request is gone.
LEMMA LoytymattaJaanyt ==
  ASSUME Induktiivinen, NEW c \in Paikat, EiLoytynyt(c)
  PROVE  Induktiivinen'
<1>1. /\ kutsu[c] # Nil /\ kutsu[c].laji \in Muutokset /\ kutsu[c].vastaus = 404
      /\ kutsu' = [kutsu EXCEPT ![c] = Nil]
      /\ UNCHANGED <<hakuForm, ajastin, suoritukset, form, dialogi, tila, muut, luotettava>>
  BY DEF EiLoytynyt, selainVars
<1>0. tila' = tila /\ hakuForm' = hakuForm /\ ajastin' = ajastin /\ luotettava' = luotettava
  BY <1>1
<1>2. /\ kutsu' \in [Paikat -> Haut \union Muutospyynnot \union {Nil}]
      /\ kutsu'[c] = Nil
      /\ \A d \in Paikat : d # c => kutsu'[d] = kutsu[d]
  BY <1>1, TyhjennettyPaikka
<1>3. \A e : Tulos(e)' = Tulos(e)
  BY <1>0, Zenon DEF Tulos
<1>4. ASSUME NEW d \in Paikat
      PROVE  /\ TilaMuuttunut(d)' <=> TilaMuuttunut(d)
             /\ HakuKaynnissa(d)' <=> HakuKaynnissa(d)
             /\ RiviPoistettu(d)' <=> RiviPoistettu(d)
             /\ HakuKaynnissa(d) \/ RiviPoistettu(d) => kutsu'[d] = kutsu[d]
  <2>1. CASE d = c
    BY <1>1, <1>2, <2>1 DEF TilaMuuttunut, RiviPoistettu, HakuKaynnissa, Muutokset
  <2>2. CASE d # c
    <3>1. kutsu'[d] = kutsu[d]
      BY <1>2, <2>2
    <3> QED BY <3>1 DEF TilaMuuttunut, RiviPoistettu, HakuKaynnissa
  <2> QED BY <2>1, <2>2
<1>5. Odottaa' <=> Odottaa
  BY <1>4, Zenon DEF Odottaa
<1>6. ASSUME NEW k PROVE Poistettu(k)' <=> Poistettu(k)
  <2>1. Poistettu(k) => Poistettu(k)'
    <3> SUFFICES ASSUME NEW d \in Paikat, RiviPoistettu(d), k \in kutsu[d].kohteet
                 PROVE  Poistettu(k)'
      BY Zenon DEF Poistettu
    <3>1. RiviPoistettu(d)' /\ kutsu'[d] = kutsu[d]
      BY <1>4
    <3> QED BY <3>1, Zenon DEF Poistettu
  <2>2. Poistettu(k)' => Poistettu(k)
    <3> SUFFICES ASSUME NEW d \in Paikat, RiviPoistettu(d)', k \in kutsu'[d].kohteet
                 PROVE  Poistettu(k)
      BY Zenon DEF Poistettu
    <3>1. RiviPoistettu(d) /\ kutsu'[d] = kutsu[d]
      BY <1>4
    <3> QED BY <3>1, Zenon DEF Poistettu
  <2> QED BY <2>1, <2>2, Zenon
<1>7. HautOK'
  BY <1>1, <1>3, <1>4, <1>5 DEF HautOK, Induktiivinen
<1>8. PoistotOK'
  BY <1>1, <1>4 DEF PoistotOK, Induktiivinen
<1>9. ListaOK'
  <2>1. {s \in suoritukset : ~Poistettu(s.kerta)}' = {s \in suoritukset : ~Poistettu(s.kerta)}
    BY <1>1, <1>6
  <2>2. (\E d \in Paikat : HakuKaynnissa(d))' <=> (\E d \in Paikat : HakuKaynnissa(d))
    BY <1>4, Zenon
  <2>3. luotettava' = luotettava /\ ajastin' = ajastin /\ Tulos(hakuForm)' = Tulos(hakuForm)
    BY <1>0, Zenon DEF Tulos
  <2> QED BY <1>5, <2>1, <2>2, <2>3, Zenon DEF ListaOK, Induktiivinen
<1>10. TyyppiOK'
  BY <1>1, <1>2, Zenon DEF Induktiivinen, TyyppiOK
<1> QED BY <1>7, <1>8, <1>9, <1>10 DEF Induktiivinen

\* A deletion went well: the page removes what the server has removed.
LEMMA RiviPaivitetty ==
  ASSUME Induktiivinen, NEW c \in Paikat, PoistoVastaus(c)
  PROVE  Induktiivinen'
<1>1. /\ kutsu[c] # Nil /\ kutsu[c].laji = "poista" /\ kutsu[c].vastaus = 200
      /\ suoritukset' = {s \in suoritukset : s.kerta \notin kutsu[c].kohteet}
      /\ kutsu' = [kutsu EXCEPT ![c] = Nil]
      /\ UNCHANGED <<hakuForm, ajastin, form, dialogi, tila, muut, luotettava>>
  BY DEF PoistoVastaus
<1>2. /\ kutsu' \in [Paikat -> Haut \union Muutospyynnot \union {Nil}]
      /\ kutsu'[c] = Nil
      /\ \A d \in Paikat : d # c => kutsu'[d] = kutsu[d]
  BY <1>1, TyhjennettyPaikka
<1>3. RiviPoistettu(c)
  BY <1>1 DEF RiviPoistettu
<1>4. \A e : Tulos(e)' = Tulos(e)
  BY <1>1, Zenon DEF Tulos
<1>5. ASSUME NEW d \in Paikat
      PROVE  /\ TilaMuuttunut(d) <=> TilaMuuttunut(d)'
             /\ HakuKaynnissa(d) <=> HakuKaynnissa(d)'
             /\ RiviPoistettu(d)' <=> RiviPoistettu(d) /\ d # c
             /\ HakuKaynnissa(d)' \/ RiviPoistettu(d)' => kutsu'[d] = kutsu[d]
  <2>1. CASE d = c
    BY <1>1, <1>2, <2>1 DEF TilaMuuttunut, RiviPoistettu, HakuKaynnissa
  <2>2. CASE d # c
    <3>1. kutsu'[d] = kutsu[d]
      BY <1>2, <2>2
    <3> QED BY <2>2, <3>1 DEF TilaMuuttunut, RiviPoistettu, HakuKaynnissa
  <2> QED BY <2>1, <2>2
<1>6. Odottaa <=> Odottaa'
  BY <1>5, Zenon DEF Odottaa
<1>7. HautOK'
  <2> SUFFICES ASSUME NEW d \in Paikat, HakuKaynnissa(d)', kutsu'[d].tuore
               PROVE  /\ kutsu'[d].ehto = hakuForm \/ ajastin
                      /\ kutsu'[d].vastaus # Nil => kutsu'[d].vastaus = Tulos(kutsu'[d].ehto) \/ Odottaa
    BY <1>1, <1>4, <1>6, Zenon DEF HautOK
  <2>1. HakuKaynnissa(d) /\ kutsu'[d] = kutsu[d]
    BY <1>5
  <2>2. kutsu[d].tuore
    BY <2>1, Zenon
  <2> QED BY <2>1, <2>2, Zenon DEF HautOK, Induktiivinen
<1>8. PoistotOK'
  BY <1>1, <1>5 DEF PoistotOK, Induktiivinen
<1>9. ASSUME NEW k PROVE Poistettu(k) <=> Poistettu(k)' \/ k \in kutsu[c].kohteet
  <2>1. Poistettu(k) => Poistettu(k)' \/ k \in kutsu[c].kohteet
    <3> SUFFICES ASSUME NEW d \in Paikat, RiviPoistettu(d), k \in kutsu[d].kohteet
                 PROVE  Poistettu(k)' \/ k \in kutsu[c].kohteet
      BY Zenon DEF Poistettu
    <3>1. CASE d = c
      BY <3>1
    <3>2. CASE d # c
      <4>1. RiviPoistettu(d)' /\ kutsu'[d] = kutsu[d]
        BY <1>2, <1>5, <3>2
      <4> QED BY <4>1, Zenon DEF Poistettu
    <3> QED BY <3>1, <3>2
  <2>2. Poistettu(k)' => Poistettu(k)
    BY <1>5, Zenon DEF Poistettu
  <2>3. k \in kutsu[c].kohteet => Poistettu(k)
    BY <1>3, Zenon DEF Poistettu
  <2> QED BY <2>1, <2>2, <2>3, Zenon
<1>10. ListaOK'
  <2>1. {s \in suoritukset : ~Poistettu(s.kerta)}' = {s \in suoritukset : ~Poistettu(s.kerta)}
    BY <1>1, <1>9
  <2>2. (\E d \in Paikat : HakuKaynnissa(d)) => (\E d \in Paikat : HakuKaynnissa(d))'
    BY <1>5, Zenon
  <2>3. luotettava' = luotettava /\ ajastin' = ajastin /\ Tulos(hakuForm)' = Tulos(hakuForm)
    BY <1>1, Zenon DEF Tulos
  <2> QED BY <1>6, <2>1, <2>2, <2>3, Zenon DEF ListaOK, Induktiivinen
<1>11. TyyppiOK'
  <2>1. suoritukset' \subseteq Rivit
    BY <1>1 DEF Induktiivinen, TyyppiOK
  <2> QED BY <1>1, <1>2, <2>1, Zenon DEF Induktiivinen, TyyppiOK
<1> QED BY <1>7, <1>8, <1>10, <1>11 DEF Induktiivinen

-----------------------------------------------------------------------------
\* Every reachable state satisfies the inductive invariant.
THEOREM Pysyvyys == Spec => []Induktiivinen
<1>1. Init => Induktiivinen
  <2> SUFFICES ASSUME Init PROVE Induktiivinen
    OBVIOUS
  <2>1. TyyppiOK
    <3>1. hakuForm \in Ehdot
      BY NilErillinen DEF Init, SelainInit
    <3>2. ajastin \in BOOLEAN /\ luotettava \in BOOLEAN
      BY DEF Init, SelainInit
    <3>3. suoritukset \subseteq Rivit /\ form \subseteq Kerrat \union {Pvm} /\ dialogi = Nil
      BY DEF Init, SelainInit
    <3>4. tila \in [Kerrat -> {"luonnos", "hyvaksytty", "poissa"}]
      BY DEF Init
    <3>5. MaxMuut \in Nat
      BY ArviointipaatoksetOletus, Zenon
    <3>6. muut \in 0..MaxMuut
      BY <3>5 DEF Init
    <3>7. kutsu \in [Paikat -> Haut \union Muutospyynnot \union {Nil}]
      BY DEF Init, SelainInit
    <3> QED BY <3>1, <3>2, <3>3, <3>4, <3>6, <3>7 DEF TyyppiOK
  <2>2. HautOK
    BY DEF Init, SelainInit, HautOK, HakuKaynnissa
  <2>3. PoistotOK
    BY DEF Init, SelainInit, PoistotOK, RiviPoistettu
  <2>4. ListaOK
    BY DEF Init, ListaOK
  <2> QED BY <2>1, <2>2, <2>3, <2>4 DEF Induktiivinen
<1>2. Induktiivinen /\ [Next]_vars => Induktiivinen'
  <2> SUFFICES ASSUME Induktiivinen, [Next]_vars PROVE Induktiivinen'
    OBVIOUS
  <2>1. CASE UNCHANGED vars
    <3>1. TyyppiOK'
      BY <2>1, Zenon DEF vars, selainVars, Induktiivinen, TyyppiOK
    <3>2. UNCHANGED <<hakuForm, ajastin, suoritukset, kutsu, tila, luotettava>>
      BY <2>1 DEF vars, selainVars
    <3> QED BY <3>1, <3>2, Ennallaan DEF Induktiivinen
  <2>2. CASE Next
    BY <2>2, HakuTilattu, Rastitettu, MuuMuuttanut, PvmValittu, Kysytty, Peruttu, Vahvistettu,
       AjastinLauennut, Ladattu, Haettu, Muutettu, HakuSaapunut, TilatPaivitetty,
       RiviPaivitetty, LoytymattaJaanyt, Epaonnistunut, Zenon DEF Next
  <2> QED BY <2>1, <2>2
<1> QED BY <1>1, <1>2, PTL DEF Spec

\* The form, the list, the ticks, the question, the requests and the records
\* keep their types: only a draft's deletion asks for a record, and a list
\* shows no record that the server cannot have.
THEOREM Tyypit == Spec => []TyyppiOK
<1>1. Induktiivinen => TyyppiOK
  BY DEF Induktiivinen
<1> QED BY <1>1, Pysyvyys, PTL

\* Once everything is answered, the list shown is the server's, unless a
\* change by another user, a lost request, an older answer that came last or
\* a search that crossed a deletion has made it unreliable.
THEOREM TuoreLista == Spec => []ListaTuore
<1>1. Induktiivinen => ListaTuore
  <2> SUFFICES ASSUME Induktiivinen, Vakaa, luotettava
               PROVE  suoritukset = Tulos(hakuForm)
    BY DEF ListaTuore
  <2>1. ~ajastin /\ \A c \in Paikat : kutsu[c] = Nil
    BY DEF Vakaa
  <2>2. \A c \in Paikat : ~TilaMuuttunut(c) /\ ~HakuKaynnissa(c) /\ ~RiviPoistettu(c)
    BY <2>1 DEF TilaMuuttunut, HakuKaynnissa, RiviPoistettu
  <2>3. ~Odottaa /\ \A k : ~Poistettu(k)
    BY <2>2, Zenon DEF Odottaa, Poistettu
  <2>4. {s \in suoritukset : ~Poistettu(s.kerta)} = Tulos(hakuForm)
    BY <2>1, <2>2, <2>3, Zenon DEF ListaOK, Induktiivinen
  <2> QED BY <2>3, <2>4
<1> QED BY <1>1, Pysyvyys, PTL

-----------------------------------------------------------------------------
(* The server of this module, which has no statements and no time stamps, against the *)
(* life cycle that Suoritukset implements                                             *)

\* The records as Suorituselinkaari has them, with one time for every approval.
rekisteri == [k \in Kerrat |-> IF tila[k] = "poissa" THEN "poistettu" ELSE tila[k]]
hyvaksytty == [k \in Kerrat |-> IF tila[k] = "hyvaksytty" THEN 0 ELSE Nil]

Elinkaari == INSTANCE Suorituselinkaari WITH
  Paivat <- {0}, tila <- rekisteri, ehdotusaika <- [k \in Kerrat |-> Nil],
  hyvaksymisaika <- hyvaksytty

\* A DELETE names one record, the one the question was about.
YksiPoistettava ==
  \A c \in Paikat : kutsu[c] # Nil /\ kutsu[c].laji = "poista" =>
    \E k \in Kerrat : kutsu[c].kohteet = {k}

\* A change of the states of the records in K, as Suorituselinkaari has it.
LEMMA MuutosElinkaaressa ==
  ASSUME TyyppiOK, NEW laji \in Muutokset, NEW K \in SUBSET Kerrat, Sallittu(laji, K),
         laji = "poista" => \E k \in Kerrat : K = {k},
         tila' = [k \in Kerrat |-> IF k \in K /\ tila[k] # "poissa" THEN Uusi(laji) ELSE tila[k]]
  PROVE  Elinkaari!Next
<1> DEFINE L == {k \in K : tila[k] # "poissa"}
<1>1. tila \in [Kerrat -> {"luonnos", "hyvaksytty", "poissa"}]
  BY DEF TyyppiOK
<1>2. L \in SUBSET Elinkaari!Kirjatut
  BY <1>1 DEF Elinkaari!Kirjatut, Elinkaari!Kirjattu, rekisteri
<1>3. CASE laji = "hyvaksy"
  <2>1. tila' = [k \in Kerrat |-> IF k \in L THEN "hyvaksytty" ELSE tila[k]]
    BY <1>3 DEF Uusi
  <2> HIDE DEF L
  <2>2. rekisteri' = Elinkaari!Korvaa(rekisteri, L, "hyvaksytty")
    BY <2>1 DEF rekisteri, Elinkaari!Korvaa
  <2>3. hyvaksytty' = Elinkaari!Korvaa(hyvaksytty, L, 0)
    BY <2>1 DEF hyvaksytty, Elinkaari!Korvaa
  <2>4. Elinkaari!Hyvaksy(L, 0)
    BY <2>2, <2>3 DEF Elinkaari!Hyvaksy
  <2>5. QED
    BY <1>2, <2>4 DEF Elinkaari!Next
<1>4. CASE laji = "palauta"
  <2>1. tila' = [k \in Kerrat |-> IF k \in L THEN "luonnos" ELSE tila[k]]
    BY <1>4 DEF Uusi
  <2> HIDE DEF L
  <2>2. rekisteri' = Elinkaari!Korvaa(rekisteri, L, "luonnos")
    BY <2>1 DEF rekisteri, Elinkaari!Korvaa
  <2>3. hyvaksytty' = Elinkaari!Korvaa(hyvaksytty, L, Nil)
    BY <2>1 DEF hyvaksytty, Elinkaari!Korvaa
  <2>4. [k \in Kerrat |-> Nil] = Elinkaari!Korvaa([k \in Kerrat |-> Nil], L, Nil)
    BY DEF Elinkaari!Korvaa
  <2>5. Elinkaari!Palauta(L)
    BY <2>2, <2>3, <2>4 DEF Elinkaari!Palauta
  <2>6. QED
    BY <1>2, <2>5 DEF Elinkaari!Next
<1>5. CASE laji = "poista"
  <2>1. PICK k \in Kerrat : K = {k}
    BY <1>5
  <2>2. tila[k] = "luonnos"
    BY <1>5, <2>1 DEF Sallittu
  <2>3. tila' = [tila EXCEPT ![k] = "poissa"]
    BY <1>1, <1>5, <2>1, <2>2 DEF Uusi
  <2>4. rekisteri[k] = "luonnos" /\ rekisteri' = [rekisteri EXCEPT ![k] = "poistettu"]
    BY <1>1, <2>2, <2>3 DEF rekisteri
  <2>5. hyvaksytty' = hyvaksytty
    BY <1>1, <2>2, <2>3 DEF hyvaksytty
  <2>6. Elinkaari!Poista(k)
    BY <2>4, <2>5 DEF Elinkaari!Poista
  <2>7. QED
    BY <2>6 DEF Elinkaari!Next
<1>6. QED
  BY <1>3, <1>4, <1>5 DEF Muutokset

\* What a step makes of the request in place d: none, a search, or the same change.
Sailyy(d) ==
  \/ kutsu'[d] = Nil \/ kutsu'[d].laji = "haku"
  \/ /\ kutsu[d] # Nil /\ kutsu'[d].laji = kutsu[d].laji
     /\ kutsu'[d].kohteet = kutsu[d].kohteet

\* A change made stale, or not, is the same change.
LEMMA VanhentunutSailyy ==
  ASSUME NEW d \in Paikat, kutsu[d] \in Kutsut, Vanhentunut(kutsu[d], kutsu'[d])
  PROVE  Sailyy(d)
BY VanhentunutTyyppi, KutsunLaji DEF Sailyy

\* No step but the answer to the question sends a change.
LEMMA MuutSailyttavat ==
  ASSUME Induktiivinen, [Next]_vars, ~ Vahvista, NEW d \in Paikat
  PROVE  Sailyy(d)
<1>1. kutsu \in [Paikat -> Kutsut] /\ kutsu[d] \in Kutsut
  BY Zenon DEF Induktiivinen, TyyppiOK, Kutsut
<1>2. ASSUME kutsu' = kutsu
      PROVE  Sailyy(d)
  BY <1>2 DEF Sailyy
<1>3. ASSUME NEW k \in [Paikat -> Kutsut], NEW e \in Ehdot, LahetaHaku(k, e),
             k[d] = Nil \/ k[d] = kutsu[d]
      PROVE  Sailyy(d)
  <2>1. PICK c \in Paikat :
          /\ k[c] = Nil /\ HakuKaynnissa(c)'
          /\ \A b \in Paikat \ {c} : Vanhentunut(k[b], kutsu'[b])
    BY <1>3, HakuLahtee
  <2>2. CASE d = c
    BY <2>1, <2>2 DEF HakuKaynnissa, Sailyy
  <2>3. CASE d # c /\ k[d] = kutsu[d]
    BY <1>1, <2>1, <2>3, VanhentunutSailyy
  <2>4. CASE d # c /\ k[d] = Nil
    BY <2>1, <2>4 DEF Vanhentunut, Sailyy
  <2>5. QED
    BY <1>3, <2>2, <2>3, <2>4
<1>4. hakuForm \in Ehdot
  BY DEF Induktiivinen, TyyppiOK
<1>5. CASE UNCHANGED vars
  BY <1>2, <1>5 DEF vars
<1>6. ASSUME NEW e \in Ehdot, haeSuoritukset(e)
      PROVE  Sailyy(d)
  BY <1>2, <1>6 DEF haeSuoritukset
<1>7. ASSUME NEW k \in Kerrat, Rastita(k)
      PROVE  Sailyy(d)
  BY <1>2, <1>7 DEF Rastita
<1>8. ASSUME NEW k \in Kerrat, MuuKayttaja(k)
      PROVE  Sailyy(d)
  <2>1. kutsu' = Vanhenna(kutsu)
    BY <1>8 DEF MuuKayttaja
  <2>2. Vanhentunut(kutsu[d], kutsu'[d])
    BY <1>1, <2>1, VanhennaTulos
  <2>3. QED
    BY <1>1, <2>2, VanhentunutSailyy
<1>9. CASE ValitsePvm \/ Kysy \/ Peruuta
  BY <1>2, <1>9 DEF ValitsePvm, Kysy, Peruuta
<1>10. CASE AjastinLaukeaa
  BY <1>1, <1>3, <1>4, <1>10 DEF AjastinLaukeaa
<1>11. CASE LataaUudelleen
  BY <1>11 DEF LataaUudelleen, Sailyy
<1>12. ASSUME NEW c \in Paikat, PalvelinHakee(c)
       PROVE  Sailyy(d)
  <2>1. /\ kutsu[c] # Nil /\ kutsu[c].laji = "haku"
        /\ kutsu' = [kutsu EXCEPT ![c].vastaus = Tulos(kutsu[c].ehto)]
    BY <1>12 DEF PalvelinHakee
  <2>2. CASE d = c
    <3>1. kutsu[c] \in Haut
      BY <1>1, <2>1, <2>2, KutsunLaji
    <3>2. kutsu'[c].laji = "haku"
      BY <1>1, <2>1, <3>1 DEF Haut
    <3>3. QED
      BY <2>2, <3>2 DEF Sailyy
  <2>3. CASE d # c
    BY <1>1, <2>1, <2>3 DEF Sailyy
  <2>4. QED
    BY <2>2, <2>3
<1>13. ASSUME NEW c \in Paikat, PalvelinMuuttaa(c)
       PROVE  Sailyy(d)
  <2>1. kutsu[c] # Nil /\ kutsu[c].laji \in Muutokset
    BY <1>13 DEF PalvelinMuuttaa
  <2>2. PICK v : /\ v \in {200, 403, 404}
                 /\ \/ kutsu' = [kutsu EXCEPT ![c].vastaus = v]
                    \/ kutsu' = Vanhenna([kutsu EXCEPT ![c].vastaus = v])
    BY <1>13 DEF PalvelinMuuttaa
  <2> DEFINE k == [kutsu EXCEPT ![c].vastaus = v]
  <2>3. kutsu[c] \in Muutospyynnot
    BY <1>1, <2>1, MuutoksenTyyppi
  <2>4. /\ k[c] \in Muutospyynnot /\ k[c].laji = kutsu[c].laji /\ k[c].kohteet = kutsu[c].kohteet
        /\ \A b \in Paikat : b # c => k[b] = kutsu[b]
    BY <1>1, <2>2, <2>3 DEF Muutospyynnot
  <2>5. k \in [Paikat -> Kutsut]
    <3>1. k[c] \in Kutsut
      BY <2>4 DEF Kutsut
    <3>2. k = [b \in Paikat |-> k[b]]
      BY <1>1
    <3> HIDE DEF k
    <3>3. \A b \in Paikat : k[b] \in Kutsut
      BY <1>1, <2>4, <3>1
    <3>4. QED
      BY <3>2, <3>3
  <2>6. kutsu' = k \/ kutsu' = Vanhenna(k)
    BY <2>2
  <2> HIDE DEF k
  <2>7. Vanhentunut(k[d], kutsu'[d])
    <3>1. Vanhentunut(k[d], Vanhenna(k)[d])
      BY <2>5, VanhennaTulos
    <3>2. Vanhentunut(k[d], k[d])
      BY DEF Vanhentunut
    <3>3. QED
      BY <2>6, <3>1, <3>2
  <2>8. CASE d = c
    <3>1. kutsu'[c] = k[c]
      BY <2>4, <2>7, <2>8, NilErillinen DEF Vanhentunut
    <3>2. QED
      BY <2>1, <2>4, <2>8, <3>1 DEF Sailyy
  <2>9. CASE d # c
    BY <1>1, <2>4, <2>7, <2>9, VanhentunutSailyy
  <2>10. QED
    BY <2>8, <2>9
<1>14. ASSUME NEW c \in Paikat, HakuVastaus(c) \/ PoistoVastaus(c) \/ EiLoytynyt(c)
       PROVE  Sailyy(d)
  BY <1>1, <1>14 DEF HakuVastaus, PoistoVastaus, EiLoytynyt, Sailyy
<1>15. ASSUME NEW c \in Paikat, paivitaSuoritustenTila(c)
       PROVE  Sailyy(d)
  <2>1. LahetaHaku([kutsu EXCEPT ![c] = Nil], hakuForm)
    BY <1>15 DEF paivitaSuoritustenTila
  <2>2. /\ [kutsu EXCEPT ![c] = Nil] \in [Paikat -> Kutsut]
        /\ [kutsu EXCEPT ![c] = Nil][d] \in {Nil, kutsu[d]}
    BY <1>1 DEF Kutsut
  <2>3. QED
    BY <1>3, <1>4, <2>1, <2>2
<1>16. ASSUME NEW c \in Paikat, Virhe(c)
       PROVE  Sailyy(d)
  <2>1. kutsu' = [Vanhenna(kutsu) EXCEPT ![c] = Nil]
    BY <1>16 DEF Virhe
  <2>2. Vanhenna(kutsu) \in [Paikat -> Kutsut] /\ Vanhentunut(kutsu[d], Vanhenna(kutsu)[d])
    BY <1>1, VanhennaTulos
  <2>3. CASE d = c
    BY <2>1, <2>2, <2>3 DEF Sailyy
  <2>4. CASE d # c
    <3>1. kutsu'[d] = Vanhenna(kutsu)[d]
      BY <2>1, <2>2, <2>4
    <3>2. QED
      BY <1>1, <2>2, <3>1, VanhentunutSailyy
  <2>5. QED
    BY <2>3, <2>4
<1>17. QED
  BY <1>5, <1>6, <1>7, <1>8, <1>9, <1>10, <1>11, <1>12, <1>13, <1>14, <1>15, <1>16 DEF Next

\* Every step keeps a DELETE to one record.
LEMMA YksiPoistettavaAskel ==
  ASSUME Induktiivinen, YksiPoistettava, [Next]_vars
  PROVE  YksiPoistettava'
<1>1. CASE ~ Vahvista
  <2>1. ASSUME NEW d \in Paikat, kutsu'[d] # Nil, kutsu'[d].laji = "poista"
        PROVE  \E k \in Kerrat : kutsu'[d].kohteet = {k}
    <3>1. kutsu[d] # Nil /\ kutsu[d].laji = "poista" /\ kutsu'[d].kohteet = kutsu[d].kohteet
      BY <1>1, <2>1, MuutSailyttavat DEF Sailyy
    <3>2. QED
      BY <3>1 DEF YksiPoistettava
  <2>2. QED
    BY <2>1 DEF YksiPoistettava
<1>2. CASE Vahvista
  <2> DEFINE kohteet == IF dialogi.laji = "poista" THEN {dialogi.kohde} ELSE form \intersect Kerrat
             x == [laji |-> dialogi.laji, kohteet |-> kohteet, vastaus |-> Nil]
  <2>1. PICK c \in {d \in Paikat : kutsu[d] = Nil} : kutsu' = [kutsu EXCEPT ![c] = x]
    BY <1>2, Zenon DEF Vahvista, LahetaMuutos
  <2>2. dialogi.laji = "poista" => dialogi.kohde \in Kerrat
    BY <1>2 DEF Vahvista, Induktiivinen, TyyppiOK
  <2>3. x.laji = "poista" => \E k \in Kerrat : x.kohteet = {k}
    BY <2>2
  <2> HIDE DEF x
  <2>4. \A d \in Paikat : kutsu'[d] = kutsu[d] \/ kutsu'[d] = x
    BY <2>1 DEF Induktiivinen, TyyppiOK
  <2>5. QED
    BY <2>3, <2>4 DEF YksiPoistettava
<1>3. QED
  BY <1>1, <1>2

\* Whatever the page, its other requests and other users do, the server changes the
\* records the way the life cycle of a record allows, batches in one step: what this
\* module takes for granted of the server is what Suoritukset is proved to keep.
THEOREM PalvelinElinkaaressa == Spec => [][Elinkaari!Next]_(Elinkaari!elinkaari)
<1>1. Init => YksiPoistettava
  BY DEF Init, SelainInit, YksiPoistettava
<1>2. Induktiivinen /\ YksiPoistettava /\ [Next]_vars => YksiPoistettava'
  BY YksiPoistettavaAskel
<1>3. ASSUME Induktiivinen, YksiPoistettava, [Next]_vars
      PROVE  [Elinkaari!Next]_(Elinkaari!elinkaari)
  <2>1. ASSUME tila' = tila
        PROVE  UNCHANGED Elinkaari!elinkaari
    BY <2>1 DEF Elinkaari!elinkaari, rekisteri, hyvaksytty
  <2>2. ASSUME NEW c \in Paikat, PalvelinMuuttaa(c)
        PROVE  Elinkaari!Next \/ tila' = tila
    <3> DEFINE p == kutsu[c]
    <3>1. /\ p # Nil /\ p.laji \in Muutokset
          /\ \/ tila' = tila
             \/ /\ Sallittu(p.laji, p.kohteet)
                /\ tila' = [k \in Kerrat |->
                     IF k \in p.kohteet /\ tila[k] # "poissa" THEN Uusi(p.laji) ELSE tila[k]]
      BY <2>2 DEF PalvelinMuuttaa, Loytyvat
    <3>2. p \in Muutospyynnot
      BY <1>3, <3>1, MuutoksenTyyppi
    <3>3. p.kohteet \in SUBSET Kerrat
      BY <3>2 DEF Muutospyynnot
    <3>4. p.laji = "poista" => \E k \in Kerrat : p.kohteet = {k}
      BY <1>3, <3>1 DEF YksiPoistettava
    <3>5. TyyppiOK
      BY <1>3 DEF Induktiivinen
    <3>6. QED
      BY <3>1, <3>3, <3>4, <3>5, MuutosElinkaaressa
  <2>3. ASSUME NEW k \in Kerrat, MuuKayttaja(k)
        PROVE  Elinkaari!Next
    <3>1. PICK laji \in Muutokset : /\ tila[k] # "poissa" /\ Sallittu(laji, {k})
                                    /\ tila' = [tila EXCEPT ![k] = Uusi(laji)]
      BY <2>3 DEF MuuKayttaja
    <3>2. TyyppiOK /\ tila \in [Kerrat -> {"luonnos", "hyvaksytty", "poissa"}]
      BY <1>3 DEF Induktiivinen, TyyppiOK
    <3>3. tila' = [j \in Kerrat |-> IF j \in {k} /\ tila[j] # "poissa" THEN Uusi(laji) ELSE tila[j]]
      BY <3>1, <3>2
    <3>4. QED
      BY <3>1, <3>2, <3>3, MuutosElinkaaressa
  <2>4. CASE UNCHANGED vars
    BY <2>1, <2>4 DEF vars
  <2>5. CASE Next
    <3>1. \/ tila' = tila
          \/ \E k \in Kerrat : MuuKayttaja(k)
          \/ \E c \in Paikat : PalvelinMuuttaa(c)
      BY <2>5 DEF Next, haeSuoritukset, Rastita, ValitsePvm, Kysy, Peruuta, Vahvista, AjastinLaukeaa,
                  LataaUudelleen, PalvelinHakee, HakuVastaus, paivitaSuoritustenTila,
                  PoistoVastaus, EiLoytynyt, Virhe
    <3>2. QED
      BY <2>1, <2>2, <2>3, <3>1
  <2>6. QED
    BY <1>3, <2>4, <2>5
<1>4. QED
  BY <1>1, <1>2, <1>3, Pysyvyys, PTL DEF Spec
=============================================================================
