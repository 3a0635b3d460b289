------------------------------- MODULE Selain -------------------------------
(***************************************************************************)
(* One tab of the browser application: pages with forms, the question      *)
(* before unsaved edits are thrown away (varmistaPoistuminen), the way     *)
(* back (edellinenLokaatio) and the save button (tallenna).  An action is  *)
(* one event of the browser with the digest that follows it.  The answer   *)
(* to a request may come after the user has left the page that sent it,    *)
(* and its callback runs all the same.                                     *)
(*                                                                         *)
(* The kinds of pages: "katselu", no form; "crud", crudController and      *)
(* TutkintojenLisaysController, which warn from the start; "jasenet",      *)
(* ToimikuntaJasenetController; "uusi", UusiToimikuntaController; "velho", *)
(* HenkiloVelhoController: search a person (step 0), choose or save him    *)
(* (step 1), save the membership (step 2).                                 *)
(***************************************************************************)
EXTENDS Rajapintakutsut

CONSTANTS Sivut,            \* the pages
          Laji,             \* Laji[s]: the kind of page s
          Alkusivu,         \* the page the tab opens with
          Haku,             \* the method that fills the form of s, or Nil
          Tallennus,        \* the method that saves the form of s
          Henkilohaku, Henkilotallennus,  \* the methods of steps 0 and 1
          Nappi,            \* the methods the save button of s waits for
          Paluu,            \* the page shown after s has been saved
          Peruutus          \* where cancelling s leads to, Nil for back

VARIABLES sivu,           \* $location.path(), nykyinen of edellinenLokaatio
          edellinen,      \* edellinen of edellinenLokaatio
          nykyinenAskel,  \* of the wizard, 0 on other pages
          henkilo,        \* the wizard's step 1: no person found ("ei"), a found
                          \* one chosen ("loydetty"), or "uusi" all the same
          kysyVarmistus,  \* the flag of varmistaPoistuminen
          muokattu,       \* history: the open form has unsaved edits
          vieras          \* history: another page's save was acknowledged on this one

sivuVars == <<sivu, edellinen, nykyinenAskel, henkilo, kysyVarmistus, muokattu, vieras>>
vars == <<sivuVars, kutsuVars>>

Lajit == {"katselu", "crud", "jasenet", "uusi", "velho"}

\* A request: its method, the page that sent it, whether that page is still open,
\* and whether it is the search whose list of persons the wizard shows.
Kutsut == [id : Metodit, sivu : Sivut, oma : BOOLEAN, naytolla : BOOLEAN]

ASSUME SelainOletus ==
  /\ Laji \in [Sivut -> Lajit]
  /\ Alkusivu \in Sivut /\ Laji[Alkusivu] = "katselu"
  /\ Haku \in [Sivut -> Metodit \union {Nil}]
  /\ Tallennus \in [Sivut -> Metodit]
  /\ Henkilohaku \in Metodit /\ Henkilotallennus \in Metodit
  /\ Henkilohaku # Henkilotallennus
  /\ \A s, t \in Sivut : Haku[s] \notin {Tallennus[t], Henkilohaku, Henkilotallennus}
  /\ \A s \in Sivut : Tallennus[s] \notin {Henkilohaku, Henkilotallennus}
  /\ Nappi \in [Sivut -> SUBSET Metodit]
  /\ Paluu \in [Sivut -> Sivut] /\ \A s \in Sivut : Laji[Paluu[s]] # "crud"
  /\ Peruutus \in [Sivut -> Sivut \union {Nil}]
  /\ Nil \notin Sivut /\ Nil \notin Metodit /\ Nil \notin Kutsut
  /\ IsFiniteSet(Paikat)

Init ==
  /\ KutsuInit
  /\ sivu = Alkusivu /\ edellinen = Alkusivu /\ nykyinenAskel = 0 /\ henkilo = "ei"
  /\ kysyVarmistus = FALSE /\ muokattu = FALSE /\ vieras = FALSE

-----------------------------------------------------------------------------
(* Pages.  k and P are the requests and counters as the event has them so  *)
(* far.                                                                    *)

\* A request from page s leaves.
Laheta(m, s, k, P) ==
  \E c \in Vapaat(k) :
    /\ kutsu' = [k EXCEPT ![c] = [id |-> m, sivu |-> s, oma |-> TRUE,
                                  naytolla |-> m = Henkilohaku]]
    /\ pyynnot' = apiPyynto(P, m)

\* The requests of pages that are no longer open.
Vieraat(k) ==
  [c \in Paikat |-> IF k[c] = Nil THEN Nil ELSE [k[c] EXCEPT !.oma = FALSE, !.naytolla = FALSE]]

\* The requests when $scope.henkilot is given a new list to be filled.
Korvatut(k) == [c \in Paikat |-> IF k[c] = Nil THEN Nil ELSE [k[c] EXCEPT !.naytolla = FALSE]]

\* Mutant: the controller does not set the flag.
KaynnistaVaroittamatta(s, k, P) ==
  /\ sivu' = s /\ nykyinenAskel' = 0 /\ henkilo' = "ei"
  /\ muokattu' = FALSE /\ vieras' = FALSE
  /\ UNCHANGED kysyVarmistus
  /\ IF Haku[s] = Nil THEN kutsu' = k /\ pyynnot' = P ELSE Laheta(Haku[s], s, k, P)

\* The controller of page s starts: crudController sets the flag, and the
\* form is asked from the server.
Kaynnista(s, k, P) ==
  /\ sivu' = s /\ nykyinenAskel' = 0 /\ henkilo' = "ei"
  /\ muokattu' = FALSE /\ vieras' = FALSE
  /\ kysyVarmistus' = (Laji[s] = "crud")
  /\ IF Haku[s] = Nil THEN kutsu' = k /\ pyynnot' = P ELSE Laheta(Haku[s], s, k, P)

\* $location.path(s) with the flag at varmistus: an unchanged path fires
\* nothing, and when the flag is up the user may answer that he stays.
Siirry(s, varmistus, k, P) ==
  \/ /\ s # sivu
     /\ edellinen' = sivu
     /\ Kaynnista(s, Vieraat(k), P)
  \/ /\ s = sivu \/ varmistus
     /\ kysyVarmistus' = varmistus /\ kutsu' = k /\ pyynnot' = P
     /\ UNCHANGED <<sivu, edellinen, nykyinenAskel, henkilo, muokattu, vieras>>

\* A link, the menu or the address bar.
Linkki(s) == s # sivu /\ Siirry(s, kysyVarmistus, kutsu, pyynnot)

\* The cancel button: the pages that do not warn from the start set the flag
\* first.
Peruuta ==
  /\ Laji[sivu] # "katselu"
  /\ Siirry(IF Peruutus[sivu] = Nil THEN edellinen ELSE Peruutus[sivu],
            kysyVarmistus \/ Laji[sivu] # "crud", kutsu, pyynnot)

\* The user edits the form.
Muokkaa ==
  /\ Laji[sivu] # "katselu" /\ ~muokattu
  /\ muokattu' = TRUE
  /\ UNCHANGED <<sivu, edellinen, nykyinenAskel, henkilo, kysyVarmistus, vieras, kutsuVars>>

\* Mutant: the last step does not stop.
SiirryYliViimeisen == nykyinenAskel' = nykyinenAskel + 1

\* The wizard's next step.
siirrySeuraavaan ==
  nykyinenAskel' = IF nykyinenAskel < 2 THEN nykyinenAskel + 1 ELSE nykyinenAskel

Velhossa(askelet) == Laji[sivu] = "velho" /\ nykyinenAskel \in askelet

\* haeHenkilotJaSiirrySeuraavaan with a name to search for: the button is not
\* disabled while the search runs, and a later search has a list of its own.
HaeHenkilot ==
  /\ Velhossa({0})
  /\ henkilo' = "ei"
  /\ Laheta(Henkilohaku, sivu, Korvatut(kutsu), pyynnot)
  /\ UNCHANGED <<sivu, edellinen, nykyinenAskel, kysyVarmistus, muokattu, vieras>>

\* haeHenkilotJaSiirrySeuraavaan without a name, and step 1 with a found
\* person: the next step at once.
SiirryHeti ==
  /\ Velhossa({0}) \/ (Velhossa({1}) /\ henkilo = "loydetty")
  /\ siirrySeuraavaan
  /\ UNCHANGED <<sivu, edellinen, henkilo, kysyVarmistus, muokattu, vieras, kutsuVars>>

\* The header of the wizard leads back to an earlier step.
Askeleelle(a) ==
  /\ Velhossa(0..2)
  /\ a = 0 \/ (a = 1 /\ nykyinenAskel > 1 /\ henkilo = "loydetty")
  /\ nykyinenAskel' = a
  /\ UNCHANGED <<sivu, edellinen, henkilo, kysyVarmistus, muokattu, vieras, kutsuVars>>

\* The list of found persons, which has also the choice of a new one.
vaihdaTila ==
  /\ Velhossa({1}) /\ henkilo # "ei"
  /\ henkilo' = IF henkilo = "uusi" THEN "loydetty" ELSE "uusi"
  /\ UNCHANGED <<sivu, edellinen, nykyinenAskel, kysyVarmistus, muokattu, vieras, kutsuVars>>

\* The save method of the open form.
Tallentaa == IF Laji[sivu] = "velho" /\ nykyinenAskel = 1 THEN Henkilotallennus
             ELSE Tallennus[sivu]

\* Mutant: the button waits for the method that fills the form.
OdottaaHakua == {Haku[sivu]} \ {Nil}

\* The methods its save button waits for.
Odottaa == IF Laji[sivu] = "velho" /\ nykyinenAskel = 1 THEN {Henkilotallennus}
           ELSE Nappi[sivu]

\* The save button, when the directive tallenna has it enabled.
Tallenna ==
  /\ Laji[sivu] # "katselu"
  /\ Laji[sivu] = "velho" =>
       nykyinenAskel = 2 \/ (nykyinenAskel = 1 /\ henkilo # "loydetty")
  /\ ~PyyntojaKaynnissa(Odottaa)
  /\ Laheta(Tallentaa, sivu, kutsu, pyynnot)
  /\ UNCHANGED sivuVars

\* The callback of a request that moves its wizard on; the persons an earlier
\* search finds are not shown.  The flag is one for the whole tab; the step of a
\* wizard that is left no longer matters.
VelhoEtenee(p, varmistus, k, P) ==
  /\ kysyVarmistus' = varmistus
  /\ IF p.oma
     THEN /\ siirrySeuraavaan
          /\ henkilo' \in (IF p.naytolla THEN {"ei", "loydetty"} ELSE {henkilo})
     ELSE UNCHANGED <<nykyinenAskel, henkilo>>
  /\ muokattu' = (muokattu /\ ~p.oma)
  /\ vieras' = (vieras \/ (~p.oma /\ p.id = Henkilotallennus))
  /\ kutsu' = k /\ pyynnot' = P
  /\ UNCHANGED <<sivu, edellinen>>

\* The success callback of the save p.  It runs whether or not its page is
\* still open, and $location is the tab's.  UusiToimikuntaController does not
\* use varmistaPoistuminen.tallenna: its flag stays.
TallennusOnnistui(p, k, P) ==
  Siirry(Paluu[p.sivu], kysyVarmistus /\ Laji[p.sivu] = "uusi", k, P)

\* An answer arrives: the interceptor's counters, then the callback of the
\* page that asked.  There is no callback for an error.
Vastaus(c, virhe) ==
  LET p == kutsu[c]
      k == [kutsu EXCEPT ![c] = Nil]
      P == apiVastaus(pyynnot, p.id, virhe)
      haku == p.id = Haku[p.sivu]
  IN
  /\ p # Nil
  /\ \/ /\ virhe \/ haku             \* the answer fills the form
        /\ muokattu' = (muokattu /\ (virhe \/ ~p.oma))
        /\ kutsu' = k /\ pyynnot' = P
        /\ UNCHANGED <<sivu, edellinen, nykyinenAskel, henkilo, kysyVarmistus, vieras>>
     \/ /\ ~virhe /\ p.id = Henkilohaku
        /\ VelhoEtenee(p, kysyVarmistus, k, P)
     \/ /\ ~virhe /\ p.id = Henkilotallennus
        /\ VelhoEtenee(p, FALSE, k, P)
     \/ /\ ~virhe /\ ~haku /\ p.id \notin {Henkilohaku, Henkilotallennus}
        /\ TallennusOnnistui(p, k, P)

\* The page is loaded again, by the user or by the interceptor after an
\* answer 403 (window.location.reload): every script starts afresh.
LataaUudelleen ==
  /\ Kaynnista(sivu, [c \in Paikat |-> Nil], EiPyyntoja)
  /\ edellinen' = sivu

Next ==
  \/ \E s \in Sivut : Linkki(s)
  \/ Peruuta \/ Muokkaa \/ Tallenna \/ LataaUudelleen
  \/ HaeHenkilot \/ SiirryHeti \/ vaihdaTila \/ \E a \in {0, 1} : Askeleelle(a)
  \/ \E c \in Paikat, virhe \in BOOLEAN : Vastaus(c, virhe)

Spec == Init /\ [][Next]_vars

\* Every request gets its answer, a timeout if nothing else.
ReiluSpec == Spec /\ \A c \in Paikat : WF_vars(\E virhe \in BOOLEAN : Vastaus(c, virhe))

-----------------------------------------------------------------------------
(* Properties *)

TyyppiOK ==
  /\ sivu \in Sivut /\ edellinen \in Sivut /\ nykyinenAskel \in 0..2
  /\ henkilo \in {"ei", "loydetty", "uusi"}
  /\ kysyVarmistus \in BOOLEAN /\ muokattu \in BOOLEAN /\ vieras \in BOOLEAN
  /\ kutsu \in [Paikat -> Kutsut \union {Nil}]
  /\ pyynnot \in [Metodit -> Int]

\* The requests to the save methods of a page whose buttons wait for them.
Tallennukset == {Tallennus[s] : s \in {t \in Sivut : Laji[t] # "katselu"}}
Suojatut == {Henkilotallennus} \union
  {m \in Tallennukset : \A s \in Sivut :
     Laji[s] # "katselu" /\ Tallennus[s] = m => m \in Nappi[s]}

\* However the user leaves pages, comes back and cancels while answers are
\* late, a form whose button waits for its method is not sent a second time
\* before the first answer.
EiRinnakkaisiaTallennuksia == \A m \in Suojatut : Cardinality(Kaynnissa(m)) <= 1

\* A page that warns of unsaved edits warns until it is left, unless the save
\* of another page is acknowledged while it is open: the flag is the tab's.
MuokkaussivuVaroittaa == Laji[sivu] = "crud" /\ ~kysyVarmistus => vieras

\* A disabled save button is enabled again: every request ends, and the
\* interceptor counts a failure too.
NappiVapautuu ==
  \A s \in Sivut : Laji[s] # "katselu" =>
    (sivu = s /\ PyyntojaKaynnissa(Odottaa) ~> sivu # s \/ ~PyyntojaKaynnissa(Odottaa))
=============================================================================
