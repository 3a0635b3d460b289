----------------------------- MODULE Palautteet ------------------------------
(***************************************************************************)
(* The messages about the server's answers (apimetodiPalauteController).   *)
(* The interceptor apiCallInterceptor leaves an answer in its list and     *)
(* stamps the list; the callback of the caller may move to another page or *)
(* wizard step; the digest that follows runs the listener of               *)
(* $locationChangeStart and the watcher of the stamp, in this or the other *)
(* order.                                                                  *)
(***************************************************************************)
EXTENDS Naturals, Sequences, SequencesExt

CONSTANTS Muutokset,     \* ids of POST, PUT and DELETE methods with texts
          Kyselyt,       \* ids of GET methods
          MaxAikaleima   \* bound: stamps given to the list

VARIABLES lista,         \* apiCallInterceptor.vastaukset.lista
          paivitetty,    \* apiCallInterceptor.vastaukset.paivitetty
          palautteet,    \* $scope.palautteet
          nahty,         \* the stamp the watcher has seen
          vaihto         \* a change the digest has yet to meet: "askel" of a
                         \* wizard, "osoite" of the page, or "ei"

vars == <<lista, paivitetty, palautteet, nahty, vaihto>>

ASSUME PalautteetOletus == Muutokset \intersect Kyselyt = {} /\ MaxAikaleima \in Nat

\* An answer: the method, and whether it is an error.  It stands also for the
\* text of its message, which is chosen by the method and the outcome.
Vastaukset == [id : Muutokset \union Kyselyt, virhe : BOOLEAN]

Init ==
  /\ lista = <<>> /\ palautteet = {}
  /\ paivitetty = 0 /\ nahty = 0       \* null in the code: before any stamp
  /\ vaihto = "ei"

-----------------------------------------------------------------------------
\* A successful query has no message.
naytaPalauteVastaukselle(v) == v.id \in Muutokset \/ v.virhe

\* The messages of the answers in l: a success is flagged for a redirection.
luoPalautteet(l) ==
  {[viesti |-> v, redirectFlag |-> ~v.virhe] : v \in {w \in ToSet(l) : naytaPalauteVastaukselle(w)}}

\* Mutant: a text may be shown twice.
YhdistaKaikki(P, uudet) == uudet \union P

\* Of two messages with one text the new one stays.
yhdistaPalautteet(P, uudet) ==
  uudet \union {p \in P : \A u \in uudet : u.viesti # p.viesti}

\* The messages once those of the answers in l are made.
luoPalautteetVastauksista(l) == yhdistaPalautteet(palautteet, luoPalautteet(l))

\* A flagged message loses its flag, another one has been shown.
poistaNaytetyt(P) == {[p EXCEPT !.redirectFlag = FALSE] : p \in {q \in P : q.redirectFlag}}

\* Mutant: a stamp from the clock, here with two answers a millisecond.
AikaleimaKellosta(t) == t \div 2 + 1

\* The stamp after t.  It counts: two answers within a millisecond differ.
aikaleima(t) == t + 1

-----------------------------------------------------------------------------
\* The digest has met all changes: the user sees the messages.
Vakaa == paivitetty = nahty /\ vaihto = "ei"

\* An answer arrives; the caller's callback for a success may open another
\* page or the next step of a wizard.
apiVastaus(v) ==
  /\ Vakaa /\ paivitetty < MaxAikaleima
  /\ lista' = Append(lista, v)
  /\ paivitetty' = aikaleima(paivitetty)
  /\ vaihto' \in (IF v.virhe THEN {"ei"} ELSE {"ei", "askel", "osoite"})
  /\ UNCHANGED <<palautteet, nahty>>

\* The user follows a link, or steps on in a wizard.
SivunVaihto ==
  /\ Vakaa
  /\ vaihto' \in {"askel", "osoite"}
  /\ UNCHANGED <<lista, paivitetty, palautteet, nahty>>

\* Mutant: the listener leaves the making of messages to the watcher.
PaivitaLuomatta ==
  /\ vaihto # "ei"
  /\ vaihto' = "ei"
  /\ palautteet' = poistaNaytetyt(palautteet)
  /\ UNCHANGED <<lista, paivitetty, nahty>>

\* The listener of $locationChangeStart, which the digest meets before or
\* after the watcher, and of wizardPageChange, broadcast by the callback.
paivitaPalautteet ==
  /\ vaihto # "ei"
  /\ vaihto' = "ei"
  /\ palautteet' = poistaNaytetyt(luoPalautteetVastauksista(lista))
  /\ lista' = <<>>
  /\ UNCHANGED <<paivitetty, nahty>>

\* The watcher of the stamp.
Katselija ==
  /\ paivitetty # nahty /\ vaihto # "askel"
  /\ nahty' = paivitetty
  /\ palautteet' = luoPalautteetVastauksista(lista)
  /\ lista' = <<>>
  /\ UNCHANGED <<paivitetty, vaihto>>

Next ==
  \/ \E v \in Vastaukset : apiVastaus(v)
  \/ SivunVaihto \/ paivitaPalautteet \/ Katselija

Spec == Init /\ [][Next]_vars

-----------------------------------------------------------------------------
(* Properties *)

\* The messages and answers have their types; a failure is never flagged to
\* survive a page change (luoVirhePalaute), a text is shown once.
TyyppiOK ==
  /\ lista \in Seq(Vastaukset) /\ Len(lista) <= 1
  /\ palautteet \subseteq [viesti : Vastaukset, redirectFlag : BOOLEAN]
  /\ \A p, q \in palautteet : p.viesti = q.viesti => p = q
  /\ \A p \in palautteet : p.redirectFlag => ~p.viesti.virhe
  /\ paivitetty \in Nat /\ nahty \in Nat
  /\ vaihto \in {"ei", "askel", "osoite"}

\* When the digest is done every answer has had its message made: the watcher
\* of the stamp misses none, not even one that comes within the millisecond
\* of another (OPH-330).
KaikkiNaytetty == Vakaa => lista = <<>>

\* The pages message v is still shown on, those of a waiting answer included.
Jaljella ==
  LET P == luoPalautteetVastauksista(lista) IN
  [v \in {w \in Vastaukset : naytaPalauteVastaukselle(w)} |->
     IF [viesti |-> v, redirectFlag |-> TRUE] \in P THEN 2
     ELSE IF [viesti |-> v, redirectFlag |-> FALSE] \in P THEN 1 ELSE 0]

Lupaus == INSTANCE Ilmoitukset WITH
  Viestit <- {v \in Vastaukset : naytaPalauteVastaukselle(v)},
  Virheviestit <- {v \in Vastaukset : v.virhe},
  jaljella <- Jaljella

\* A message of a success is shown on the page where it appears and after
\* one redirection, a message of a failure on its page only, whichever of the
\* listener and the watcher the digest runs first.
ToteuttaaIlmoitukset == Lupaus!Spec
=============================================================================
