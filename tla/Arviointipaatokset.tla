------------------------- MODULE Arviointipaatokset --------------------------
(***************************************************************************)
(* The page of performance records (the directive suoritukset): search     *)
(* criteria with a delay of half a second, the list found, the records     *)
(* ticked, the question before a change, and the requests, which the       *)
(* server handles and answers in any order while other users work.  The    *)
(* server's side is modelled by its result alone: module Suoritukset has   *)
(* its statements and transactions.                                        *)
(***************************************************************************)
EXTENDS Naturals, FiniteSets

CONSTANTS Kerrat,      \* the records
          Ehdot,       \* contents of the search form
          Tilaehto,    \* Tilaehto[e]: hakuForm.tila, Nil for every state
          Osuvat,      \* Osuvat[e]: the records the other criteria of e match
          Alkuehto,    \* the form as the page opens
          Paikat,      \* places for requests in flight: a bound
          MaxMuut,     \* bound: changes by other users
          Nil

VARIABLES hakuForm,    \* the search form
          ajastin,     \* haeSuorituksetTimeoutPromise is waiting
          suoritukset, \* the list shown: records with the states it shows
          form,        \* the records ticked, and Pvm when a date is chosen
          dialogi,     \* the question that is open, or Nil
          kutsu,       \* kutsu[c]: the request in place c, or Nil
          tila,        \* the server: tila of a record, "poissa" when deleted
          muut,        \* number of changes by other users
          luotettava   \* history: nothing has made the list unreliable

selainVars == <<hakuForm, ajastin, suoritukset, form, dialogi>>
vars == <<selainVars, kutsu, tila, muut, luotettava>>

\* The date of approval has its key in form, and counts as a tick.
Pvm == "hyvaksymispvm"

Muutokset == {"hyvaksy", "palauta", "poista"}

Rivit == [kerta : Kerrat, tila : {"luonnos", "hyvaksytty"}]

\* The requests: a search, and a change of records; 404 says that none was found.
Haut == [laji : {"haku"}, ehto : Ehdot, vastaus : {Nil} \union SUBSET Rivit, tuore : BOOLEAN]
Muutospyynnot == [laji : Muutokset, kohteet : SUBSET Kerrat, vastaus : {Nil, 200, 403, 404}]

ASSUME ArviointipaatoksetOletus ==
  /\ Tilaehto \in [Ehdot -> {"luonnos", "hyvaksytty", Nil}]
  /\ Osuvat \in [Ehdot -> SUBSET Kerrat]
  /\ Alkuehto \in Ehdot /\ Tilaehto[Alkuehto] = Nil
  /\ MaxMuut \in Nat
  /\ Pvm \notin Kerrat
  /\ Nil \notin Haut \union Muutospyynnot \union {200, 403, 404}

\* What the server finds with the criteria e.
Tulos(e) ==
  {s \in [kerta : Osuvat[e], tila : {"luonnos", "hyvaksytty"}] :
     /\ s.tila = tila[s.kerta]
     /\ Tilaehto[e] \in {Nil, s.tila}}

Nakyvat == {s.kerta : s \in suoritukset}

\* No search is waiting for its time, no request for its answer.
Vakaa == ~ajastin /\ \A c \in Paikat : kutsu[c] = Nil

SelainInit ==
  /\ hakuForm = Alkuehto /\ ajastin = FALSE
  /\ suoritukset = {} /\ form = {} /\ dialogi = Nil
  /\ kutsu = [c \in Paikat |-> Nil]

Init ==
  /\ SelainInit
  /\ tila \in [Kerrat -> {"luonnos", "hyvaksytty"}]
  /\ muut = 0 /\ luotettava = FALSE

-----------------------------------------------------------------------------
(* Requests *)

\* A search leaves with the criteria e.  History: it is the fresh one.
LahetaHaku(k, e) ==
  \E c \in {d \in Paikat : k[d] = Nil} :
    kutsu' = [d \in Paikat |->
                IF d = c THEN [laji |-> "haku", ehto |-> e, vastaus |-> Nil, tuore |-> TRUE]
                ELSE IF k[d] # Nil /\ k[d].laji = "haku" THEN [k[d] EXCEPT !.tuore = FALSE]
                ELSE k[d]]

LahetaMuutos(laji, kohteet) ==
  \E c \in {d \in Paikat : kutsu[d] = Nil} :
    kutsu' = [kutsu EXCEPT ![c] = [laji |-> laji, kohteet |-> kohteet, vastaus |-> Nil]]

\* History: answers under way were found before a change that no search follows.
Vanhenna(k) ==
  [c \in Paikat |-> IF k[c] # Nil /\ k[c].laji = "haku" /\ k[c].vastaus # Nil
                    THEN [k[c] EXCEPT !.tuore = FALSE] ELSE k[c]]

-----------------------------------------------------------------------------
(* The user; a question that is open hides the rest of the page. *)

\* haeSuoritukset: by the button, or by the watch of hakuForm.  A waiting
\* timer is cancelled; a search that has left is not.
haeSuoritukset(e) ==
  /\ dialogi = Nil
  /\ hakuForm' = e /\ ajastin' = TRUE
  /\ UNCHANGED <<suoritukset, form, dialogi, kutsu, tila, muut, luotettava>>

\* A tick in the box of a row, which the list has when it shows one state.
Rastita(k) ==
  /\ dialogi = Nil
  /\ k \in Nakyvat /\ Tilaehto[hakuForm] # Nil
  /\ form' = IF k \in form THEN form \ {k} ELSE form \union {k}
  /\ UNCHANGED <<hakuForm, ajastin, suoritukset, dialogi, kutsu, tila, muut, luotettava>>

\* The date of approval is chosen or cleared in the list of drafts.
ValitsePvm ==
  /\ dialogi = Nil /\ Tilaehto[hakuForm] = "luonnos"
  /\ form' = IF Pvm \in form THEN form \ {Pvm} ELSE form \union {Pvm}
  /\ UNCHANGED <<hakuForm, ajastin, suoritukset, dialogi, kutsu, tila, muut, luotettava>>

\* The buttons of a list, one for each state it may show, and of a row.
Kysy ==
  /\ dialogi = Nil
  /\ dialogi' \in
       {[laji |-> l, kohde |-> Nil] : l \in
          IF form = {} \/ Tilaehto[hakuForm] = Nil THEN {}
          ELSE IF Tilaehto[hakuForm] = "luonnos" THEN {"hyvaksy"} ELSE {"palauta"}}
       \union {[laji |-> "poista", kohde |-> k] : k \in
                 IF Tilaehto[hakuForm] = "luonnos" THEN Nakyvat ELSE {}}
  /\ UNCHANGED <<hakuForm, ajastin, suoritukset, form, kutsu, tila, muut, luotettava>>

\* The answers to the question: the records are the ones ticked now.  The key
\* of the date goes as NaN, which is the number of no record.
Peruuta ==
  /\ dialogi # Nil /\ dialogi' = Nil
  /\ UNCHANGED <<hakuForm, ajastin, suoritukset, form, kutsu, tila, muut, luotettava>>

Vahvista ==
  /\ dialogi # Nil /\ dialogi' = Nil
  /\ LahetaMuutos(dialogi.laji, IF dialogi.laji = "poista" THEN {dialogi.kohde} ELSE form \intersect Kerrat)
  /\ UNCHANGED <<hakuForm, ajastin, suoritukset, form, tila, muut, luotettava>>

\* Half a second has passed: the form is read now.
AjastinLaukeaa ==
  /\ ajastin /\ ajastin' = FALSE
  /\ LahetaHaku(kutsu, hakuForm)
  /\ UNCHANGED <<hakuForm, suoritukset, form, dialogi, tila, muut, luotettava>>

-----------------------------------------------------------------------------
(* The server *)

PalvelinHakee(c) ==
  /\ kutsu[c] # Nil /\ kutsu[c].laji = "haku" /\ kutsu[c].vastaus = Nil
  /\ kutsu' = [kutsu EXCEPT ![c].vastaus = Tulos(kutsu[c].ehto)]
  /\ UNCHANGED <<selainVars, tila, muut, luotettava>>

\* hyvaksy wants drafts and poista a draft, palauta takes any record.
Sallittu(laji, kohteet) ==
  \/ laji = "hyvaksy" /\ \A k \in kohteet : tila[k] \in {"luonnos", "poissa"}
  \/ laji = "palauta"
  \/ laji = "poista" /\ \A k \in kohteet : tila[k] = "luonnos"

\* Mutant: palauta gives the record to the committee.
UusiEhdotettu(laji) ==
  CASE laji = "hyvaksy" -> "hyvaksytty" [] laji = "palauta" -> "ehdotettu" [] OTHER -> "poissa"

Loytyvat(kohteet) == {k \in kohteet : tila[k] # "poissa"}

Uusi(laji) ==
  CASE laji = "hyvaksy" -> "hyvaksytty" [] laji = "palauta" -> "luonnos" [] OTHER -> "poissa"

PalvelinMuuttaa(c) ==
  LET p == kutsu[c] IN
  /\ p # Nil /\ p.laji \in Muutokset /\ p.vastaus = Nil
  /\ IF Sallittu(p.laji, p.kohteet) /\ Loytyvat(p.kohteet) # {}
     THEN /\ tila' = [k \in Kerrat |->
                        IF k \in Loytyvat(p.kohteet) THEN Uusi(p.laji) ELSE tila[k]]
          /\ LET v == [kutsu EXCEPT ![c].vastaus = 200]
             IN kutsu' = IF p.laji = "poista" THEN Vanhenna(v) ELSE v
     ELSE /\ UNCHANGED tila
          /\ kutsu' = [kutsu EXCEPT ![c].vastaus =
                          IF Sallittu(p.laji, p.kohteet) THEN 404 ELSE 403]
  /\ UNCHANGED <<selainVars, muut, luotettava>>

\* Another user approves a draft, takes a record back or deletes a draft.
MuuKayttaja(k) ==
  /\ muut < MaxMuut /\ muut' = muut + 1
  /\ \E laji \in Muutokset :
       /\ tila[k] # "poissa" /\ Sallittu(laji, {k})
       /\ tila' = [tila EXCEPT ![k] = Uusi(laji)]
  /\ kutsu' = Vanhenna(kutsu)
  /\ luotettava' = FALSE
  /\ UNCHANGED selainVars

-----------------------------------------------------------------------------
(* Answers *)

\* The list of the search that was answered last is shown.
HakuVastaus(c) ==
  /\ kutsu[c] # Nil /\ kutsu[c].laji = "haku" /\ kutsu[c].vastaus # Nil
  /\ suoritukset' = kutsu[c].vastaus
  /\ luotettava' = kutsu[c].tuore
  /\ kutsu' = [kutsu EXCEPT ![c] = Nil]
  /\ UNCHANGED <<hakuForm, ajastin, form, dialogi, tila, muut>>

\* Mutant: no search follows a change.
PaivitaVainRivit(c) ==
  LET p == kutsu[c] IN
  /\ p # Nil /\ p.laji \in {"hyvaksy", "palauta"} /\ p.vastaus = 200
  /\ suoritukset' = {IF s.kerta \in p.kohteet THEN [s EXCEPT !.tila = Uusi(p.laji)] ELSE s :
                       s \in suoritukset}
  /\ form' = {}
  /\ kutsu' = [kutsu EXCEPT ![c] = Nil]
  /\ UNCHANGED <<hakuForm, ajastin, dialogi, tila, muut, luotettava>>

\* hyvaksy or palauta went well: the rows are changed, no row is ticked, and
\* a search follows at once.
paivitaSuoritustenTila(c) ==
  LET p == kutsu[c] IN
  /\ p # Nil /\ p.laji \in {"hyvaksy", "palauta"} /\ p.vastaus = 200
  /\ suoritukset' = {IF s.kerta \in p.kohteet THEN [s EXCEPT !.tila = Uusi(p.laji)] ELSE s :
                       s \in suoritukset}
  /\ form' = {}
  /\ LahetaHaku([kutsu EXCEPT ![c] = Nil], hakuForm)
  /\ UNCHANGED <<hakuForm, ajastin, dialogi, tila, muut, luotettava>>

\* poista went well: its row is removed.
PoistoVastaus(c) ==
  LET p == kutsu[c] IN
  /\ p # Nil /\ p.laji = "poista" /\ p.vastaus = 200
  /\ suoritukset' = {s \in suoritukset : s.kerta \notin p.kohteet}
  /\ kutsu' = [kutsu EXCEPT ![c] = Nil]
  /\ UNCHANGED <<hakuForm, ajastin, form, dialogi, tila, muut, luotettava>>

\* The server found none of the records: the page stays as it is.
EiLoytynyt(c) ==
  /\ kutsu[c] # Nil /\ kutsu[c].laji \in Muutokset /\ kutsu[c].vastaus = 404
  /\ kutsu' = [kutsu EXCEPT ![c] = Nil]
  /\ UNCHANGED <<selainVars, tila, muut, luotettava>>

\* The change was not allowed: the interceptor reloads the page, and the
\* answers to its requests are lost.
LataaUudelleen ==
  /\ \E c \in Paikat :
       kutsu[c] # Nil /\ kutsu[c].laji \in Muutokset /\ kutsu[c].vastaus = 403
  /\ hakuForm' = Alkuehto /\ ajastin' = FALSE
  /\ suoritukset' = {} /\ form' = {} /\ dialogi' = Nil
  /\ kutsu' = [c \in Paikat |-> Nil]
  /\ luotettava' = FALSE
  /\ UNCHANGED <<tila, muut>>

\* A request fails or times out, carried out or not: the list stays.
Virhe(c) ==
  /\ kutsu[c] # Nil
  /\ kutsu' = [Vanhenna(kutsu) EXCEPT ![c] = Nil]
  /\ luotettava' = FALSE
  /\ UNCHANGED <<selainVars, tila, muut>>

Next ==
  \/ \E e \in Ehdot : haeSuoritukset(e)
  \/ \E k \in Kerrat : Rastita(k) \/ MuuKayttaja(k)
  \/ ValitsePvm \/ Kysy \/ Peruuta \/ Vahvista \/ AjastinLaukeaa \/ LataaUudelleen
  \/ \E c \in Paikat :
       \/ PalvelinHakee(c) \/ PalvelinMuuttaa(c)
       \/ HakuVastaus(c) \/ paivitaSuoritustenTila(c) \/ PoistoVastaus(c)
       \/ EiLoytynyt(c) \/ Virhe(c)

Spec == Init /\ [][Next]_vars

-----------------------------------------------------------------------------
(* Properties *)

TyyppiOK ==
  /\ hakuForm \in Ehdot /\ ajastin \in BOOLEAN
  /\ suoritukset \subseteq Rivit /\ form \subseteq Kerrat \union {Pvm}
  /\ dialogi \in [laji : {"hyvaksy", "palauta"}, kohde : {Nil}]
                \union [laji : {"poista"}, kohde : Kerrat] \union {Nil}
  /\ tila \in [Kerrat -> {"luonnos", "hyvaksytty", "poissa"}]
  /\ muut \in 0..MaxMuut /\ luotettava \in BOOLEAN
  /\ kutsu \in [Paikat -> Haut \union Muutospyynnot \union {Nil}]

\* When nothing is under way the list is exactly what the server finds with
\* the criteria of the form, its states included, unless another user has
\* changed records, a request was lost, an older answer came last or a search
\* crossed a deletion.
ListaTuore == Vakaa /\ luotettava => suoritukset = Tulos(hakuForm)

\* Only records that are in the list are ticked.
ValitutNakyvissa == form \intersect Kerrat \subseteq Nakyvat
=============================================================================
