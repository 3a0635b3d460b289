-------------------------- MODULE SopimusVoimassaolo --------------------------
(***************************************************************************)
(* Agreements to arrange qualifications (jarjestamissopimus), the          *)
(* qualification versions they cover (sopimus_ja_tutkinto), and the        *)
(* derived columns alkupvm, loppupvm and voimassa of an agreement:         *)
(* rest_api/jarjestamissopimus.clj on infra/jarjestamissopimus_arkisto.clj *)
(* and the nightly run infra/eraajo/sopimusten_voimassaolo.clj, which      *)
(* brings the columns up to date when a day has passed or when a term of   *)
(* office or a transition period has been changed by somebody else.        *)
(*                                                                         *)
(* Each request, and each nightly run, is one PostgreSQL transaction at    *)
(* READ COMMITTED.  Its writes are kept in the transaction until it        *)
(* commits; a row it has written is locked.  It sees its own writes on top *)
(* of what is committed at the time of each statement.                     *)
(***************************************************************************)
EXTENDS Naturals

CONSTANTS Pyynnot,     \* requests being served (threads of the server)
          Eraajot,     \* nightly runs: the Quartz job, the thread of a start
          Sopimukset,  \* jarjestamissopimusid values the sequence can hand out
          Rivit,       \* sopimus_ja_tutkinto_id values the sequence can hand out
          Versiot,     \* versions of qualifications (tutkintoversio)
          Toimikunnat, \* committees
          Paivat,      \* days, as numbers
          Aikavalit,   \* terms of office and transition periods, <<first, last>>
          Jaksot,      \* periods of the rows in a form, <<alkupvm, loppupvm>>
          Nil          \* the SQL null; also "no row", "not written"

Tapahtumat == Pyynnot \union Eraajot

Paiva == Paivat \union {Nil}

ASSUME PaivatAssumption ==
  /\ Paivat \subseteq Nat
  /\ \E forever \in Paivat : \A d \in Paivat : d <= forever  \* time-forever
  /\ Aikavalit \subseteq Paivat \X Paivat
  /\ Jaksot \subseteq Paiva \X Paiva

VARIABLES sopimus,       \* rows of jarjestamissopimus, or Nil
          rivi,          \* rows of sopimus_ja_tutkinto, or Nil
          toimikausi,    \* the term of office of each committee
          siirtymaaika,  \* voimassa_alkupvm .. siirtymaajan_loppupvm of each version
          tanaan,        \* the current day
          tx             \* the transaction of each request and nightly run

ymparisto == <<toimikausi, siirtymaaika, tanaan>>
vars == <<sopimus, rivi, ymparisto, tx>>

SopimusRivi == [toimikunta : Toimikunnat, alkupvm : Paiva, loppupvm : Paiva,
                voimassa : BOOLEAN, poistettu : BOOLEAN]
LiitosRivi == [sopimus : Sopimukset, tutkintoversio : Versiot,
               alkupvm : Paiva, loppupvm : Paiva, poistettu : BOOLEAN]

ASSUME NilAssumption ==
  /\ Nil \notin Paivat \union Sopimukset \union SopimusRivi \union LiitosRivi
  /\ Pyynnot \intersect Eraajot = {}

Toiminto == {"ei", "paivita", "tutkinnot", "poista", "eraajo"}
Vaihe == {"vapaa", "tarkistus", "luku", "sopimus", "valinta", "rivit", "lisays",
          "paivat", "kirjaus", "voimassaolo", "valmis"}

Tx == [toiminto : Toiminto, vaihe : Vaihe,
       sopimus : Sopimukset \union {Nil},   \* the agreement it is working on
       lomake : SUBSET Versiot,             \* POST: the versions in the form
       rivit : SUBSET Rivit,                \* PUT: rows of the form still to write
       poistettavat : SUBSET Versiot,       \* POST: versions still to remove
       lisattavat : SUBSET Versiot,         \* POST: versions still to insert
       jono : SUBSET Sopimukset,            \* nightly run: agreements still to do
       kohde : SUBSET Rivit,                \* rows the current UPDATE is still to write
       luettu : Paiva \X Paiva,             \* first and last day, as computed
       sopimukset : [Sopimukset -> SopimusRivi \union {Nil}],  \* rows written
       liitokset : [Rivit -> LiitosRivi \union {Nil}]]

Vapaa == [toiminto |-> "ei", vaihe |-> "vapaa", sopimus |-> Nil, lomake |-> {},
          rivit |-> {}, poistettavat |-> {}, lisattavat |-> {}, jono |-> {},
          kohde |-> {}, luettu |-> <<Nil, Nil>>,
          sopimukset |-> [c \in Sopimukset |-> Nil],
          liitokset |-> [v \in Rivit |-> Nil]]

Init ==
  /\ sopimus = [c \in Sopimukset |-> Nil]
  /\ rivi = [v \in Rivit |-> Nil]
  /\ toimikausi \in [Toimikunnat -> Aikavalit]
  /\ siirtymaaika \in [Versiot -> Aikavalit]
  /\ tanaan \in Paivat
  /\ tx = [p \in Tapahtumat |-> Vapaa]

-----------------------------------------------------------------------------
(* What a transaction sees *)

\* The rows of uusi that are written, on top of vanha.
Paalle(uusi, vanha) == [x \in DOMAIN vanha |-> IF uusi[x] # Nil THEN uusi[x] ELSE vanha[x]]

OmatSopimukset(p) == Paalle(tx[p].sopimukset, sopimus)
OmatRivit(p) == Paalle(tx[p].liitokset, rivi)

\* Rows of sopimus_ja_tutkinto of agreement c, and those not marked removed.
SopimuksenRivit(R, c) == {v \in Rivit : R[v] # Nil /\ R[v].sopimus = c}
Liitokset(R, c) == {v \in SopimuksenRivit(R, c) : ~ R[v].poistettu}
LiitetytVersiot(R, c) == {R[v].tutkintoversio : v \in Liitokset(R, c)}

Olemassa(S, c) == S[c] # Nil /\ ~ S[c].poistettu

-----------------------------------------------------------------------------
(* The derived columns *)

Pienin(D) == CHOOSE d \in D : \A e \in D : d <= e
Suurin(D) == CHOOSE d \in D : \A e \in D : d >= e

\* Faulty: forgets the day the agreement has.
AlkupvmVainRiveista(S, R, c) ==
  LET paivat == {R[v].alkupvm : v \in Liitokset(R, c)} \ {Nil}
  IN  IF paivat = {} THEN Nil ELSE Pienin(paivat)

\* The first day: the earliest of the rows', and of the one the agreement has.
Alkupvm(S, R, c) ==
  LET paivat == ({R[v].alkupvm : v \in Liitokset(R, c)} \union {S[c].alkupvm}) \ {Nil}
  IN  IF paivat = {} THEN Nil ELSE Pienin(paivat)

\* The last day: the latest of the rows', unless one has none or there are none.
Loppupvm(R, c) ==
  LET paivat == {R[v].loppupvm : v \in Liitokset(R, c)}
  IN  IF paivat = {} \/ Nil \in paivat THEN Nil ELSE Suurin(paivat)

Sisaltaa(vali, pvm) == vali[1] <= pvm /\ pvm <= vali[2]

\* sopimus-voimassa?: the committee is in office, today is in the agreement's
\* period, and the agreement covers a valid version or none at all.
Voimassa(S, R, c) ==
  /\ ~ S[c].poistettu
  /\ Sisaltaa(toimikausi[S[c].toimikunta], tanaan)
  /\ S[c].alkupvm # Nil /\ S[c].alkupvm <= tanaan
  /\ S[c].loppupvm # Nil => tanaan <= S[c].loppupvm
  /\ LiitetytVersiot(R, c) # {} =>
       \E w \in LiitetytVersiot(R, c) : Sisaltaa(siirtymaaika[w], tanaan)

-----------------------------------------------------------------------------
(* Transactions *)

Peru(p) == tx' = [tx EXCEPT ![p] = Vapaa] /\ UNCHANGED <<sopimus, rivi, ymparisto>>

Siirry(p, uusi) == tx' = [tx EXCEPT ![p] = uusi] /\ UNCHANGED <<sopimus, rivi, ymparisto>>

SopimuksenHaltijat(p, c) == {q \in Tapahtumat \ {p} : tx[q].sopimukset[c] # Nil}
RivinHaltijat(p, v) == {q \in Tapahtumat \ {p} : tx[q].liitokset[v] # Nil}

\* Faulty: does not wait for the row lock.
KirjoitaOdottamatta(p, rivinArvo, vaihe) ==
  Siirry(p, [tx[p] EXCEPT !.sopimukset[tx[p].sopimus] = rivinArvo, !.vaihe = vaihe])

\* An UPDATE of the agreement waits for its row lock and changes the row it finds.
KirjoitaSopimus(p, rivinArvo, vaihe) ==
  LET c == tx[p].sopimus
  IN  /\ SopimuksenHaltijat(p, c) = {}
      /\ Siirry(p, [tx[p] EXCEPT !.sopimukset[c] = rivinArvo, !.vaihe = vaihe])

Vahvista(p) ==
  /\ tx[p].vaihe = "valmis"
  /\ sopimus' = OmatSopimukset(p)
  /\ rivi' = OmatRivit(p)
  /\ tx' = [tx EXCEPT ![p] = Vapaa]
  /\ UNCHANGED ymparisto

\* The holders p waits for; an UPDATE of several rows waits only when no row is left
\* that it could lock.
Odotettavat(p) ==
  CASE tx[p].vaihe \in {"sopimus", "kirjaus"} -> SopimuksenHaltijat(p, tx[p].sopimus)
    [] tx[p].vaihe = "rivit" ->
         LET haltijat == {RivinHaltijat(p, v) : v \in tx[p].kohde}
         IN  IF {} \in haltijat THEN {} ELSE UNION haltijat
    [] OTHER -> {}

\* Every member of S waits for a member of S and is waited for by one.
Lukkiumassa(S) ==
  \A q \in S : /\ Odotettavat(q) \intersect S # {}
               /\ \E p \in S : q \in Odotettavat(p)

-----------------------------------------------------------------------------
(* Requests come in *)

\* Faulty: does not compute the columns.
LisaaLaskematta(c, t) ==
  /\ sopimus[c] = Nil
  /\ sopimus' = [sopimus EXCEPT ![c] =
       [toimikunta |-> t, alkupvm |-> Nil, loppupvm |-> Nil,
        voimassa |-> Nil, poistettu |-> FALSE]]
  /\ UNCHANGED <<rivi, ymparisto, tx>>

\* POST /:tkunta, lisaa!: invisible to others until the commit.  No day is given, so
\* the agreement is not valid, whatever the form said.
Lisaa(c, t) ==
  /\ sopimus[c] = Nil
  /\ sopimus' = [sopimus EXCEPT ![c] =
       [toimikunta |-> t, alkupvm |-> Nil, loppupvm |-> Nil,
        voimassa |-> FALSE, poistettu |-> FALSE]]
  /\ UNCHANGED <<rivi, ymparisto, tx>>

Aloita(r, toiminto, c, lomake, rivit) ==
  /\ tx[r].vaihe = "vapaa"
  /\ Siirry(r, [Vapaa EXCEPT !.toiminto = toiminto, !.vaihe = "tarkistus",
                             !.sopimus = c, !.lomake = lomake, !.rivit = rivit])

\* A page may be out of date: agreements and rows it shows may have been removed.
Nakyneet == {c \in Sopimukset : sopimus[c] # Nil}

AloitaPaivitys(r) ==
  \E c \in Nakyneet : \E rivit \in SUBSET SopimuksenRivit(rivi, c) :
    Aloita(r, "paivita", c, {}, rivit)

AloitaTutkinnot(r) ==
  \E c \in Nakyneet, lomake \in SUBSET Versiot : Aloita(r, "tutkinnot", c, lomake, {})

AloitaPoisto(r) == \E c \in Nakyneet : Aloita(r, "poista", c, {}, {})

\* salli-sopimuksen-paivitys?: an agreement that is removed is refused, nothing else.
Tarkista(r) ==
  /\ tx[r].vaihe = "tarkistus"
  /\ IF Olemassa(sopimus, tx[r].sopimus)
       THEN Siirry(r, [tx[r] EXCEPT !.vaihe = IF tx[r].toiminto = "tutkinnot"
                                                THEN "luku" ELSE "sopimus"])
       ELSE Peru(r)

-----------------------------------------------------------------------------
(* The UPDATE of the agreement in each request *)

\* Faulty: leaves the column voimassa.
MerkitsePoistetuksiVoimaan(r) ==
  /\ tx[r].vaihe = "sopimus" /\ tx[r].toiminto = "poista"
  /\ KirjoitaSopimus(r, [OmatSopimukset(r)[tx[r].sopimus] EXCEPT !.poistettu = TRUE], "valinta")

\* merkitse-sopimus-poistetuksi!
MerkitsePoistetuksi(r) ==
  /\ tx[r].vaihe = "sopimus" /\ tx[r].toiminto = "poista"
  /\ KirjoitaSopimus(r, [OmatSopimukset(r)[tx[r].sopimus]
                           EXCEPT !.poistettu = TRUE, !.voimassa = FALSE], "valinta")

\* paivita!: the form's columns, the committee among them.
PaivitaSopimus(r) ==
  /\ tx[r].vaihe = "sopimus" /\ tx[r].toiminto = "paivita"
  /\ \E t \in Toimikunnat :
       KirjoitaSopimus(r, [OmatSopimukset(r)[tx[r].sopimus] EXCEPT !.toimikunta = t], "valinta")

\* Faulty: the agreement is not touched, so that its row is not locked.
KoskeSopimustaLukitsematta(r) ==
  /\ tx[r].vaihe = "sopimus" /\ tx[r].toiminto = "tutkinnot"
  /\ Siirry(r, [tx[r] EXCEPT !.vaihe = "lisays"])

\* poista-tutkinnot-sopimukselta!: muutettuaika, for the record of who did it.  The row
\* lock that comes with it is what orders two requests on one agreement.
KoskeSopimusta(r) ==
  /\ tx[r].vaihe = "sopimus" /\ tx[r].toiminto = "tutkinnot"
  /\ KirjoitaSopimus(r, OmatSopimukset(r)[tx[r].sopimus], "lisays")

-----------------------------------------------------------------------------
(* The rows of sopimus_ja_tutkinto *)

\* Faulty: inserts every version of the form.
LueTutkinnotVertaamatta(r) ==
  LET vanhat == LiitetytVersiot(rivi, tx[r].sopimus)
  IN  /\ tx[r].vaihe = "luku"
      /\ Siirry(r, [tx[r] EXCEPT !.poistettavat = vanhat \ tx[r].lomake,
                                 !.lisattavat = tx[r].lomake,
                                 !.lomake = {}, !.vaihe = "valinta"])

\* paivita-tutkinnot!: the versions to remove and to insert, from the rows as they are now.
LueTutkinnot(r) ==
  LET vanhat == LiitetytVersiot(rivi, tx[r].sopimus)
  IN  /\ tx[r].vaihe = "luku"
      /\ Siirry(r, [tx[r] EXCEPT !.poistettavat = vanhat \ tx[r].lomake,
                                 !.lisattavat = tx[r].lomake \ vanhat,
                                 !.lomake = {}, !.vaihe = "valinta"])

\* Faulty: DELETE goes no further than the agreement.
ValitsePoistettavatEiRiveja(r) ==
  /\ tx[r].vaihe = "valinta" /\ tx[r].toiminto = "poista"
  /\ Siirry(r, [tx[r] EXCEPT !.kohde = {}, !.vaihe = "rivit"])

\* The rows an UPDATE matches when it starts.  DELETE: those of the agreement.
ValitsePoistettavat(r) ==
  /\ tx[r].vaihe = "valinta" /\ tx[r].toiminto = "poista"
  /\ Siirry(r, [tx[r] EXCEPT !.kohde = SopimuksenRivit(OmatRivit(r), tx[r].sopimus),
                             !.vaihe = "rivit"])

\* POST: those of one version after the other, removed ones included.
ValitseVersionRivit(r) ==
  /\ tx[r].vaihe = "valinta" /\ tx[r].toiminto = "tutkinnot"
  /\ IF tx[r].poistettavat = {} THEN Siirry(r, [tx[r] EXCEPT !.vaihe = "sopimus"])
     ELSE \E w \in tx[r].poistettavat :
       Siirry(r, [tx[r] EXCEPT
         !.kohde = {v \in SopimuksenRivit(OmatRivit(r), tx[r].sopimus) :
                      OmatRivit(r)[v].tutkintoversio = w},
         !.poistettavat = @ \ {w}, !.vaihe = "rivit"])

\* PUT: one row of the form after the other, removed since or not.
ValitseLomakkeenRivi(r) ==
  /\ tx[r].vaihe = "valinta" /\ tx[r].toiminto = "paivita"
  /\ IF tx[r].rivit = {} THEN Siirry(r, [tx[r] EXCEPT !.vaihe = "paivat"])
     ELSE \E v \in tx[r].rivit :
       Siirry(r, [tx[r] EXCEPT !.kohde = {v}, !.rivit = @ \ {v}, !.vaihe = "rivit"])

\* After an UPDATE of rows.
RivienJalkeen(r) == IF tx[r].toiminto = "poista" THEN "valmis" ELSE "valinta"

\* It takes its rows one by one: it waits for the lock of a row and changes the row it
\* finds.
KirjoitaRivi(r, v, uusi) ==
  /\ RivinHaltijat(r, v) = {}
  /\ Siirry(r, [tx[r] EXCEPT !.liitokset[v] = uusi, !.kohde = @ \ {v},
                             !.vaihe = IF tx[r].kohde = {v} THEN RivienJalkeen(r) ELSE @])

PoistaRivi(r) ==
  /\ tx[r].vaihe = "rivit" /\ tx[r].toiminto \in {"poista", "tutkinnot"}
  /\ \E v \in tx[r].kohde :
       KirjoitaRivi(r, v, [OmatRivit(r)[v] EXCEPT !.poistettu = TRUE])

\* validoi-alkupvm-sama-tai-ennen-loppupvm, checked by PUT only.
KelvotJaksot == {j \in Jaksot : j[2] # Nil => j[1] # Nil /\ j[1] <= j[2]}

\* Faulty: writes the row back as the page had it.
PaivitaRiviKokonaan(r) ==
  /\ tx[r].vaihe = "rivit" /\ tx[r].toiminto = "paivita"
  /\ \E v \in tx[r].kohde, j \in KelvotJaksot :
       KirjoitaRivi(r, v, [OmatRivit(r)[v] EXCEPT !.alkupvm = j[1], !.loppupvm = j[2],
                                                  !.poistettu = FALSE])

\* paivitettava-sopimus-ja-tutkinto: the columns of the form.
PaivitaRivi(r) ==
  /\ tx[r].vaihe = "rivit" /\ tx[r].toiminto = "paivita"
  /\ \E v \in tx[r].kohde, j \in KelvotJaksot :
       KirjoitaRivi(r, v, [OmatRivit(r)[v] EXCEPT !.alkupvm = j[1], !.loppupvm = j[2]])

\* No row matches.
EiRiveja(r) ==
  /\ tx[r].vaihe = "rivit" /\ tx[r].kohde = {}
  /\ Siirry(r, [tx[r] EXCEPT !.vaihe = RivienJalkeen(r)])

\* Row identities no transaction has taken from the sequence.
VapaatRivit ==
  {v \in Rivit : rivi[v] = Nil /\ \A q \in Tapahtumat : tx[q].liitokset[v] = Nil}

\* Faulty: commits without computing the period again.
LisaaTutkinnotLaskematta(r) ==
  /\ tx[r].vaihe = "lisays"
  /\ IF tx[r].lisattavat = {} THEN Siirry(r, [tx[r] EXCEPT !.vaihe = "valmis"])
     ELSE \E w \in tx[r].lisattavat, v \in VapaatRivit, j \in Jaksot :
       Siirry(r, [tx[r] EXCEPT
         !.liitokset[v] = [sopimus |-> tx[r].sopimus, tutkintoversio |-> w,
                           alkupvm |-> j[1], loppupvm |-> j[2], poistettu |-> FALSE],
         !.lisattavat = @ \ {w}])

\* lisaa-tutkinnot-sopimukselle!: one INSERT per version, with days nobody checks.
LisaaTutkinnot(r) ==
  /\ tx[r].vaihe = "lisays"
  /\ IF tx[r].lisattavat = {} THEN Siirry(r, [tx[r] EXCEPT !.vaihe = "paivat"])
     ELSE \E w \in tx[r].lisattavat, v \in VapaatRivit, j \in Jaksot :
       Siirry(r, [tx[r] EXCEPT
         !.liitokset[v] = [sopimus |-> tx[r].sopimus, tutkintoversio |-> w,
                           alkupvm |-> j[1], loppupvm |-> j[2], poistettu |-> FALSE],
         !.lisattavat = @ \ {w}])

\* Bound: when the model has run out of row identities, the INSERT fails.
LisaysKaatuu(r) ==
  /\ tx[r].vaihe = "lisays"
  /\ tx[r].lisattavat # {} /\ VapaatRivit = {}
  /\ Peru(r)

-----------------------------------------------------------------------------
(* paivita-sopimuksen-voimassaolo!  POST runs it twice in a row with the agreement *)
(* locked; the second time finds what the first has written and is left out.      *)

\* The two queries are one step: a commit between them could only move the agreement's
\* own first day earlier, and the nightly run is the only one to read it unlocked.
LuePaivat(p) ==
  /\ tx[p].vaihe = "paivat" /\ tx[p].sopimus # Nil
  /\ Siirry(p, [tx[p] EXCEPT
       !.luettu = <<Alkupvm(OmatSopimukset(p), OmatRivit(p), tx[p].sopimus),
                    Loppupvm(OmatRivit(p), tx[p].sopimus)>>,
       !.vaihe = "kirjaus"])

\* The days read before the UPDATE are written to the row found by it.
KirjaaPaivat(p) ==
  /\ tx[p].vaihe = "kirjaus"
  /\ KirjoitaSopimus(p, [OmatSopimukset(p)[tx[p].sopimus]
                           EXCEPT !.alkupvm = tx[p].luettu[1], !.loppupvm = tx[p].luettu[2]],
                     "voimassaolo")

Voimassaoloon(p, arvo) ==
  Siirry(p, [tx[p] EXCEPT !.sopimukset[tx[p].sopimus].voimassa = arvo,
                          !.luettu = <<Nil, Nil>>,
                          !.vaihe = IF tx[p].toiminto = "eraajo" THEN "paivat" ELSE "valmis",
                          !.sopimus = IF tx[p].toiminto = "eraajo" THEN Nil ELSE @])

\* The agreement is locked by now, so the query and the UPDATE are one step.
AsetaVoimassaolo(p) ==
  /\ tx[p].vaihe = "voimassaolo"
  /\ Olemassa(OmatSopimukset(p), tx[p].sopimus)
  /\ Voimassaoloon(p, Voimassa(OmatSopimukset(p), OmatRivit(p), tx[p].sopimus))

\* The query leaves out removed agreements: there is then no committee whose days
\* could be compared, and the comparison of a missing day (a function of another
\* repository) either is false or throws.
AsetaPoistetunVoimassaolo(p) ==
  /\ tx[p].vaihe = "voimassaolo"
  /\ ~ Olemassa(OmatSopimukset(p), tx[p].sopimus)
  /\ Voimassaoloon(p, FALSE) \/ Peru(p)

-----------------------------------------------------------------------------
(* The nightly run: the agreements not removed when it starts, in any order *)

\* Faulty: only the agreements that are valid now.
AloitaEraajoVoimassaolevista(e) ==
  /\ tx[e].vaihe = "vapaa"
  /\ Siirry(e, [Vapaa EXCEPT !.toiminto = "eraajo", !.vaihe = "paivat",
       !.jono = {c \in Sopimukset : Olemassa(sopimus, c) /\ sopimus[c].voimassa}])

AloitaEraajo(e) ==
  /\ tx[e].vaihe = "vapaa"
  /\ Siirry(e, [Vapaa EXCEPT !.toiminto = "eraajo", !.vaihe = "paivat",
                             !.jono = {c \in Sopimukset : Olemassa(sopimus, c)}])

SeuraavaSopimus(e) ==
  /\ tx[e].vaihe = "paivat" /\ tx[e].sopimus = Nil
  /\ IF tx[e].jono = {} THEN Siirry(e, [tx[e] EXCEPT !.vaihe = "valmis"])
     ELSE \E c \in tx[e].jono :
       Siirry(e, [tx[e] EXCEPT !.sopimus = c, !.jono = @ \ {c}])

-----------------------------------------------------------------------------
(* What happens around the agreements *)

PaivaVaihtuu ==
  /\ tanaan + 1 \in Paivat
  /\ tanaan' = tanaan + 1
  /\ UNCHANGED <<sopimus, rivi, toimikausi, siirtymaaika, tx>>

\* PUT /ttk/:diaarinumero changes a term of office that has not ended.
MuutaToimikausi(t, vali) ==
  /\ tanaan <= toimikausi[t][2]
  /\ toimikausi' = [toimikausi EXCEPT ![t] = vali]
  /\ UNCHANGED <<sopimus, rivi, siirtymaaika, tanaan, tx>>

\* The update from ePerusteet changes a transition period.
PaivitaPeruste(w, vali) ==
  /\ siirtymaaika' = [siirtymaaika EXCEPT ![w] = vali]
  /\ UNCHANGED <<sopimus, rivi, toimikausi, tanaan, tx>>

\* The connection is lost, the server is restarted, a statement fails for a reason
\* outside this model: PostgreSQL rolls the transaction back.
Keskeytys(p) == tx[p].vaihe # "vapaa" /\ Peru(p)

\* PostgreSQL finds a cycle of waiting transactions and aborts one of them.
Lukkiuma(p) ==
  /\ \E S \in SUBSET Tapahtumat : p \in S /\ Lukkiumassa(S)
  /\ Peru(p)

-----------------------------------------------------------------------------

\* The steps the server and the database take by themselves.
Palvele(p) ==
  \/ Tarkista(p) \/ LueTutkinnot(p)
  \/ MerkitsePoistetuksi(p) \/ PaivitaSopimus(p) \/ KoskeSopimusta(p)
  \/ ValitsePoistettavat(p) \/ ValitseVersionRivit(p) \/ ValitseLomakkeenRivi(p)
  \/ PoistaRivi(p) \/ PaivitaRivi(p) \/ EiRiveja(p) \/ LisaaTutkinnot(p) \/ LisaysKaatuu(p)
  \/ LuePaivat(p) \/ KirjaaPaivat(p)
  \/ AsetaVoimassaolo(p) \/ AsetaPoistetunVoimassaolo(p)
  \/ SeuraavaSopimus(p) \/ Vahvista(p)

Ymparisto ==
  \/ PaivaVaihtuu
  \/ \E vali \in Aikavalit :
       \/ \E t \in Toimikunnat : MuutaToimikausi(t, vali)
       \/ \E w \in Versiot : PaivitaPeruste(w, vali)

Next ==
  \/ \E c \in Sopimukset, t \in Toimikunnat : Lisaa(c, t)
  \/ \E r \in Pyynnot : AloitaPaivitys(r) \/ AloitaTutkinnot(r) \/ AloitaPoisto(r)
  \/ \E e \in Eraajot : AloitaEraajo(e)
  \/ \E p \in Tapahtumat : Palvele(p) \/ Lukkiuma(p) \/ Keskeytys(p)
  \/ Ymparisto

Spec == Init /\ [][Next]_vars

\* A transaction that can go on does, row locks are granted in the order they were
\* asked for, deadlocks are found, and the scheduler starts the run again and again.
FairSpec ==
  /\ Spec
  /\ \A p \in Tapahtumat : SF_vars(Palvele(p)) /\ WF_vars(Lukkiuma(p))
  /\ \A e \in Eraajot : WF_vars(AloitaEraajo(e))

-----------------------------------------------------------------------------
(* Properties *)

\* Every variable holds a value its column or transaction may hold.
TyyppiOK ==
  /\ sopimus \in [Sopimukset -> SopimusRivi \union {Nil}]
  /\ rivi \in [Rivit -> LiitosRivi \union {Nil}]
  /\ toimikausi \in [Toimikunnat -> Aikavalit]
  /\ siirtymaaika \in [Versiot -> Aikavalit]
  /\ tanaan \in Paivat
  /\ tx \in [Tapahtumat -> Tx]

\* What the requests and the nightly run take for granted of each other.  No two POSTs of
\* versions, and no such POST and DELETE, are under way on one agreement; and no request
\* on an agreement whose days a nightly run has read but not yet written.
LisayksetErillaan ==
  \A q, r \in Pyynnot :
    q # r /\ tx[q].toiminto = "tutkinnot" /\ tx[r].toiminto = "tutkinnot" =>
      tx[q].sopimus # tx[r].sopimus
PoistotErillaan ==
  \A q, r \in Pyynnot :
    tx[q].toiminto = "poista" /\ tx[r].toiminto = "tutkinnot" => tx[q].sopimus # tx[r].sopimus
LuennatErillaan ==
  \A e \in Eraajot, r \in Pyynnot : tx[e].vaihe = "kirjaus" => tx[r].sopimus # tx[e].sopimus

EiMyohemmin(uusi, vanha) == vanha # Nil => uusi # Nil /\ uusi <= vanha

\* The period alku..loppu is that of the rows of agreement c: it begins no later than
\* any of them and ends with the last one, or not at all.
Kattaa(alku, loppu, R, c) ==
  LET loput == {R[v].loppupvm : v \in Liitokset(R, c)}
  IN  /\ \A v \in Liitokset(R, c) : EiMyohemmin(alku, R[v].alkupvm)
      /\ loppu = Nil <=> loput = {} \/ Nil \in loput
      /\ loppu # Nil => loppu \in loput /\ \A d \in loput : d <= loppu

PaivatOikein(c) == Kattaa(sopimus[c].alkupvm, sopimus[c].loppupvm, rivi, c)

\* The period of an agreement, as committed, is that of its rows, whatever requests
\* race on them: a POST that writes rows before it locks the agreement included.  The
\* nightly run reads the days without a lock, so LuennatErillaan is needed.
PaivatRiveista == \A c \in Sopimukset : Olemassa(sopimus, c) => PaivatOikein(c)

\* Nightly runs that race with it do not keep a request from leaving the period of its
\* agreement right when it commits: it holds the lock from its last UPDATE of the days on.
PyyntoKorjaaPaivat ==
  [][\A r \in Pyynnot, c \in Sopimukset :
       Vahvista(r) /\ tx[r].sopimus = c /\ tx[r].toiminto # "poista" => PaivatOikein(c)']_vars

\* A removed agreement is never valid, as the table's CHECK demands, although
\* requests and nightly runs that began before the removal recompute the column.
PoistettuEiVoimassa ==
  \A c \in Sopimukset : sopimus[c] # Nil => ~ (sopimus[c].voimassa /\ sopimus[c].poistettu)

\* The state and the validity of each agreement, as module Sopimuselinkaari has them.
tilat == [c \in Sopimukset |-> IF sopimus[c] = Nil THEN "ei_luotu"
                               ELSE IF sopimus[c].poistettu THEN "poistettu" ELSE "kaytossa"]
voimassaolot == [c \in Sopimukset |-> sopimus[c] # Nil /\ sopimus[c].voimassa]

Elinkaari == INSTANCE Sopimuselinkaari WITH
  Sopimukset <- Sopimukset, tila <- tilat, voimassa <- voimassaolot

\* A removal is final: requests and nightly runs that read the agreement before it and
\* write it later neither bring it back nor make it valid, and none but its own DELETE
\* removes it.
ToteuttaaSopimuselinkaaren == Elinkaari!Spec

\* An agreement covers a version at most once, when no two POSTs of versions are under
\* way on it: nothing but paivita-tutkinnot!'s own comparison keeps a version from being
\* added again.
EiKahdesti ==
  \A c \in Sopimukset : \A v, w \in Liitokset(rivi, c) :
    rivi[v].tutkintoversio = rivi[w].tutkintoversio => v = w

\* A removed agreement keeps no rows, when no POST of versions and DELETE of it overlap.
PoistetullaEiRiveja ==
  \A c \in Sopimukset :
    sopimus[c] # Nil /\ sopimus[c].poistettu => Liitokset(rivi, c) = {}

\* A row of an agreement that is removed stays removed, and stays a row of that agreement
\* and version: PUT writes the rows its page had, also those that a POST of versions or a
\* DELETE has removed since or removes while it waits for their locks.
PoistettuRiviPysyy ==
  [][\A v \in Rivit : rivi[v] # Nil =>
       /\ rivi'[v] # Nil
       /\ rivi'[v].sopimus = rivi[v].sopimus /\ rivi'[v].tutkintoversio = rivi[v].tutkintoversio
       /\ rivi[v].poistettu => rivi'[v].poistettu]_vars

\* A day an agreement begins is never put off: it moves earlier or stays.  This too
\* needs LuennatErillaan.
AlkuEiSiirryEteenpain ==
  [][\A c \in Sopimukset :
       sopimus[c] # Nil => EiMyohemmin(sopimus'[c].alkupvm, sopimus[c].alkupvm)]_vars

\* Only transactions under way and nightly runs take steps from some time on.
Rauhoittuu ==
  <>[][\/ \E e \in Eraajot : AloitaEraajo(e)
       \/ \E p \in Tapahtumat : Palvele(p) \/ Lukkiuma(p)]_vars

\* The column voimassa is what the rules say of the day, the term of office and the
\* transition periods as they are now.
VoimassaOikein(c) == sopimus[c].voimassa = Voimassa(sopimus, rivi, c)

\* When nobody asks for anything any more, the nightly run makes voimassa what the
\* rules say of the day, the term of office and the transition periods, and the
\* period that of the rows, however the last requests and runs overlapped.
EraajoKorjaa ==
  Rauhoittuu =>
    \A c \in Sopimukset :
      <>[](Olemassa(sopimus, c) => PaivatOikein(c) /\ VoimassaOikein(c))
-----------------------------------------------------------------------------
(* The inductive invariant *)

\* Row locks exclude each other: no row has been written by two transactions.
LukotOK ==
  \A p, q \in Tapahtumat : p # q =>
    /\ \A c \in Sopimukset : tx[p].sopimukset[c] = Nil \/ tx[q].sopimukset[c] = Nil
    /\ \A v \in Rivit : tx[p].liitokset[v] = Nil \/ tx[q].liitokset[v] = Nil

\* Foreign keys, and what transaction t has read or written: agreements that exist,
\* and rows of the agreement it is working on.
RivienSopimukset == \A v \in Rivit : rivi[v] # Nil => sopimus[rivi[v].sopimus] # Nil
KohteetOK(t) ==
  /\ t.sopimus # Nil => sopimus[t.sopimus] # Nil
  /\ \A c \in Sopimukset : c \in t.jono \/ t.sopimukset[c] # Nil => sopimus[c] # Nil
  /\ \A v \in t.rivit \union t.kohde : v \in SopimuksenRivit(Paalle(t.liitokset, rivi), t.sopimus)
  /\ \A v \in Rivit : t.liitokset[v] # Nil =>
       /\ t.liitokset[v].sopimus = t.sopimus
       /\ rivi[v] # Nil => rivi[v].sopimus = t.sopimus

\* Where transaction t of p can be; from which statement on it holds the lock of its
\* agreement, which no request releases before it ends.
LukkoPidossa(t) ==
  \/ t.vaihe \in {"lisays", "kirjaus", "voimassaolo", "paivat", "valmis"}
  \/ t.vaihe \in {"valinta", "rivit"} /\ t.toiminto \in {"paivita", "poista"}
VaiheOK(p, t) ==
  /\ p \in Pyynnot => t.toiminto # "eraajo"
  /\ t.vaihe # "vapaa" => t.toiminto # "ei"
  /\ t.vaihe \in {"luku", "lisays"} => t.toiminto = "tutkinnot"
  /\ t.vaihe \in {"paivat", "kirjaus", "voimassaolo"} => t.toiminto # "poista"
  /\ t.vaihe \in {"kirjaus", "voimassaolo"} => t.sopimus # Nil
  /\ t.vaihe = "voimassaolo" => t.sopimukset[t.sopimus] # Nil
  /\ t.toiminto \notin {"ei", "eraajo"} =>
       /\ t.sopimus # Nil
       /\ \A c \in Sopimukset : t.sopimukset[c] # Nil => c = t.sopimus
       /\ LukkoPidossa(t) => t.sopimukset[t.sopimus] # Nil
  /\ t.toiminto = "poista" /\ LukkoPidossa(t) => t.sopimukset[t.sopimus].poistettu
  /\ t.toiminto = "eraajo" =>
       /\ t.vaihe \in {"paivat", "kirjaus", "voimassaolo", "valmis"}
       /\ t.rivit = {} /\ t.kohde = {}
       /\ \A v \in Rivit : t.liitokset[v] = Nil

\* What a request has computed holds of what it sees until it ends, and its rows of
\* agreements keep the CHECK and begin no later than the ones they replace.
KirjoituksetOK(t) ==
  LET c == t.sopimus
      R == Paalle(t.liitokset, rivi)
      pyynto == t.toiminto \notin {"ei", "eraajo"}
  IN  /\ \A d \in Sopimukset : t.sopimukset[d] # Nil =>
           /\ ~ (t.sopimukset[d].voimassa /\ t.sopimukset[d].poistettu)
           /\ pyynto => EiMyohemmin(t.sopimukset[d].alkupvm, sopimus[d].alkupvm)
      /\ pyynto /\ t.vaihe = "kirjaus" =>
           /\ EiMyohemmin(t.luettu[1], sopimus[c].alkupvm)
           /\ Kattaa(t.luettu[1], t.luettu[2], R, c)
      /\ pyynto /\ t.toiminto # "poista" /\ t.vaihe \in {"voimassaolo", "valmis"} =>
           Kattaa(t.sopimukset[c].alkupvm, t.sopimukset[c].loppupvm, R, c)

TapahtumaOK(p, t) == KohteetOK(t) /\ VaiheOK(p, t) /\ KirjoituksetOK(t)

\* What the theorems about the module rest on: locks, transactions and tables agree,
\* with any number of requests and nightly runs.
Induktiivinen ==
  /\ TyyppiOK /\ LukotOK /\ RivienSopimukset /\ PoistettuEiVoimassa
  /\ \A p \in Tapahtumat : TapahtumaOK(p, tx[p])
=============================================================================
