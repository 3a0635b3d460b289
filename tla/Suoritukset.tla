----------------------------- MODULE Suoritukset -----------------------------
(***************************************************************************)
(* The register of performance records: rest_api/suoritus.clj on top of    *)
(* infra/suoritus_arkisto.clj and the tables suorituskerta, suoritus,      *)
(* tutkintosuoritus and suorituskerta_arvioija.                            *)
(*                                                                         *)
(* Every REST request is one database transaction run by a thread of the   *)
(* server.  PostgreSQL runs it at READ COMMITTED: a SELECT sees what is    *)
(* committed when it starts, an UPDATE or DELETE waits for the lock of     *)
(* each row it matches and evaluates its WHERE again on the row it finds   *)
(* after the wait.  The tables below hold the committed rows; a request    *)
(* collects locks statement by statement and its writes become visible in  *)
(* one commit step.                                                        *)
(*                                                                         *)
(* The import of a spreadsheet (excel-lataus), which writes to the same    *)
(* tables, is not in this module.                                          *)
(***************************************************************************)
EXTENDS Naturals

CONSTANTS Pyynnot,   \* requests being served (threads of the server)
          Kerrat,    \* suorituskerta_id values the sequence can hand out
          Osat,      \* suoritus_id values the sequence can hand out
          Rivit,     \* rows of suorituskerta_arvioija (assessor of a record)
          Sisallot,  \* the remaining columns of suorituskerta, as one value
          Paivat,    \* dates and times of ehdotusaika and hyvaksymisaika
          Nil        \* the SQL null; also "no row", "no holder"

ASSUME NilAssumption == Nil \notin Pyynnot \union Kerrat \union Paivat

VARIABLES tila,             \* suorituskerta.tila; ei_luotu/poistettu: no row
          ehdotusaika,      \* suorituskerta.ehdotusaika
          hyvaksymisaika,   \* suorituskerta.hyvaksymisaika
          sisalto,          \* the other columns of suorituskerta
          osanKerta,        \* suoritus.suorituskerta; Nil: no such row
          kaytetyt,         \* suoritus_id values already handed out
          kokotutkinto,     \* rows of suoritus with kokotutkinto = true
          tutkintosuoritus, \* suoritus_id values a row of tutkintosuoritus has
          rivinKerta,       \* suorituskerta_arvioija.suorituskerta_id, or Nil
          kertaLukko,       \* holder of the row lock of a suorituskerta row
          rivinLukko,       \* holder of the row lock of an assessor row
          tx                \* the transaction of each request

kertaVars == <<tila, ehdotusaika, hyvaksymisaika, sisalto>>
osaVars == <<osanKerta, kaytetyt, kokotutkinto, tutkintosuoritus>>
tietokanta == <<kertaVars, osaVars, rivinKerta>>
lukot == <<kertaLukko, rivinLukko>>
vars == <<tietokanta, lukot, tx>>

Kirjattu == {"luonnos", "ehdotettu", "hyvaksytty"}
Tila == Kirjattu \union {"ei_luotu", "poistettu"}

\* What a request does, and the statement its transaction is about to run.
Siirto == {"laheta", "hyvaksy", "palauta"}
Toiminto == Siirto \union {"muokkaa", "poista", "ei"}
Vaihe == {"vapaa", "tarkistus", "lukitus", "arvioijat", "arvioijaLukot", "tallennus"}

Tx == [toiminto : Toiminto, vaihe : Vaihe,
       kohde : SUBSET Kerrat,        \* the records named by the request
       lomake : SUBSET Osat,         \* suoritus_id values in the edit form
       kasitellyt : SUBSET Kerrat,   \* records the current UPDATE/DELETE is done with
       poistettavat : SUBSET Rivit]  \* assessor rows the DELETE of them matches

Vapaa == [toiminto |-> "ei", vaihe |-> "vapaa", kohde |-> {}, lomake |-> {},
          kasitellyt |-> {}, poistettavat |-> {}]

Init ==
  /\ tila = [k \in Kerrat |-> "ei_luotu"]
  /\ ehdotusaika = [k \in Kerrat |-> Nil]
  /\ hyvaksymisaika = [k \in Kerrat |-> Nil]
  /\ sisalto = [k \in Kerrat |-> Nil]
  /\ osanKerta = [o \in Osat |-> Nil]
  /\ kaytetyt = {}
  /\ kokotutkinto = {}
  /\ tutkintosuoritus = {}
  /\ rivinKerta = [v \in Rivit |-> Nil]
  /\ kertaLukko = [k \in Kerrat |-> Nil]
  /\ rivinLukko = [v \in Rivit |-> Nil]
  /\ tx = [r \in Pyynnot |-> Vapaa]

-----------------------------------------------------------------------------
(* Reading the tables *)

Kirjatut == {k \in Kerrat : tila[k] \in Kirjattu}
KerranOsat(k) == {o \in Osat : osanKerta[o] = k}
KerranRivit(k) == {v \in Rivit : rivinKerta[v] = k}

\* Row identities free for an insert: in no table and in no running DELETE.
VapaatRivit ==
  {v \in Rivit : rivinKerta[v] = Nil /\ \A r \in Pyynnot : v \notin tx[r].poistettavat}

\* f with the value at every element of D replaced by v.
Korvaa(f, D, v) == [x \in DOMAIN f |-> IF x \in D THEN v ELSE f[x]]

\* The records request r holds the row lock of.
Lukitut(r) == {k \in Kerrat : kertaLukko[k] = r}

-----------------------------------------------------------------------------
(* Transactions *)

\* Faulty: keeps the locks of the assessor rows.
PaataArvioijaLukotJaavat(r) ==
  /\ kertaLukko' = [k \in Kerrat |-> IF kertaLukko[k] = r THEN Nil ELSE kertaLukko[k]]
  /\ UNCHANGED rivinLukko
  /\ tx' = [tx EXCEPT ![r] = Vapaa]

\* The end of a transaction, committed or rolled back: its locks are released.
Paata(r) ==
  /\ kertaLukko' = [k \in Kerrat |-> IF kertaLukko[k] = r THEN Nil ELSE kertaLukko[k]]
  /\ rivinLukko' = [v \in Rivit |-> IF rivinLukko[v] = r THEN Nil ELSE rivinLukko[v]]
  /\ tx' = [tx EXCEPT ![r] = Vapaa]

Peru(r) == Paata(r) /\ UNCHANGED tietokanta

Etene(r, vaihe) ==
  /\ tx' = [tx EXCEPT ![r].vaihe = vaihe]
  /\ UNCHANGED <<tietokanta, lukot>>

\* Requests r waits for: the holders of the row locks its statement needs.  A
\* statement on several rows waits only when no row is left that it could lock.
Odotettavat(r) ==
  CASE tx[r].vaihe = "lukitus" ->
         LET jaljella == tx[r].kohde \ tx[r].kasitellyt
             haltijat == {kertaLukko[k] : k \in jaljella}
         IN  IF Nil \in haltijat THEN {} ELSE haltijat \ {r}
    [] tx[r].vaihe = "arvioijaLukot" ->
         LET haltijat == {rivinLukko[v] : v \in tx[r].poistettavat} \ {r}
         IN  IF Nil \in haltijat THEN {} ELSE haltijat
    [] OTHER -> {}

\* Every member of S waits for a member of S and is waited for by one.
Lukkiumassa(S) ==
  \A q \in S : /\ Odotettavat(q) \intersect S # {}
               /\ \E p \in S : q \in Odotettavat(p)

-----------------------------------------------------------------------------
(* POST / without an identifier: lisaa!  The new rows are invisible to every *)
(* other transaction until the commit, so the request is a single step.      *)

Lisaa(k, uudet, koko, rivit, s) ==
  /\ tila[k] = "ei_luotu"
  /\ uudet \subseteq Osat \ kaytetyt /\ uudet # {}
  /\ koko \subseteq uudet
  /\ rivit \subseteq VapaatRivit
  /\ tila' = [tila EXCEPT ![k] = "luonnos"]
  /\ sisalto' = [sisalto EXCEPT ![k] = s]
  /\ osanKerta' = Korvaa(osanKerta, uudet, k)
  /\ kaytetyt' = kaytetyt \union uudet
  /\ kokotutkinto' = kokotutkinto \union koko
  /\ tutkintosuoritus' = tutkintosuoritus \union koko
  /\ rivinKerta' = Korvaa(rivinKerta, rivit, k)
  /\ UNCHANGED <<ehdotusaika, hyvaksymisaika, lukot, tx>>

-----------------------------------------------------------------------------
(* The requests on existing records *)

\* The records a page may still show: those that exist or have existed.
Nakyneet == {k \in Kerrat : tila[k] # "ei_luotu"}

Aloita(r, toiminto, vaihe, K, lomake) ==
  /\ tx[r].vaihe = "vapaa"
  /\ tx' = [tx EXCEPT ![r] = [Vapaa EXCEPT !.toiminto = toiminto, !.vaihe = vaihe,
                                           !.kohde = K, !.lomake = lomake]]
  /\ UNCHANGED <<tietokanta, lukot>>

AloitaPoisto(r) ==
  \E k \in Nakyneet : Aloita(r, "poista", "tarkistus", {k}, {})

\* The form lists rows of the record, some of which may be gone by now; at
\* least one row is kept (the page does not save an empty list, and the
\* condition "not in ()" is not built).
AloitaMuokkaus(r) ==
  \E k \in Nakyneet :
    \E lomake \in SUBSET {o \in kaytetyt : osanKerta[o] \in {k, Nil}} \ {{}} :
      Aloita(r, "muokkaa", "tarkistus", {k}, lomake)

AloitaSiirto(r) ==
  \E K \in SUBSET Nakyneet \ {{}} :
    \/ Aloita(r, "hyvaksy", "tarkistus", K, {})
    \/ Aloita(r, "laheta", "lukitus", K, {})
    \/ Aloita(r, "palauta", "lukitus", K, {})

\* Faulty: refuses approved records only.
muokkaus_sallittu_ehdotetulle(k) ==
  tila[k] \in {"luonnos", "ehdotettu"}

\* muokkaus-sallittu? of one record: a record that is gone is refused too.
muokkaus_sallittu(k) == tila[k] = "luonnos"

\* Faulty: one draft among the records is enough.
muokkaus_sallittu_jollekin(K) ==
  \E k \in K : tila[k] = "luonnos"

\* muokkaus-sallittu-kaikille?: identifiers without a row are not looked at.
muokkaus_sallittu_kaikille(K) == \A k \in K \intersect Kirjatut : tila[k] = "luonnos"

\* Faulty: an edit starts with the assessors.
TarkistaYksiEiPaivitysta(r) ==
  /\ tx[r].vaihe = "tarkistus" /\ tx[r].toiminto \in {"poista", "muokkaa"}
  /\ IF \A k \in tx[r].kohde : muokkaus_sallittu(k) THEN Etene(r, "arvioijat") ELSE Peru(r)

\* A request whose check fails is answered 403 and its transaction ends.
TarkistaYksi(r) ==
  /\ tx[r].vaihe = "tarkistus" /\ tx[r].toiminto \in {"poista", "muokkaa"}
  /\ IF \A k \in tx[r].kohde : muokkaus_sallittu(k)
       THEN Etene(r, IF tx[r].toiminto = "poista" THEN "arvioijat" ELSE "lukitus")
       ELSE Peru(r)

TarkistaKaikki(r) ==
  /\ tx[r].vaihe = "tarkistus" /\ tx[r].toiminto = "hyvaksy"
  /\ IF muokkaus_sallittu_kaikille(tx[r].kohde) THEN Etene(r, "lukitus") ELSE Peru(r)

-----------------------------------------------------------------------------
(* The UPDATE or DELETE of suorituskerta *)

Kasitelty(r, k) == [tx EXCEPT ![r].kasitellyt = @ \union {k}]

\* Faulty: DELETE without the condition on tila.
TasmaaTilastaRiippumatta(r, k) ==
  tila[k] \in Kirjattu

\* The WHERE of the statement, evaluated on the row as it is once the lock is free.
Tasmaa(r, k) ==
  IF tx[r].toiminto = "poista" THEN tila[k] = "luonnos" ELSE tila[k] \in Kirjattu

\* A matching row is locked; one that does not match (any more) is passed over.
LukitseKerta(r, k) ==
  /\ tx[r].vaihe = "lukitus"
  /\ k \in tx[r].kohde \ tx[r].kasitellyt
  /\ kertaLukko[k] = Nil
  /\ kertaLukko' = IF Tasmaa(r, k) THEN [kertaLukko EXCEPT ![k] = r] ELSE kertaLukko
  /\ tx' = Kasitelty(r, k)
  /\ UNCHANGED <<tietokanta, rivinLukko>>

Kasitellyt(r) == tx[r].vaihe = "lukitus" /\ tx[r].kasitellyt = tx[r].kohde

-----------------------------------------------------------------------------
(* The DELETE of suorituskerta_arvioija, run by DELETE / and by an edit *)

\* The statement sees the rows that are committed when it starts.
ValitseArvioijat(r) ==
  /\ tx[r].vaihe = "arvioijat"
  /\ tx' = [tx EXCEPT ![r].vaihe = "arvioijaLukot",
                      ![r].poistettavat = {v \in Rivit : rivinKerta[v] \in tx[r].kohde}]
  /\ UNCHANGED <<tietokanta, lukot>>

\* It takes the rows one by one: a row that is gone when its lock is free is passed over.
LukitseArvioija(r, v) ==
  /\ tx[r].vaihe = "arvioijaLukot"
  /\ v \in tx[r].poistettavat /\ rivinLukko[v] = Nil
  /\ IF rivinKerta[v] = Nil
       THEN /\ tx' = [tx EXCEPT ![r].poistettavat = @ \ {v}]
            /\ UNCHANGED rivinLukko
       ELSE /\ rivinLukko' = [rivinLukko EXCEPT ![v] = r]
            /\ UNCHANGED tx
  /\ UNCHANGED <<tietokanta, kertaLukko>>

\* All are locked: DELETE / goes on with the record, an edit with its units.
ArvioijatLukittu(r) ==
  /\ tx[r].vaihe = "arvioijaLukot"
  /\ \A v \in tx[r].poistettavat : rivinLukko[v] = r
  /\ Etene(r, IF tx[r].toiminto = "poista" THEN "lukitus" ELSE "tallennus")

-----------------------------------------------------------------------------
(* Commits *)

\* Faulty: a state the column may not hold.
LahetaVaaraanTilaan(r, pvm) ==
  /\ Kasitellyt(r) /\ tx[r].toiminto = "laheta"
  /\ tila' = Korvaa(tila, Lukitut(r), "lahetetty")
  /\ ehdotusaika' = Korvaa(ehdotusaika, Lukitut(r), pvm)
  /\ hyvaksymisaika' = Korvaa(hyvaksymisaika, Lukitut(r), Nil)
  /\ Paata(r)
  /\ UNCHANGED <<sisalto, osaVars, rivinKerta>>

\* laheta!: sent to the committee now; an approval is forgotten.
Laheta(r, pvm) ==
  /\ Kasitellyt(r) /\ tx[r].toiminto = "laheta"
  /\ tila' = Korvaa(tila, Lukitut(r), "ehdotettu")
  /\ ehdotusaika' = Korvaa(ehdotusaika, Lukitut(r), pvm)
  /\ hyvaksymisaika' = Korvaa(hyvaksymisaika, Lukitut(r), Nil)
  /\ Paata(r)
  /\ UNCHANGED <<sisalto, osaVars, rivinKerta>>

\* hyvaksy!: approved on the given date or today.
Hyvaksy(r, pvm) ==
  /\ Kasitellyt(r) /\ tx[r].toiminto = "hyvaksy"
  /\ tila' = Korvaa(tila, Lukitut(r), "hyvaksytty")
  /\ hyvaksymisaika' = Korvaa(hyvaksymisaika, Lukitut(r), pvm)
  /\ Paata(r)
  /\ UNCHANGED <<ehdotusaika, sisalto, osaVars, rivinKerta>>

\* Faulty: leaves the time of the proposal.
PalautaAjatSailyttaen(r) ==
  /\ Kasitellyt(r) /\ tx[r].toiminto = "palauta"
  /\ tila' = Korvaa(tila, Lukitut(r), "luonnos")
  /\ hyvaksymisaika' = Korvaa(hyvaksymisaika, Lukitut(r), Nil)
  /\ Paata(r)
  /\ UNCHANGED <<ehdotusaika, sisalto, osaVars, rivinKerta>>

\* palauta!: back to a draft.
Palauta(r) ==
  /\ Kasitellyt(r) /\ tx[r].toiminto = "palauta"
  /\ tila' = Korvaa(tila, Lukitut(r), "luonnos")
  /\ ehdotusaika' = Korvaa(ehdotusaika, Lukitut(r), Nil)
  /\ hyvaksymisaika' = Korvaa(hyvaksymisaika, Lukitut(r), Nil)
  /\ Paata(r)
  /\ UNCHANGED <<sisalto, osaVars, rivinKerta>>

\* The foreign keys that point to what DELETE / removes: assessor rows it did not
\* delete itself, and tutkintosuoritus rows of the suoritus rows that go with it.
ViitteetEstavatPoiston(r) ==
  \E k \in Lukitut(r) : \/ KerranRivit(k) \ tx[r].poistettavat # {}
                        \/ KerranOsat(k) \intersect tutkintosuoritus # {}

\* poista!: the assessor rows go whether or not the record does.
Poista(r) ==
  LET osat == UNION {KerranOsat(k) : k \in Lukitut(r)}
  IN  /\ Kasitellyt(r) /\ tx[r].toiminto = "poista"
      /\ ~ ViitteetEstavatPoiston(r)
      /\ tila' = Korvaa(tila, Lukitut(r), "poistettu")
      /\ osanKerta' = Korvaa(osanKerta, osat, Nil)
      /\ kokotutkinto' = kokotutkinto \ osat
      /\ rivinKerta' = Korvaa(rivinKerta, tx[r].poistettavat, Nil)
      /\ Paata(r)
      /\ UNCHANGED <<ehdotusaika, hyvaksymisaika, sisalto, kaytetyt, tutkintosuoritus>>

PoistoKaatuu(r) ==
  /\ Kasitellyt(r) /\ tx[r].toiminto = "poista"
  /\ ViitteetEstavatPoiston(r)
  /\ Peru(r)

\* lisaa-tai-paivita!: the record is updated first, then its assessors are
\* replaced, rows that the form does not list are deleted, new ones inserted and
\* the listed ones updated.  The record must still be there (update-unique).
JatkaMuokkausta(r) ==
  /\ Kasitellyt(r) /\ tx[r].toiminto = "muokkaa"
  /\ IF tx[r].kohde \subseteq Lukitut(r) THEN Etene(r, "arvioijat") ELSE Peru(r)

\* Faulty: deletes a unit whatever refers to it.
LomakeKelpaaKokotutkinnostaHuolimatta(r, k) ==
  \A o \in tx[r].lomake : osanKerta[o] # Nil

\* Every listed row must still be there (update-unique), and none of the
\* deleted ones may be referred to by tutkintosuoritus.
LomakeKelpaa(r, k) ==
  /\ \A o \in tx[r].lomake : osanKerta[o] # Nil
  /\ (KerranOsat(k) \ tx[r].lomake) \intersect tutkintosuoritus = {}

Tallenna(r, k, uudet, koko, rivit, s) ==
  LET poistuvat == KerranOsat(k) \ tx[r].lomake
      jaavat == tx[r].lomake \union uudet
  IN  /\ tx[r].vaihe = "tallennus" /\ k \in tx[r].kohde
      /\ LomakeKelpaa(r, k)
      /\ uudet \subseteq Osat \ kaytetyt
      /\ koko \subseteq jaavat
      /\ rivit \subseteq VapaatRivit
      /\ sisalto' = [sisalto EXCEPT ![k] = s]
      /\ osanKerta' = Korvaa(Korvaa(osanKerta, poistuvat, Nil), jaavat, k)
      /\ kaytetyt' = kaytetyt \union uudet
      /\ kokotutkinto' = (kokotutkinto \ (poistuvat \union jaavat)) \union koko
      /\ rivinKerta' = Korvaa(Korvaa(rivinKerta, tx[r].poistettavat, Nil), rivit, k)
      /\ Paata(r)
      /\ UNCHANGED <<tila, ehdotusaika, hyvaksymisaika, tutkintosuoritus>>

TallennusKaatuu(r) ==
  /\ tx[r].vaihe = "tallennus"
  /\ \E k \in tx[r].kohde : ~ LomakeKelpaa(r, k)
  /\ Peru(r)

-----------------------------------------------------------------------------
(* Failures *)

\* The connection is lost, the server is restarted, a statement fails for a
\* reason outside this model: PostgreSQL rolls the transaction back.
Keskeytys(r) == tx[r].vaihe # "vapaa" /\ Peru(r)

\* PostgreSQL finds a cycle of waiting transactions and aborts one of them.
Lukkiuma(r) ==
  /\ \E S \in SUBSET Pyynnot : r \in S /\ Lukkiumassa(S)
  /\ Peru(r)

-----------------------------------------------------------------------------

LisaaUusi ==
  \E k \in Kerrat, uudet, koko \in SUBSET Osat, rivit \in SUBSET Rivit, s \in Sisallot :
    Lisaa(k, uudet, koko, rivit, s)

TallennaMuokkaus(r) ==
  \E k \in Kerrat, uudet, koko \in SUBSET Osat, rivit \in SUBSET Rivit, s \in Sisallot :
    Tallenna(r, k, uudet, koko, rivit, s)

LukitseSeuraava(r) == \E k \in Kerrat : LukitseKerta(r, k)
LukitseSeuraavaArvioija(r) == \E v \in Rivit : LukitseArvioija(r, v)

\* The steps the server and the database take by themselves once a request has come.
Palvele(r) ==
  \/ TarkistaYksi(r) \/ TarkistaKaikki(r)
  \/ ValitseArvioijat(r) \/ ArvioijatLukittu(r) \/ JatkaMuokkausta(r)
  \/ \E pvm \in Paivat : Laheta(r, pvm) \/ Hyvaksy(r, pvm)
  \/ Palauta(r)
  \/ Poista(r) \/ PoistoKaatuu(r)
  \/ TallennaMuokkaus(r) \/ TallennusKaatuu(r)

Next ==
  \/ LisaaUusi
  \/ \E r \in Pyynnot :
       \/ AloitaPoisto(r) \/ AloitaMuokkaus(r) \/ AloitaSiirto(r)
       \/ Palvele(r) \/ LukitseSeuraava(r) \/ LukitseSeuraavaArvioija(r)
       \/ Lukkiuma(r) \/ Keskeytys(r)

Spec == Init /\ [][Next]_vars

\* A request that can go on does, a row lock is granted in the order it was asked
\* for, so that nobody waits for ever for a lock that keeps being released, and a
\* deadlock is found.
FairSpec ==
  /\ Spec
  /\ \A r \in Pyynnot :
       /\ WF_vars(Palvele(r))
       /\ SF_vars(LukitseSeuraava(r))
       /\ SF_vars(LukitseSeuraavaArvioija(r))
       /\ WF_vars(Lukkiuma(r))

-----------------------------------------------------------------------------
(* Properties *)

\* Every variable holds a value its column, lock table or transaction may hold.
TyyppiOK ==
  /\ tila \in [Kerrat -> Tila]
  /\ ehdotusaika \in [Kerrat -> Paivat \union {Nil}]
  /\ hyvaksymisaika \in [Kerrat -> Paivat \union {Nil}]
  /\ sisalto \in [Kerrat -> Sisallot \union {Nil}]
  /\ osanKerta \in [Osat -> Kerrat \union {Nil}]
  /\ kaytetyt \in SUBSET Osat
  /\ kokotutkinto \in SUBSET Osat
  /\ tutkintosuoritus \in SUBSET Osat
  /\ rivinKerta \in [Rivit -> Kerrat \union {Nil}]
  /\ kertaLukko \in [Kerrat -> Pyynnot \union {Nil}]
  /\ rivinLukko \in [Rivit -> Pyynnot \union {Nil}]
  /\ tx \in [Pyynnot -> Tx]

\* Row locks and the transactions that hold them agree: a lock is held by a
\* running request, on a record that exists and that the request names, and a
\* DELETE only ever locks a draft.
LukotOK ==
  \A k \in Kerrat, r \in Pyynnot : kertaLukko[k] = r =>
    /\ k \in tx[r].kasitellyt
    /\ tila[k] \in Kirjattu
    /\ tx[r].vaihe \in {"lukitus", "arvioijat", "arvioijaLukot", "tallennus"}
    /\ tx[r].toiminto = "poista" => tila[k] = "luonnos"

\* What a request has done when it reaches a statement.  An edit holds its record
\* while it replaces the assessors, so that the rows it has selected stay all
\* the rows the record has.
PyynnotOK ==
  \A r \in Pyynnot :
    LET muokkaa(vaiheet) == tx[r].toiminto = "muokkaa" /\ tx[r].vaihe \in vaiheet
    IN  /\ tx[r].kasitellyt \subseteq tx[r].kohde
        /\ tx[r].toiminto \in {"poista", "muokkaa"} => \E k \in Kerrat : tx[r].kohde = {k}
        /\ tx[r].vaihe \in {"arvioijat", "arvioijaLukot"} => tx[r].toiminto \in {"poista", "muokkaa"}
        /\ tx[r].vaihe = "tallennus" => tx[r].toiminto = "muokkaa"
        /\ muokkaa({"arvioijat", "arvioijaLukot", "tallennus"}) => tx[r].kohde \subseteq Lukitut(r)
        /\ muokkaa({"arvioijaLukot", "tallennus"}) =>
             \A v \in Rivit : rivinKerta[v] \in tx[r].kohde => v \in tx[r].poistettavat

\* The foreign keys hold although an edit inserts its rows after a check made
\* several statements earlier: no assessor, qualification unit or
\* whole-qualification row refers to something that is gone.
ViitteetEheat ==
  /\ \A o \in Osat : osanKerta[o] # Nil => osanKerta[o] \in Kirjatut /\ o \in kaytetyt
  /\ \A v \in Rivit : rivinKerta[v] # Nil => rivinKerta[v] \in Kirjatut
  /\ \A o \in tutkintosuoritus \union kokotutkinto : osanKerta[o] # Nil

\* The life cycle of each record is the one of Suorituselinkaari, whatever the
\* interleaving: batches take effect at once, and DELETE / removes drafts only,
\* because poista! repeats the condition on tila in its WHERE.
Elinkaari == INSTANCE Suorituselinkaari WITH
  Kerrat <- Kerrat, Paivat <- Paivat, Nil <- Nil,
  tila <- tila, ehdotusaika <- ehdotusaika, hyvaksymisaika <- hyvaksymisaika

ToteuttaaElinkaaren == Elinkaari!Spec

\* The two time stamps follow the state through every sequence of laheta!,
\* hyvaksy! and palauta!, none of which looks at the state it starts from.
AjatVastaavatTilaa == Elinkaari!AjatVastaavatTilaa

\* A record gets its time stamps from laheta! and hyvaksy! only.
LuomatonTyhja ==
  \A k \in Kerrat : tila[k] = "ei_luotu" => ehdotusaika[k] = Nil /\ hyvaksymisaika[k] = Nil

\* The inductive invariant: what every theorem about the module rests on.
Induktiivinen ==
  /\ TyyppiOK /\ LukotOK /\ PyynnotOK
  /\ ViitteetEheat /\ AjatVastaavatTilaa /\ LuomatonTyhja

\* Two edits of one record never mix: when one adds assessors to an existing record,
\* none of the earlier rows is left, so the assessors are always those of one
\* form (lisaa-tai-paivita! takes the record's row lock before it replaces them).
EiVanhojaArvioijia ==
  [][\A k \in Kirjatut :
       (\E v \in Rivit : rivinKerta[v] # k /\ rivinKerta'[v] = k) =>
         \A v \in KerranRivit(k) : rivinKerta'[v] # k]_vars

\* No request that does one of T shares a record with a laheta or hyvaksy under way:
\* what the checks of the requests take for granted.
SiirrotErillaan(T) ==
  \A q, r \in Pyynnot :
    q # r /\ tx[q].toiminto \in T /\ tx[r].toiminto \in {"laheta", "hyvaksy"} =>
      tx[q].kohde \intersect tx[r].kohde = {}

\* What a user edits on the form, apart from the assessors.
MuokattuSisalto(k) == <<sisalto[k], KerranOsat(k), KerranOsat(k) \intersect kokotutkinto>>

\* Only a draft is edited: the columns and the units of a record change only
\* while it is a draft (the check of POST / is made before the row is locked).  This
\* and the next two hold of behaviours in which SiirrotErillaan does.
VainLuonnostaMuokataan ==
  [][\A k \in Kirjatut :
       tila[k] # "luonnos" => MuokattuSisalto(k)' = MuokattuSisalto(k)]_vars

\* Only a draft loses or gains assessors (POST / and DELETE / delete the assessor
\* rows after a check of the state, without repeating it).
VainLuonnoksenArvioijatMuuttuvat ==
  [][\A k \in Kirjatut : tila[k] # "luonnos" => KerranRivit(k)' = KerranRivit(k)]_vars

\* Only a draft is approved: no record goes from ehdotettu to hyvaksytty without
\* having been a draft in between, and none is approved twice over.
VainLuonnosHyvaksytaan ==
  [][\A k \in Kerrat :
       /\ tila'[k] = "hyvaksytty"
       /\ tila[k] # "hyvaksytty" \/ hyvaksymisaika'[k] # hyvaksymisaika[k]
       => tila[k] = "luonnos"]_vars

\* Every request is answered: no interleaving of row locks, waits and deadlocks
\* leaves a transaction open for ever.
PyyntoPaattyy == \A r \in Pyynnot : tx[r].vaihe # "vapaa" ~> tx[r].vaihe = "vapaa"
=============================================================================
