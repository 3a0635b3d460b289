# A verification project for Aitu

Aitu is the register in which the qualification committees (*tutkintotoimikunta*) of Finnish
vocational education keep their members, the agreements to arrange competence-based
qualifications (*järjestämissopimus*) and the records of what candidates have performed
(*suorituskerta*).  It is a Clojure server (`src/ttk`) on one PostgreSQL database (`src/ttk-db`)
with an AngularJS browser application (`src/ttk/resources/public/js`).  This directory holds TLA+ models of its core, the
TLC runs that check them and theorems checked by TLAPS.

Definitions keep the names of the source, which are Finnish; `PROJECT.json` maps each of
them to the lines it translates.

## 1. The system

### 1.1 How it runs

* **Requests.**  The REST interface is a set of compojure-api routes.  A route with the annotation
  `:kayttooikeus` runs its body in `autorisoitu-transaktio`: the rights of the user are checked,
  then everything else happens in *one* database transaction on a thread of the http-kit pool.
* **The database.**  Nothing sets an isolation level, so PostgreSQL uses READ COMMITTED.  A query
  sees what was committed when it began.  An UPDATE or DELETE waits for the row locks of the rows it
  matches and evaluates its WHERE again on the row it finds after the wait.  There is no `SELECT ...
  FOR UPDATE` and no version column anywhere in the code: check-then-act is everywhere, and what orders
  two requests is, at best, the row lock of the first UPDATE they share.
* **Batches.**  Quartz starts five nightly jobs (users, organisations, agreements' validity,
  code lists, ePerusteet), and a bare thread runs the agreements' job once when the
  server starts.  Each run is one transaction (the users' one with a call to LDAP inside).
* **The browser.**  One page per route, each with a controller; what pages share are services that live
  as long as the tab: the `$http` interceptor `apiCallInterceptor` with its counters and the answers nobody has
  shown, the flag of unsaved edits, the way back.  JavaScript runs one callback at a time, and what
  interleaves is callbacks: answers come in any order, after the page that asked has been left, or not at
  all within `requestTimeout` (120 s, `ttk.js:74`), which counts as a failure.
* **Failure.**  An exception rolls the transaction back and is answered with an error; a browser
  does not repeat the request.  403 reloads the page (`ttk.js:108`).  There are no messages or queues on the server:
  all state that outlives a request is in the database or in a tab.

### 1.2 Components

| Component | State | Operations | Hard behaviours | What makes it correct |
|---|---|---|---|---|
| **Suoritukset**, performance records (`rest_api/suoritus.clj`, `infra/suoritus_arkisto.clj`) | `suorituskerta` with its state and two time stamps, `suoritus`, `tutkintosuoritus`, `suorituskerta_arvioija` | insert, edit, DELETE, `laheta`, `hyvaksy`, `palauta` (the last three on batches) | check before lock, two-part removal, cascades, deadlock | only drafts are edited or removed; time stamps go with the state; assessors are of one form; no dangling rows |
| **Järjestämissopimukset** (`rest_api/jarjestamissopimus.clj`, `infra/jarjestamissopimus_arkisto.clj`, `infra/eraajo/sopimusten_voimassaolo.clj`) | `jarjestamissopimus`, `sopimus_ja_tutkinto`, derived columns `alkupvm`, `loppupvm`, `voimassa` | insert, PUT, choice of qualifications, DELETE, nightly run; attachments | derived data against concurrent writers, the clock and other components | period = that of the rows; a removed agreement is not valid; after a nightly run everything derived is right |
| **Toimiala**, the qualifications of a committee (`tutkinnot.js`, `rest_api/ttk.clj`, `infra/ttk_arkisto.clj`) | `toimikunta_ja_tutkinto`; in each tab the list and its copy | open, add, remove, save | delete-and-insert of a whole list by two transactions; lists read long ago; deadlock | a save leaves its list; only confirmed removals; every save is answered |
| **Calls to the server** (`services.js`, `ttk.js`) | counters and the last outcome for each method, answers not shown | request, answer, failure, timeout, reload | overlap and loss | counters are those of the requests in flight |
| **Messages** (`apimetodi-palaute.js`) | list of answers, messages, stamps | answer, page change, wizard step | the order of a listener and a watcher in one digest | no answer is missed; a message lives for one page, or two |
| **Forms, wizard** (`crud.js`, `henkilot.js`, `toimikunnat.js`, `services.js`) | page, step, flag of unsaved edits | link, cancel, edit, save, search | late callbacks of pages that were left | no unsaved edit is lost without a question, nothing is sent twice, buttons are enabled again |
| **Search pages** (`toimikunnat.js`, `koulutustoimijat.js`, `oppilaitokset.js`, `directives.js`) | criteria, array, list, page of the list | criteria, filter, turn a page, try again | answers to older queries, indicator by method | the list is that of the criteria; an open query is not an empty answer |
| **Page of records** (`direktiivit/suoritukset.js`) | form, timer, list, ticks, question | search with a delay, tick, approve, return, delete | list against changes of its own and of others | the list is the server's when all is answered |
| **Excel import** (`infra/suoritus_excel.clj`) | the tables of records | import of a sheet, row by row | duplicates decided on a list read once; one exception handler per row in one transaction; re-import | |
| **Sopimusnumero**, **jäsenyydet**, **jäsenesitykset** (`infra/ttk_arkisto.clj`, `rest_api/ttk.clj`, `rest_api/jasenesitykset.clj`) | contract numbers, memberships, proposals | insert, update, delete | check before UPDATE | |
| **Users**, **organisations**, **qualifications** (`infra/eraajo/*.clj`, `integraatio/*.clj`) | copies of other services' data | nightly runs | incremental updates | |
| Registers of persons, notices, reference data, decisions, reports, audit log, APIs, schema, deployment | | | | see section 6 |

On the server the components interact through the database only.  Records refer to persons, assessors, units and
qualification versions; agreements to committees, providers, schools and versions; the validity of an
agreement is computed from its own row, its rows in `sopimus_ja_tutkinto`, the committee's term of office,
the versions' transition periods and the day.  The nightly runs write to tables requests write to.  In the
browser every page goes through the interceptor, whose counters the buttons and the indicators read.

The hazards found in the code are listed at their lines in `PROJECT.json`, each with the
properties that cover it or with the reason why none does.

## 2. Modules

| Module | Contents |
|---|---|
| `Suorituselinkaari` | abstract: the life cycle of a record, one atomic step per request |
| `Suoritukset` | requests on the register as transactions with statements, locks, cascades and foreign keys; implements `Suorituselinkaari` |
| `Sopimuselinkaari` | abstract: the life cycle of an agreement, its creation, validity and removal |
| `SopimusVoimassaolo` | agreements, their rows and the derived columns; requests, nightly runs and their environment; implements `Sopimuselinkaari` |
| `Toimialalupaus` | abstract: saves of whole lists for one committee |
| `Toimiala` | tabs, their lists and the transactions that replace the rows; implements `Toimialalupaus` |
| `Rajapintakutsut` | the browser's requests in flight and the interceptor's counters; extended by the next two |
| `Selain` | pages with forms, the wizard, the question before leaving, the save button |
| `Hakulupaus` | abstract: one open question, its answer, a filter |
| `Hakulista` | search pages; implements `Hakulupaus` |
| `Ilmoitukset` | abstract: how many pages a message stays |
| `Palautteet` | answers, messages, page changes and the digest; implements `Ilmoitukset` |
| `Arviointipaatokset` | the page of records against a server other users change |
| `...Proofs` | theorems about the module of that name (eight modules) |
| `MC...` | values and symmetry for TLC |

### 2.1 Suoritukset

The variables are the committed tables (`tila`, `ehdotusaika`, `hyvaksymisaika`, `sisalto` are columns of
`suorituskerta`; `osanKerta`, `kokotutkinto` of `suoritus`; `tutkintosuoritus` and `rivinKerta` are the
two other tables), the row locks (`kertaLukko`, `rivinLukko`) and the transaction `tx[r]` of each
request: what it does, the statement it is at, and what it has read.  A transaction collects locks
statement by statement; its writes appear in the commit step.

| Code | Actions |
|---|---|
| `POST /` without id: `lisaa!` | `Lisaa` (one step: new rows are invisible until the commit) |
| `POST /` with id: `muokkaus-sallittu?`, `lisaa-tai-paivita!` | `AloitaMuokkaus`, `TarkistaYksi`, `LukitseKerta`, `JatkaMuokkausta`, `ValitseArvioijat`, per row `LukitseArvioija`, then `ArvioijatLukittu`, `Tallenna` or `TallennusKaatuu` |
| `DELETE /:id`: the check, `poista!` | `AloitaPoisto`, `TarkistaYksi`, `ValitseArvioijat`, per row `LukitseArvioija`, then `ArvioijatLukittu`, `LukitseKerta`, `Poista` or `PoistoKaatuu` |
| `POST /hyvaksy`: `muokkaus-sallittu-kaikille?`, `hyvaksy!` | `AloitaSiirto`, `TarkistaKaikki`, `LukitseKerta`, `Hyvaksy` |
| `POST /laheta`, `POST /palauta` | `AloitaSiirto`, `LukitseKerta`, `Laheta`, `Palauta` |
| rollback, deadlock detection | `Keskeytys`, `Lukkiuma` |

Which requests come is taken from the pages: forms and lists may be out of date, so they may name
records and rows that are gone.  Columns no property is about are one value (`sisalto`).

### 2.2 SopimusVoimassaolo

The variables are the rows of `jarjestamissopimus` and `sopimus_ja_tutkinto`, the environment (the day,
the term of office of each committee, the transition period of each version) and the transactions.
A transaction keeps its writes in `tx[p].sopimukset` and `tx[p].liitokset`; a row it has written
is a row it has locked, it sees its own writes on top of what is committed (`OmatSopimukset`,
`OmatRivit`), and `Vahvista` commits them.

| Code | Actions |
|---|---|
| `POST /:tkunta`: `lisaa!` | `Lisaa` |
| `PUT /:id`: `paivita!` | `AloitaPaivitys`, `Tarkista`, `PaivitaSopimus`, then per row `ValitseLomakkeenRivi`, `PaivitaRivi` |
| `POST /:id/tutkinnot`: `paivita-tutkinnot!` | `AloitaTutkinnot`, `Tarkista`, `LueTutkinnot`, per removed version `ValitseVersionRivit`, per row `PoistaRivi`, then `KoskeSopimusta`, `LisaaTutkinnot` |
| `DELETE /:id`: `merkitse-sopimus-poistetuksi!` | `AloitaPoisto`, `Tarkista`, `MerkitsePoistetuksi`, `ValitsePoistettavat`, per row `PoistaRivi` |
| `paivita-sopimuksen-voimassaolo!`, at the end of PUT and POST and for each agreement of the nightly run | `LuePaivat`, `KirjaaPaivat`, `AsetaVoimassaolo` or `AsetaPoistetunVoimassaolo` |
| nightly run | `AloitaEraajo`, `SeuraavaSopimus` |
| midnight, a committee's PUT, ePerusteet | `PaivaVaihtuu`, `MuutaToimikausi`, `PaivitaPeruste` |
| commit, rollback, deadlock detection | `Vahvista`, `Keskeytys`, `Lukkiuma` |

Three simplifications, each stated at its definition: POST's second, identical call of
`paivita-sopimuksen-voimassaolo!` is left out; the two queries in it are one step;
`LisaysKaatuu` is the bound on row identities.  What happens to a removed agreement whose validity is
computed (`AsetaPoistetunVoimassaolo`) depends on a date function of another repository that gets
null; both outcomes are modelled.

### 2.3 Toimiala

`kanta` is the committed rows of one committee; `vaihe`, `alussa` and `valitut` belong to each tab (the
controller's `tutkinnotAlussa` and list); `naki`, `poistetut` and `lisatyt` to the transaction of its POST.  The
DELETE has a snapshot (`naki`) and goes through it row by row; a row that another transaction is deleting
is waited for, a row another has deleted is skipped, a row another has inserted meanwhile is not seen.  An INSERT
waits for the transaction that holds its key and then succeeds or fails.

| Code | Actions |
|---|---|
| the page: `resource.get`, `lisaa`, `poista`, `varmistaTallennus`, `tallenna`, `peruuta` | `Avaa`, `Lataa`, `lisaa`, `poista`, `poistettavat`, `tallenna`, `Vastaus`, `Poistu` |
| `salli-toimikunnan-paivitys?`, access right | `Torju` |
| `poista-kaikki-tutkinnot!` | `AloitaPoisto`, `PoistaRivi` |
| `paivita-tutkinnot!` | `LisaaRivi`, `AvainVarattu` |
| commit, deadlock detection | `Vahvista`, `Lukkiuma` |

### 2.4 Rajapintakutsut, Selain, Hakulista

`kutsu[c]` is a request in flight in place `c`; the number of places is a bound on how many there are at once.
`pyynnot[m]` is the counter `pyyntojaKaynnissa` the interceptor keeps for the method `m`.  Both modules built on this
mark a request `oma` while the page (or the array) it was sent for is still the open one.  In `Selain` a search of
the wizard is also `naytolla` while its array is the one on the scope: only that answer chooses a person, but each
of them moves the wizard on.

| Code | Definitions of `Selain` |
|---|---|
| `crudController`, other controllers starting | `Kaynnista` |
| `$locationChangeStart` in `varmistaPoistuminen`, `edellinenLokaatio` | `Siirry`, `Linkki`, `Peruuta` |
| `tallenna` of the service, directive `tallenna` | `Tallenna`, `Odottaa`, `TallennusOnnistui` |
| wizard and `HenkiloVelhoController` | `siirrySeuraavaan`, `HaeHenkilot`, `Korvatut`, `SiirryHeti`, `Askeleelle`, `vaihdaTila`, `VelhoEtenee` |
| `response`, `responseError`, 403 | `Vastaus`, `LataaUudelleen` |

| Code | Definitions of `Hakulista` |
|---|---|
| watches of the criteria, `haeToimikunnat`, `suodataToimikunnat` | `Avaa`, `AsetaEhto`, `AsetaSuodin`, `hae`, `suodata` |
| the array of `$resource`, filled in place by its own answer | `tayta`, `Vanhat`, `Vastaus` |
| `hakutulokset`, `hakutuloslaskuri`, pagination | `naytaTulokset`, `mista`, `mihin`, `Sivuja`, `Sivulle` |
| `latausIndikaattori` and its button | `latausKaynnissa`, `virhe`, `yritaUudelleen` |

The button that tries again works on the pages of persons and of qualifications only; on the
others it names a function that is not on the scope.

### 2.5 Palautteet, Arviointipaatokset

`Palautteet` has an action for each thing a digest may run: the watcher of the stamp (`Katselija`) and the listener
of a page change (`paivitaPalautteet`), enabled together so that TLC takes both orders.  After a change of step, which
is broadcast inside the callback, only the listener comes first.

`Arviointipaatokset` has the whole page and the result of what the server does: `PalvelinHakee`, `PalvelinMuuttaa`
and `MuuKayttaja` are atomic, since `Suoritukset` has the statements; they make only steps of
`Suorituselinkaari`, which `Suoritukset` implements (`PalvelinElinkaaressa`).  The fields `tuore` and the variable `luotettava`
are history: they record which of four things has happened that make a list unreliable (an older answer came
last; another user made a change; a request was lost; a search crossed a deletion, after which no search follows).
The date of approval has its key in `form` beside the records (`Pvm`): it enables the buttons on its own, and a request
that names no record is answered 404 (`EiLoytynyt`).

## 3. What the runs check

All runs check deadlock too.

| Run | Bounds | Shows |
|---|---|---|
| `suoritukset_kilpailu` | 2 requests, 1 record, 2 units, 3 assessor rows | types; the inductive invariant of the proofs; no dangling reference; time stamps go with the state; assessors of two edits never mix |
| `suoritukset_elinkaari` | 2 requests, 2 records, 2 assessor rows, fairness | refinement of `Suorituselinkaari`: batches take effect at once, and only drafts are removed; every request is answered, deadlocks included |
| `suoritukset_tarkistukset` | 2 requests, 2 records, 2 units; constraint `TarkistuksetPitavat` | as long as no `laheta` or `hyvaksy` of a record overlaps an edit, removal or approval of it, only drafts are edited, lose assessors or are approved |
| `sopimus_pyynnot` | 2 requests, 1 nightly run, 1 agreement, 2 rows, 1 version, 2 days; constraint `LuennatErillaan`, and `SamaPaiva`: midnight does not come | types; the period is that of the rows; a removed agreement is not valid; the first day never moves later; a row that is marked removed stays so |
| `sopimus_eraajo` | 1 request, 1 nightly run, 2 rows, 1 version, 2 days, 2 terms, fairness | the inductive invariant of the proofs; a version is covered once, a removed agreement keeps no rows, a request that commits leaves the period right; refinement of `Sopimuselinkaari`; and when requests stop the nightly run makes everything derived right |
| `toimiala` | 2 tabs, 2 qualifications, fairness | types; a save removes only what was asked about and what other saves brought; refinement of `Toimialalupaus`; every save is answered |
| `selain` | 5 pages, 7 methods, 2 requests in flight, fairness | counters are right; guarded forms are sent once at a time; a form goes on warning unless another page's save ends on it; buttons are enabled again |
| `hakulista` | 4 queries in flight, 2 criteria, 2 filters, 3 rows on pages of 2, fairness | the list fits the criteria; the page of the list has results; an open query is not shown as an empty answer; refinement of `Hakulupaus`, its fairness included |
| `palautteet` | 3 methods, 5 answers | a text is shown once; no answer is missed; refinement of `Ilmoitukset` |
| `arviointipaatokset` | 2 records, 3 lists, 2 requests in flight, 1 change by another user; `PvmYksin`: a date is followed where it is the only key of the form, since with ticks it adds nothing | the list is the server's once all is answered, unless one of the four things has happened |

`LuennatErillaan` and `TarkistuksetPitavat` are predicates of the models that say which requests do not overlap; behaviours beyond a state
that breaks them are not followed.  Section 4 proves the same properties under the same predicates, each for its own part,
and says what they rule out.

Two runs check what a test or a comment says and the code does not do:

| Run | Counterexample |
|---|---|
| `suoritukset_muokkauskilpailu` | an edit passes its check, `laheta` commits, the edit rewrites the sent record |
| `arviointipaatokset_rastit` | the list changes under a tick: the record is not shown any more, stays ticked and is sent with the others |

More that the code does and the models show in their state graphs, without a run of its own: a DELETE of a record that
overlaps a `laheta` removes the assessors and not the record; `palauta` takes an approved record back; an
edit that marks a unit as completing a qualification adds no row of `tutkintosuoritus`; a draft with such a row cannot
be removed; a nightly run that overlaps a request may write an older period over the new one until
the next night (`PyyntoKorjaaPaivat` speaks of the request, `EraajoKorjaa` of the night after); two saves of a
committee's list may leave both lists mixed (`Toimialalupaus` allows exactly that); a late save of another page
lowers the flag of unsaved edits (`vieras`); a new committee may be sent twice, since its button waits for
another method (`toimikunta.mustache:59`).

**Why the bounds are enough.**  The properties speak of one record (or agreement, committee, page) and what
hangs from it, and conflicts are between pairs of transactions or answers.  Two requests give every pairwise overlap,
the deadlocks included; a nightly run besides them gives the overlaps of three; two records give batches that lock in opposite orders.  Three assessor rows
let two edits each add one while an old one exists; two rows of an agreement give a maximum and
a minimum that differ and a row added while another is removed; two days give a day that
is over and one that is to come.  One version is enough to be added twice or to come back after its row was marked
removed.  Two qualifications are the fewest over which two saves deadlock.  On the pages two answers
overtake each other; four places let `hakulista` open the page twice (two queries each time) before any answer; three rows
on pages of two give a last page that disappears.  All invariants and action properties, and the
safety of all five refinements, are proved without bounds (section 4); what the bounds cut off matters for liveness
alone: three transactions that wait in a cycle, and a nightly run over several agreements.

**Fairness.**  `FairSpec` of `Suoritukset`: a request that can take a step does (`WF` of
`Palvele`), since its thread runs; a lock is granted in the order it was asked for, PostgreSQL queues
waiters, so a request does not wait for ever for a lock that is released again and again (`SF` of the two
locking steps); deadlock detection runs after `deadlock_timeout` (`WF` of `Lukkiuma`).  `FairSpec` of
`SopimusVoimassaolo` and `ReiluSpec` of `Toimiala` say the same (there one action contains both the waiting and the
other steps); the former adds that the scheduler starts the nightly run again and again (`WF` of
`AloitaEraajo`).  `EraajoKorjaa` is conditional on `Rauhoittuu`: from some time on nobody sends requests, no day
passes and nothing is lost.  Quartz starts a run every night; that a night without requests comes is what the
property assumes.  `ReiluSpec` of `Selain` and `Hakulista`: every request is answered, since `requestTimeout`
turns silence into a failure.  No fairness is assumed of users, of the environment or of failures.

## 4. What is proved

Each theorem holds for all values of the constants that meet the named assumption of its module.

| Module | `Spec => []...` or the property | Refinement |
|---|---|---|
| `SuorituksetProofs` | `TyyppiOK`, `ViitteetEheat`, `AjatVastaavatTilaa`, `EiVanhojaArvioijia`, `OmatRivit` | `Toteutus`: `ToteuttaaElinkaaren` |
| | under `[]SiirrotErillaan(T)`: `VainLuonnostaMuokataan` (T: edits), `VainLuonnoksenArvioijatMuuttuvat` (T: edits and removals), `VainLuonnosHyvaksytaan` (T: approvals) | |
| `SopimusVoimassaoloProofs` | `TyyppiOK`, `PoistettuEiVoimassa`, `PoistettuRiviPysyy`, `PyyntoKorjaaPaivat` | `Elinkaareen`: `ToteuttaaSopimuselinkaaren` |
| | under `[]LuennatErillaan`: `PaivatRiveista`, `AlkuEiSiirryEteenpain`; under `[]LisayksetErillaan`: `EiKahdesti`; under `[]PoistotErillaan`: `PoistetullaEiRiveja`; under `[][UNCHANGED ymparisto]_vars`: `VoimassaSaannoista` | |
| `ToimialaProofs` | `TyyppiOK`, `PoistotVarmistettu` | `Toteutus`: `ToteuttaaToimialalupauksen` |
| `SelainProofs` | `TyyppiOK`, `LaskuritTasmaavat`, `EiRinnakkaisiaTallennuksia`, `MuokkaussivuVaroittaa` | |
| `HakulistaProofs` | `TyyppiOK`, `TuloksetVastaavatEhtoja`, `SivullaOnTuloksia`, `KeskeneraistaEiNayteta` | `Toteutus`: the safety part of `ToteuttaaHakulupauksen` |
| `PalautteetProofs` | `TyyppiOK`, `KaikkiNaytetty` | `Toteutus`: `ToteuttaaIlmoitukset` |
| `ArviointipaatoksetProofs` | `TyyppiOK`, `ListaTuore` | `PalvelinElinkaaressa`: only steps of `Suorituselinkaari` |

`RajapintakutsutProofs` has the lemmas the two modules built on `Rajapintakutsut` share: a request that leaves and an
answer that comes change the set of requests in flight to a method and its counter alike (by the library's theorems on
cardinality, hence the assumption that the places are finitely many).

**Suoritukset.**  The argument is one inductive invariant, `Induktiivinen`.  `ViitteetEheat` alone is not inductive: an
edit inserts rows in its last statement for a record it found several statements before.  `LukotOK` adds
that a row lock is held by a running request on a record that exists, and by a DELETE only on a draft;
`PyynnotOK` adds what a request has done when it reaches a statement, above all that an edit holds the
lock of its record while it replaces the assessors, so that the rows it has selected remain all there are.
From that follow that nobody removes the record meanwhile (`Viitteet`) and that no earlier assessor is left
when the new ones appear (`YhdenLomakkeenArvioijat`).  `LuomatonTyhja` makes `AjatVastaavatTilaa`
inductive at the insert.  `Toteutus` maps each commit to the abstract request on the records it has
locked (all still recorded, by `LukotOK`), a DELETE to the removal of a draft or to nothing, and every
other step to a stutter.

Three more theorems say what the checks are worth that the code makes before it has a lock.  `Tarkistettu(T)`: a request
of one of the kinds T that has passed its check names drafts only, or records that are gone.  The steps that
could break it are the commits of `laheta` and `hyvaksy`; an edit leaves the state alone, a removal makes the record
one that is gone, `palauta` makes it a draft.  `SiirrotErillaan(T)` rules out just those two on
the same record, and nothing else: edits, removals and returns may overlap as they like, and so may any requests on other
records.  Without it the three properties fail (run `suoritukset_muokkauskilpailu` for the first).  `OmatRivit` says that
units and assessors a request touches belong to the records it names, so that `Tarkistettu` speaks of
the right rows.

**SopimusVoimassaolo.**  `PaivatRiveista` is not inductive,
because a commit writes days that were computed several statements earlier.  `Induktiivinen` says what makes
them still right: no row is written by two transactions (`LukotOK`); a request holds the lock of its agreement
from a certain statement on, in a POST the UPDATE of `muutettuaika` (`VaiheOK`, `LukkoPidossa`); it
writes rows of that agreement only (`KohteetOK`); and so the days it has computed are those of the
rows it sees (`KirjoituksetOK`).  The step that needs all of this is another transaction's commit
(`MuidenKirjoitukset`): it changes rows of agreements it has locked, hence of others than those the
computed days are about.  `KirjoituksetOK` also says of the
column `voimassa` what the table's CHECK asks, since that is computed with the agreement locked (`Poistettu`).  That the columns can be
computed at all, a set of days having an earliest and a latest one, rests on `WellFoundedInduction` of the library
(`LukujenPienin`).

The other theorems need more than a case for each statement, so `Askeleet` first reduces the statements to six
shapes: to begin, read, go to the next agreement, write the agreement, write rows, insert a row.  `Kirjoitetut` says what a
transaction may have written: nothing before its check, a removal only in a DELETE and of its own agreement, rows that
keep their version and stay removed.  `Elinkaareen` follows: a commit removes one agreement, or none and
decides which of those not removed are valid.  So does `PoistettuRiviPysyy`: a transaction takes the locks of its rows one
by one and writes each on what it found after the wait, so a PUT that waited for a removal leaves the row removed.

What holds only without some overlap has its own strengthening, and its hypothesis rules out that overlap alone:

| Hypothesis | What may not overlap | Strengthening |
|---|---|---|
| `LuennatErillaan` | a request, and a nightly run that has read the days of its agreement and not yet written them | `EraajoOK`: what a nightly run has read and written is what it would compute from the tables as they are now.  Another nightly run may commit in between: computing the first day again from the one just written gives the same (`AlkupvmToistuu`) |
| `LisayksetErillaan` | two POSTs of versions on one agreement | `TutkinnotOK`: the versions a POST has yet to insert are not among the rows it sees, and no version is there twice |
| `PoistotErillaan` | a POST of versions and the DELETE of its agreement | `PoistoOK`: the agreement of a POST is not removed, and a DELETE that has chosen its rows has chosen all |
| `UNCHANGED ymparisto` | midnight, or a change of a term of office or a transition period | `VoimassaOK`: a column `voimassa` a transaction has written and will commit is what the rules say of the agreement and the rows it sees |

Each of the first three hypotheses is needed: TLC finds a violation when the constraint is dropped or, for the second and
the third, with two requests.  So is the fourth: from midnight on the columns are out of date until the nightly run writes them.
`VoimassaSaannoista` is the safety `EraajoKorjaa` rests on: even a nightly run that writes days which
are out of date computes `voimassa` from the days it writes, with the agreement locked.

**Toimiala.**  `LukotErillaan`, a part of the invariant, makes what a transaction has deleted and inserted its own.  `Induktiivinen` adds that the
snapshot of a DELETE has committed rows only, and that a committed row is one the page has read or one that
another save has brought since (`muiden`), so what a commit removes was either asked about or brought.
`Toteutus` maps the start of a DELETE to the abstract start of a save and the rows its snapshot misses to `muiden`.

**Selain.**  The requests in flight and the counters go together; a button that is enabled has a counter of zero,
hence (by the counters being right) no request of its method in flight, so the form is sent once.  Without the first
part the second is not inductive: that is how a lost decrement, or one too many, would show.

**Hakulista.**  At most one query in flight is `oma`, and it is so exactly while the array on the scope is open;
its criteria are those of the page.  That makes the answer to it, and to no other, the new list.

**Palautteet.**  An answer that waits has left a stamp the watcher has not seen; so when the digest is done none waits.
The refinement counts a waiting answer's message as shown already: it is made before anyone sees the page.

**Arviointipaatokset.**  The list may be wrong for a while, so the invariant says why it will not stay so.
`HautOK`: a search that no later one has overtaken asks with the form as it is now, or the timer will send
another; its answer still holds, or an approval has been carried out whose answer will send another.
`ListaOK`: a list nothing has made unreliable is the server's up to rows whose removal is being answered, or a search is to
come.  `PoistotOK`: rows the page is about to remove the server has removed.  `ListaTuore` is what is left of
`ListaOK` when nothing is under way.  `PalvelinElinkaaressa` ties the server of this module to that of `Suoritukset`:
`YksiPoistettava` (a DELETE names the one record the question was about) makes each of its steps one of `Suorituselinkaari`.

**Only model-checked:** the liveness properties (`PyyntoPaattyy`, `EraajoKorjaa`, `TallennusPaattyy`, `NappiVapautuu`,
and the fairness of `Hakulupaus`), which are out of the prover's reach, and the two runs that show a counterexample.

## 5. Simplifications

Columns no property is about are one value.  Access rights are a function of the user: a request in the models
has been let in, or, where a page shows the difference (`Toimiala`, `Arviointipaatokset`), is refused at any time.
The units and specialisations of an agreement's row and its attachments do not enter the validity.  The forms
of a POST are sets of versions, so a form that names one version twice is not represented.  Rows of a list are
compared by identity; the order of a list, its columns and the texts of messages are left out.

## 6. Not modelled

* **Vendored code** (`public/pdf-viewer`, `public/select2`): copies of other projects, about 12 600 of the 17 700
  lines of JavaScript under `src/`.
* **Excel import**: a loop over cells in one transaction; it lets duplicates of concurrent or repeated imports
  happen and no text says otherwise, so there is nothing to check beyond the hazard listed.
* **Contract numbers, memberships, proposals**: single statements whose outcome is decided by one constraint, or
  checks whose failure under overlap is listed as a hazard and promised away nowhere.
* **Users, organisations, ePerusteet, koodistopalvelu**: folds over the answers of other services, each in one transaction.
* **Reads** (reports, decisions, CSV and PDF, APIs), the audit log, registers of persons, notices, attachments:
  no state the properties are about.
* **Forms and filters of the remaining pages**: copying between a template and a request, formatting.

`PROJECT.json` gives the reason component by component.
