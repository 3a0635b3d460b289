------------------------------ MODULE Toimiala ------------------------------
(***************************************************************************)
(* The qualifications one committee is responsible for: the page           *)
(* /toimikunta/:id/tutkinnot (TutkintojenLisaysController) in several      *)
(* tabs, and POST /api/ttk/:tkunta/tutkinnot, which deletes the rows of    *)
(* toimikunta_ja_tutkinto and inserts the list of the page in one          *)
(* transaction at READ COMMITTED.  A tab that has saved waits for its      *)
(* answer (Selain models leaving the page meanwhile).                      *)
(***************************************************************************)
EXTENDS FiniteSets, TLC

CONSTANTS Tutkinnot,   \* the qualifications (tutkintotunnus)
          Valilehdet   \* the tabs

VARIABLES
  kanta,       \* the committed rows of the committee in toimikunta_ja_tutkinto
  vaihe,       \* of the tab: "kiinni", "haussa", "auki"; of its POST:
               \* "saapuu", "tapahtuma" (the transaction), "vastaus"
  alussa,      \* tutkinnotAlussa: the list as the server gave it
  valitut,     \* valitutTutkinnot: the list on the page, which is also sent
  naki,        \* the rows the DELETE saw when it began and may still find
  poistetut,   \* the rows the transaction has deleted
  lisatyt,     \* the rows the transaction has inserted
  onnistui,    \* the status of the answer
  muiden       \* history: what other saves have brought since this tab's
               \* list was read

sivuVars == <<alussa, valitut>>
tapahtumaVars == <<naki, poistetut, lisatyt>>
vars == <<kanta, vaihe, sivuVars, tapahtumaVars, onnistui, muiden>>

Vaiheet == {"kiinni", "haussa", "auki", "saapuu", "tapahtuma", "vastaus"}
Tyhja == [t \in Valilehdet |-> {}]

ASSUME ToimialaOletus == IsFiniteSet(Tutkinnot) /\ IsFiniteSet(Valilehdet)

Init ==
  /\ kanta \in SUBSET Tutkinnot
  /\ vaihe = [t \in Valilehdet |-> "kiinni"]
  /\ alussa = Tyhja /\ valitut = Tyhja
  /\ naki = Tyhja /\ poistetut = Tyhja /\ lisatyt = Tyhja
  /\ onnistui = [t \in Valilehdet |-> TRUE]
  /\ muiden = Tyhja

-----------------------------------------------------------------------------
(* The page *)

\* The page is opened, loaded again or left; its answers no longer matter.
Avaa(t) ==
  /\ vaihe[t] \in {"kiinni", "haussa", "auki"}
  /\ vaihe' = [vaihe EXCEPT ![t] = "haussa"]
  /\ UNCHANGED <<kanta, sivuVars, tapahtumaVars, onnistui, muiden>>

Poistu(t) ==
  /\ vaihe[t] \in {"haussa", "auki"}
  /\ vaihe' = [vaihe EXCEPT ![t] = "kiinni"]
  /\ UNCHANGED <<kanta, sivuVars, tapahtumaVars, onnistui, muiden>>

\* The answer to resource.get: the list, and a copy of it.
Lataa(t) ==
  /\ vaihe[t] = "haussa"
  /\ vaihe' = [vaihe EXCEPT ![t] = "auki"]
  /\ alussa' = [alussa EXCEPT ![t] = kanta]
  /\ valitut' = [valitut EXCEPT ![t] = kanta]
  /\ muiden' = [muiden EXCEPT ![t] = {}]
  /\ UNCHANGED <<kanta, tapahtumaVars, onnistui>>

\* A qualification is added to the list.
lisaa(t, q) ==
  /\ vaihe[t] = "auki" /\ q \notin valitut[t]
  /\ valitut' = [valitut EXCEPT ![t] = @ \union {q}]
  /\ UNCHANGED <<kanta, vaihe, alussa, tapahtumaVars, onnistui, muiden>>

\* Mutant: tutkinnotAlussa is the same array as the list.
PoistaMolemmista(t, q) ==
  /\ vaihe[t] = "auki" /\ q \in valitut[t]
  /\ valitut' = [valitut EXCEPT ![t] = @ \ {q}]
  /\ alussa' = [alussa EXCEPT ![t] = @ \ {q}]
  /\ UNCHANGED <<kanta, vaihe, tapahtumaVars, onnistui, muiden>>

\* A qualification is removed from the list.
poista(t, q) ==
  /\ vaihe[t] = "auki" /\ q \in valitut[t]
  /\ valitut' = [valitut EXCEPT ![t] = @ \ {q}]
  /\ UNCHANGED <<kanta, vaihe, alussa, tapahtumaVars, onnistui, muiden>>

\* varmistaTallennus: the removals the user is asked about.
poistettavat(t) == alussa[t] \ valitut[t]

\* tallenna, when the user agrees to the removals.
tallenna(t) ==
  /\ vaihe[t] = "auki"
  /\ vaihe' = [vaihe EXCEPT ![t] = "saapuu"]
  /\ UNCHANGED <<kanta, sivuVars, tapahtumaVars, onnistui, muiden>>

\* The answer: a success leaves the page, an error stays there.
Vastaus(t) ==
  /\ vaihe[t] = "vastaus"
  /\ vaihe' = [vaihe EXCEPT ![t] = IF onnistui[t] THEN "kiinni" ELSE "auki"]
  /\ UNCHANGED <<kanta, sivuVars, tapahtumaVars, onnistui, muiden>>

-----------------------------------------------------------------------------
(* The transaction *)

\* Mutant: a transaction that ends keeps its locks.
PaataVapauttamatta(t, ok) ==
  /\ vaihe' = [vaihe EXCEPT ![t] = "vastaus"]
  /\ onnistui' = [onnistui EXCEPT ![t] = ok]
  /\ UNCHANGED <<poistetut, lisatyt>>

\* The transaction ends: a rollback answers with an error.
Paata(t, ok) ==
  /\ vaihe' = [vaihe EXCEPT ![t] = "vastaus"]
  /\ onnistui' = [onnistui EXCEPT ![t] = ok]
  /\ poistetut' = [poistetut EXCEPT ![t] = {}]
  /\ lisatyt' = [lisatyt EXCEPT ![t] = {}]

\* salli-toimikunnan-paivitys? or the access right refuses (the term of the
\* committee has ended): 403, and the page is loaded again.
Torju(t) ==
  /\ vaihe[t] = "saapuu"
  /\ vaihe' = [vaihe EXCEPT ![t] = "haussa"]
  /\ UNCHANGED <<kanta, sivuVars, tapahtumaVars, onnistui, muiden>>

\* poista-kaikki-tutkinnot! begins: its snapshot has the committed rows.
AloitaPoisto(t) ==
  /\ vaihe[t] = "saapuu"
  /\ vaihe' = [vaihe EXCEPT ![t] = "tapahtuma"]
  /\ naki' = [naki EXCEPT ![t] = kanta]
  /\ UNCHANGED <<kanta, sivuVars, poistetut, lisatyt, onnistui, muiden>>

\* The DELETE is done: the rows it saw are deleted, by it or by others.
Lisataan(t) == vaihe[t] = "tapahtuma" /\ naki[t] \subseteq poistetut[t]

\* t may have to wait for u: for a row u is deleting, or for the key of a row
\* u has inserted or is deleting.
Odottaa(t, u) ==
  /\ u # t /\ vaihe[t] = "tapahtuma"
  /\ \/ (naki[t] \ poistetut[t]) \intersect poistetut[u] # {}
     \/ /\ Lisataan(t)
        /\ (valitut[t] \ lisatyt[t]) \intersect (lisatyt[u] \union poistetut[u]) # {}

\* The DELETE goes through the rows it saw: one that another save has deleted
\* meanwhile is gone, one it has inserted is not seen.
PoistaRivi(t, q) ==
  /\ vaihe[t] = "tapahtuma" /\ q \in naki[t] \ poistetut[t]
  /\ \A u \in Valilehdet : q \notin poistetut[u]
  /\ poistetut' = [poistetut EXCEPT ![t] = @ \union {q}]
  /\ UNCHANGED <<kanta, vaihe, sivuVars, naki, lisatyt, onnistui, muiden>>

\* The next INSERT of paivita-tutkinnot!: the order is the page's.
LisaaRivi(t, q) ==
  /\ Lisataan(t) /\ q \in valitut[t] \ lisatyt[t]
  /\ q \in kanta => q \in poistetut[t]
  /\ \A u \in Valilehdet \ {t} : q \notin lisatyt[u] \union poistetut[u]
  /\ lisatyt' = [lisatyt EXCEPT ![t] = @ \union {q}]
  /\ UNCHANGED <<kanta, vaihe, sivuVars, naki, poistetut, onnistui, muiden>>

\* Mutant: paivita-tutkinnot! is tried again when a key is taken.
YritaUudelleen(t) ==
  /\ Lisataan(t)
  /\ \E q \in (valitut[t] \ lisatyt[t]) \intersect (kanta \ poistetut[t]) :
       \A u \in Valilehdet \ {t} : q \notin poistetut[u]
  /\ naki' = [naki EXCEPT ![t] = kanta]
  /\ poistetut' = [poistetut EXCEPT ![t] = {}]
  /\ lisatyt' = [lisatyt EXCEPT ![t] = {}]
  /\ UNCHANGED <<kanta, vaihe, sivuVars, onnistui, muiden>>

\* The key is another save's by now: the transaction rolls back.
AvainVarattu(t) ==
  /\ Lisataan(t)
  /\ \E q \in (valitut[t] \ lisatyt[t]) \intersect (kanta \ poistetut[t]) :
       \A u \in Valilehdet \ {t} : q \notin poistetut[u]
  /\ Paata(t, FALSE)
  /\ UNCHANGED <<kanta, sivuVars, naki, muiden>>

\* Two transactions wait for each other: PostgreSQL rolls one back.
Lukkiuma(t) ==
  /\ \E u \in Valilehdet : Odottaa(t, u) /\ Odottaa(u, t)
  /\ Paata(t, FALSE)
  /\ UNCHANGED <<kanta, sivuVars, naki, muiden>>

\* Mutant: the rows are inserted before the old ones are deleted.
PoistaLopuksi(t) ==
  /\ Lisataan(t) /\ lisatyt[t] = valitut[t]
  /\ kanta' = (kanta \union lisatyt[t]) \ poistetut[t]
  /\ naki' = [u \in Valilehdet |-> naki[u] \ poistetut[t]]
  /\ muiden' = [u \in Valilehdet |-> IF u = t THEN {} ELSE muiden[u] \union lisatyt[t]]
  /\ Paata(t, TRUE)
  /\ UNCHANGED sivuVars

\* The transaction commits.
Vahvista(t) ==
  /\ Lisataan(t) /\ lisatyt[t] = valitut[t]
  /\ kanta' = (kanta \ poistetut[t]) \union lisatyt[t]
  /\ naki' = [u \in Valilehdet |-> naki[u] \ poistetut[t]]
  /\ muiden' = [u \in Valilehdet |-> IF u = t THEN {} ELSE muiden[u] \union lisatyt[t]]
  /\ Paata(t, TRUE)
  /\ UNCHANGED sivuVars

Palvelin(t) ==
  \/ AloitaPoisto(t) \/ (\E q \in Tutkinnot : PoistaRivi(t, q) \/ LisaaRivi(t, q))
  \/ AvainVarattu(t) \/ Lukkiuma(t) \/ Vahvista(t)

Next == \E t \in Valilehdet :
  \/ Avaa(t) \/ Poistu(t) \/ Lataa(t) \/ tallenna(t) \/ Vastaus(t)
  \/ \E q \in Tutkinnot : lisaa(t, q) \/ poista(t, q)
  \/ Torju(t) \/ Palvelin(t)

Spec == Init /\ [][Next]_vars

\* The server and PostgreSQL go on with a transaction that can go on, and one
\* that waits for a row or a key has its turn in the lock queue before saves
\* that come later.
ReiluSpec == Spec /\ \A t \in Valilehdet : SF_vars(Palvelin(t))

-----------------------------------------------------------------------------
(* Properties *)

\* The types; a save without a transaction holds no row and no key.
TyyppiOK ==
  /\ kanta \in SUBSET Tutkinnot
  /\ vaihe \in [Valilehdet -> Vaiheet]
  /\ alussa \in [Valilehdet -> SUBSET Tutkinnot]
  /\ valitut \in [Valilehdet -> SUBSET Tutkinnot]
  /\ naki \in [Valilehdet -> SUBSET Tutkinnot]
  /\ poistetut \in [Valilehdet -> SUBSET Tutkinnot]
  /\ lisatyt \in [Valilehdet -> SUBSET Tutkinnot]
  /\ onnistui \in [Valilehdet -> BOOLEAN]
  /\ muiden \in [Valilehdet -> SUBSET Tutkinnot]
  /\ \A t \in Valilehdet : vaihe[t] # "tapahtuma" => poistetut[t] \union lisatyt[t] = {}

\* A save removes only what the user was asked about and what other saves
\* have brought since the page was loaded.
PoistotVarmistettu ==
  [][\A t \in Valilehdet :
       vaihe[t] = "tapahtuma" /\ vaihe'[t] = "vastaus" =>
         kanta \ kanta' \subseteq poistettavat(t) \union muiden[t]]_vars

\* The transaction as a save of Toimialalupaus.
Tallennettava == [t \in Valilehdet |-> IF vaihe[t] = "tapahtuma" THEN {valitut[t]} ELSE {}]
Nakematta == [t \in Valilehdet |-> IF vaihe[t] = "tapahtuma" THEN kanta \ naki[t] ELSE {}]

Lupaus == INSTANCE Toimialalupaus WITH
  Tutkinnot <- Tutkinnot, Tallentajat <- Valilehdet,
  kanta <- kanta, lista <- Tallennettava, muiden <- Nakematta

\* However saves cross, wait and fail, one that succeeds leaves its list whole
\* and nothing else but what the ones that ended meanwhile brought.
ToteuttaaToimialalupauksen == Lupaus!Spec

\* Every save is answered, also when transactions lock each other out.
TallennusPaattyy ==
  \A t \in Valilehdet : vaihe[t] = "saapuu" ~> vaihe[t] \in {"vastaus", "haussa"}
=============================================================================
