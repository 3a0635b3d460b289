------------------------------ MODULE Hakulista ------------------------------
(***************************************************************************)
(* The search pages of committees, education providers and schools (and,   *)
(* with one query at the start and a button to try again, of persons):     *)
(* some criteria are asked from the server, others filter what the page    *)
(* has.  $resource's query returns an array at once and fills it when its  *)
(* own answer arrives, so the array on the scope is always that of the     *)
(* latest query; but the directive latausIndikaattori knows only of the    *)
(* method, whose counters all queries of all visits to the page share.     *)
(***************************************************************************)
EXTENDS Rajapintakutsut

CONSTANTS Ehdot, Alkuehto,       \* the criteria that are sent to the server
          Suotimet, Alkusuodin,  \* the criteria that filter on the page
          Rivit,                 \* what is searched
          Osuvat,                \* Osuvat[e]: the rows that meet e
          Lapaisevat,            \* Lapaisevat[s]: the rows that pass s
          Listaus,               \* the method of the page
          Sivukoko               \* tuloksiaSivulla

VARIABLES ehto,                  \* toimikuntaHakuehto.toimikausi and the like
          suodin,                \* toimikuntaHakuehto.nimi and the like
          kaikki,                \* kaikkiToimikunnat: its rows, and whether its
                                 \* query is answered ("ei": no page is open)
          hakutulokset,          \* toimikunnat: what passes the filter; the
                                 \* order, by name, is left out
          nykyinenSivu,          \* the page of the list
          viimeinenPyyntoOnnistui \* of the interceptor, for Listaus

listaVars == <<ehto, suodin, kaikki, hakutulokset, nykyinenSivu>>
vars == <<listaVars, viimeinenPyyntoOnnistui, kutsuVars>>

Vaiheet == {"ei", "haussa", "valmis", "virhe"}
Kyselyt == [id : {Listaus}, ehto : Ehdot, oma : BOOLEAN]

ASSUME HakulistaOletus ==
  /\ Alkuehto \in Ehdot /\ Alkusuodin \in Suotimet
  /\ Osuvat \in [Ehdot -> SUBSET Rivit] /\ Lapaisevat \in [Suotimet -> SUBSET Rivit]
  /\ IsFiniteSet(Rivit) /\ IsFiniteSet(Paikat)
  /\ Metodit = {Listaus} /\ Nil \notin Kyselyt /\ Nil \notin Paikat
  /\ Sivukoko \in Nat \ {0}

Init ==
  /\ KutsuInit /\ viimeinenPyyntoOnnistui = TRUE
  /\ ehto = Alkuehto /\ suodin = Alkusuodin
  /\ kaikki = [vaihe |-> "ei", rivit |-> {}]
  /\ hakutulokset = {} /\ nykyinenSivu = 1

-----------------------------------------------------------------------------
(* The list and its pages *)

\* Mutant: the pages are counted from zero.
SivutNollasta(tulokset) ==
  /\ hakutulokset' = tulokset
  /\ nykyinenSivu' = IF tulokset = hakutulokset THEN nykyinenSivu ELSE 0

\* Mutant: the directive does not watch its results.
SivuEiPalaa(tulokset) ==
  /\ hakutulokset' = tulokset
  /\ UNCHANGED nykyinenSivu

\* The directive hakutulokset goes back to the first page when the results
\* change.
naytaTulokset(tulokset) ==
  /\ hakutulokset' = tulokset
  /\ nykyinenSivu' = IF tulokset = hakutulokset THEN nykyinenSivu ELSE 1

\* suodataToimikunnat, which runs when the array or the filter changes.
suodata(lista, s) ==
  /\ kaikki' = lista /\ suodin' = s
  /\ naytaTulokset(lista.rivit \cap Lapaisevat[s])

\* mista and mihin of hakutuloslaskuri: the first and the last result shown.
mista == (nykyinenSivu - 1) * Sivukoko + 1
mihin == LET loppu == nykyinenSivu * Sivukoko
             maara == Cardinality(hakutulokset)
         IN  IF loppu < maara THEN loppu ELSE maara

\* The number of pages, at least one.
Sivuja == LET maara == Cardinality(hakutulokset)
          IN  IF maara = 0 THEN 1 ELSE (maara + Sivukoko - 1) \div Sivukoko

-----------------------------------------------------------------------------
(* The indicator *)

latausKaynnissa == PyyntojaKaynnissa({Listaus})
virhe == ~viimeinenPyyntoOnnistui

-----------------------------------------------------------------------------
(* Events *)

Haussa == [vaihe |-> "haussa", rivit |-> {}]
Kysely(e, oma) == [id |-> Listaus, ehto |-> e, oma |-> oma]

\* Mutant: the old array stays too.
VanhatPysyvat(k) == k

\* The queries whose arrays are not on the scope any more.
Vanhat(k) == [c \in Paikat |-> IF k[c] = Nil THEN Nil ELSE [k[c] EXCEPT !.oma = FALSE]]

\* haeToimikunnat: the array of the new query replaces the old one at once.
hae(e) ==
  /\ \E c \in Vapaat(kutsu) : kutsu' = [Vanhat(kutsu) EXCEPT ![c] = Kysely(e, TRUE)]
  /\ pyynnot' = apiPyynto(pyynnot, Listaus)
  /\ ehto' = e
  /\ suodata(Haussa, suodin)
  /\ UNCHANGED viimeinenPyyntoOnnistui

\* The page is opened, also again: both watches of the criteria run, and each
\* asks.
Avaa ==
  /\ \E c, d \in Vapaat(kutsu) :
       c # d /\ kutsu' = [Vanhat(kutsu) EXCEPT ![c] = Kysely(Alkuehto, FALSE),
                                      ![d] = Kysely(Alkuehto, TRUE)]
  /\ pyynnot' = apiPyynto(apiPyynto(pyynnot, Listaus), Listaus)
  /\ ehto' = Alkuehto /\ suodin' = Alkusuodin
  /\ kaikki' = Haussa /\ hakutulokset' = {} /\ nykyinenSivu' = 1
  /\ UNCHANGED viimeinenPyyntoOnnistui

\* The user chooses a criterion that the server needs.
AsetaEhto(e) == kaikki.vaihe # "ei" /\ e # ehto /\ hae(e)

\* The button of the indicator after a failure, on the pages of persons and
\* of qualifications; on the others it calls a function the scope does not
\* have.
yritaUudelleen == kaikki.vaihe # "ei" /\ virhe /\ ~latausKaynnissa /\ hae(ehto)

\* The user chooses a criterion that filters.
AsetaSuodin(s) ==
  /\ kaikki.vaihe # "ei" /\ s # suodin
  /\ suodata(kaikki, s)
  /\ UNCHANGED <<ehto, viimeinenPyyntoOnnistui, kutsuVars>>

\* The user turns a page.
Sivulle(p) ==
  /\ p \in 1..Sivuja /\ p # nykyinenSivu
  /\ nykyinenSivu' = p
  /\ UNCHANGED <<ehto, suodin, kaikki, hakutulokset, viimeinenPyyntoOnnistui, kutsuVars>>

\* Mutant: the answer is assigned to the scope when it arrives, as the lists
\* of proposals do.
TaytaThen(kysely, R) == suodata([vaihe |-> "valmis", rivit |-> R], suodin)

\* The answer R fills the array of its own query.
tayta(kysely, R) ==
  IF kysely.oma THEN suodata([vaihe |-> "valmis", rivit |-> R], suodin)
  ELSE UNCHANGED <<kaikki, suodin, hakutulokset, nykyinenSivu>>

\* A query is answered, or fails.
Vastaus(c, epaonnistui) ==
  LET kysely == kutsu[c] IN
  /\ kysely # Nil
  /\ kutsu' = [kutsu EXCEPT ![c] = Nil]
  /\ pyynnot' = apiVastaus(pyynnot, Listaus, epaonnistui)
  /\ viimeinenPyyntoOnnistui' = ~epaonnistui
  /\ \/ /\ ~epaonnistui
        /\ \E R \in SUBSET Osuvat[kysely.ehto] : tayta(kysely, R)
     \/ /\ epaonnistui
        /\ kaikki' = IF kysely.oma THEN [kaikki EXCEPT !.vaihe = "virhe"] ELSE kaikki
        /\ UNCHANGED <<suodin, hakutulokset, nykyinenSivu>>
  /\ UNCHANGED ehto

Next ==
  \/ Avaa \/ yritaUudelleen
  \/ \E e \in Ehdot : AsetaEhto(e)
  \/ \E s \in Suotimet : AsetaSuodin(s)
  \/ \E p \in 1..Sivuja : Sivulle(p)
  \/ \E c \in Paikat, epaonnistui \in BOOLEAN : Vastaus(c, epaonnistui)

Spec == Init /\ [][Next]_vars

\* Every query is answered: it fails after requestTimeout at the latest.
ReiluSpec ==
  Spec /\ \A c \in Paikat : WF_vars(\E epaonnistui \in BOOLEAN : Vastaus(c, epaonnistui))

-----------------------------------------------------------------------------
(* Properties *)

TyyppiOK ==
  /\ ehto \in Ehdot /\ suodin \in Suotimet
  /\ kaikki \in [vaihe : Vaiheet, rivit : SUBSET Rivit]
  /\ hakutulokset \in SUBSET Rivit
  /\ nykyinenSivu \in Nat \ {0}
  /\ viimeinenPyyntoOnnistui \in BOOLEAN
  /\ kutsu \in [Paikat -> Kyselyt \union {Nil}]
  /\ pyynnot \in [Metodit -> Int]

\* However the answers are ordered, the list has only rows that meet the
\* criteria the page shows.
TuloksetVastaavatEhtoja == hakutulokset \subseteq Osuvat[ehto] \cap Lapaisevat[suodin]

\* When there are results, the page of the list the user is on has some of
\* them, whatever has become of the list since he turned the page.
SivullaOnTuloksia == hakutulokset # {} => mista <= mihin

\* A list whose query is still in flight is never shown as if it were the
\* answer ("Ei hakutuloksia"): the indicator runs, whatever earlier queries of
\* the page have ended.
KeskeneraistaEiNayteta == kaikki.vaihe = "haussa" => latausKaynnissa

\* The place of the query whose array is on the scope.
Omat == {c \in Paikat : kutsu[c] # Nil /\ kutsu[c].oma}
avoin == IF Omat = {} THEN Nil ELSE CHOOSE c \in Omat : TRUE

Lupaus == INSTANCE Hakulupaus WITH
  Kysymykset <- Paikat, Nil <- Nil, Ehdot <- Ehdot, Alkuehto <- Alkuehto,
  Suotimet <- Suotimet, Alkusuodin <- Alkusuodin,
  Osuvat <- Osuvat, Lapaisevat <- Lapaisevat,
  avoin <- avoin, ehto <- ehto, suodin <- suodin,
  saadut <- kaikki.rivit, nakyvat <- hakutulokset

\* The page keeps its promise: queries that overtake each other, failures and
\* repeated visits do not show, and the latest query ends.
ToteuttaaHakulupauksen == Lupaus!Spec
=============================================================================
