----------------------------- MODULE Hakulupaus -----------------------------
(***************************************************************************)
(* What a search page promises, without requests in flight, their order or *)
(* the interceptor: a new question takes the place of an open one, the     *)
(* list is empty until the latest question gets its one answer or fails,   *)
(* and what is shown is always the part of that answer which passes the    *)
(* filter on the page.                                                     *)
(***************************************************************************)
CONSTANTS Kysymykset, Nil, Ehdot, Alkuehto, Suotimet, Alkusuodin, Osuvat, Lapaisevat

VARIABLES avoin,     \* the open question, or Nil
          ehto,      \* its criteria, or those of the list
          suodin,    \* the filter
          saadut,    \* the answer
          nakyvat    \* what is shown of it

vars == <<avoin, ehto, suodin, saadut, nakyvat>>

Init ==
  /\ avoin = Nil /\ ehto = Alkuehto /\ suodin = Alkusuodin
  /\ saadut = {} /\ nakyvat = {}

\* The page is opened or a question asked: nothing of an earlier answer stays.
Kysy(q, e, s) ==
  /\ q # avoin /\ avoin' = q
  /\ ehto' = e /\ suodin' = s
  /\ saadut' = {} /\ nakyvat' = {}

\* The answer to the open question.
Vastaa(R) ==
  /\ avoin # Nil /\ avoin' = Nil
  /\ saadut' = R /\ nakyvat' = R \cap Lapaisevat[suodin]
  /\ UNCHANGED <<ehto, suodin>>

\* The open question fails.
Epaonnistu ==
  /\ avoin # Nil /\ avoin' = Nil
  /\ UNCHANGED <<ehto, suodin, saadut, nakyvat>>

\* The user filters what he has.
Suodata(s) ==
  /\ suodin' = s /\ nakyvat' = saadut \cap Lapaisevat[s]
  /\ UNCHANGED <<avoin, ehto, saadut>>

Next ==
  \/ \E q \in Kysymykset, e \in Ehdot, s \in Suotimet : Kysy(q, e, s)
  \/ \E R \in SUBSET Osuvat[ehto] : Vastaa(R)
  \/ Epaonnistu
  \/ \E s \in Suotimet : Suodata(s)

\* The open question does not stay open.
Reiluus == WF_vars(avoin # Nil /\ Next /\ avoin' # avoin)

Spec == Init /\ [][Next]_vars /\ Reiluus
=============================================================================
