--------------------------- MODULE Rajapintakutsut ---------------------------
(***************************************************************************)
(* The browser's calls to the server: the requests in flight, and what the *)
(* $http interceptor apiCallInterceptor keeps about each method of the     *)
(* interface.  Answers come in any order, and every request is answered:   *)
(* it fails after requestTimeout at the latest.  The pages with forms      *)
(* (Selain) and the search pages (Hakulista) are built on this module.     *)
(***************************************************************************)
EXTENDS Integers, FiniteSets

CONSTANTS Paikat,    \* places for requests in flight: a bound
          Metodit,   \* the ids of the resource methods (id : '...')
          Nil        \* no request

VARIABLES kutsu,     \* kutsu[c]: the request in place c, or Nil
          pyynnot    \* apiCallInterceptor.pyynnot[m].pyyntojaKaynnissa; the other
                     \* field, viimeinenPyyntoOnnistui, is Hakulista's

kutsuVars == <<kutsu, pyynnot>>

\* An id the interceptor has not seen counts as idle.
EiPyyntoja == [m \in Metodit |-> 0]

KutsuInit ==
  /\ kutsu = [c \in Paikat |-> Nil]
  /\ pyynnot = EiPyyntoja

\* Places without a request in k.
Vapaat(k) == {c \in Paikat : k[c] = Nil}

\* The requests to method m in flight.
Kaynnissa(m) == {c \in Paikat : kutsu[c] # Nil /\ kutsu[c].id = m}

\* Mutant: an id that is known is not told from a new one.
ApiPyyntoAlustaa(P, m) == [P EXCEPT ![m] = 1]

\* The counters P after a request to m has left.
apiPyynto(P, m) == [P EXCEPT ![m] = @ + 1]

\* Mutant: an error is not counted as an answer.
ApiVastausVirheUnohtuu(P, m, virhe) == IF virhe THEN P ELSE [P EXCEPT ![m] = @ - 1]

\* The counters P after an answer, or an error, to a request to m.
apiVastaus(P, m, virhe) == [P EXCEPT ![m] = @ - 1]

\* The directives tallenna and latausIndikaattori: is a request to some
\* method of M running, as the interceptor's counters tell.
PyyntojaKaynnissa(M) == \E m \in M : pyynnot[m] # 0

-----------------------------------------------------------------------------
\* The interceptor counts exactly the requests in flight, however they
\* overlap and fail: a button that waits for them neither stays disabled for
\* good nor is enabled too early.
LaskuritTasmaavat ==
  \A m \in Metodit : pyynnot[m] = Cardinality(Kaynnissa(m))
=============================================================================
