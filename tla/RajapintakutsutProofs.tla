------------------------ MODULE RajapintakutsutProofs ------------------------
(***************************************************************************)
(* Lemmas about the requests in flight and the interceptor's counters, for *)
(* any number of places, methods and requests: what the counters say of a  *)
(* set of requests, and how one request more or less changes both.  The    *)
(* proofs about forms (SelainProofs) and about search pages                *)
(* (HakulistaProofs) rest on them.                                         *)
(***************************************************************************)
EXTENDS Rajapintakutsut, FiniteSetTheorems, TLAPS

\* The requests of k to method m: Kaynnissa for other values than kutsu.
Kohti(k, m) == {c \in Paikat : k[c] # Nil /\ k[c].id = m}

\* The counters P tell how many requests of k there are to each method.
Tasmaavat(k, P) == \A m \in Metodit : P[m] = Cardinality(Kohti(k, m))

\* The requests to a method are finitely many: the browser has finitely many
\* places for them.
LEMMA KohtiAarellinen ==
  ASSUME IsFiniteSet(Paikat), NEW k, NEW m
  PROVE  IsFiniteSet(Kohti(k, m)) /\ Cardinality(Kohti(k, m)) \in Nat
<1>1. Kohti(k, m) \in SUBSET Paikat
  BY DEF Kohti
<1>2. QED
  BY <1>1, FS_Subset, FS_CardinalityType

\* Without requests every counter is zero (EiPyyntoja).
LEMMA TyhjatTasmaavat ==
  Tasmaavat([c \in Paikat |-> Nil], EiPyyntoja)
<1>1. \A m : Kohti([c \in Paikat |-> Nil], m) = {}
  BY DEF Kohti
<1>2. QED
  BY <1>1, FS_EmptySet DEF Tasmaavat, EiPyyntoja

\* apiPyynto: a request p that leaves from the free place c is counted.
LEMMA PyyntoLasketaan ==
  ASSUME IsFiniteSet(Paikat),
         NEW k, NEW P \in [Metodit -> Int], Tasmaavat(k, P),
         NEW c \in Paikat, k[c] = Nil,
         NEW p, p # Nil, p.id \in Metodit,
         NEW n, \A d \in Paikat : n[d] = IF d = c THEN p ELSE k[d]
  PROVE  /\ Tasmaavat(n, apiPyynto(P, p.id))
         /\ \A m : m # p.id => Kohti(n, m) = Kohti(k, m)
         /\ Cardinality(Kohti(n, p.id)) = Cardinality(Kohti(k, p.id)) + 1
<1>1. Kohti(n, p.id) = Kohti(k, p.id) \cup {c}
  BY DEF Kohti
<1>2. c \notin Kohti(k, p.id)
  BY DEF Kohti
<1>3. Cardinality(Kohti(n, p.id)) = Cardinality(Kohti(k, p.id)) + 1
  BY <1>1, <1>2, KohtiAarellinen, FS_AddElement
<1>4. \A m : m # p.id => Kohti(n, m) = Kohti(k, m)
  BY DEF Kohti
<1>5. ASSUME NEW m \in Metodit
      PROVE  apiPyynto(P, p.id)[m] = Cardinality(Kohti(n, m))
  <2>1. CASE m = p.id
    BY <1>3, <2>1 DEF apiPyynto, Tasmaavat
  <2>2. CASE m # p.id
    BY <1>4, <2>2 DEF apiPyynto, Tasmaavat
  <2>3. QED
    BY <2>1, <2>2
<1>6. QED
  BY <1>3, <1>4, <1>5 DEF Tasmaavat

\* apiVastaus: the answer, or the failure, of the request in place c is
\* counted too.
LEMMA VastausLasketaan ==
  ASSUME IsFiniteSet(Paikat),
         NEW k, NEW P \in [Metodit -> Int], Tasmaavat(k, P),
         NEW c \in Paikat, k[c] # Nil, k[c].id \in Metodit, NEW virhe,
         NEW n, \A d \in Paikat : n[d] = IF d = c THEN Nil ELSE k[d]
  PROVE  /\ Tasmaavat(n, apiVastaus(P, k[c].id, virhe))
         /\ \A m : Kohti(n, m) \subseteq Kohti(k, m)
<1> DEFINE i == k[c].id
<1>1. Kohti(n, i) = Kohti(k, i) \ {c} /\ c \in Kohti(k, i)
  BY DEF Kohti
<1>2. Cardinality(Kohti(n, i)) = Cardinality(Kohti(k, i)) - 1
  <2>1. IsFiniteSet(Kohti(k, i))
    BY KohtiAarellinen
  <2>2. Cardinality(Kohti(k, i) \ {c}) = Cardinality(Kohti(k, i)) - 1
    <3> HIDE DEF i
    <3>1. QED
      BY <1>1, <2>1, FS_RemoveElement
  <2>3. QED
    BY <1>1, <2>2
<1>3. \A m : m # i => Kohti(n, m) = Kohti(k, m)
  BY DEF Kohti
<1>4. ASSUME NEW m \in Metodit
      PROVE  apiVastaus(P, i, virhe)[m] = Cardinality(Kohti(n, m))
  <2>1. CASE m = i
    BY <1>2, <2>1 DEF apiVastaus, Tasmaavat
  <2>2. CASE m # i
    BY <1>3, <2>2 DEF apiVastaus, Tasmaavat
  <2>3. QED
    BY <2>1, <2>2
<1>5. QED
  BY <1>1, <1>3, <1>4 DEF Tasmaavat

\* Requests that change nothing but their other fields keep the counters
\* right: leaving a page ends no request.
LEMMA SamatPyynnot ==
  ASSUME NEW k, NEW n,
         \A c \in Paikat : /\ (n[c] = Nil) <=> (k[c] = Nil)
                           /\ k[c] # Nil => n[c].id = k[c].id
  PROVE  /\ \A m : Kohti(n, m) = Kohti(k, m)
         /\ \A P : Tasmaavat(k, P) => Tasmaavat(n, P)
<1>1. \A m : Kohti(n, m) = Kohti(k, m)
  BY DEF Kohti
<1>2. QED
  BY <1>1 DEF Tasmaavat

\* A counter is zero exactly when no request to the method is in flight
\* (PyyntojaKaynnissa).
LEMMA LaskuriNolla ==
  ASSUME IsFiniteSet(Paikat), NEW k, NEW P, Tasmaavat(k, P), NEW m \in Metodit
  PROVE  P[m] = 0 <=> Kohti(k, m) = {}
BY KohtiAarellinen, FS_EmptySet DEF Tasmaavat
=============================================================================
