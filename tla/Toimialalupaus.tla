--------------------------- MODULE Toimialalupaus ---------------------------
(***************************************************************************)
(* What holds of the qualifications of one committee (its toimiala) when   *)
(* users save whole lists of them: a save that succeeds leaves its list    *)
(* there, and nothing else but rows of saves that ended while it was under *)
(* way.  So a save that no other one crosses leaves exactly its list.      *)
(***************************************************************************)
CONSTANTS Tutkinnot, Tallentajat

VARIABLES kanta,     \* the qualifications
          lista,     \* lista[t] = {L}: t is saving L; {}: t is not saving
          muiden     \* muiden[t]: rows others have brought meanwhile

vars == <<kanta, lista, muiden>>

Tyhja == [t \in Tallentajat |-> {}]

Init == kanta \in SUBSET Tutkinnot /\ lista = Tyhja /\ muiden = Tyhja

Aloita(t, L) ==
  /\ lista[t] = {}
  /\ lista' = [lista EXCEPT ![t] = {L}]
  /\ UNCHANGED <<kanta, muiden>>

\* The save of t ends.
Lopeta(t) ==
  /\ lista[t] # {} /\ lista' = [lista EXCEPT ![t] = {}]
  /\ muiden'[t] = {}

\* A save that fails leaves nothing.
Peru(t) ==
  /\ Lopeta(t)
  /\ muiden' = [muiden EXCEPT ![t] = {}]
  /\ UNCHANGED kanta

Vahvista(t, L) ==
  /\ Lopeta(t) /\ L \in lista[t]
  /\ L \subseteq kanta' /\ kanta' \subseteq L \union muiden[t]
  /\ muiden' \in [Tallentajat -> SUBSET Tutkinnot]
  /\ \A u \in Tallentajat : muiden'[u] \subseteq muiden[u] \union L

Next == \E t \in Tallentajat :
  Peru(t) \/ \E L \in SUBSET Tutkinnot : Aloita(t, L) \/ Vahvista(t, L)

Spec == Init /\ [][Next]_vars
=============================================================================
