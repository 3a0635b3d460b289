---------------------------- MODULE MCHakulista ----------------------------
(***************************************************************************)
(* Hakulista with three rows on pages of two, two criteria for the server  *)
(* that share a row, and a filter that leaves one page.                    *)
(***************************************************************************)
EXTENDS Hakulista

MCOsuvat == [e \in {"nykyinen", "tuleva"} |-> IF e = "nykyinen" THEN 1..3 ELSE {3}]
MCLapaisevat == [s \in {"", "nimi"} |-> IF s = "" THEN 1..3 ELSE {2, 3}]
=============================================================================
