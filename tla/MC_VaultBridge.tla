----------------------------- MODULE MC_VaultBridge -----------------------------
(* Model-checking instance of VaultBridge.  Contents are the lengths of their     *)
(* plaintext, without the digits of the generation, of which there are two from   *)
(* generation 2 on: the slots of empty always fit, those of grown no more when    *)
(* the generation has two digits, those of large never.                           *)
EXTENDS VaultBridge, SlotSizes, FiniteSets

CONSTANTS v1, v2, p1, p2, n1, n2, n3

MCVaults == {v1, v2}
MCPasswords == {p1, p2}
MCNonces == {n1, n2, n3}

Digits(generation) == IF generation < 2 THEN 1 ELSE 2

empty == 151
grown == 3932000
large == 3932001

MCContents == {empty, grown, large}
MCOversized == {v \in Versions : ~Saves(v.content + Digits(v.generation), Digits(v.generation))}

(* What SlotSizes makes of lengths, counted byte by byte *)
Characters(n) == Cardinality({i \in 0..2 * n : 6 * i < 8 * n})

ASSUME EncodingAssumption == \A n \in 0..100 : EncodedLength(n) = Characters(n)
ASSUME BoundaryAssumption ==
  MCOversized = {v \in Versions : v.content = large \/ (v.content = grown /\ v.generation >= 2)}
=============================================================================
