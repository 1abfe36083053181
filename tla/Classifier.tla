----------------------------- MODULE Classifier -----------------------------
(***************************************************************************)
(* sidecar/perception/classifier.py: how rich a window's element tree is,  *)
(* from the two numbers of its summary the code looks at.  The thresholds  *)
(* are constants, as TIER_THRESHOLDS says they wait to be calibrated.      *)
(***************************************************************************)
EXTENDS Naturals

CONSTANTS MinElementsT1, MinPatternsT1, MinElementsT1T2

ASSUME ThresholdsAssumption ==
  MinElementsT1 \in Nat /\ MinPatternsT1 \in Nat /\ MinElementsT1T2 \in Nat

Least(a, b) == IF a <= b THEN a ELSE b

\* Tiers from the poorest to the richest.
Tiers == <<"T3", "T2", "T1/T2", "T1">>

Rank(tier) == CHOOSE i \in DOMAIN Tiers : Tiers[i] = tier

\* The first condition that holds names the tier.
classify_tier(elements, patterns) ==
  IF elements >= MinElementsT1 /\ patterns >= MinPatternsT1 THEN "T1"
  ELSE IF elements >= MinElementsT1T2 /\ patterns >= 2 THEN "T1/T2"
  ELSE IF elements >= 2 /\ patterns >= 1 THEN "T2"
  ELSE "T3"

\* Mutant: the partial tier weighs its elements as the rich one does its patterns.
heavy_confidence(elements, patterns) ==
  LET tier == classify_tier(elements, patterns) IN
  IF tier = "T1" THEN 5000 + 10 * Least(elements, 200) + 375 * Least(patterns, 8)
  ELSE IF tier = "T1/T2" THEN 3000 + 30 * Least(elements, 100) + 500 * Least(patterns, 4)
  ELSE IF tier = "T2" THEN 2000 + 50 * Least(elements, 20)
  ELSE Least(1000 * elements, 3000)

\* In ten-thousandths, before it is rounded to hundredths.  _clamp changes none.
exact_confidence(elements, patterns) ==
  LET tier == classify_tier(elements, patterns) IN
  IF tier = "T1" THEN 5000 + 10 * Least(elements, 200) + 375 * Least(patterns, 8)
  ELSE IF tier = "T1/T2" THEN 3000 + 20 * Least(elements, 100) + 500 * Least(patterns, 4)
  ELSE IF tier = "T2" THEN 2000 + 50 * Least(elements, 20)
  ELSE Least(1000 * elements, 3000)

\* In hundredths.  Which neighbour round() gives for a tie depends on the float.
confidences(elements, patterns) ==
  LET exact == exact_confidence(elements, patterns) IN
  {c \in 0..100 : c * 100 <= exact + 50 /\ exact <= c * 100 + 50}
=============================================================================
