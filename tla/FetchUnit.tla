----------------------------- MODULE FetchUnit ------------------------------
(***************************************************************************)
(* What the fetch stage promises, with no buffer in it: an address to      *)
(* fetch, the address in decode, and a partial function of predictions.    *)
(* A redirect records its target as the prediction of the address in       *)
(* decode, and may forget any other prediction; nothing else ever changes  *)
(* what is predicted.                                                      *)
(***************************************************************************)
EXTENDS RiscvTypes

VARIABLES fetch_pc, decode_pc, predictions

fetchVars == <<fetch_pc, decode_pc, predictions>>

NoPredictions == [pc \in {} |-> 0]

Init ==
  /\ fetch_pc = 0
  /\ decode_pc = 0
  /\ predictions = NoPredictions

\* The execute stage corrects the address: the fetch is squashed.
Redirect(target) ==
  /\ fetch_pc' = target
  /\ decode_pc' = 0
  /\ \E kept \in SUBSET (DOMAIN predictions \ {decode_pc}) :
       predictions' = [pc \in kept \cup {decode_pc} |->
                         IF pc = decode_pc THEN target ELSE predictions[pc]]

\* The fetched address has a prediction, which is followed even in a stall.
FollowPrediction(stall) ==
  /\ fetch_pc \in DOMAIN predictions
  /\ fetch_pc' = predictions[fetch_pc]
  /\ decode_pc' = IF stall THEN decode_pc ELSE fetch_pc
  /\ UNCHANGED predictions

FetchNext ==
  /\ fetch_pc \notin DOMAIN predictions
  /\ fetch_pc' = ToData(fetch_pc + 4)
  /\ decode_pc' = fetch_pc
  /\ UNCHANGED predictions

\* A stall that no prediction overrides changes nothing: a stuttering step.

Reset ==
  /\ fetch_pc' = 0
  /\ decode_pc' = 0
  /\ predictions' = NoPredictions

Next ==
  \/ \E target \in Data : Redirect(target)
  \/ \E stall \in BOOLEAN : FollowPrediction(stall)
  \/ FetchNext
  \/ Reset

Spec == Init /\ [][Next]_fetchVars
=============================================================================
