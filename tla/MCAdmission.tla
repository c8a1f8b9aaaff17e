---------------------------- MODULE MCAdmission ----------------------------
(* Model-checking instance of Admission: two symmetric producers. *)
EXTENDS Admission, TLC

ProducerSymmetry == Permutations(Producers)
=============================================================================
