--------------------------- MODULE MCCallAdmission ---------------------------
(***************************************************************************)
(* Requests are interchangeable.                                           *)
(***************************************************************************)
EXTENDS CallAdmission, TLC

MCSymmetry == Permutations(Admissions) \union Permutations(Tenants)

=============================================================================
