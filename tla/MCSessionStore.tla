--------------------------- MODULE MCSessionStore ---------------------------
(* Instances of SessionStore for TLC.                                       *)
EXTENDS SessionStore, TLC

\* Requests are interchangeable, and so are users.
Symmetry == Permutations(Handlers) \cup Permutations(Users)
=============================================================================
