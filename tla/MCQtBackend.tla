----------------------------- MODULE MCQtBackend -----------------------------
(* QtBackend with two settings. *)
EXTENDS QtBackend
==============================================================================
