----------------------------- MODULE MCPresenter -----------------------------
(* Presenter for TLC. *)
EXTENDS Presenter

==============================================================================
