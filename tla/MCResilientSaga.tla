-------------------------- MODULE MCResilientSaga --------------------------
(* The instance of ResilientSaga for TLC.                                  *)
EXTENDS ResilientSaga
=============================================================================
