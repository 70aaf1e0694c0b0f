------------------------------- MODULE MCScreens -------------------------------
(* Every screen of the catalogs, one after another, over two objects.        *)
EXTENDS Screens, Catalogs

CONSTANTS x1, x2

ASSUME AgreementAssumption == SerialAgrees
=============================================================================
