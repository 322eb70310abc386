----------------------------- MODULE MCSources -----------------------------
(* Sources with the values of PreparationValues.                                 *)
EXTENDS Sources, PreparationValues
=============================================================================
