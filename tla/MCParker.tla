------------------------------- MODULE MCParker -------------------------------
(* One thread parking in every way, three threads unparking it. *)
EXTENDS Parker

CONSTANTS p, u1, u2, u3

MCUnparkers == {u1, u2, u3}
===============================================================================
