------------------------------ MODULE MCToeSlots ------------------------------
(* The builds of ToeSlots that TLC checks. *)
EXTENDS ToeSlots

\* Server and client demo are both configured, and the address arrives while
\* app_main makes its routing check.
AllTogether == {Tasks}
===============================================================================
