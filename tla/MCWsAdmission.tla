----------------------------- MODULE MCWsAdmission -----------------------------
(* Five clients from two addresses. *)
EXTENDS WsAdmission

MCSockets == 1 .. 5
MCIpOf == [s \in MCSockets |-> IF s <= 3 THEN "office" ELSE "mobile"]
=============================================================================
