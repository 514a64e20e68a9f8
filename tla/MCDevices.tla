----------------------------- MODULE MCDevices ------------------------------
(***************************************************************************)
(* A machine that is used for the disk, one for disk and console, and two  *)
(* that exchange mail.                                                     *)
(***************************************************************************)
EXTENDS Devices

CONSTANTS d, c, m1, m2

MCTests == {{d}, {c}, {m1, m2}}
MCDiskUser == d :> {"u1", "u2"} @@ c :> {"u1"}
MCTyped == <<"a", "b", "q">>
=============================================================================
