------------------------------- MODULE MCClient -------------------------------
(***************************************************************************)
(* All functions of the client, and those with hidden fields, for TLC; the *)
(* codec is that of Xdr.                                                   *)
(***************************************************************************)
EXTENDS Client, Xdr

AllFunctions == DOMAIN ClientFunctions
DiskErrors == {DomainGetDiskErrors.num}
=============================================================================
