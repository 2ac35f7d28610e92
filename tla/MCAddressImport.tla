--------------------------- MODULE MCAddressImport ---------------------------
(* Instances of AddressImport for TLC: the constants are in the .cfg files.  *)
EXTENDS AddressImport
=============================================================================
