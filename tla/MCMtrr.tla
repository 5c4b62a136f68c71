------------------------------- MODULE MCMtrr -------------------------------
(***************************************************************************)
(* An address space of 32 pages with 1 MiB at page 2 and 4 GiB at page 16. *)
(* The edges leave odd sizes next to each of these lines, so that pieces,  *)
(* holes and default types of every kind are met.                          *)
(***************************************************************************)
EXTENDS Mtrr

MCEdges == {0, 1, 5, 13, 16, 19, 22}
MCRomSizes == {2}
MCCapabilities == {4}
=============================================================================
