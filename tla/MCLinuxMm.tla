----------------------------- MODULE MCLinuxMm -----------------------------
(* A linear map of four megabytes of four pages: one is mapped by pages    *)
(* from the start, one of the other three stays without a level 2 table.   *)
(* Linux makes tables in all pages of the second, half of those of the     *)
(* third, and one of the last.                                             *)
EXTENDS LinuxMm
SmallTablePages == 4..9 \cup {12}
=============================================================================
