----------------------------- MODULE MCDubbing -----------------------------
(***************************************************************************)
(* Dubbing for TLC: segments and turns on a grid of four seconds, and, in  *)
(* half milliseconds, chunks that pass for ones that fit a window of that  *)
(* length (4000.5), that are not worth stretching (4100), that are          *)
(* stretched, with a tempo rounded down (4173.5), and that are over the     *)
(* cap (6000).  The wider windows fit all of them.                         *)
(***************************************************************************)
EXTENDS Dubbing

CoarseGrid == {0, 4000, 8000}
FineGrid   == CoarseGrid \cup {12000}
Lengths    == {8001, 8200, 8347, 12000}
===========================================================================
