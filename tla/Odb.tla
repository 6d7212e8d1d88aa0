-------------------------------- MODULE Odb --------------------------------
(* The one thing feGEM relies on in an array of the MIDAS online database:  *)
(* writing a cell past the end extends the array with blank cells (MVOdb's  *)
(* WSAI, WU16AI).  Cells are counted from 1.                                *)
EXTENDS Naturals, Sequences

WriteCell(a, i, v, blank) ==
  [j \in 1..(IF i > Len(a) THEN i ELSE Len(a)) |->
     IF j = i THEN v ELSE IF j <= Len(a) THEN a[j] ELSE blank]
=============================================================================
