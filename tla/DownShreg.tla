------------------------------ MODULE DownShreg ------------------------------
(***************************************************************************)
(* The 2x2 window of the downsampler: class down_shreg (down_shreg.h).     *)
(* y0 is the row that comes out of the line buffer, y1 the row being read. *)
(***************************************************************************)
EXTENDS Pixels

VARIABLES shreg_y0, shreg_y1

shregVars == <<shreg_y0, shreg_y1>>

ShregTypeOK ==
    /\ shreg_y0 \in Pair
    /\ shreg_y1 \in Pair

ShregInit ==
    /\ shreg_y0 = ZeroPair
    /\ shreg_y1 = ZeroPair

\* down_shreg::process: the column's parity selects the cell.
ShregProcess(data, px) ==
    /\ shreg_y0' = [shreg_y0 EXCEPT ![px % 2] = data[0]]
    /\ shreg_y1' = [shreg_y1 EXCEPT ![px % 2] = data[1]]

WindowAverage ==
    (shreg_y0[0] + shreg_y0[1] + shreg_y1[0] + shreg_y1[1]) \div 4
=============================================================================
