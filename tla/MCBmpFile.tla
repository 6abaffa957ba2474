------------------------------ MODULE MCBmpFile ------------------------------
(***************************************************************************)
(* Instances of BmpFile for TLC.  The bytes of a file, its padding too,    *)
(* differ from place to place, so that a byte taken from the wrong place   *)
(* shows.                                                                  *)
(***************************************************************************)
EXTENDS BmpFile

RowBytes(bits, w) == 4 * ((w * bits + 31) \div 32)

File(bits, w, h, step) ==
    [signature |-> "BM", compression |-> 0, bitcount |-> bits,
     width |-> w, height |-> h,
     data |-> [k \in 1 .. h * RowBytes(bits, w) |-> (step * k + 1) % 256]]

Good(bitcounts) ==
    {File(bits, w, h, step) :
        bits \in bitcounts, w \in 0 .. 6, h \in 0 .. 2, step \in {1, 37}}

\* Files that an assertion of the constructor rejects.
Rejected ==
    {File(bits, 2, 1, 1) : bits \in {2, 16, 32}}
        \cup {[File(24, 2, 1, 1) EXCEPT !.compression = 1],
              [File(8, 2, 1, 1) EXCEPT !.signature = "BA"]}

\* Files that end too early: in a row, in a block of four, before the first byte.
Truncated ==
    {[File(bits, 2, 2, 37) EXCEPT !.data = SubSeq(@, 1, n)] :
        bits \in {4, 8, 24}, n \in {0, 2, 7}}

ByteFiles == Good({8, 24}) \cup Rejected \cup Truncated

MCStorage == {<<0, 0, 0, 0>>, <<200, 3, 77, 150>>}
BitFiles ==
    {File(bits, w, h, step) :
        bits \in {1, 4}, w \in {1, 2, 3, 9}, h \in 1 .. 2, step \in {1, 37}}
AllFiles == ByteFiles \cup BitFiles
=============================================================================
