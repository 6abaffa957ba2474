------------------------------- MODULE DownLn -------------------------------
(***************************************************************************)
(* The line buffer of the downsampler: class down_ln (down_ln.h).          *)
(*                                                                         *)
(* The buffer keeps one image line, two pixels to a 16-bit word, so that   *)
(* the memory is touched once per pixel pair.  On an even line it packs    *)
(* the incoming pixels into wr_buffer and stores the word at the odd       *)
(* column; on an odd line it fetches the word at the even column and       *)
(* hands out its two halves, one per column, next to the incoming pixel.   *)
(*                                                                         *)
(* A word is a Pair: w[0] is slc<8>(0), the low byte, and w[1] is          *)
(* slc<8>(8).  set_slc replaces one of them and keeps the other.           *)
(***************************************************************************)
EXTENDS Pixels

VARIABLES
    line0,          \* the stored line, one word per pixel pair
    wr_buffer,      \* the word being packed
    rd_buffer,      \* the word being handed out
    rd_data         \* <<pixel of the stored line, incoming pixel>>

lnVars == <<line0, wr_buffer, rd_buffer, rd_data>>

Address == 0 .. HalfColumns - 1

LnTypeOK ==
    /\ line0 \in [Address -> Pair]
    /\ wr_buffer \in Pair
    /\ rd_buffer \in Pair
    /\ rd_data \in Pair

\* The object is a function-local static: its storage is zeroed before the
\* first call, and it outlives every call.
LnInit ==
    /\ line0 = [a \in Address |-> ZeroPair]
    /\ wr_buffer = ZeroPair
    /\ rd_buffer = ZeroPair
    /\ rd_data = ZeroPair

LnReadEven(data, ln, px) ==
    /\ px % 2 = 0
    /\ ln % 2 = 1
    /\ rd_buffer' = line0[px \div 2]
    /\ rd_data' = [rd_data EXCEPT ![0] = line0[px \div 2][0], ![1] = data]
    /\ UNCHANGED <<line0, wr_buffer>>

LnWriteEven(data, ln, px) ==
    /\ px % 2 = 0
    /\ ln % 2 = 0
    /\ wr_buffer' = [wr_buffer EXCEPT ![0] = data]
    /\ UNCHANGED <<line0, rd_buffer, rd_data>>

\* Mutant: the low byte is handed out for both columns (slc<8>(0) for 8).
LnReadOddLowTwice(data, ln, px) ==
    /\ px % 2 = 1
    /\ ln % 2 = 1
    /\ rd_data' = [rd_data EXCEPT ![0] = rd_buffer[0], ![1] = data]
    /\ UNCHANGED <<line0, wr_buffer, rd_buffer>>

LnReadOdd(data, ln, px) ==
    /\ px % 2 = 1
    /\ ln % 2 = 1
    /\ rd_data' = [rd_data EXCEPT ![0] = rd_buffer[1], ![1] = data]
    /\ UNCHANGED <<line0, wr_buffer, rd_buffer>>

\* Mutant: the word is stored before its high byte is set.
LnWriteOddEarly(data, ln, px) ==
    /\ px % 2 = 1
    /\ ln % 2 = 0
    /\ wr_buffer' = [wr_buffer EXCEPT ![1] = data]
    /\ line0' = [line0 EXCEPT ![px \div 2] = wr_buffer]
    /\ UNCHANGED <<rd_buffer, rd_data>>

LnWriteOdd(data, ln, px) ==
    /\ px % 2 = 1
    /\ ln % 2 = 0
    /\ wr_buffer' = [wr_buffer EXCEPT ![1] = data]
    /\ line0' = [line0 EXCEPT ![px \div 2] = [wr_buffer EXCEPT ![1] = data]]
    /\ UNCHANGED <<rd_buffer, rd_data>>

\* down_ln::process
LnProcess(data, ln, px) ==
    \/ LnReadEven(data, ln, px)
    \/ LnWriteEven(data, ln, px)
    \/ LnReadOdd(data, ln, px)
    \/ LnWriteOdd(data, ln, px)
=============================================================================
