------------------------------- MODULE BmpFile -------------------------------
(***************************************************************************)
(* The bitmap reader and writer of the Catapult bench: class ccs_bmpfile   *)
(* (ccs_bmpfile.h and .cpp).                                               *)
(*                                                                         *)
(* A file is a record: the header fields that the code looks at and the    *)
(* bytes of the pixel array.  A colour table of 2^bitcount entries comes   *)
(* before them in a file of up to 8 bits per pixel; Palette stands for it. *)
(* The behaviours read one file pixel by pixel (Construct, ReadPixel24,    *)
(* ReadPixelIndexed), may write the image out (Write), and read the file   *)
(* just written with a second object (Construct again).                    *)
(*                                                                         *)
(* Not initialised in the code, and chosen by FileInit or by the action:   *)
(*   - the entries of the colour table after those the file has (Garbage); *)
(*   - fourbytebuffer, when an object is constructed (Storage);            *)
(*   - the two bytes that follow the 2-byte actualcompression on the stack *)
(*     and are written as the upper half of the compression field;         *)
(* and the order in which the two getbyte calls of a 24-bit pixel run,     *)
(* which C++ does not fix, is a property of the build (order).             *)
(***************************************************************************)
EXTENDS Integers, Sequences

CONSTANTS
    Files,      \* the files the first object may be given
    Storage     \* what fourbytebuffer may hold that nothing was assigned to

Byte == 0 .. 255

\* Width and height are unsigned in the header.
ASSUME FilesAssumption ==
    \A f \in Files :
        f.width \in Nat /\ f.height \in Nat /\ f.data \in Seq(Byte)
ASSUME StorageAssumption == Storage \subseteq [1 .. 4 -> Byte]

Colour(i) == <<i, 255 - i, (i + 128) % 256>>
Garbage == <<-1, -1, -1>>

VARIABLES
    file,           \* the file being read, or read last
    in,             \* its stream: pos, bytesleft, fourbytebuffer, last byte
    bitsleft, pixelbuffer,
    i, j,           \* row and column of readarray
    array,          \* the pixels read, <<blue, green, red>>, in file order
    file_pc,        \* "closed", "reading", "loaded" or "failed"
    order,          \* "left" or "right": the getbyte call that runs first
    original        \* history: what the object held that wrote the file

file_vars == <<file, in, bitsleft, pixelbuffer, i, j, array, file_pc, order, original>>

NoImage == [width |-> 0, height |-> 0, array |-> <<>>]

FileTypeOK ==
    /\ in.pos \in 0 .. Len(file.data)
    /\ in.bytesleft \in 0 .. 4
    /\ bitsleft \in 0 .. 8
    /\ pixelbuffer \in 0 .. 255
    /\ i \in 0 .. file.height
    /\ j \in 0 .. file.width
    /\ Len(array) <= file.width * file.height
    /\ file_pc \in {"closed", "reading", "loaded", "failed"}
    /\ order \in {"left", "right"}

\* The stream of an object that has read nothing: no byte is left of a block.
Fresh == {[pos |-> 0, bytesleft |-> 0, buffer |-> b, byte |-> 0] : b \in Storage}

FileInit ==
    /\ file \in Files
    /\ in \in Fresh
    /\ bitsleft = 0
    /\ pixelbuffer = 0
    /\ i = 0
    /\ j = 0
    /\ array = <<>>
    /\ file_pc = "closed"
    /\ order \in {"left", "right"}
    /\ original = NoImage

-----------------------------------------------------------------------------
(***************************************************************************)
(* The byte stream                                                         *)
(***************************************************************************)

Stream == [pos : Nat, bytesleft : 0 .. 4, buffer : [1 .. 4 -> Byte], byte : Byte]

\* Mutant: the position runs on past the end of the file.
RefillPastEnd(s) ==
    IF s.bytesleft # 0 THEN s
    ELSE [s EXCEPT
            !.bytesleft = 4,
            !.pos = @ + 4,
            !.buffer = [k \in 1 .. 4 |->
                IF s.pos + k <= Len(file.data) THEN file.data[s.pos + k]
                                               ELSE @[k]]]

\* fread of four bytes into fourbytebuffer, low byte first.  At the end of the
\* file the bytes that are missing stay as the last shifts left them.
Refill(s) ==
    IF s.bytesleft # 0 THEN s
    ELSE [s EXCEPT
            !.bytesleft = 4,
            !.pos = IF @ + 4 <= Len(file.data) THEN @ + 4 ELSE Len(file.data),
            !.buffer = [k \in 1 .. 4 |->
                IF s.pos + k <= Len(file.data) THEN file.data[s.pos + k]
                                               ELSE @[k]]]

\* ccs_bmpfile::getbyte: the stream after it, with the byte it returned.
GetByte(s) ==
    LET r == Refill(s)
    IN  [pos |-> r.pos,
         bytesleft |-> r.bytesleft - 1,
         buffer |-> [k \in 1 .. 4 |-> IF k = 4 THEN 0 ELSE r.buffer[k + 1]],
         byte |-> r.buffer[1]]

(***************************************************************************)
(* The constructor                                                         *)
(***************************************************************************)

\* The assertions on the signature, the compression and the bit count.
Readable(f) ==
    /\ f.signature = "BM"
    /\ f.compression = 0
    /\ f.bitcount \in {1, 4, 8, 24}

\* The constructor up to readarray.  An image with no pixel is loaded at once.
Construct ==
    /\ file_pc = "closed"
    /\ file_pc' = CASE ~Readable(file) -> "failed"
               [] Readable(file) /\ file.width * file.height = 0 -> "loaded"
               [] OTHER -> "reading"
    /\ in' \in Fresh
    /\ bitsleft' = 0
    /\ i' = 0
    /\ j' = 0
    /\ array' = <<>>
    /\ UNCHANGED <<file, pixelbuffer, order, original>>

\* Mutant: a row begins in the block where the last one ended.
NextPixelSameBlock(s, b) ==
    IF j + 1 < file.width
    THEN /\ j' = j + 1
         /\ in' = s
         /\ bitsleft' = b
         /\ UNCHANGED <<i, file_pc>>
    ELSE /\ j' = 0
         /\ i' = i + 1
         /\ in' = s
         /\ bitsleft' = b
         /\ file_pc' = IF i + 1 < file.height THEN "reading" ELSE "loaded"

\* The loops of readarray: a new row starts on a new block of four bytes.
\* s and b are the stream and bitsleft after the pixel at (i, j).
NextPixel(s, b) ==
    IF j + 1 < file.width
    THEN /\ j' = j + 1
         /\ in' = s
         /\ bitsleft' = b
         /\ UNCHANGED <<i, file_pc>>
    ELSE /\ j' = 0
         /\ i' = i + 1
         /\ in' = [s EXCEPT !.bytesleft = 0]
         /\ bitsleft' = 0
         /\ file_pc' = IF i + 1 < file.height THEN "reading" ELSE "loaded"

\* Mutant: a pixel is read only where a whole block of four bytes is left.
ReadPixel24WholeBlock ==
    /\ file_pc = "reading"
    /\ file.bitcount = 24
    /\ in.bytesleft # 0 \/ in.pos + 4 <= Len(file.data)
    /\ LET first == GetByte(in)
           second == GetByte(first)
           third == GetByte(second)
       IN  /\ pixelbuffer' = first.byte
           /\ array' = Append(array,
                  IF order = "left" THEN <<first.byte, second.byte, third.byte>>
                                    ELSE <<first.byte, third.byte, second.byte>>)
           /\ NextPixel(third, 0)
    /\ UNCHANGED <<file, order, original>>

\* case 24 of getpixel, and the branch of readarray without a colour table.
ReadPixel24 ==
    /\ file_pc = "reading"
    /\ file.bitcount = 24
    /\ LET first == GetByte(in)
           second == GetByte(first)
           third == GetByte(second)
       IN  /\ pixelbuffer' = first.byte
           /\ array' = Append(array,
                  IF order = "left" THEN <<first.byte, second.byte, third.byte>>
                                    ELSE <<first.byte, third.byte, second.byte>>)
           /\ NextPixel(third, 0)
    /\ UNCHANGED <<file, order, original>>

\* pixelbuffer & 128, & 240, or the whole byte: the upper bits in place.
TopBits(byte, bits) == (byte \div 2 ^ (8 - bits)) * 2 ^ (8 - bits)

\* ccs_bmpcolortable::bgr.  read fills 2^bitcount entries of the 256.
Palette(index) == IF index < 2 ^ file.bitcount THEN Colour(index) ELSE Garbage

\* case 1, 4 and 8 of getpixel, and the branch with the colour table.
ReadPixelIndexed ==
    /\ file_pc = "reading"
    /\ file.bitcount # 24
    /\ LET s == IF bitsleft = 0 THEN GetByte(in) ELSE in
           byte == IF bitsleft = 0 THEN s.byte ELSE pixelbuffer
           left == IF bitsleft = 0 THEN 8 ELSE bitsleft
       IN  /\ array' = Append(array, Palette(TopBits(byte, file.bitcount)))
           /\ pixelbuffer' = IF file.bitcount = 8
                               THEN byte ELSE byte \div 2 ^ file.bitcount
           /\ NextPixel(s, left - file.bitcount)
    /\ UNCHANGED <<file, order, original>>

(***************************************************************************)
(* The writer                                                              *)
(***************************************************************************)

\* Mutant: red first.
WrittenRedFirst(compression) ==
    [signature |-> "BM",
     compression |-> compression,
     bitcount |-> 24,
     width |-> file.width,
     height |-> file.height,
     data |-> [k \in 1 .. 3 * Len(array) |->
                  array[((k - 1) \div 3) + 1][3 - ((k - 1) % 3)]]]

\* writearray writes the array as it lies in memory, with nothing between rows.
WrittenFile(compression) ==
    [signature |-> "BM",
     compression |-> compression,
     bitcount |-> 24,
     width |-> file.width,
     height |-> file.height,
     data |-> [k \in 1 .. 3 * Len(array) |->
                  array[((k - 1) \div 3) + 1][((k - 1) % 3) + 1]]]

\* write, to a file that the second object then is given.  It writes four bytes
\* from the address of the 2-byte actualcompression: 0 below, anything above.
Write ==
    /\ file_pc = "loaded"
    /\ original = NoImage
    /\ \A k \in 1 .. Len(array) : array[k] # Garbage
    /\ \E above \in {0, 1} : file' = WrittenFile(above * 2 ^ 16)
    /\ original' =
           [width |-> file.width, height |-> file.height, array |-> array]
    /\ file_pc' = "closed"
    /\ in' \in Fresh
    /\ bitsleft' = 0
    /\ i' = 0
    /\ j' = 0
    /\ array' = <<>>
    /\ UNCHANGED <<pixelbuffer, order>>

FileNext == Construct \/ ReadPixel24 \/ ReadPixelIndexed \/ Write

\* A constructor runs to its end; nobody has to call write.
FileSpec == /\ FileInit /\ [][FileNext]_file_vars
        /\ WF_file_vars(Construct \/ ReadPixel24 \/ ReadPixelIndexed)

-----------------------------------------------------------------------------
(***************************************************************************)
(* Properties                                                              *)
(***************************************************************************)

\* Mutant: row 0 is the first of the file, the one at the bottom.
AtFromBottom(row, column) == array[row * file.width + column + 1]

\* The accessors blue, green and red, with row 0 at the top.
At(row, column) == array[(file.height - row - 1) * file.width + column + 1]

\* The format: rows from the bottom up, each padded to a multiple of 4 bytes;
\* in a byte the leftmost pixel is in the uppermost bits.
Stride == 4 * ((file.width * file.bitcount + 31) \div 32)
FormatByte(row, n) == file.data[(file.height - row - 1) * Stride + n + 1]
FormatPixel(row, column) ==
    IF file.bitcount = 24
    THEN [k \in 1 .. 3 |-> FormatByte(row, 3 * column + k - 1)]
    ELSE LET perByte == 8 \div file.bitcount
             byte == FormatByte(row, column \div perByte)
             shift == (perByte - 1 - (column % perByte)) * file.bitcount
         IN  Colour((byte \div 2 ^ shift) % 2 ^ file.bitcount)

FileRows == 0 .. file.height - 1
FileColumns == 0 .. file.width - 1

\* The file keeps to the format: it is one of Files, not one that was written.
Wellformed == original = NoImage /\ Len(file.data) >= file.height * Stride

\* A build that runs the right-hand getbyte first swaps green and red.
Swapped(p) == IF order = "left" THEN p ELSE <<p[1], p[3], p[2]>>

\* A loaded file of 8 or 24 bits shows, at every place of the image, the pixel
\* that the format has there, whatever the padding of its rows.
Decoded ==
    file_pc = "loaded" /\ Wellformed =>
        \A row \in FileRows, column \in FileColumns :
            /\ file.bitcount = 8 => At(row, column) = FormatPixel(row, column)
            /\ file.bitcount = 24 =>
                   At(row, column) = Swapped(FormatPixel(row, column))

\* "LIMITED tO no compression, 1-bit, 4-bit, 24-bit support only"
\* (ccs_bmpfile.h:100): a loaded file of 1 or 4 bits shows its pixels.
IndexedSupported ==
    file_pc = "loaded" /\ Wellformed /\ file.bitcount \in {1, 4} =>
        \A row \in FileRows, column \in FileColumns :
            At(row, column) = FormatPixel(row, column)

Reread == original # NoImage /\ file_pc = "loaded"

\* A second object that loads the file just written has the image that was
\* written, if the rows need no padding.
RereadSame ==
    Reread /\ order = "left" /\ (3 * file.width) % 4 = 0 =>
        array = original.array

\* "write out a bmp file called f" (ccs_bmpfile.h:120): a file that was written
\* can be read, it meets the reader's own assertions.
RereadAccepted == original # NoImage => file_pc # "failed"

\* A constructor ends.
ConstructorEnds == file_pc = "reading" ~> file_pc \in {"loaded", "failed"}

-----------------------------------------------------------------------------
(***************************************************************************)
(* The invariant, which FileTypeOK, Decoded and RereadSame follow from     *)
(***************************************************************************)

\* Every pixel read is three bytes or an entry the colour table does not have.
PixelsOK ==
    /\ array \in Seq([1 .. 3 -> Byte] \cup {Garbage})
    /\ file_pc \in {"closed", "failed"} => array = <<>>
    /\ file_pc = "reading" => Len(array) = i * file.width + j
    /\ file_pc = "loaded" => Len(array) = file.height * file.width

\* What is left of a byte are whole pixels, and rows and columns are inside.
LoopOK ==
    /\ file_pc = "reading" =>
           /\ Readable(file)
           /\ i < file.height /\ j < file.width
           /\ file.bitcount \in {8, 24} => bitsleft = 0
           /\ file.bitcount = 4 => bitsleft \in {0, 4}
    /\ file_pc = "loaded" => Readable(file)

FileOK ==
    file.width \in Nat /\ file.height \in Nat /\ file.data \in Seq(Byte)

\* A file of whole bytes per pixel that has all of its rows.
Complete ==
    file.bitcount \in {8, 24} /\ Len(file.data) >= file.height * Stride
BytesPerPixel == IF file.bitcount = 24 THEN 3 ELSE 1

\* The stream has given n bytes of this row, and holds the rest of their block.
StreamAt(s, row, n) ==
    /\ s.bytesleft < 4 /\ (n + s.bytesleft) % 4 = 0
    /\ s.pos = row * Stride + n + s.bytesleft
    /\ \A k \in 1 .. s.bytesleft :
           s.buffer[k] = file.data[row * Stride + n + k]

\* The pixel at a place of the file, rows from the bottom up.
FilePixel(row, column) ==
    IF file.bitcount = 24
    THEN Swapped([k \in 1 .. 3 |->
                     file.data[row * Stride + (3 * column + k - 1) + 1]])
    ELSE Colour(file.data[row * Stride + column + 1])

PlaceRead(row, column) ==
    \/ file_pc = "loaded"
    \/ file_pc = "reading" /\ (row < i \/ (row = i /\ column < j))

\* The stream is at the next pixel's bytes, and the pixels read are the file's.
ReadInv ==
    Complete =>
        /\ file_pc = "reading" => StreamAt(in, i, j * BytesPerPixel)
        /\ \A row \in FileRows, column \in FileColumns :
               PlaceRead(row, column) =>
                   array[row * file.width + column + 1] = FilePixel(row, column)

\* The file just written holds the array as it lies in memory.
WrittenInv ==
    original # NoImage =>
        /\ file.bitcount = 24
        /\ original.array \in Seq([1 .. 3 -> Byte])
        /\ Len(original.array) = file.height * file.width
        /\ Len(file.data) = 3 * Len(original.array)
        /\ \A k \in 1 .. Len(original.array), h \in 1 .. 3 :
               file.data[3 * (k - 1) + h] = original.array[k][h]

FileInv ==
    /\ FileOK
    /\ in \in Stream
    /\ FileTypeOK
    /\ PixelsOK
    /\ LoopOK
    /\ ReadInv
    /\ WrittenInv
=============================================================================
