# DownSample: models, checks and proofs

The repository holds an image downsampler written for high-level synthesis, in
three variants, the programs that drive it, and the headers of the environment
in which such a block is simulated and verified. This directory holds TLA+
models of that code, the TLC runs that check them on small instances, and
proofs of what matters most for every instance.

Paths below are relative to `src/`; `include/` is `downsample_LJL/include/`.

## 1. The system

| Part | Source | State | Operations |
|---|---|---|---|
| Line buffer `down_ln` | `*/down_ln.h` | `line0` (one 16-bit word per pixel pair), `wr_buffer`, `rd_buffer`, `rd_data` | `process` |
| Window `down_shreg` | `*/down_shreg.h` | `shreg_y0`, `shreg_y1` | `process` |
| Block `DownSample`, top `go` | `DownSample_catapult/class_hier_design.cpp`, `*/class_hier_design.h` | the two above (static), loop counters `ln`, `px` | one call per frame |
| `FP1_detect` | `downsample_LJL/detect.cpp` | as the block | the block without its guard |
| Catapult bench | `DownSample_catapult/TestBench.cpp` | channels `din`, `dout` | write a frame, call the block |
| OpenCV bench | `DownSample_opencv/TestBench.cpp` (also `downsample_LJL`) | channels, image, `ln_out`, `px_out` | write a frame, call the block, collect |
| `ccs_bmpfile` | `DownSample_catapult/ccs_bmpfile.*` (also `include/`) | header, colour table, pixel array, byte and bit buffers | construct (read), accessors, `write` |
| `ac_channel`, `ac_sync` | `include/ac_channel.h`, `include/ac_sync.h` | a `std::deque`, reset size and value, `size_call_count`, or bound ports | `read`, `nb_read`, `write`, `nb_write`, `available`, `size`, `insert`, `[]`, `reset` |
| `sc_fifo` | `include/sysc/communication/sc_fifo.h` | ring, counts of the delta cycle, two events | `read`, `nb_read`, `write`, `nb_write`, `update` |
| `tlm_fifo` | `include/tlm_core/tlm_1/tlm_req_rsp/tlm_channels/tlm_fifo/` | circular buffer with a physical size, a logical size, counts of the delta cycle, two events | put, get and peek, blocking or not, with or without an index; poke; `nb_expand`, `nb_reduce`, `nb_bound`, `nb_unbound`; `update` |
| `mc_comparator` | `include/mc_comparator.h` | the values it holds, four counters, two signals, four events | `compare`, `check_results` |
| `mc_stall_ctrl2` | `include/mc_stall_ctrl.h` | a state machine, three counters, a bit per handshake, a stall per block | bind a handshake, `generate` at every clock edge or reset |
| `ccs_p2p` channels | `include/ccs_p2p/`: `ccs_p2p_fifo.h`, `ccs_p2p_wire.h`, `ccs_p2p_sync.h` | shift register with index and two flags, one register, or wires | the threads' `read`, `nb_read`, `write`, `nb_write`; the clock edge of the fifo; reset |
| transactors | `include/mc_transactors.h` | a queue of values, a transaction number per block | `exchange_value` of each block at every clock edge |
| monitors, wrappers | `include/mc_*.h`, `include/ccs_p2p/ccs_p2p_valid.h`, ... | queues, handles | the environment of a generated design |
| data types and libraries | `ac_int.h`, `ac_math/`, `ac_dsp/`, `ac_ipl/`, `bmpUtil/`, `sysc/` | none, or unused | |

How they interact. A bench writes a frame pixel by pixel to the channel `din`
and calls the block while `din` has a pixel. A call reads 480 x 752 pixels in
raster order. For each pixel it runs the line buffer and then the window. The
line buffer packs the pixels of an even line in pairs into `line0` and returns
them, one line later, below the pixels of the odd line. On odd lines, at odd
columns, the window holds a 2x2 block, and its average goes to the channel
`dout`. The OpenCV bench then stores the averages in an image at a position
that two counters give. The Catapult bench reads its source image through
`ccs_bmpfile`.

When a design is co-simulated, a channel is bound to the ports of an `sc_fifo`, and
its reader and writer are processes of a SystemC simulation. The golden values that
the bench computes and the values that the design produces go through two
`tlm_fifo`s to an `mc_comparator`, which is woken by the fifos' events. A transactor
makes a value of the design from the parts in its blocks, each of which says by
itself when a transaction is over. An `mc_stall_ctrl2` stalls the blocks of the
design meanwhile, one handshake at a time. Blocks that are modules of their own are
connected by the signals of `ccs_p2p` channels.

The behaviours that are hard:

- The state of the line buffer and the window is static. It lives on from
  pixel to pixel, line to line and frame to frame, and nothing resets it. The
  window also runs on even lines, with `rd_data` left from an odd line.
- The guard of a call, `available(1)`, covers one of the 360960 reads that
  follow. A call that meets a short supply stops the program in an assertion
  when the channel is on its own, and waits when it is bound.
- The loops compare narrow counters with their bounds, and nothing in the
  stream marks a frame: one pixel too many or too few shifts every later frame.
- `ccs_bmpfile` keeps byte and bit buffers across pixels and rows, ignores the
  results of `fread`, and has uninitialised data in what it writes.
- `sc_fifo` and `tlm_fifo` have concurrent readers and writers, blocking calls,
  and two views of their content: the buffer, changed at once, and the counts,
  changed at the end of a delta cycle. `sc_fifo` ignores refusals of its own
  ring; `tlm_fifo` changes its size while processes wait.
- `mc_comparator` is a method that returns in the middle of a pair and is woken
  by whichever fifo it then asked for.
- The blocks of a variable may be several transactions apart when the transactor
  gathers their parts, and run in any order at an edge.
- A reset of `mc_stall_ctrl2` clears the counters and leaves the state.
- The threads and the fifo of a `ccs_p2p` channel all act at the same clock edge
  on signals of before the edge.

What makes each part correct:

- Line buffer, window, block: what is written is, in order, the average of each
  2x2 block of what was read; between calls whole frames were read; a read
  fails only within a frame; all that is supplied comes out.
- Benches: exactly one frame goes through, every average is stored once and in
  place, the program ends, and it uses the block as the block's model assumes.
- `ccs_bmpfile`: the accessors show the pixels the format has; a file that was
  written can be read and shows the same; the constructor ends.
- `ac_channel`: what `available` promises can be read, in every mode; a reset
  leaves the reset values and ends.
- `sc_fifo`, `tlm_fifo`: buffer and counts agree; no value is lost, repeated or
  overtaken; no process waits for an event that has gone by.
- `mc_comparator`: values of one rank are compared, all of them are, and a
  passing check at the end means that they were equal.
- Transactors: a value leaves with all its parts, of one transaction, and as soon as
  it has them.
- `mc_stall_ctrl2`: no stall is left high, every handshake is stalled equally
  often since a reset and for equally long, and the machine ends.
- `ccs_p2p`: both threads and the fifo agree on when a value is transferred;
  no value is refused or withheld without need; a write returns.

## 2. The modules

| Module | What it is |
|---|---|
| `Pixels` | pixel values, pairs of pixels, the column constant that the others share |
| `DownLn` | the line buffer: its variables and `LnProcess`, by the parity of line and column |
| `DownShreg` | the window: `ShregProcess`, `WindowAverage` |
| `DownSample` | the block with its channels and its caller; composes the two above |
| `Decimator` | what the block promises: it remembers every pixel of the frame |
| `DownSampleInv` | the inductive invariants of `DownSample` and of `BlockOverFifo` |
| `BlockOverFifo` | the block between two fifos, with a source and a sink: `DownSample` composed with two instances of `DeltaFifo` |
| `TestBench` | both benches around an instance of `DownSample` |
| `BmpFile` | the bitmap reader and writer |
| `BitmapBench` | the Catapult program as a whole: `TestBench` composed with `BmpFile` |
| `AcChannel` | `ac_channel`, on its own or bound to ports of a `DeltaFifo` |
| `DeltaFifo` | what a bounded fifo promises in a delta-cycle simulation |
| `ScFifo` | `sc_fifo` with its processes and the phases of the kernel |
| `DeltaKernel` | the scheduler as `TlmFifo` and `Comparator` use it |
| `ResizableFifo` | what a fifo promises whose size can change at any time |
| `TlmFifo` | `tlm_fifo` with its circular buffer and processes |
| `Comparator` | `mc_comparator` between its two fifos |
| `CoVerification` | the output transactor and its memory blocks, composed with `Comparator` |
| `StallCtrl` | `mc_stall_ctrl2` |
| `P2pFifo` | the `ccs_p2p` channels as signals, between a writing and a reading thread |
| `P2pChannel` | the `ccs_p2p` channel in both its views: `P2pFifo`, or a `TlmFifo` |
| `*_proofs` | the theorems: `DownSample_proofs` also about `BlockOverFifo`, `Comparator_proofs` about `CoVerification`, `TestBench_proofs` about `BmpFile` and `BitmapBench` |
| `MC*` | instances for TLC |

### DownSample, BlockOverFifo and the code

One iteration of the inner loop (`class_hier_design.cpp:12-31`) is two actions,
split at its only exit: `ReadPixel` reads a pixel and runs
`down_ln::process` and `down_shreg::process`; `Emit` writes the average if one
is due and advances `px` and `ln`. `ReadFails` is the assertion of
`ac_channel::read` on an empty channel (`ac_channel.h:235-254`): the program
stops. `Call` is the entry of a call with its guard, `WritePixels` the bench's
writing between calls. The program is sequential, so there are no other
interleavings. The counters take `LnLevels` and `PxLevels` values (512 and 1024
in the code, `uint9` and `uint10`) and wrap. The code's `down_ln` and `down_px`
are computed and used nowhere, and are left out. The three copies of the headers
differ in white space.

`taken` and `frames` are histories: the pixels read and the calls returned. The
channel `down_image` is read by nobody within this module and is the history of
what was written.

`BlockOverFifo` has both settings of the channels. On their own it is
`DownSample`. Bound, `ReadOver` and `EmitOver` are the block's actions joined
with `Get` and `Put` of the fifos, so a read without a value and a write without
room are not enabled, as the calls block. `Feed` and `Drain` are the processes
at the other ends, and `EndCycle` the end of a delta cycle, which may come
between any two of these steps.

### TestBench and the code

`WriteFrame` is the double loop that writes `din`. `RunBlock` is a step of an
instance of `DownSample` within the call loop. `RunEnds` is the end of that loop.
`Collect` is one pass of the OpenCV bench's collecting loop (`TestBench.cpp:36-50`),
with `LineBreak`, `Line` and `Col` for its counters, and `CollectEnds` its end.
`Collects` tells the benches apart. In the OpenCV bench `ln_out` starts with any value:
`uint9 ln_out, px_out = 0;` gives only the second a value, and the default
constructor of `ac_int` assigns nothing.

### BmpFile and the code

A file is a record of the header fields the code looks at and the bytes of the pixel
array. The generic names have `File` in front (`FileInit`, `file_pc`), so that the
proofs can join the module with `TestBench`. `Construct` is the constructor with its
assertions up to `readarray`. One pixel of `readarray` with the `getpixel` and
`getbyte` calls it makes is `ReadPixel24` or `ReadPixelIndexed`, and `NextPixel` is
the end of a pixel in the two loops. `Refill` and `GetByte` are `getbyte`. `Write`
writes the loaded image and hands the file to a second object, so that the round
trip can be stated. What the code does not initialise is chosen by the model:
`fourbytebuffer` is anything of `Storage` (`Fresh`), colours past those of the table
are `Garbage`, and the upper half of the written compression field is any value. The
order of the two `getbyte` calls in one expression (`ccs_bmpfile.cpp:210-212`) is
not fixed by the language and is chosen once, as a property of the build.

`BitmapBench` joins the reader with the benches. `ReadFile` is a step of the
constructor, which runs first, `Drive` one of the bench. The source image is chosen at
the start, and the writing loops begin only if it is what `src->red(ln, px)` gives of
the loaded bitmap (`SourceIsRed`), which is at least as large as a frame; of a smaller
one `red` would read outside of its array. `UseFile` is `write`, which the class
offers and the program does not call. The OpenCV bench, with its image from `imread`,
has no reader.

Two limits: a header is complete, with a height that is not negative, and an
image that holds `Garbage` is not written out.

### AcChannel and the code

One variable, `bound`, says which of the two ports is bound, for good. Every
operation of the class is an action under its own name. Where a port is bound the
action is joined with `Get` or `Put` of the fifo. `reset` is the only operation
that writes several values. Its writes may block one by one, so `reset` is the
entry and `Rewrite` one write. `promised` is a history: how many of the reads that
the last `available(k)` promised are still to come. `stopped` is the assertion or
exception that ends the program. `ac_sync` renames the operations of an
`ac_channel<bool>`.

### ScFifo, TlmFifo and the code

Variables keep the names of the classes. Everything a process does between two
waits is one action, as in a cooperative kernel: `Read`, `NbRead`, `Write` and
`NbWrite` with `buf_read` and `buf_write`; `get`, `put`, `peek` and their
non-blocking forms with the circular buffer's `read`, `write` and `resize`. A
blocked process runs its loop again when its event is delivered, since another may
have been faster. `Update` is the class's `update`. `Deliver`, `AdvanceTime`
and `Pause` are the kernel, of which the repository has only headers. A port has
a set of processes, because processes of one module may share it.

In `TlmFifo` any process that runs may change the size (`Resize`) or a cell
(`Poke`). `unannounced` is a history: `nb_bound` made room since the last update that
announced some. `m_num_read_no_notify` is 0 throughout, as nothing counts in it.

### Comparator and the code

`Compare` is one activation of the method: all the pairs that can be got are
compared (`Pairs`), one more value is held when only one side has it (`Got`), and
the method then waits for the side it lacks (`Lacking`). Values are numbers, of
which a mask keeps the lowest bit. `golden` and `dut` are the sequences of all
that was put; `visible` says how many of them can be got, as an update of
`tlm_fifo` decides. `Failed` is `check_results`, which looks at the counters at
the end and is asked in every state.

### CoVerification and the code

The module adds the state of an output transactor to `Comparator` and replaces its
free put of a design value. A clock edge (`CoTick`) makes every block `due`. Each
runs its method (`Edge`) with `exchange_value`, in any order: `FirstExchange` only
numbers the transaction, `NoExchange` is an exchange without the block's transaction
signal, `Exchange` one with it. Its `Extended` and `Received` are `get_value` and
`receive_value_from_objblock`, and with the last part (`OldestCompletedBy`) the
oldest value is put into the fifo. What a block holds is looked at only by the
exchange, so it is any content at that time: the design may write up to that edge.
`value_of` is the conversion from parts to the value. `results` is a history: what
each block held at the end of each of its transactions.

The blocks are those of `mc_rsc_memory`, which never wait and need no bus transfer.
The dut fifo is taken without a limit. Its size is the generated module's, which the
repository has not, so the branch of `send_value_to_tb` for a refused `nb_put`
(`mc_transactors.h:1084-1087`, `MC_TRANSACTOR_FULL`) is left out.

### StallCtrl and the code

`generate` is sensitive to the clock and the reset: `RisingEdge` is a clock edge,
with one action per state of the machine, and `Reset` the branch of the reset,
which leaves the state alone. At an edge any set of pairs has both its signals
high. Counters wrap at `CountLevels` (2^32) and the number of stalled pairs at
2^`ShortWidth`. `times` (stalls of each pair), `high` (cycles of the present
stall) and `reset_done` are histories. `interval` and `hold` are those of the
constructor.

### P2pFifo and the code

A step is a clock edge. The writing thread, the reading thread and the fifo all
see the signals as they were before it. `o_rdy`, `o_vld` and `o_dat` are what the
two threads see, `ShiftRegister` and `OneRegister` are the edges of the two kinds
of fifo, and for wires the two sides meet directly. Names have `P2p` in front where
`TlmFifo` has the same. `accepted` and `returned`
are histories: what the writer was told is written and what reads returned.
`Reset` may come at any time. The depth of one is modelled with `clk_neg =
rst_neg` (see section 3, other observations).

`P2pChannel` is `chan` with its template parameter `impl_abstraction`. As `SYN` it is
made of signals and behaves as `P2pFifo`; as `TLM` it holds a `tlm_fifo` of its depth
and behaves as `TlmFifo`, with `get`, `nb_get`, `put` and `nb_put` for `read`,
`nb_read`, `write` and `nb_write`. The parameter never changes.

## 3. The runs

| Run | Instance | What it shows |
|---|---|---|
| `frames` | 4x4 frames. On their own: 48 pixels in frames and parts of frames. Bound: two frames through fifos of two places and one | `OverInv`, `DownSampled`, `FramesAligned`, `FailsOnlyOnShortFrame`, `NothingLost`, `ImplementsDecimator`, `AllFramesOut` |
| `benches` | both benches, 6x4 images. OpenCV: every initial `ln_out`. Catapult: bitmaps of 1, 4, 8 and 24 bits, widths from 0 to 9, up to seven rows, rejected headers, truncated files | `OneFrameThrough`, `ShownUpToRotation`, `BitmapThrough`, `FileInv`, `Decoded`, `RereadSame`, `BenchReturns`, `BenchIsCaller`, `ConstructorEnds` |
| `opencv_shown_in_place` | the OpenCV bench of `benches` | violated: the image is shown rotated |
| `bmp_indexed` | the bitmaps of `benches` but the largest | violated: 1 and 4 bit images do not show their pixels |
| `bmp_reread_accepted` | the same files | violated: a written file may be rejected |
| `sc_fifo` | three places, two values, two processes on each port | `RingMatchesCounts`, `NoLostWakeup`, `WaitersWake`, `ImplementsDeltaFifo`, no deadlock |
| `p2p` | a channel in both views. Signals: wires, the register, and shift registers of two and three values. Transactions: a `tlm_fifo` of sizes from 0 to 2 and none, up to three values inside, a process on each side | `FirstInFirstOut`, `FlagsMatchContents`, `WriteReturns`; `BufferMatchesCounts`, `NoLostWakeup`, `ImplementsResizableFifo`, `DataWakes` |
| `tlm_index` | the `tlm_fifo` of `p2p` | violated: the index of a poke is not the documented one |
| `comparator` | up to two values on each side, of four, with masks and values to ignore; no limit of errors and a limit of one; the design's values are two bits in a block each | `PassMeansEqual`, `ComparesAllPairs`, `CountsAddUp`, `SignalsOneApart`, `DumpsWholeTransactions`, no deadlock |
| `stall` | four handshakes that may share two blocks, a reset at any edge or never | `NoStallLeftHigh`, `RoundsAreFair`, `Ends` |
| `stall_as_commented` | two handshakes, no reset | violated: ten repeats, and one cycle longer |
| `channel` | every binding, no, two and three reset values, an `sc_fifo` of two places | `AvailableCovers`, `ResetRewrites`, `ResetEnds` |

### Why the bounds are enough

- The block's behaviour depends on the parities of line and column and on the
  addresses of pairs. A 4x4 frame has every combination of parities, two pairs
  in a line and two pairs of lines, so that a wrong address and a wrong line
  show. Three frames in a row show what one leaves for the next, also when the
  supply ends within one. The averages of the frames have sums with every
  remainder modulo four, and dark and saturated blocks. The fifos of the bound
  setting are far smaller than a frame.
- The benches have an image with different numbers of lines and columns, and a
  counter `ln_out` that reaches beyond the image, so that each value of it is
  tried. Some bitmaps have exactly a frame and some more, of both kinds that are
  shown as they are, and one source is a bitmap upside down, so that a wrong order of
  rows would go through to `dout`.
- The bitmaps have widths for each padding and, at 1 and 4 bits, widths that end
  within a byte; two rows show what a row leaves for the next. Files end before
  the first byte and within a row too, and the buffer holds zero or something
  else before the first byte.
- A fifo of three places has room for read and written values in one cycle and
  wraps; two processes on a port make one find taken what woke it.
- The resizable fifo passes through every pair of a logical and a physical size
  up to its bounds: full by its logical size with free cells, without a limit and
  with a full buffer, of size zero. `MaxSize` bounds what is asked for, `MaxUsed`
  what is inside while there is no limit. One process on each side suffices for what
  a change of the size does to who waits. That a wake-up may be shared is left to
  `Refinement` and `NoWakeupLost`, which are proved for any number of processes.
- The comparator sees both sides ahead by up to two values and a cycle with more
  errors than the limit. One of two blocks may be two transactions ahead of the
  other, or either be the last at an edge. `MaxSent` is a bound of the instance
  only: the theorems hold for any number, and for any blocks.
- Four handshakes and two names have every sharing that matters: none, some and
  all on one block. Four is also the width of the count of stalled handshakes
  (`ShortWidth`), 16 in the code, so that the largest number that works is tried.
  `CountLevels` is larger than every number the counters begin with, and small
  enough that a wrapped counter goes round.
- A channel with more reset values than places blocks in its reset. `MaxSize`
  bounds the deque, `MaxCalls` the count of calls.
- A shift register of two values has both ends next to each other, one of three
  has a cell between them. `MaxSent` bounds the values between two resets.

`MaxPixels` bounds what the caller of the block writes. `ScFifo` needs no
bound.

Deadlock is checked where somebody always goes on: in `sc_fifo` and `comparator`. It
is not checked where a program really may stop: the block when its
supply is used up or a read has failed, the benches at their end, a bitmap that is
loaded or rejected, the stall controller when it is done, a channel after an
assertion. A `tlm_fifo` whose size was reduced to zero is full and
empty, and everybody waits; the other view of `p2p` always goes on, as its clock runs.

No run has a type invariant alone: all of them are proved. `OverInv` and
`FileInv` are the inductive invariants of their proofs, which contain it.

### Fairness

- `BlockOverFifo`: the block takes its steps once it is called, and the call loop
  (`while (din.available(1))`, or the thread that a bound block is) calls it
  again. Source, sink and the ends of cycles go on when they can. Supplying
  more pixels on one's own is not fair: a program may stop doing so.
- `TestBench`, `BmpFile`, `BitmapBench`: sequential programs. A loop that can take
  another step takes it. Nobody has to call `write` of a bitmap.
- `ScFifo`, `TlmFifo`: the kernel runs every process that can run, and then
  updates and notifies. That clocks tick is not assumed, nor that anybody resizes.
  A process makes finitely many calls in a cycle, as gets free no room and puts
  give no data before the update.
- `StallCtrl`: the clock runs; and again and again all handshakes have their
  signals high when the controller seeks, without which it waits by design.
- `AcChannel`: the owner goes on within its reset, the peer reads, cycles end.
- `P2pChannel`: as signals, the clock runs, and the reader reads again and again. A
  reader that never reads lets the writer wait, rightly. As transactions, that of
  `TlmFifo`.

### What the violated runs show

Each states what a comment or a sibling of the code says, and TLC shows what the
code does instead.

- `ShownInPlace`: `ln_out` is not initialised in the OpenCV bench. With an
  initial value below the number of output lines the image is rotated by as many
  lines. `ShownUpToRotation` is what remains true.
- `IndexedSupported`: `ccs_bmpfile.h:100` names 1-bit and 4-bit support; the code
  uses the upper bits of a byte in place as the index and shifts the wrong way.
- `RereadAccepted`: four bytes of a two-byte variable are written as the
  compression, which the reader asserts to be zero.
- `IndexFromNewest`: of the index of `nb_peek` and `nb_poke` `tlm_fifo_ifs.h:47-49`
  says "0 is most recently written, and size() - 1 is oldest ie the one about to be
  read". `nb_poke` counts from the write index: with free cells, index 0 changes no
  value, and in a full buffer, as in the trace, the oldest. `PokesMiss` is proved of
  what a poke reaches. The property says the same of `nb_peek`, which counts from the
  oldest value (`tlm_fifo_peek.h:67`, the action `nb_peek`) and so breaks the sentence
  in its own way; the trace, one of the shortest, ends with the poke.
- `StallsAsCommented`: `mc_stall_ctrl.h:45` says "repeat each stall five times" on the
  line that begins with ten, and only a reset makes it five. By `:23` `hold` is the
  "number of cycles to assert stall", and by `:125` the stall is held "for 'hold' clock
  cycles"; the countdown takes as many, and the release has a state of its own after
  it. The last state of the trace contradicts both: ten stalls of each pair, the last
  of them four cycles long where `hold` is three. `RepeatsDependOnReset` and
  `StallsLastOneMore` are proved of what the machine does instead.

### Other observations

No run is about these: they lie at the border of what is modelled, or the checked
property excepts them, as said here.

- The two `getbyte` calls of one expression (`ccs_bmpfile.cpp:210-212`) may run in either
  order. With the right-hand one first `green` and `red` of a 24-bit file are
  exchanged, although the accessors are to return the "pixel colors"
  (`ccs_bmpfile.h:112`). `Decoded` and `BitmapThrough` are true of both orders, each
  with the colours that it gives.
- `writearray` writes no padding (`ccs_bmpfile.cpp:226`), and `getbyte` skips the
  padding of rows (`ccs_bmpfile.h:126`). So a written file whose rows are not a
  multiple of four bytes is read back shifted from its second row on. `RereadSame`
  is about the other widths, such as the 752 columns here.
- `nb_bound` can make room, sets no `m_expand` and requests no update
  (`tlm_fifo_resize.h:79-84`), so a writer may sleep beside the room, although the size
  "can be dynamically changed" (`tlm_fifo.h:28`). `NoLostWakeup` is about all other
  room; the history `unannounced` tells the two apart.
- The event of a comparison "triggers after each comparison" (`mc_comparator.h:130`).
  The pairs that one activation compares notify it with the same delta (`:328`), and
  it triggers once. `ComparesAllPairs` says that the last of them is announced.
- The assertion "fifo not empty when reset" (`ac_channel.h:92`, `:273`) protects the
  fifo that is written and asks the size of the reading side. With a writing port alone
  that is the deque, which the constructor filled, and the program stops with an empty
  fifo. `ResetRewrites` is about the bindings of no port and of both.

- `_pending_triosy` (`mc_transactors.h:691`) is one flag for all blocks of a
  transactor. With memory blocks it stays low, as `CoVerification` has it. With
  blocks that wait, one block's next exchange would use what another has raised.
- The number of stalled handshakes is counted in an `unsigned short`
  (`mc_stall_ctrl.h:134`), so with more than 16 handshakes a round never ends.
  `Ends` holds up to `ShortWidth` of them.
- The specialisations of `p2p_fifo` for depths of one and zero
  (`ccs_p2p_fifo.h:270`, `:336`) declare `clk_neg` and `rst_neg` in the other
  order than the general one, so the two polarities are exchanged for them. A depth
  of one is modelled with both equal.

## 4. The proofs

What is assumed is stated by `ASSUME` in the module that declares the constants, and
TLC evaluates it in the runs of the modules that extend it: `Columns` and `Lines`
are even and not zero; the counters can hold their bounds (`CountersAssumption`);
the supplies are sequences of pixels, the source images arrays of them; a file has a
width, a height and bytes; storage that is not initialised holds bytes; a fifo has a
positive size, a `tlm_fifo` an initial size that is any integer; `NoValue` is no
value; values of the comparator are numbers; a variable has at least one block,
whose contents have a zero and stand for values; there is at least one handshake,
and more values of a counter than the ten repetitions. Nothing is assumed about the
number of processes, values, handshakes or the depth.

`DownSample_proofs`: `TypeCorrect`, `Invariance`, `WritesDownSampled`,
`ReadsWholeFrames`, `FailsOnlyShort`, `Refinement`. `DownSampled` alone is not
inductive: whether the next average is right depends on the words in `line0`, the
byte that waits in `wr_buffer`, the one in `rd_buffer` and the cells of the window.
`IInv` says, for each point of the loop, which of the pixels taken each of them
holds (`LineInv`, `PackInv`, `FetchInv`, `WindowInv`) and how many pixels were read
and written (`PositionInv`). Each is kept by one lemma per action. The arithmetic
of positions is kept apart in the first lemmas, since products of variables are
where the provers fail. `Refinement` maps a read to `Take` and an `Emit` that writes to
`Give` of the decimator, with everything else a stutter.

In the same module, about `BlockOverFifo`: `OverInvariance`, `NoPixelLost`,
`OverPromises`, `OverRefinement`, `EndToEnd`. Joined with its fifos the block takes
the same steps on what it has read and written (`ReadOver` and `EmitOver` are steps of
`DownSample`, and what the ends of the fifos do leaves them alone), so `IInv` holds
in both settings. `OverInv` adds that the fifos stay within their sizes
(`WithinSizes`), that the channels of the other setting stay empty (`OneSetting`),
and `NothingLost`, which speaks of content in order: what was fed is what
the block took followed by what is in the first fifo, and what the block wrote is
what was shown followed by what is in the second. `EndToEnd` puts these together: what
the sink has is a beginning of the down-sampled input.

`TestBench_proofs`: `BenchInvariance`, `IsCaller`, `TypeCorrect`, `FrameThrough`,
`ShownRotated`. Seen from the block, reading `dout` disturbs nothing: with what
was collected put before what is still in `dout`, every step of the bench is a step of
`DownSample` or none (`BlockStepSeen`). So the lemmas of `DownSample_proofs` are used
as they are, on the instance `Proved`, and `IsCaller` says that its assumptions on a
caller are met. `BenchInv` adds what is the bench's own: where the frame is in each
phase (`FramePhase`, `CollectPhase`), and that the averages collected are in the
image at the places the counters gave, from some line on (`PlaceInv`). Every
place is given once because the counters go round the lines (`NextPlace`,
`DistinctPlaces`).

In the same module, which extends `BitmapBench`: `FileInvariance`,
`FileTypeCorrect`, `FileDecoded`, `FileReread`, and `BitmapDownSampled`. `FileInv`
says that before a pixel the stream has given the bytes of the pixels before it in
this row, and holds the rest of their block of four (`StreamAt`). The stride of the
format is what the blocks make of a row (`StrideFact`, `RowEnds`), so a row ends
where the format has its end, and a refill within a complete file never meets its
end (`RefillAt`). Nothing is assumed about the data of the padding. For the round
trip `WrittenInv` keeps what the second object has to find. In `BitmapSpec` every
step is one of the bench or of the reader (`BitmapStep`), so both invariants hold
there, and from the first pixel written on the source stays what it was read from
(`SourceInv`). `BitmapDownSampled` is the conclusion: `dout` has the averages of the
red of the bitmap, top row first. The order of the `getbyte` calls shows here: a
build that runs the right one first down-samples the green.

`ScFifo_proofs`: `TypeCorrect`, `RingCorrect`, `NoWakeupLost`, `Refinement`. `IInv`
joins `RingMatchesCounts` with `WakeupsPending`: within a cycle, whoever waits has
nothing to take or the event is already notified. A read moves every slot one
nearer (`TakeMoves`), a write fills the first free one (`GiveStores`). `Wrap`
replaces the remainder by a case distinction, after which all arithmetic is linear.
`Mapping` shows the sequences of the refinement as functions of slots, on which
`Get`, `Put` and `EndCycle` are read off.

`TlmFifo_proofs`: `TypeCorrect`, `BufferCorrect`, `NoWakeupLost`, `PokesMiss`,
`Refinement`. The invariant has the same shape, and is split into the buffer
(`Ring`: which cells hold values), the counts, and what waits. The buffer's four
operations have a lemma each (`ReadRing`, `WriteRing`, `ResizeRing`, `PokeRing`), a
put that enlarges the buffer first is the composition of two of them, and only
these lemmas see cells. A step of a process is then one of take, give, look, block
or a change of the size, on all of which the counts are linear. `NoWakeupLost`
needs the history `unannounced`, and holds with it whatever the sizes are.

`Comparator_proofs`: `Invariance`, `TypeCorrect`, `CountsCorrect`,
`SignalsCorrect`, `PassingIsEqual`, `AllPairsCompared`. `IInv` says that each side
has given as many values as were compared or one more, not both (`GotInStep`), and
that the method waits for the sides it holds nothing of, or is about to be woken
(`WaitsForLacking`). The pairs of an activation are an interval that ends where
values or errors run out (`PairsAre`), so the counts are cardinalities in an
initial interval (`CountsBySets`). `PassingIsEqual` is their conclusion: no errors
and as many comparisons as captures leave every rank equal or ignored.

In the same module, about `CoVerification`: `CoInvariance`, `Composition`,
`WholeTransactions`, `AssertionHolds`. `Gathering` joins the numbers of the
transactor with the lengths of the histories (`Numbered`), says that the queue has
every part given at its place (`Gathered`), and that no block ends a transaction
before all had their first exchange (`InStep`): without it the check for other
blocks would miss a block that has no number yet. `Exchange` is the step with work
in it (`ReceivedIs`, `ExchangeKeeps`): it is a put of the comparator's module or
nothing. So the composition implements `Comparator` (`Composition`), and what is
proved of it holds with the transactor in front.

`StallCtrl_proofs`: `TypeCorrect`, `StallsEnd`, `StallsLastOneMore`, `FairRounds`,
`RepeatsDependOnReset`. `IInv` relates, for every handshake, how often it was stalled,
the repetitions left and its bit of the round (`RoundsCounted`), and the countdown
with the cycles the stall was high (`HoldCounted`). A full count means that all
bits are set (`CountIsFull`), also when the count is narrow: then it is never full.

`AcChannel_proofs`: `TypeCorrect`, `PromisesKept`, `ResetLeavesValues`. `IInv` adds
to the promise what a reset wrote so far (`ResetWrote`), which is the end of what
is inside the channel whoever ends a cycle meanwhile.

`P2pFifo_proofs`: `TypeCorrect`, `NothingLost`, `FlagsCorrect`. `RegistersAgree`
relates flags, index and outputs. With it a clock edge is one of four moves of the
queue (neither, in, out, both), and each is a move of `accepted` and `returned`
(`MovesKeepOrder`).

Only model-checked: liveness (`AllFramesOut`, `BenchReturns`, `ConstructorEnds`,
`WaitersWake`, `DataWakes`, `Ends`, `ResetEnds`, `WriteReturns`), which is out of the
prover's reach, and the five violated properties, which TLC refutes.

## 5. What is not modelled

- `mc_comparator`: the partial comparison of values that are aggregates, and a
  channel factor other than one. Both repeat what is modelled on parts of a value.
- `mc_transactors`: the transactors of inputs, waiting blocks and bus transfers
  (`_pending_triosy`), combinational blocks, the insertion of waits, a dut fifo that
  is full, and the rows and columns that a variable takes in a block. The blocks
  that wait are modules of the generator's library, which the repository has not.
- `ccs_p2p_valid.h`, `ccs_p2p_event.h`, `mc_monitor`,
  `mc_scverify`, `modular_io`: they wrap a generated design, and the repository
  has none.
- `operator==` and `operator<<` of `ac_channel`: they only look.
- `ac_int` and the other data types: modelled as the widths they have.
- `ac_math`, `ac_dsp`, `ac_ipl`, `bmpUtil`: no program here calls them.
- The SystemC kernel: the repository has its headers only. Its scheduler is modelled
  as the channels use it. imread, cvtColor and the windows of OpenCV are a
  library's; build files and build products do nothing of their own.

By lines, most of the repository is vendored libraries of the last kinds: data
types, mathematics and the SystemC headers. Their code is pure computation or is
reached by none of the programs, so the share of lines modelled is small
although every part with state and order of its own is modelled.

## 6. Plan

Done: `DownSample` with `Decimator`, its benches and its fifos; `BmpFile`; `ScFifo`
with `DeltaFifo`; `AcChannel`; `TlmFifo` with `ResizableFifo`; `Comparator` with
`CoVerification`; `StallCtrl`; `P2pFifo`; the compositions `BitmapBench` and
`P2pChannel`; and the proofs of section 4, which leave no invariant of a run
unproved.

Left, the most important first:

1. `Comparator` over `ResizableFifo`s instead of sequences, with a channel factor,
   and its proofs on top of those of `TlmFifo`.
2. That the benches' block may be the bound one: `TestBench` over `BlockOverFifo`.
3. The transactors of inputs, and blocks that wait, if a generated design comes to
   the repository.
