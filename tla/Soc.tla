-------------------------------- MODULE Soc --------------------------------
(***************************************************************************)
(* The APB side of the SoC: the address decoder of tang_nano_4k_top.v, the *)
(* Tiny Tapeout wrapper behind slot 1 (tt_m3_wrapper.v), and the software  *)
(* that reaches it through memory-mapped registers: tt.py, which a script  *)
(* uses to drive a design, machine.FPGADMA (dma.c), which copies to and    *)
(* from it, and the drivers spi.c and adc.c, whose register blocks lie in  *)
(* the same page.                                                          *)
(*                                                                         *)
(* A call is the sequence of its bus accesses.  Addresses are the 12 bits  *)
(* of PADDR.  Of the data the model keeps the low byte, the widest that a  *)
(* register of the wrapper has, as the set of its bits that are 1.         *)
(* Callbacks that call these functions in the middle of another call are   *)
(* left out: a call is never nested.                                       *)
(***************************************************************************)
EXTENDS Integers, Sequences

CONSTANTS
  Bytes,        (* the values that scripts send                            *)
  SpiCtrls,     (* the CTRL values of the SPI settings they choose         *)
  Channels,     (* the ADC channels they read                              *)
  Copies,       (* what they copy to the wrapper, a byte for each word     *)
  None          (* an argument not given                                   *)

ASSUME SocAssumption ==
  /\ Bytes \subseteq SUBSET (0 .. 7)
  /\ SpiCtrls \subseteq SUBSET (0 .. 4) /\ Channels \subseteq SUBSET (0 .. 2)
  /\ Copies \subseteq [1 .. 4 -> SUBSET (0 .. 7)]
  /\ None \notin Bytes

VARIABLES
  ui_in, uio_in, ctrl,   (* the wrapper's registers                        *)
  call,                  (* the call the script is in, or NoCall           *)
  todo,                  (* its bus accesses still to come                 *)
  acc,                   (* what its last read returned                    *)
  (* History: *)
  asked,                 (* what tt.py's callers want the registers to be  *)
  edges,                 (* ui_in at the rising clock edges of this call   *)
  clkWas,                (* the clock's level when it began                *)
  spied                  (* SPI has been used                              *)

wrapper == <<ui_in, uio_in, ctrl>>
history == <<asked, edges, clkWas, spied>>
vars    == <<wrapper, call, todo, acc, history>>

-----------------------------------------------------------------------------
(* The bits of ctrl, and all bits of a byte. *)
clk   == 0
rst_n == 1
ena   == 2
Byte  == 0 .. 7

-----------------------------------------------------------------------------
(* The fabric *)

TTSlot  == 4                       (* 0x400 *)
Slot(a) == (a \div 256) % 16
Reg(a)  == a % 16

(* The design behind the wrapper, tt_um_project: an echo, all uio inputs.  *)
uo_out  == ui_in
uio_out == uio_in
uio_oe  == {}

(* apb_psel_tt *)
PselTT(a) == Slot(a) = TTSlot

(* PRDATA; slots without a slave read as 0.  No access here is to the     *)
(* PSRAM's slot, 5.                                                        *)
PRDATA(a) ==
  IF ~PselTT(a) THEN {}
  ELSE CASE Reg(a) = 0  -> uo_out
         [] Reg(a) = 4  -> uio_out
         [] Reg(a) = 8  -> uio_oe
         [] Reg(a) = 12 -> ctrl
         [] OTHER       -> {}

(* Mutant of PWRITE: ctrl is as wide as the other registers.               *)
MutPWRITE(a, d) ==
  /\ ui_in'  = IF PselTT(a) /\ Reg(a) = 0 THEN d ELSE ui_in
  /\ uio_in' = IF PselTT(a) /\ Reg(a) = 4 THEN d ELSE uio_in
  /\ ctrl'   = IF PselTT(a) /\ Reg(a) = 12 THEN d ELSE ctrl

(* A write on the wrapper's side. *)
PWRITE(a, d) ==
  /\ ui_in'  = IF PselTT(a) /\ Reg(a) = 0 THEN d ELSE ui_in
  /\ uio_in' = IF PselTT(a) /\ Reg(a) = 4 THEN d ELSE uio_in
  /\ ctrl'   = IF PselTT(a) /\ Reg(a) = 12 THEN d \cap {clk, rst_n, ena} ELSE ctrl

-----------------------------------------------------------------------------
(* The software: calls and their accesses *)

Read(a)     == [kind |-> "read", addr |-> a]
Write(a, d) == [kind |-> "write", addr |-> a, data |-> d]
Await(a, b) == [kind |-> "await", addr |-> a, bit |-> b]  (* polled until bit b is 1 *)
(* Writes of acc with the bits B set, and cleared. *)
Set(a, B)   == [kind |-> "set", addr |-> a, bits |-> B]
Clear(a, B) == [kind |-> "clear", addr |-> a, bits |-> B]

TT == [DATA |-> 1024, UIO |-> 1028, OE |-> 1032, CTRL |-> 1036]   (* 0x400 *)
SPI == [RDATA |-> 1024, WDATA |-> 1028, STATUS |-> 1032, SSMASK |-> 1036, CTRL |-> 1040]
ADC == [CFG |-> 2048, DATA |-> 2052]                              (* 0x800 *)

(* Mutant of SetClock: the clock is written without the other bits. *)
MutSetClock(up) == <<Write(TT.CTRL, IF up THEN {clk} ELSE {})>>

SetClock(up) == <<Read(TT.CTRL), IF up THEN Set(TT.CTRL, {clk}) ELSE Clear(TT.CTRL, {clk})>>

(* Mutant of Send: the inputs follow the clock. *)
MutSend(ui, uio) ==
  SetClock(TRUE) \o SetClock(FALSE) \o <<Write(TT.DATA, ui)>>
    \o (IF uio = None THEN <<>> ELSE <<Write(TT.UIO, uio)>>) \o <<Read(TT.DATA)>>

Send(ui, uio) ==
  <<Write(TT.DATA, ui)>>
    \o (IF uio = None THEN <<>> ELSE <<Write(TT.UIO, uio)>>)
    \o SetClock(TRUE) \o SetClock(FALSE) \o <<Read(TT.DATA)>>

(* machine_spi_init_func *)
SpiInit(c) == <<Write(SPI.CTRL, c), Write(SPI.SSMASK, Byte)>>

(* machine_spi_transfer of one byte (not the SIMULATION build, which does  *)
(* not wait), RR being bit 6 and TR bit 5.                                 *)
SpiTransfer(d) ==
  <<Await(SPI.STATUS, 5), Write(SPI.WDATA, d), Await(SPI.STATUS, 6), Read(SPI.RDATA)>>

(* machine_adc_read_u16 *)
AdcRead(ch) == <<Write(ADC.CFG, {7} \cup ch), Read(ADC.DATA)>>

(* machine_fpga_dma_transfer: its registers, which no slave of the fabric  *)
(* answers for, and between them memcpy, a word at a time.  Copied byte by *)
(* byte, the three upper bytes of a word miss the wrapper's registers.     *)
DMA == [SRC |-> 3072, DST |-> 3076, LEN |-> 3080, CTRL |-> 3084]  (* 0xC00 *)
TTWords == <<TT.DATA, TT.UIO, TT.OE, TT.CTRL>>

DmaTransfer(words) ==
  <<Write(DMA.SRC, {}), Write(DMA.DST, {}), Write(DMA.LEN, {}),
    Read(DMA.CTRL), Set(DMA.CTRL, {0, 1})>>
    \o words
    \o <<Read(DMA.CTRL), Clear(DMA.CTRL, {1}), Read(DMA.CTRL), Set(DMA.CTRL, {2})>>

NoCall == [op |-> "none"]
Calls ==
  [op : {"tt_init", "get_uo", "get_uio", "get_uoe"}]
    \cup [op : {"set_clock"}, up : BOOLEAN]
    \cup [op : {"set_ui", "set_uio", "set_uoe"}, val : Bytes]
    \cup [op : {"send"}, ui : Bytes, uio : Bytes \cup {None}]
    \cup [op : {"spi_init"}, spi : SpiCtrls] \cup [op : {"spi_transfer"}, val : Bytes]
    \cup [op : {"adc_read"}, channel : Channels]
    \cup [op : {"dma_write"}, words : Copies] \cup [op : {"dma_read"}]

Accesses(c) ==
  CASE c.op = "tt_init"      -> <<Write(TT.CTRL, {rst_n, ena})>>
    [] c.op = "set_clock"    -> SetClock(c.up)
    [] c.op = "set_ui"       -> <<Write(TT.DATA, c.val)>>
    [] c.op = "set_uio"      -> <<Write(TT.UIO, c.val)>>
    [] c.op = "set_uoe"      -> <<Write(TT.OE, c.val)>>
    [] c.op = "get_uo"       -> <<Read(TT.DATA)>>
    [] c.op = "get_uio"      -> <<Read(TT.UIO)>>
    [] c.op = "get_uoe"      -> <<Read(TT.OE)>>
    [] c.op = "send"         -> Send(c.ui, c.uio)
    [] c.op = "spi_init"     -> SpiInit(c.spi)
    [] c.op = "spi_transfer" -> SpiTransfer(c.val)
    [] c.op = "adc_read"     -> AdcRead(c.channel)
    [] c.op = "dma_write"    -> DmaTransfer([k \in 1 .. 4 |-> Write(TTWords[k], c.words[k])])
    [] c.op = "dma_read"     -> DmaTransfer([k \in 1 .. 4 |-> Read(TTWords[k])])

(* What the caller expects of the wrapper's registers after c.             *)
Wish(a, c) ==
  CASE c.op = "tt_init"   -> [a EXCEPT !.ctrl = {rst_n, ena}]
    [] c.op = "set_clock" -> [a EXCEPT !.ctrl = IF c.up THEN @ \cup {clk} ELSE @ \ {clk}]
    [] c.op = "set_ui"    -> [a EXCEPT !.ui = c.val]
    [] c.op = "set_uio"   -> [a EXCEPT !.uio = c.val]
    [] c.op = "send"      -> [ui   |-> c.ui,
                              uio  |-> IF c.uio = None THEN a.uio ELSE c.uio,
                              ctrl |-> a.ctrl \ {clk}]
    [] c.op = "dma_write" -> [ui |-> c.words[1], uio |-> c.words[2], ctrl |-> c.words[4] \cap {clk, rst_n, ena}]
    [] OTHER              -> a

Begin(c) ==
  /\ todo = <<>>
  /\ call' = c /\ todo' = Accesses(c)
  /\ asked' = Wish(asked, c)
  /\ edges' = <<>> /\ clkWas' = (clk \in ctrl)
  /\ spied' = (spied \/ c.op \in {"spi_init", "spi_transfer"})
  /\ UNCHANGED <<wrapper, acc>>

BusRead ==
  /\ todo # <<>> /\ Head(todo).kind \in {"read", "await"}
  /\ acc' = PRDATA(Head(todo).addr)
  /\ todo' = IF Head(todo).kind = "await" /\ Head(todo).bit \notin acc' THEN todo ELSE Tail(todo)
  /\ UNCHANGED <<wrapper, call, history>>

(* What a stores. *)
Stored(a) ==
  CASE a.kind = "write" -> a.data
    [] a.kind = "set"   -> acc \cup a.bits
    [] a.kind = "clear" -> acc \ a.bits

BusWrite ==
  /\ todo # <<>> /\ Head(todo).kind \in {"write", "set", "clear"}
  /\ PWRITE(Head(todo).addr, Stored(Head(todo)))
  /\ edges' = IF clk \in ctrl' \ ctrl THEN Append(edges, ui_in') ELSE edges
  /\ todo' = Tail(todo)
  /\ UNCHANGED <<call, acc, asked, clkWas, spied>>

Init ==
  /\ ui_in = {} /\ uio_in = {} /\ ctrl = {}
  /\ call = NoCall /\ todo = <<>> /\ acc = {}
  /\ asked = [ui |-> {}, uio |-> {}, ctrl |-> {}]
  /\ edges = <<>> /\ clkWas = FALSE
  /\ spied = FALSE

Next == (\E c \in Calls : Begin(c)) \/ BusRead \/ BusWrite

Spec == Init /\ [][Next]_vars

-----------------------------------------------------------------------------
(* Correctness *)

(* Every variable keeps its type; a register never takes more bits than it *)
(* has.                                                                    *)
TypeOK ==
  /\ ui_in \cup uio_in \cup acc \subseteq Byte /\ ctrl \subseteq {clk, rst_n, ena}
  /\ call \in Calls \cup {NoCall}
  /\ Len(todo) <= 13
  /\ asked.ctrl \subseteq {clk, rst_n, ena} /\ Len(edges) <= 1
  /\ {clkWas, spied} \subseteq BOOLEAN

Registers == [ui |-> ui_in, uio |-> uio_in, ctrl |-> ctrl]

(* "Slot 1 ... Tiny Tapeout (TT) Wrapper": between calls, the design's     *)
(* inputs are what the calls of tt.py asked for, all of them and nothing   *)
(* else, whatever other drivers access, as long as the script leaves the   *)
(* SPI driver alone: its registers are placed on this slot.                *)
TTOwned == ~spied /\ todo = <<>> => Registers = asked

(* send() gives the design one rising clock edge, at which its inputs have *)
(* their new values already, and returns the output that belongs to them,  *)
(* unless the script had left the clock high: then there is no edge.       *)
SendClocks ==
  call.op = "send" /\ todo = <<>> /\ ~spied =>
    /\ edges = IF clkWas THEN <<>> ELSE <<call.ui>>
    /\ acc = call.ui

=============================================================================
