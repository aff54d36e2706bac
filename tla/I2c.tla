-------------------------------- MODULE I2c --------------------------------
(***************************************************************************)
(* The I2C master driver (i2c.c), the controller it programs and the slave *)
(* at the other end of the bus.                                            *)
(*                                                                         *)
(* i2c_transfer writes a command to CR and polls TIP, for at most 100000   *)
(* reads of SR; meanwhile the controller carries the command out at the    *)
(* pace of the slave, which may hold the clock.  Data bytes are numbered   *)
(* 1, 2, ... in the order of the transfer.                                 *)
(***************************************************************************)
EXTENDS Integers, Sequences, FiniteSets

CONSTANTS
  Slave, Nobody,  (* the address of the slave, and one nobody answers to   *)
  ReadBufs,       (* lengths of the buffers that reads pass                *)
  WriteBufs,      (* lengths of the buffers that writes pass               *)
  Freqs,          (* freq= arguments                                       *)
  SysClk,         (* 27000000                                              *)
  Word            (* 2^32                                                  *)

ASSUME I2cAssumption ==
  /\ Slave # Nobody
  /\ ReadBufs \cup WriteBufs \subseteq Seq(Nat)
  /\ \A bufs \in ReadBufs : Len(bufs) = 1
  /\ SysClk \in Nat /\ Word \in Nat \ {0}
  /\ Freqs \subseteq 0 .. Word - 1
  /\ \A f \in Freqs \ {0} : (5 * f) % Word # 0     (* 5 is odd *)

VARIABLES
  prescale, enabled,   (* PREH:PREL and CTR                                *)
  pc,                  (* where i2c_transfer is                            *)
  call,                (* its arguments                                    *)
  left,                (* the bytes left in each of the buffers left       *)
  buf,                 (* what a read has stored to its buffers            *)
  ret,                 (* transferred, then the return value               *)
  cmd,                 (* the command the controller is at (TIP), if any   *)
  rxack, rxr,          (* SR.RXACK and RXR                                 *)
  held,                (* the bus is between START and STOP                *)
  sending,             (* the slave drives SDA: it was read and not NACKed *)
  taken, sent,         (* history: data bytes the slave took, and sent,    *)
                       (* since the last START                             *)
  clean                (* history: no wait has timed out; nothing is       *)
                       (* recorded after that                              *)

driver     == <<pc, call, left, buf, ret>>
controller == <<cmd, rxack, rxr>>
bus        == <<held, sending, taken, sent>>
vars       == <<prescale, enabled, driver, controller, bus, clean>>

-----------------------------------------------------------------------------
NoCmd     == [op |-> "none"]
TIP       == cmd # NoCmd
ENODEV    == -19
ETIMEDOUT == -110

Calls == [addr : {Slave, Nobody}, read : {TRUE}, stop : BOOLEAN, bufs : ReadBufs]
           \cup [addr : {Slave, Nobody}, read : {FALSE}, stop : BOOLEAN, bufs : WriteBufs]

(* The bytes of the buffers, each by its buffer and its place in it, and   *)
(* their number.                                                           *)
Bytes(bufs) == UNION {{i} \X (1 .. bufs[i]) : i \in DOMAIN bufs}
Total(bufs) == Cardinality(Bytes(bufs))

PrescaleMod == 256 * 256     (* PREL and PREH *)

(* Mutant: all bits of it. *)
MutPrescale(f) == ((SysClk \div ((5 * f) % Word)) - 1) % Word

(* 27000000 / (5 * freq) - 1, of which PREH and PREL take a byte each.     *)
Prescale(f) == (((SysClk \div ((5 * f) % Word)) - 1) % Word) % PrescaleMod

-----------------------------------------------------------------------------
(* machine_i2c_init_func: a frequency of 0 raises ValueError before any    *)
(* register is touched.                                                    *)
InitFunc(f) ==
  /\ pc = "idle"
  /\ f # 0
  /\ prescale' = Prescale(f) /\ enabled' = TRUE
  /\ UNCHANGED <<driver, controller, bus, clean>>

(* A store to CR.  The controller drops what it was at, if a wait for that *)
(* has timed out, or else ignores the store.                               *)
Command(c) ==
  \/ cmd' = c
  \/ TIP /\ UNCHANGED cmd

(* START and the address. *)
Transfer(c) ==
  /\ pc = "idle" /\ enabled
  /\ call' = c /\ left' = c.bufs /\ buf' = <<>> /\ ret' = 0
  /\ Command([op |-> "start", addr |-> c.addr, read |-> c.read])
  /\ pc' = "addr"
  /\ UNCHANGED <<prescale, enabled, rxack, rxr, bus, clean>>

Stop == Command([op |-> "stop"]) /\ pc' = "stop"

(* An address nobody acknowledges ends the transfer with ENODEV. *)
AddrDone ==
  /\ pc = "addr" /\ ~TIP
  /\ \/ rxack /\ ret' = ENODEV /\ Stop
     \/ ~rxack /\ pc' = "next" /\ UNCHANGED <<ret, cmd>>
  /\ UNCHANGED <<prescale, enabled, call, left, buf, rxack, rxr, bus, clean>>

(* Mutant of LastByte: every byte of the last buffer is NACKed. *)
MutLastByte == Len(left) = 1

(* n == 0 && len == 0 *)
LastByte == Len(left) = 1 /\ Head(left) = 1

(* The loops over buffers and their bytes. *)
NextByte ==
  /\ pc = "next" /\ left # <<>>
  /\ \/ /\ Head(left) = 0
        /\ left' = Tail(left)
        /\ UNCHANGED <<pc, cmd>>
     \/ /\ Head(left) > 0
        /\ Command(IF call.read THEN [op |-> "read", nack |-> LastByte]
                   ELSE [op |-> "write", byte |-> ret + 1])
        /\ left' = [left EXCEPT ![1] = @ - 1]
        /\ pc' = "byte"
  /\ UNCHANGED <<prescale, enabled, call, buf, ret, rxack, rxr, bus, clean>>

ByteRead ==
  /\ pc = "byte" /\ ~TIP /\ call.read
  /\ buf' = Append(buf, rxr)
  /\ ret' = ret + 1
  /\ pc' = "next"
  /\ UNCHANGED <<prescale, enabled, call, left, controller, bus, clean>>

(* Mutant: a NACK ends the transfer without a STOP.                        *)
MutByteWrittenNoStop ==
  /\ pc = "byte" /\ ~TIP /\ ~call.read
  /\ \/ rxack /\ pc' = "idle" /\ UNCHANGED ret
     \/ ~rxack /\ ret' = ret + 1 /\ pc' = "next"
  /\ UNCHANGED <<prescale, enabled, call, left, buf, controller, bus, clean>>

(* A byte the slave does not acknowledge ends the transfer. *)
ByteWritten ==
  /\ pc = "byte" /\ ~TIP /\ ~call.read
  /\ \/ rxack /\ Stop /\ UNCHANGED ret
     \/ ~rxack /\ ret' = ret + 1 /\ pc' = "next" /\ UNCHANGED cmd
  /\ UNCHANGED <<prescale, enabled, call, left, buf, rxack, rxr, bus, clean>>

(* All bytes are through. *)
Finish ==
  /\ pc = "next" /\ left = <<>>
  /\ \/ call.stop /\ Stop
     \/ ~call.stop /\ pc' = "idle" /\ UNCHANGED cmd
  /\ UNCHANGED <<prescale, enabled, call, left, buf, ret, rxack, rxr, bus, clean>>

Stopped ==
  /\ pc = "stop" /\ ~TIP
  /\ pc' = "idle"
  /\ UNCHANGED <<prescale, enabled, call, left, buf, ret, controller, bus, clean>>

(* Mutant: the wait for a STOP has no timeout. *)
MutTimeout ==
  /\ pc \in {"addr", "byte"} /\ TIP
  /\ ret' = ETIMEDOUT
  /\ pc' = "idle" /\ clean' = FALSE
  /\ UNCHANGED <<prescale, enabled, call, left, buf, controller, bus>>

(* i2c_wait gives up: -ETIMEDOUT, but for the wait for a STOP, whose       *)
(* result nobody looks at.                                                 *)
Timeout ==
  /\ pc \in {"addr", "byte", "stop"} /\ TIP
  /\ ret' = IF pc = "stop" THEN ret ELSE ETIMEDOUT
  /\ pc' = "idle" /\ clean' = FALSE
  /\ UNCHANGED <<prescale, enabled, call, left, buf, controller, bus>>

-----------------------------------------------------------------------------
(* The controller and the slave *)

(* START (or a repeated one): the slave answers to its own address.        *)
RunStart ==
  /\ cmd.op = "start"
  /\ rxack' = (cmd.addr # Slave)
  /\ held' = TRUE /\ taken' = <<>> /\ sent' = 0
  /\ sending' = (cmd.addr = Slave /\ cmd.read)
  /\ UNCHANGED rxr

(* The slave takes a byte or refuses it. *)
RunWrite ==
  /\ cmd.op = "write"
  /\ \/ rxack' = FALSE /\ taken' = IF clean THEN Append(taken, cmd.byte) ELSE taken
     \/ rxack' = TRUE /\ UNCHANGED taken
  /\ UNCHANGED <<rxr, held, sending, sent>>

(* The slave sends its next byte and goes on unless it is NACKed.  An idle *)
(* bus reads as 255.                                                       *)
RunRead ==
  /\ cmd.op = "read"
  /\ rxr' = IF sending THEN sent + 1 ELSE 255
  /\ sent' = IF sending /\ clean THEN sent + 1 ELSE sent
  /\ sending' = (sending /\ ~cmd.nack)
  /\ UNCHANGED <<rxack, held, taken>>

(* A STOP frees the bus, unless the slave pulls SDA down for a data bit.   *)
RunStop ==
  /\ cmd.op = "stop"
  /\ \/ held' = FALSE /\ sending' = FALSE
     \/ sending /\ UNCHANGED <<held, sending>>
  /\ UNCHANGED <<rxack, rxr, taken, sent>>

Run ==
  /\ TIP
  /\ RunStart \/ RunWrite \/ RunRead \/ RunStop
  /\ cmd' = NoCmd
  /\ UNCHANGED <<prescale, enabled, driver, clean>>

-----------------------------------------------------------------------------
Init ==
  /\ prescale = PrescaleMod - 1 /\ enabled = FALSE
  /\ pc = "idle" /\ call = [addr |-> Nobody, read |-> FALSE, stop |-> TRUE, bufs |-> <<>>]
  /\ left = <<>> /\ buf = <<>> /\ ret = ENODEV
  /\ cmd = NoCmd /\ rxack = FALSE /\ rxr = 0
  /\ held = FALSE /\ sending = FALSE /\ taken = <<>> /\ sent = 0
  /\ clean = TRUE

i2c_transfer ==
  \/ AddrDone \/ NextByte \/ ByteRead \/ ByteWritten \/ Finish \/ Stopped \/ Timeout

Next ==
  \/ \E f \in Freqs : InitFunc(f)
  \/ \E c \in Calls : Transfer(c)
  \/ i2c_transfer
  \/ Run

Spec == Init /\ [][Next]_vars

(* The driver runs, and so does the controller unless the slave holds the  *)
(* clock: nothing says that a command ends.                                *)
LiveSpec == Spec /\ WF_vars(i2c_transfer)

-----------------------------------------------------------------------------
(* Correctness *)

TypeOK ==
  /\ prescale \in 0 .. PrescaleMod - 1 /\ enabled \in BOOLEAN
  /\ pc \in {"idle", "addr", "next", "byte", "stop"}
  /\ left \in Seq(Nat) /\ buf \in Seq(Nat) /\ taken \in Seq(Nat) /\ sent \in Nat
  /\ ret \in Nat \cup {ENODEV, ETIMEDOUT}
  /\ cmd.op \in {"none", "start", "read", "write", "stop"}
  /\ {rxack, held, sending, clean} \subseteq BOOLEAN /\ rxr \in Nat

Returned == pc = "idle" /\ clean /\ enabled

(* The return value tells how far the transfer got, wherever the slave     *)
(* refused a byte and however the buffers divide them: a write that        *)
(* returns k has had exactly its first k bytes taken, in order; a read has *)
(* every byte the slave sent, once and in order, and as many as asked for. *)
Transferred ==
  Returned /\ ret >= 0 =>
    IF call.read THEN buf = [k \in 1 .. Total(call.bufs) |-> k] /\ ret = Len(buf) /\ sent = ret
    ELSE taken = [k \in 1 .. ret |-> k]

(* A transfer that was to end with a STOP, or that was refused halfway,    *)
(* leaves the bus free for other masters.  (A read of no bytes does not:   *)
(* the slave has begun to send when the STOP comes.)                       *)
BusReleased ==
  Returned /\ (call.stop \/ ret < Total(call.bufs)) /\ ~(call.read /\ Total(call.bufs) = 0)
    => ~held

(* Every transfer returns, even if the slave never lets go of the clock.   *)
Returns == pc # "idle" ~> pc = "idle"

=============================================================================
