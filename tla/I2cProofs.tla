----------------------------- MODULE I2cProofs -----------------------------
(***************************************************************************)
(* The transfer of i2c.c accounts for every byte, for buffers of any       *)
(* number and length: where the slave refuses one, where the call ends     *)
(* without a STOP and where the next one begins with a repeated START.     *)
(***************************************************************************)
EXTENDS I2c, FiniteSetTheorems, SequenceTheorems, TLAPS

Cmds == [op : {"none"}] \cup [op : {"start"}, addr : {Slave, Nobody}, read : BOOLEAN]
          \cup [op : {"write"}, byte : Nat] \cup [op : {"read"}, nack : BOOLEAN]
          \cup [op : {"stop"}]

Call == [addr : {Slave, Nobody}, read : BOOLEAN, stop : BOOLEAN, bufs : Seq(Nat)]

Nats == Seq(Nat)

(* A read has one buffer, and one at most left. *)
TypeInv ==
  /\ prescale \in 0 .. PrescaleMod - 1 /\ enabled \in BOOLEAN
  /\ pc \in {"idle", "addr", "next", "byte", "stop"}
  /\ left \in Nats /\ buf \in Nats /\ taken \in Nats /\ sent \in Nat
  /\ ret \in Nat \cup {ENODEV, ETIMEDOUT}
  /\ rxack \in BOOLEAN /\ held \in BOOLEAN /\ sending \in BOOLEAN /\ clean \in BOOLEAN
  /\ rxr \in Nat
  /\ cmd \in Cmds /\ call \in Call
  /\ call.read => Len(call.bufs) = 1 /\ Len(left) <= 1
  /\ pc \in {"addr", "next", "byte"} => ret \in Nat

Count(n) == [k \in 1 .. n |-> k]

(* START is under way or has had its answer. *)
AddrInv ==
  /\ left = call.bufs /\ buf = <<>> /\ ret = 0
  /\ IF TIP THEN cmd = [op |-> "start", addr |-> call.addr, read |-> call.read]
     ELSE /\ rxack <=> call.addr # Slave
          /\ sending <=> call.addr = Slave /\ call.read
          /\ taken = <<>> /\ sent = 0

(* The byte under way, if any, is the next one.  The slave that is read    *)
(* goes on sending until the last byte, which is the one it is NACKed.     *)
AllRead == left = <<>> \/ left[1] = 0

ByteInv ==
  /\ call.addr = Slave
  /\ ret + Total(left) + (IF pc = "byte" THEN 1 ELSE 0) = Total(call.bufs)
  /\ call.read =>
       /\ buf = Count(ret)
       /\ pc = "next" => sent = ret /\ (sending <=> ~(ret > 0 /\ AllRead))
       /\ pc = "byte" =>
            /\ Len(left) = 1
            /\ IF TIP THEN sent = ret /\ sending /\ cmd = [op |-> "read", nack |-> left[1] = 0]
               ELSE sent = ret + 1 /\ rxr = ret + 1 /\ (sending <=> left[1] # 0)
  /\ ~call.read =>
       /\ ~sending
       /\ taken = Count(ret + (IF pc = "byte" /\ ~TIP /\ ~rxack THEN 1 ELSE 0))
       /\ pc = "byte" /\ TIP => cmd = [op |-> "write", byte |-> ret + 1]

(* What is left to do is to free the bus, if it is to be freed.            *)
ToFree == (call.stop \/ ret < Total(call.bufs)) /\ ~(call.read /\ Total(call.bufs) = 0)

EndInv ==
  /\ ret >= 0 => IF call.read
                 THEN buf = Count(Total(call.bufs)) /\ ret = Len(buf) /\ sent = ret
                 ELSE taken = Count(ret)
  /\ ToFree => IF TIP THEN ~sending ELSE ~held

CallInv ==
  /\ pc \in {"idle", "next"} => ~TIP
  /\ pc = "addr" => AddrInv
  /\ pc \in {"next", "byte"} => ByteInv
  /\ pc = "stop" /\ TIP => cmd = [op |-> "stop"]
  /\ pc \in {"idle", "stop"} => EndInv

(* After a wait has timed out the controller may still be at its command,  *)
(* and nothing holds but the types.                                        *)
I2cInv == TypeInv /\ (clean => CallInv)

-----------------------------------------------------------------------------
(* The bytes of the buffers *)

LEMMA BytesMember ==
  ASSUME NEW bufs \in Seq(Nat), NEW b
  PROVE  b \in Bytes(bufs)
           <=> \E i \in 1 .. Len(bufs) : \E k \in 1 .. bufs[i] : b = <<i, k>>
<1>1. DOMAIN bufs = 1 .. Len(bufs)
  BY LenProperties
<1>. QED
  BY <1>1 DEF Bytes

LEMMA TotalType ==
  ASSUME NEW bufs \in Seq(Nat)
  PROVE  IsFiniteSet(Bytes(bufs)) /\ Total(bufs) \in Nat
<1>. DEFINE n == Len(bufs)
            B == {{i} \X (1 .. bufs[i]) : i \in DOMAIN bufs}
            f == [i \in 1 .. n |-> {i} \X (1 .. bufs[i])]
<1>1. n \in Nat /\ DOMAIN bufs = 1 .. n /\ \A i \in 1 .. n : bufs[i] \in Nat
  BY LenProperties
<1>2. f \in Surjection(1 .. n, B)
  BY <1>1 DEF Surjection
<1>3. IsFiniteSet(1 .. n)
  BY <1>1, FS_Interval
<1>4. IsFiniteSet(B)
  BY <1>2, <1>3, FS_Surjection
<1>5. ASSUME NEW i \in 1 .. n
      PROVE  IsFiniteSet({i} \X (1 .. bufs[i]))
  <2>1. IsFiniteSet({i})
    BY FS_Singleton
  <2>2. IsFiniteSet(1 .. bufs[i])
    BY <1>1, FS_Interval
  <2>. QED BY <2>1, <2>2, FS_Product
<1>6. \A S \in B : IsFiniteSet(S)
  BY <1>1, <1>5
<1>7. IsFiniteSet(UNION B)
  <2>. HIDE DEF B
  <2>. QED BY <1>4, <1>6, FS_UNION
<1>8. IsFiniteSet(Bytes(bufs))
  BY <1>7 DEF Bytes
<1>. QED
  BY <1>8, FS_CardinalityType DEF Total

LEMMA TotalEmpty == Total(<<>>) = 0
<1>1. Bytes(<<>>) = {}
  BY DEF Bytes
<1>. QED
  BY <1>1, FS_EmptySet DEF Total

(* An empty buffer has no bytes. *)
LEMMA TotalTail ==
  ASSUME NEW bufs \in Seq(Nat), bufs # <<>>, Head(bufs) = 0
  PROVE  Total(Tail(bufs)) = Total(bufs)
<1>. DEFINE rest == Tail(bufs)
            f    == [b \in Bytes(rest) |-> <<b[1] + 1, b[2]>>]
<1>1. /\ rest \in Seq(Nat) /\ Len(rest) = Len(bufs) - 1 /\ Len(bufs) \in Nat \ {0}
      /\ \A i \in 1 .. Len(bufs) - 1 : rest[i] = bufs[i + 1]
  BY HeadTailProperties, EmptySeq
<1>2. bufs[1] = 0
  BY <1>1
<1>. HIDE DEF rest
<1>3. f \in [Bytes(rest) -> Bytes(bufs)]
  <2>. SUFFICES ASSUME NEW b \in Bytes(rest) PROVE <<b[1] + 1, b[2]>> \in Bytes(bufs)
    OBVIOUS
  <2>1. PICK i \in 1 .. Len(rest) : \E k \in 1 .. rest[i] : b = <<i, k>>
    BY <1>1, BytesMember
  <2>2. PICK k \in 1 .. rest[i] : b = <<i, k>>
    BY <2>1
  <2>3. i + 1 \in 1 .. Len(bufs) /\ k \in 1 .. bufs[i + 1]
    BY <1>1, <2>2
  <2>. QED BY <2>2, <2>3, BytesMember
<1>4. f \in Surjection(Bytes(rest), Bytes(bufs))
  <2>1. ASSUME NEW c \in Bytes(bufs)
        PROVE  \E b \in Bytes(rest) : f[b] = c
    <3>1. PICK i \in 1 .. Len(bufs) : \E k \in 1 .. bufs[i] : c = <<i, k>>
      BY <2>1, BytesMember
    <3>2. PICK k \in 1 .. bufs[i] : c = <<i, k>>
      BY <3>1
    <3>3. i - 1 \in 1 .. Len(bufs) - 1 /\ rest[i - 1] = bufs[i]
      BY <1>1, <1>2, <3>2
    <3>4. <<i - 1, k>> \in Bytes(rest)
      BY <1>1, <3>2, <3>3, BytesMember
    <3>. QED BY <3>2, <3>4
  <2>. QED BY <1>3, <2>1 DEF Surjection
<1>5. f \in Injection(Bytes(rest), Bytes(bufs))
  <2>0. ASSUME NEW b \in Bytes(rest)
        PROVE  b[1] \in Int /\ b = <<b[1], b[2]>>
    <3>1. PICK i \in 1 .. Len(rest) : \E k \in 1 .. rest[i] : b = <<i, k>>
      BY <1>1, <2>0, BytesMember
    <3>. QED BY <1>1, <3>1
  <2>1. ASSUME NEW b \in Bytes(rest), NEW c \in Bytes(rest), f[b] = f[c]
        PROVE  b = c
    <3>1. f[b] = <<b[1] + 1, b[2]>> /\ f[c] = <<c[1] + 1, c[2]>>
      OBVIOUS
    <3>2. /\ b[1] \in Int /\ b = <<b[1], b[2]>>
          /\ c[1] \in Int /\ c = <<c[1], c[2]>>
      BY <2>0
    <3>3. b[1] + 1 = c[1] + 1 /\ b[2] = c[2]
      BY <2>1, <3>1
    <3>4. b[1] = c[1]
      BY <3>2, <3>3
    <3>. QED BY <3>2, <3>3, <3>4
  <2>. QED BY <1>3, <2>1 DEF Injection, IsInjective
<1>6. ExistsBijection(Bytes(rest), Bytes(bufs))
  BY <1>4, <1>5 DEF ExistsBijection, Bijection
<1>. QED
  BY <1>1, <1>6, TotalType, FS_Bijection DEF Total, rest

LEMMA TotalLess ==
  ASSUME NEW bufs \in Seq(Nat), bufs # <<>>, Head(bufs) > 0
  PROVE  LET less == [bufs EXCEPT ![1] = @ - 1]
         IN  /\ less \in Seq(Nat) /\ Len(less) = Len(bufs) /\ less[1] = bufs[1] - 1
             /\ Total(less) = Total(bufs) - 1
<1>. DEFINE less == [bufs EXCEPT ![1] = @ - 1]
            last == <<1, bufs[1]>>
<1>1. /\ Len(bufs) \in Nat \ {0} /\ bufs[1] \in Nat \ {0} /\ bufs[1] - 1 \in Nat
      /\ \A i \in 1 .. Len(bufs) : bufs[i] \in Nat
  BY EmptySeq, ElementOfSeq
<1>2. /\ less \in Seq(Nat) /\ Len(less) = Len(bufs)
      /\ \A j \in 1 .. Len(bufs) : less[j] = IF j = 1 THEN bufs[1] - 1 ELSE bufs[j]
  BY <1>1, ExceptSeq
<1>. HIDE DEF less
<1>3. ASSUME NEW b
      PROVE  b \in Bytes(less) <=> b \in Bytes(bufs) /\ b # last
  <2>1. ASSUME b \in Bytes(less)
        PROVE  b \in Bytes(bufs) /\ b # last
    <3>1. PICK i \in 1 .. Len(bufs) : \E k \in 1 .. less[i] : b = <<i, k>>
      BY <1>2, <2>1, BytesMember
    <3>2. PICK k \in 1 .. less[i] : b = <<i, k>>
      BY <3>1
    <3>3. k \in 1 .. bufs[i] /\ ~(i = 1 /\ k = bufs[1])
      BY <1>1, <1>2, <3>2
    <3>. QED BY <3>2, <3>3, BytesMember
  <2>2. ASSUME b \in Bytes(bufs), b # last
        PROVE  b \in Bytes(less)
    <3>1. PICK i \in 1 .. Len(bufs) : \E k \in 1 .. bufs[i] : b = <<i, k>>
      BY <2>2, BytesMember
    <3>2. PICK k \in 1 .. bufs[i] : b = <<i, k>>
      BY <3>1
    <3>3. ~(i = 1 /\ k = bufs[1])
      BY <2>2, <3>2
    <3>4. k \in 1 .. less[i]
      BY <1>1, <1>2, <3>2, <3>3
    <3>. QED BY <1>2, <3>2, <3>4, BytesMember
  <2>. QED BY <2>1, <2>2
<1>4. Bytes(less) = Bytes(bufs) \ {last}
  <2>. HIDE DEF last
  <2>. QED BY <1>3
<1>5. last \in Bytes(bufs)
  BY <1>1, BytesMember
<1>6. Total(less) = Total(bufs) - 1
  <2>. HIDE DEF last
  <2>. QED BY <1>4, <1>5, TotalType, FS_RemoveElement DEF Total
<1>7. less[1] = bufs[1] - 1
  BY <1>1, <1>2
<1>. QED
  BY <1>2, <1>6, <1>7 DEF less

LEMMA CountMore ==
  ASSUME NEW n \in Nat
  PROVE  Append(Count(n), n + 1) = Count(n + 1) /\ Len(Count(n)) = n /\ Count(n) \in Seq(Nat)
BY DEF Count

-----------------------------------------------------------------------------
(* Types *)

LEMMA CmdTypes ==
  /\ NoCmd \in Cmds /\ [op |-> "stop"] \in Cmds
  /\ \A c \in Call : [op |-> "start", addr |-> c.addr, read |-> c.read] \in Cmds
  /\ \A n \in Nat : [op |-> "write", byte |-> n] \in Cmds
  /\ \A b \in BOOLEAN : [op |-> "read", nack |-> b] \in Cmds
  /\ \A c \in Cmds : c.op \in {"none", "start", "read", "write", "stop"}
BY DEF Cmds, Call, NoCmd

LEMMA CallTypes ==
  ASSUME NEW c \in Calls
  PROVE  c \in Call /\ c.bufs \in Nats /\ (c.read => Len(c.bufs) = 1 /\ Len(c.bufs) <= 1)
<1>1. c \in Call /\ c.bufs \in Nats
  BY I2cAssumption DEF Calls, Call, Nats
<1>2. ASSUME c.read
      PROVE  Len(c.bufs) = 1 /\ Len(c.bufs) <= 1
  <2>1. Len(c.bufs) = 1
    BY <1>2, I2cAssumption DEF Calls
  <2>. QED BY <2>1
<1>. QED
  BY <1>1, <1>2

LEMMA PrescaleModType == PrescaleMod \in Nat \ {0}
BY DEF PrescaleMod

LEMMA PrescaleType ==
  ASSUME NEW f \in Freqs, f # 0
  PROVE  Prescale(f) \in 0 .. PrescaleMod - 1
<1>. DEFINE m == (5 * f) % Word
            q == SysClk \div m
            r == (q - 1) % Word
<1>1. f \in Nat /\ Word \in Nat \ {0} /\ SysClk \in Nat /\ m # 0
  BY I2cAssumption
<1>2. m \in Nat \ {0}
  <2>1. 5 * f \in Nat
    BY <1>1
  <2>. QED BY <1>1, <2>1
<1>3. q \in Int
  <2>. HIDE DEF m
  <2>. QED BY <1>1, <1>2
<1>4. r \in Int
  <2>. HIDE DEF q
  <2>. QED BY <1>1, <1>3
<1>. HIDE DEF r
<1>5. r % PrescaleMod \in 0 .. PrescaleMod - 1
  BY <1>4, PrescaleModType
<1>. QED
  BY <1>5 DEF Prescale, r

LEMMA EmptyNats == <<>> \in Nats
BY EmptySeq DEF Nats

LEMMA AppendNats ==
  ASSUME NEW s \in Nats, NEW n \in Nat
  PROVE  Append(s, n) \in Nats
BY AppendProperties DEF Nats

LEMMA InitTypes ==
  ASSUME Init
  PROVE  TypeInv
<1>1. call \in Call /\ ~call.read
  BY EmptySeq DEF Init, Call
<1>2. prescale \in 0 .. PrescaleMod - 1
  BY PrescaleModType DEF Init
<1>. QED
  BY <1>1, <1>2, EmptyNats, CmdTypes DEF Init, TypeInv

(* A step that stores to CR a command of the right form. *)
LEMMA CommandTypes ==
  ASSUME TypeInv, NEW c \in Cmds, Command(c)
  PROVE  cmd' \in Cmds
BY DEF TypeInv, Command

LEMMA TypeTransfer ==
  ASSUME TypeInv, NEW c \in Calls, Transfer(c)
  PROVE  TypeInv'
<1>1. c \in Call /\ c.bufs \in Nats /\ (c.read => Len(c.bufs) = 1 /\ Len(c.bufs) <= 1)
  BY CallTypes
<1>2. cmd' \in Cmds
  BY <1>1, CmdTypes, CommandTypes DEF Transfer
<1>. QED
  BY <1>1, <1>2, EmptyNats DEF TypeInv, Transfer, bus

LEMMA TypeNextByte ==
  ASSUME TypeInv, NextByte
  PROVE  TypeInv'
<1>0. /\ pc = "next" /\ left # <<>> /\ left \in Nats /\ ret \in Nat
      /\ UNCHANGED <<prescale, enabled, call, buf, ret, rxack, rxr, bus, clean>>
  BY DEF NextByte, TypeInv
<1>1. CASE Head(left) = 0 /\ left' = Tail(left) /\ UNCHANGED <<pc, cmd>>
  <2>1. left' \in Nats /\ Len(left') = Len(left) - 1 /\ Len(left) \in Nat
    BY <1>0, <1>1, HeadTailProperties, LenProperties DEF Nats
  <2>. QED BY <1>0, <1>1, <2>1 DEF TypeInv, bus
<1>2. CASE /\ Head(left) > 0
           /\ Command(IF call.read THEN [op |-> "read", nack |-> LastByte]
                      ELSE [op |-> "write", byte |-> ret + 1])
           /\ left' = [left EXCEPT ![1] = @ - 1]
           /\ pc' = "byte"
  <2>1. left' \in Nats /\ Len(left') = Len(left)
    BY <1>0, <1>2, TotalLess DEF Nats
  <2>2. cmd' \in Cmds
    <3>1. CASE call.read
      <4>1. Command([op |-> "read", nack |-> LastByte]) /\ LastByte \in BOOLEAN
        BY <1>2, <3>1 DEF LastByte
      <4>. QED BY <4>1, CmdTypes, CommandTypes
    <3>2. CASE ~call.read
      <4>1. Command([op |-> "write", byte |-> ret + 1])
        BY <1>2, <3>2
      <4>. QED BY <1>0, <4>1, CmdTypes, CommandTypes
    <3>. QED BY <3>1, <3>2
  <2>. QED BY <1>0, <1>2, <2>1, <2>2, CmdTypes DEF TypeInv, bus
<1>. QED
  BY <1>1, <1>2 DEF NextByte

LEMMA TypeDriver ==
  ASSUME TypeInv, AddrDone \/ ByteRead \/ ByteWritten \/ Finish \/ Stopped \/ Timeout
  PROVE  TypeInv'
<1>1. CASE AddrDone
  <2>1. cmd' \in Cmds
    BY <1>1, CmdTypes, CommandTypes DEF AddrDone, Stop, TypeInv
  <2>. QED BY <1>1, <2>1, CmdTypes DEF AddrDone, Stop, TypeInv, bus, ENODEV, ETIMEDOUT
<1>2. CASE ByteRead
  <2>1. Append(buf, rxr) \in Nats
    BY AppendNats DEF TypeInv
  <2>. QED BY <1>2, <2>1 DEF ByteRead, TypeInv, controller, bus
<1>3. CASE ByteWritten
  <2>1. cmd' \in Cmds
    BY <1>3, CmdTypes, CommandTypes DEF ByteWritten, Stop, TypeInv
  <2>. QED BY <1>3, <2>1, CmdTypes DEF ByteWritten, Stop, TypeInv, bus
<1>4. CASE Finish
  <2>1. cmd' \in Cmds
    BY <1>4, CmdTypes, CommandTypes DEF Finish, Stop, TypeInv
  <2>. QED BY <1>4, <2>1, CmdTypes DEF Finish, Stop, TypeInv, bus
<1>5. CASE Stopped
  BY <1>5 DEF Stopped, TypeInv, controller, bus
<1>6. CASE Timeout
  BY <1>6 DEF Timeout, TypeInv, controller, bus
<1>. QED
  BY <1>1, <1>2, <1>3, <1>4, <1>5, <1>6

LEMMA TypeRun ==
  ASSUME TypeInv, Run
  PROVE  TypeInv'
<1>0. /\ UNCHANGED <<prescale, enabled, pc, call, left, buf, ret, clean>> /\ cmd' = NoCmd
      /\ cmd \in Cmds
  BY DEF Run, driver, TypeInv
<1>1. /\ taken' \in Nats /\ sent' \in Nat /\ rxr' \in Nat
      /\ rxack' \in BOOLEAN /\ held' \in BOOLEAN /\ sending' \in BOOLEAN
  <2>1. CASE RunStart
    BY <2>1, EmptyNats DEF RunStart, TypeInv
  <2>2. CASE RunWrite
    <3>1. cmd.byte \in Nat
      BY <1>0, <2>2 DEF RunWrite, Cmds
    <3>2. Append(taken, cmd.byte) \in Nats
      BY <3>1, AppendNats DEF TypeInv
    <3>. QED BY <2>2, <3>2 DEF RunWrite, TypeInv
  <2>3. CASE RunRead
    BY <2>3 DEF RunRead, TypeInv
  <2>4. CASE RunStop
    BY <2>4 DEF RunStop, TypeInv
  <2>. QED BY <2>1, <2>2, <2>3, <2>4 DEF Run
<1>. QED
  BY <1>0, <1>1, CmdTypes DEF TypeInv

LEMMA TypeNext ==
  ASSUME TypeInv, [Next]_vars
  PROVE  TypeInv'
<1>1. ASSUME NEW f \in Freqs, InitFunc(f)
      PROVE  TypeInv'
  BY <1>1, PrescaleType DEF InitFunc, TypeInv, driver, controller, bus
<1>2. CASE UNCHANGED vars
  BY <1>2 DEF vars, driver, controller, bus, TypeInv
<1>. QED
  BY <1>1, <1>2, TypeTransfer, TypeNextByte, TypeDriver, TypeRun DEF Next, i2c_transfer
-----------------------------------------------------------------------------
(* A transfer, as long as no wait has timed out *)

LEMMA CmdsDiffer == [op |-> "stop"] # NoCmd
BY DEF NoCmd

(* A command stored to an idle controller is carried out. *)
LEMMA IdleTakes ==
  ASSUME NEW c \in Cmds, Command(c), ~TIP
  PROVE  cmd' = c
BY DEF Command

LEMMA CallInit ==
  ASSUME Init
  PROVE  CallInv
<1>1. Count(0) = <<>>
  BY DEF Count
<1>. QED
  BY TotalEmpty DEF Init, CallInv, EndInv, ToFree, TIP, ENODEV

LEMMA CallTransfer ==
  ASSUME TypeInv, CallInv, NEW c \in Calls, Transfer(c)
  PROVE  CallInv'
<1>1. pc = "idle" /\ ~TIP /\ pc' = "addr" /\ call' = c /\ left' = c.bufs /\ buf' = <<>> /\ ret' = 0
  BY DEF Transfer, CallInv
<1>2. cmd' = [op |-> "start", addr |-> c.addr, read |-> c.read]
  BY <1>1, CallTypes, CmdTypes, IdleTakes DEF Transfer
<1>3. TIP'
  BY <1>2 DEF TIP, NoCmd
<1>. QED
  BY <1>1, <1>2, <1>3 DEF CallInv, AddrInv

LEMMA CallAddrDone ==
  ASSUME TypeInv, CallInv, AddrDone
  PROVE  CallInv'
<1>0. /\ pc = "addr" /\ ~TIP /\ AddrInv
      /\ UNCHANGED <<call, left, buf, rxack, rxr, bus, clean>>
  BY DEF AddrDone, CallInv
<1>1. CASE rxack /\ ret' = ENODEV /\ Stop
  <2>1. pc' = "stop" /\ cmd' = [op |-> "stop"] /\ TIP'
    BY <1>0, <1>1, CmdTypes, IdleTakes, CmdsDiffer DEF Stop, TIP
  <2>2. ~sending'
    BY <1>0, <1>1 DEF AddrInv, bus
  <2>. QED BY <1>1, <2>1, <2>2 DEF CallInv, EndInv, ENODEV
<1>2. CASE ~rxack /\ pc' = "next" /\ UNCHANGED <<ret, cmd>>
  <2>1. call.addr = Slave /\ (sending <=> call.read) /\ taken = <<>> /\ sent = 0
    BY <1>0, <1>2 DEF AddrInv, TypeInv, Call
  <2>2. Count(0) = <<>>
    BY DEF Count
  <2>3. ~TIP'
    BY <1>0, <1>2 DEF TIP
  <2>4. Total(left) \in Nat /\ left = call.bufs /\ ret = 0 /\ buf = <<>>
    BY <1>0, TotalType DEF AddrInv, TypeInv, Nats
  <2>. QED BY <1>0, <1>2, <2>1, <2>2, <2>3, <2>4 DEF CallInv, ByteInv, bus
<1>. QED
  BY <1>1, <1>2 DEF AddrDone

LEMMA ReadLeft ==
  ASSUME TypeInv, call.read
  PROVE  Len(left) <= 1
BY DEF TypeInv

LEMMA OneLeft ==
  ASSUME NEW s \in Nats
  PROVE  /\ Len(s) = 1 => s # <<>>
         /\ s # <<>> /\ Len(s) <= 1 => Len(s) = 1
<1>. DEFINE n == Len(s)
<1>1. n \in Nat /\ (s = <<>> <=> n = 0)
  BY EmptySeq, LenProperties DEF Nats
<1>2. (n = 1 => n # 0) /\ (n # 0 /\ n <= 1 => n = 1)
  <2>. HIDE DEF n
  <2>. QED BY <1>1
<1>. QED
  BY <1>1, <1>2, Zenon

(* The driver goes on to a byte, or drops an empty buffer. *)
LEMMA CallNextByte ==
  ASSUME TypeInv, CallInv, NextByte
  PROVE  CallInv'
<1>0. /\ pc = "next" /\ left # <<>> /\ left \in Nats /\ ret \in Nat /\ ~TIP
      /\ call \in Call /\ Len(left) \in Nat \ {0} /\ left[1] \in Nat
      /\ Total(left) \in Nat /\ ByteInv
      /\ UNCHANGED <<call, buf, ret, rxack, rxr, held, sending, taken, sent, clean>>
  <2>1. left # <<>> /\ left \in Nats
    BY DEF NextByte, TypeInv
  <2>2. Len(left) \in Nat \ {0} /\ left[1] \in Nat
    BY <2>1, EmptySeq, ElementOfSeq DEF Nats
  <2>. QED BY <2>1, <2>2, TotalType DEF NextByte, TypeInv, CallInv, bus, Nats
<1>1. CASE Head(left) = 0 /\ left' = Tail(left) /\ UNCHANGED <<pc, cmd>>
  <2>1. Total(left') = Total(left) /\ Len(left') = Len(left) - 1 /\ left' \in Nats /\ left[1] = 0
    BY <1>0, <1>1, TotalTail, HeadTailProperties DEF Nats
  <2>2. ~TIP'
    BY <1>0, <1>1 DEF TIP
  <2>3. ASSUME call.read
        PROVE  AllRead /\ AllRead'
    <3>1. Len(left) = 1
      <4>1. Len(left) <= 1
        BY <2>3, ReadLeft
      <4>. QED BY <1>0, <4>1, OneLeft
    <3>2. left' = <<>>
      BY <2>1, <3>1, EmptySeq DEF Nats
    <3>. QED BY <2>1, <3>2 DEF AllRead
  <2>4. ByteInv'
    BY <1>0, <1>1, <2>1, <2>2, <2>3 DEF ByteInv
  <2>. QED BY <1>0, <1>1, <2>2, <2>4 DEF CallInv
<1>2. CASE /\ Head(left) > 0
           /\ Command(IF call.read THEN [op |-> "read", nack |-> LastByte]
                      ELSE [op |-> "write", byte |-> ret + 1])
           /\ left' = [left EXCEPT ![1] = @ - 1]
           /\ pc' = "byte"
  <2>1. /\ Total(left') = Total(left) - 1 /\ Len(left') = Len(left)
        /\ left' \in Nats /\ left'[1] = left[1] - 1 /\ left[1] > 0
    <3>1. left \in Seq(Nat) /\ Head(left) = left[1]
      BY <1>0, HeadTailProperties DEF Nats
    <3>. QED BY <1>0, <1>2, <3>1, TotalLess DEF Nats
  <2>2. ret' + Total(left') + 1 = Total(call.bufs) /\ call.addr = Slave
    BY <1>0, <2>1 DEF ByteInv
  <2>3. ASSUME call.read
        PROVE  /\ TIP' /\ cmd' = [op |-> "read", nack |-> left'[1] = 0]
               /\ Len(left') = 1 /\ sent = ret /\ sending /\ buf = Count(ret)
    <3>1. Len(left) = 1
      <4>1. Len(left) <= 1
        BY <2>3, ReadLeft
      <4>. QED BY <1>0, <4>1, OneLeft
    <3>2. LastByte <=> left'[1] = 0
      BY <1>0, <2>1, <3>1 DEF LastByte
    <3>3. LastByte = (left'[1] = 0)
      BY <3>2 DEF LastByte
    <3>4. cmd' = [op |-> "read", nack |-> left'[1] = 0]
      BY <1>0, <1>2, <2>3, <3>3, CmdTypes, IdleTakes
    <3>5. ~AllRead
      BY <1>0, <2>1 DEF AllRead
    <3>. QED BY <1>0, <2>1, <2>3, <3>1, <3>4, <3>5 DEF TIP, NoCmd, ByteInv
  <2>4. ASSUME ~call.read
        PROVE  /\ TIP' /\ cmd' = [op |-> "write", byte |-> ret + 1]
               /\ ~sending /\ taken = Count(ret)
    <3>1. cmd' = [op |-> "write", byte |-> ret + 1]
      BY <1>0, <1>2, <2>4, CmdTypes, IdleTakes
    <3>2. ~sending /\ taken = Count(ret + 0)
      BY <1>0, <2>4 DEF ByteInv
    <3>. QED BY <1>0, <3>1, <3>2 DEF TIP, NoCmd
  <2>5. ByteInv'
    <3>1. CASE call.read
      BY <1>0, <1>2, <2>1, <2>2, <2>3, <3>1 DEF ByteInv
    <3>2. CASE ~call.read
      BY <1>0, <1>2, <2>2, <2>4, <3>2 DEF ByteInv
    <3>. QED BY <3>1, <3>2
  <2>. QED BY <1>2, <2>5 DEF CallInv
<1>. QED
  BY <1>1, <1>2 DEF NextByte

(* A byte is through. *)
LEMMA CallByteRead ==
  ASSUME TypeInv, CallInv, ByteRead
  PROVE  CallInv'
<1>1. /\ ret \in Nat /\ ~TIP /\ call.read /\ pc' = "next" /\ buf' = Append(buf, rxr)
      /\ ret' = ret + 1 /\ ~TIP' /\ Total(left) \in Nat
      /\ UNCHANGED <<call, left, controller, bus>>
  <2>1. Total(left) \in Nat
    BY TotalType DEF TypeInv, Nats
  <2>. QED BY <2>1 DEF ByteRead, TypeInv, TIP, controller
<1>2. /\ call.addr = Slave /\ ret + Total(left) + 1 = Total(call.bufs) /\ buf = Count(ret)
      /\ Len(left) = 1 /\ sent = ret + 1 /\ rxr = ret + 1 /\ (sending <=> left[1] # 0)
  BY <1>1 DEF ByteRead, CallInv, ByteInv
<1>3. buf' = Count(ret')
  BY <1>1, <1>2, CountMore
<1>4. AllRead' <=> left[1] = 0
  <2>1. left' = left /\ left # <<>>
    BY <1>1, <1>2, OneLeft DEF TypeInv
  <2>. QED BY <2>1 DEF AllRead
<1>. QED
  BY <1>1, <1>2, <1>3, <1>4 DEF CallInv, ByteInv, bus

LEMMA CallByteWritten ==
  ASSUME TypeInv, CallInv, ByteWritten
  PROVE  CallInv'
<1>0. /\ pc = "byte" /\ ret \in Nat /\ ~TIP /\ ~call.read /\ Total(left) \in Nat
      /\ UNCHANGED <<call, left, buf, rxack, bus, clean>>
  <2>1. Total(left) \in Nat
    BY TotalType DEF TypeInv, Nats
  <2>. QED BY <2>1 DEF ByteWritten, TypeInv
<1>1. /\ call.addr = Slave /\ ret + Total(left) + 1 = Total(call.bufs) /\ ~sending
      /\ taken = Count(ret + (IF ~rxack THEN 1 ELSE 0))
  BY <1>0 DEF CallInv, ByteInv
<1>2. CASE rxack /\ Stop /\ UNCHANGED ret
  <2>1. pc' = "stop" /\ cmd' = [op |-> "stop"] /\ TIP'
    BY <1>0, <1>2, CmdTypes, IdleTakes, CmdsDiffer DEF Stop, TIP
  <2>. QED BY <1>0, <1>1, <1>2, <2>1 DEF CallInv, EndInv, bus
<1>3. CASE ~rxack /\ ret' = ret + 1 /\ pc' = "next" /\ UNCHANGED cmd
  <2>1. ~TIP'
    BY <1>0, <1>3 DEF TIP
  <2>2. ByteInv'
    BY <1>0, <1>1, <1>3, <2>1 DEF ByteInv, bus
  <2>. QED BY <1>3, <2>1, <2>2 DEF CallInv
<1>. QED
  BY <1>2, <1>3 DEF ByteWritten

LEMMA CallFinish ==
  ASSUME TypeInv, CallInv, Finish
  PROVE  CallInv'
<1>0. /\ pc = "next" /\ left = <<>> /\ ~TIP /\ ret \in Nat /\ call \in Call
      /\ call.addr = Slave /\ ret = Total(call.bufs) /\ AllRead
      /\ UNCHANGED <<call, left, buf, ret, rxack, rxr, bus, clean>>
  BY TotalEmpty DEF Finish, TypeInv, CallInv, ByteInv, AllRead
<1>1. ret >= 0 => IF call.read
                 THEN buf = Count(Total(call.bufs)) /\ ret = Len(buf) /\ sent = ret
                 ELSE taken = Count(ret)
  <2>1. CASE call.read
    <3>1. buf = Count(ret) /\ sent = ret
      BY <1>0, <2>1 DEF CallInv, ByteInv
    <3>. QED BY <1>0, <2>1, <3>1, CountMore
  <2>2. CASE ~call.read
    BY <1>0, <2>2 DEF CallInv, ByteInv
  <2>. QED BY <2>1, <2>2
<1>2. ToFree => call.stop /\ ~sending
  <2>1. CASE call.read
    <3>1. sending <=> ~(ret > 0 /\ AllRead)
      BY <1>0, <2>1 DEF CallInv, ByteInv
    <3>. QED BY <1>0, <2>1, <3>1 DEF ToFree
  <2>2. CASE ~call.read
    BY <1>0, <2>2 DEF CallInv, ByteInv, ToFree
  <2>. QED BY <2>1, <2>2
<1>3. CASE call.stop /\ Stop
  <2>1. pc' = "stop" /\ cmd' = [op |-> "stop"] /\ TIP'
    BY <1>0, <1>3, CmdTypes, IdleTakes, CmdsDiffer DEF Stop, TIP
  <2>2. EndInv'
    BY <1>0, <1>1, <1>2, <2>1 DEF EndInv, ToFree, bus
  <2>. QED BY <2>1, <2>2 DEF CallInv
<1>4. CASE ~call.stop /\ pc' = "idle" /\ UNCHANGED cmd
  <2>1. ~TIP'
    BY <1>0, <1>4 DEF TIP
  <2>2. EndInv'
    BY <1>0, <1>1, <1>2, <1>4, <2>1 DEF EndInv, ToFree, bus
  <2>. QED BY <1>4, <2>1, <2>2 DEF CallInv
<1>. QED
  BY <1>3, <1>4 DEF Finish

LEMMA CallStopped ==
  ASSUME TypeInv, CallInv, Stopped
  PROVE  CallInv'
<1>1. pc = "stop" /\ ~TIP /\ pc' = "idle" /\ EndInv
      /\ UNCHANGED <<call, ret, buf, taken, sent, held, sending, cmd>>
  BY DEF Stopped, CallInv, controller, bus
<1>2. ~TIP'
  BY <1>1 DEF TIP
<1>3. EndInv'
  BY <1>1, <1>2 DEF EndInv, ToFree
<1>. QED
  BY <1>1, <1>2, <1>3 DEF CallInv

(* The controller is done with the command the driver waits for. *)
LEMMA CallRun ==
  ASSUME TypeInv, clean, CallInv, Run
  PROVE  CallInv'
<1>0. /\ TIP /\ ~TIP' /\ UNCHANGED <<pc, call, left, buf, ret>>
      /\ pc \in {"addr", "byte", "stop"} /\ call \in Call
  BY DEF Run, driver, TIP, NoCmd, TypeInv, CallInv
<1>1. CASE pc = "addr"
  <2>1. AddrInv /\ cmd = [op |-> "start", addr |-> call.addr, read |-> call.read]
    BY <1>0, <1>1 DEF CallInv, AddrInv
  <2>2. RunStart
    BY <2>1 DEF Run, RunWrite, RunRead, RunStop
  <2>3. /\ rxack' = (call.addr # Slave) /\ taken' = <<>> /\ sent' = 0
        /\ sending' = (call.addr = Slave /\ call.read)
    BY <2>1, <2>2 DEF RunStart
  <2>. QED BY <1>0, <1>1, <2>1, <2>3 DEF CallInv, AddrInv
<1>2. CASE pc = "byte" /\ call.read
  <2>1. /\ call.addr = Slave /\ ret + Total(left) + 1 = Total(call.bufs) /\ buf = Count(ret)
        /\ Len(left) = 1 /\ sent = ret /\ sending
        /\ cmd = [op |-> "read", nack |-> left[1] = 0]
    BY <1>0, <1>2 DEF CallInv, ByteInv
  <2>2. RunRead
    BY <2>1 DEF Run, RunStart, RunWrite, RunStop
  <2>3. rxr' = ret + 1 /\ sent' = ret + 1
    BY <2>1, <2>2 DEF RunRead
  <2>4. sending' <=> left[1] # 0
    BY <2>1, <2>2 DEF RunRead
  <2>. QED BY <1>0, <1>2, <2>1, <2>3, <2>4 DEF CallInv, ByteInv
<1>3. CASE pc = "byte" /\ ~call.read
  <2>1. /\ call.addr = Slave /\ ret + Total(left) + 1 = Total(call.bufs)
        /\ ~sending /\ cmd = [op |-> "write", byte |-> ret + 1]
    BY <1>0, <1>3 DEF CallInv, ByteInv
  <2>2. taken = Count(ret + 0)
    BY <1>0, <1>3 DEF CallInv, ByteInv
  <2>3. RunWrite
    BY <2>1 DEF Run, RunStart, RunRead, RunStop
  <2>4. ret \in Nat
    BY <1>3 DEF TypeInv
  <2>5. taken' = Count(ret + (IF ~rxack' THEN 1 ELSE 0)) /\ ~sending'
    <3>1. CASE rxack' = FALSE
      <4>1. taken' = Count(ret + 1)
        <5>1. taken' = Append(taken, cmd.byte) /\ cmd.byte = ret + 1 /\ taken = Count(ret)
          BY <2>1, <2>2, <2>3, <2>4, <3>1 DEF RunWrite
        <5>. QED BY <2>4, <5>1, CountMore
      <4>. QED BY <2>1, <2>3, <3>1, <4>1 DEF RunWrite
    <3>2. CASE rxack' = TRUE
      BY <2>1, <2>2, <2>3, <3>2 DEF RunWrite
    <3>. QED BY <2>3, <3>1, <3>2 DEF RunWrite
  <2>. QED BY <1>0, <1>3, <2>1, <2>5 DEF CallInv, ByteInv
<1>4. CASE pc = "stop"
  <2>1. EndInv /\ cmd = [op |-> "stop"]
    BY <1>0, <1>4 DEF CallInv
  <2>2. RunStop
    BY <2>1 DEF Run, RunStart, RunWrite, RunRead
  <2>3. EndInv'
    BY <1>0, <2>1, <2>2 DEF EndInv, ToFree, RunStop
  <2>. QED BY <1>0, <1>4, <2>3 DEF CallInv
<1>. QED
  BY <1>0, <1>1, <1>2, <1>3, <1>4

(* What init() changes is no part of a transfer. *)
LEMMA CallSame ==
  ASSUME CallInv, UNCHANGED <<driver, controller, bus>>
  PROVE  CallInv'
BY DEF CallInv, AddrInv, ByteInv, EndInv, ToFree, AllRead, TIP, driver, controller, bus

LEMMA CallNext ==
  ASSUME I2cInv, [Next]_vars, clean'
  PROVE  CallInv'
<1>1. TypeInv /\ clean /\ CallInv
  <2>1. clean
    BY DEF Next, i2c_transfer, vars, InitFunc, Transfer, AddrDone, NextByte, ByteRead,
           ByteWritten, Finish, Stopped, Timeout, Run
  <2>. QED BY <2>1 DEF I2cInv
<1>2. ASSUME NEW f \in Freqs, InitFunc(f)
      PROVE  CallInv'
  BY <1>1, <1>2, CallSame DEF InitFunc
<1>3. ASSUME NEW c \in Calls, Transfer(c)
      PROVE  CallInv'
  BY <1>1, <1>3, CallTransfer
<1>4. CASE i2c_transfer
  <2>1. ~Timeout
    BY DEF Timeout
  <2>. QED
    BY <1>1, <1>4, <2>1, CallAddrDone, CallNextByte, CallByteRead, CallByteWritten, CallFinish,
       CallStopped DEF i2c_transfer
<1>5. CASE Run
  BY <1>1, <1>5, CallRun
<1>6. CASE UNCHANGED vars
  BY <1>1, <1>6, CallSame DEF vars
<1>. QED
  BY <1>2, <1>3, <1>4, <1>5, <1>6 DEF Next

-----------------------------------------------------------------------------
(* The invariant holds in every reachable state: as long as no wait has    *)
(* timed out, every byte of the transfer is accounted for at every step of *)
(* i2c_transfer and of the controller.                                     *)
THEOREM I2cInvariant == Spec => []I2cInv
<1>1. Init => I2cInv
  BY InitTypes, CallInit DEF I2cInv
<1>2. I2cInv /\ [Next]_vars => I2cInv'
  BY TypeNext, CallNext DEF I2cInv
<1>. QED
  BY <1>1, <1>2, PTL DEF Spec

(* Every variable keeps its type: the prescaler its 16 bits, the return    *)
(* value a count or one of the two errors.                                 *)
THEOREM TypeCorrect == Spec => []TypeOK
<1>1. I2cInv => TypeOK
  <2>1. ASSUME TypeInv
        PROVE  TypeOK
    BY <2>1, CmdTypes DEF TypeInv, TypeOK, Nats
  <2>. QED BY <2>1 DEF I2cInv
<1>. QED
  BY <1>1, I2cInvariant, PTL

(* The value a transfer returns tells how far it got, for any buffers and  *)
(* wherever the slave refuses a byte.                                      *)
THEOREM TransferIsComplete == Spec => []Transferred
<1>1. I2cInv => Transferred
  <2>. SUFFICES ASSUME TypeInv, CallInv, pc = "idle", ret >= 0
                PROVE  IF call.read
                       THEN buf = Count(Total(call.bufs)) /\ ret = Len(buf) /\ sent = ret
                       ELSE taken = Count(ret)
    BY DEF I2cInv, Transferred, Returned, Count
  <2>. QED BY DEF CallInv, EndInv
<1>. QED
  BY <1>1, I2cInvariant, PTL

(* A transfer that ends with a STOP, or that the slave cuts short, leaves  *)
(* the bus free.                                                           *)
THEOREM BusIsReleased == Spec => []BusReleased
<1>1. I2cInv => BusReleased
  <2>. SUFFICES ASSUME TypeInv, CallInv, pc = "idle", ToFree
                PROVE  ~held
    BY DEF I2cInv, BusReleased, Returned, ToFree
  <2>. QED BY DEF CallInv, EndInv
<1>. QED
  BY <1>1, I2cInvariant, PTL

=============================================================================
