----------------------------- MODULE SocProofs -----------------------------
(***************************************************************************)
(* Between calls the Tiny Tapeout design has the inputs that tt.py was     *)
(* asked for, and every send is one clock edge that sees its data, for     *)
(* any values sent and copied and in any order of calls.                   *)
(***************************************************************************)
EXTENDS Soc, SequenceTheorems, TLAPS

CtrlBits == {clk, rst_n, ena}
Values   == SUBSET Byte

AccessType ==
  [kind : {"read"}, addr : Nat] \cup [kind : {"await"}, addr : Nat, bit : Byte]
    \cup [kind : {"write"}, addr : Nat, data : Values]
    \cup [kind : {"set", "clear"}, addr : Nat, bits : Values]

AskedType == [ui : Values, uio : Values, ctrl : SUBSET CtrlBits]

(* The register of the wrapper that a changes. *)
Target(a) ==
  IF a.kind \in {"read", "await"} \/ ~PselTT(a.addr) THEN "none"
  ELSE CASE Reg(a.addr) = 0  -> "ui_in"
         [] Reg(a.addr) = 4  -> "uio_in"
         [] Reg(a.addr) = 12 -> "ctrl"
         [] OTHER            -> "none"

(* Nothing in t changes r. *)
Spares(t, r) == \A k \in DOMAIN t : Target(t[k]) # r

TypeInv ==
  /\ ui_in \in Values /\ uio_in \in Values /\ ctrl \in SUBSET CtrlBits
  /\ call \in Calls \cup {NoCall} /\ acc \in Values
  /\ todo \in Seq(AccessType) /\ Len(todo) <= 13
  /\ asked \in AskedType
  /\ edges \in Seq(Values) /\ clkWas \in BOOLEAN /\ spied \in BOOLEAN

(* At most one access of a call raises the clock: it is still to come if   *)
(* there has been no edge.                                                 *)
Raises(a) == Target(a) = "ctrl" /\ ~(a.kind = "clear" /\ clk \in a.bits)

OneRise(t) == \A j, k \in DOMAIN t : Raises(t[j]) /\ Raises(t[k]) => j = k

EdgeInv ==
  /\ OneRise(todo)
  /\ Len(edges) <= 1
  /\ edges # <<>> => \A k \in DOMAIN todo : ~Raises(todo[k])

(* The accesses t lead to the registers a: the last to change one of them  *)
(* gives it its value in a.                                                *)
Plan(t, a) ==
  \A k \in DOMAIN t :
    /\ Target(t[k]) = "ui_in" => t[k].kind = "write" /\ t[k].data = a.ui
    /\ Target(t[k]) = "uio_in" => t[k].kind = "write" /\ t[k].data = a.uio
    /\ Target(t[k]) = "ctrl" /\ t[k].kind = "write" => t[k].data \cap CtrlBits = a.ctrl
    /\ Target(t[k]) = "ctrl" /\ t[k].kind # "write" =>
         /\ t[k].bits = {clk}
         /\ k > 1 => t[k - 1] = Read(TT.CTRL)
         /\ (\A j \in DOMAIN t : j > k => Target(t[j]) # "ctrl")
              => (t[k].kind = "set" <=> clk \in a.ctrl)

(* No access of t stores all of ctrl. *)
Toggles(t) == \A k \in DOMAIN t : ~(Target(t[k]) = "ctrl" /\ t[k].kind = "write")

(* What no access changes any more has its value already. *)
OwnInv ==
  /\ Plan(todo, asked)
  /\ Spares(todo, "ui_in") => ui_in = asked.ui
  /\ Spares(todo, "uio_in") => uio_in = asked.uio
  /\ Spares(todo, "ctrl") => ctrl = asked.ctrl
  /\ Toggles(todo) => ctrl \ {clk} = asked.ctrl \ {clk}
  /\ todo # <<>> /\ Target(todo[1]) = "ctrl" /\ todo[1].kind # "write" => acc = ctrl

(* In the accesses of send the one that raises the clock comes after those *)
(* that set the inputs and before the other one to the clock, and the last *)
(* one reads the output.                                                   *)
SendPlan(t) ==
  /\ \A k \in DOMAIN t :
       /\ Target(t[k]) = "ctrl" => t[k].kind \in {"set", "clear"}
       /\ t[k].kind = "set" =>
            /\ Target(t[k]) = "ctrl"
            /\ \A j \in DOMAIN t : /\ j < k => Target(t[j]) # "ctrl"
                                   /\ j > k => Target(t[j]) # "ui_in" /\ t[j].kind # "set"
  /\ t # <<>> => t[Len(t)] = Read(TT.DATA)

ToRise == \E k \in DOMAIN todo : todo[k].kind = "set"

SendInv ==
  /\ SendPlan(todo)
  /\ asked.ui = call.ui
  /\ ToRise => edges = <<>> /\ (clkWas <=> clk \in ctrl)
  /\ ~ToRise => edges = IF clkWas THEN <<>> ELSE <<call.ui>>
  /\ todo = <<>> => acc = call.ui

SocInv ==
  /\ TypeInv
  /\ EdgeInv
  /\ ~spied => OwnInv
  /\ ~spied /\ call.op = "send" => SendInv
-----------------------------------------------------------------------------
(* Single accesses *)

LEMMA Decode ==
  /\ PselTT(TT.DATA) /\ Reg(TT.DATA) = 0
  /\ PselTT(TT.UIO) /\ Reg(TT.UIO) = 4
  /\ PselTT(TT.OE) /\ Reg(TT.OE) = 8
  /\ PselTT(TT.CTRL) /\ Reg(TT.CTRL) = 12
  /\ PselTT(SPI.CTRL) /\ Reg(SPI.CTRL) = 0
  /\ PselTT(SPI.WDATA) /\ Reg(SPI.WDATA) = 4
  /\ PselTT(SPI.SSMASK) /\ Reg(SPI.SSMASK) = 12
  /\ ~PselTT(ADC.CFG)
  /\ ~PselTT(DMA.SRC) /\ ~PselTT(DMA.DST) /\ ~PselTT(DMA.LEN) /\ ~PselTT(DMA.CTRL)
BY DEF PselTT, Slot, Reg, TTSlot, TT, SPI, ADC, DMA

LEMMA Addresses ==
  /\ TT \in [DATA : Nat, UIO : Nat, OE : Nat, CTRL : Nat]
  /\ SPI.RDATA \in Nat /\ SPI.WDATA \in Nat /\ SPI.STATUS \in Nat /\ SPI.SSMASK \in Nat
  /\ SPI.CTRL \in Nat /\ ADC.CFG \in Nat /\ ADC.DATA \in Nat
  /\ DMA.SRC \in Nat /\ DMA.DST \in Nat /\ DMA.LEN \in Nat /\ DMA.CTRL \in Nat
BY DEF TT, SPI, ADC, DMA

LEMMA TargetOfRead ==
  ASSUME NEW a, NEW b
  PROVE  Target(Read(a)) = "none" /\ Target(Await(a, b)) = "none"
BY DEF Target, Read, Await

LEMMA TargetOfWrite ==
  ASSUME NEW d
  PROVE  /\ Target(Write(TT.DATA, d)) = "ui_in" /\ Target(Write(TT.UIO, d)) = "uio_in"
         /\ Target(Write(TT.OE, d)) = "none" /\ Target(Write(TT.CTRL, d)) = "ctrl"
         /\ Target(Write(SPI.CTRL, d)) = "ui_in" /\ Target(Write(SPI.WDATA, d)) = "uio_in"
         /\ Target(Write(SPI.SSMASK, d)) = "ctrl"
         /\ Target(Write(ADC.CFG, d)) = "none"
         /\ Target(Write(DMA.SRC, d)) = "none" /\ Target(Write(DMA.DST, d)) = "none"
         /\ Target(Write(DMA.LEN, d)) = "none"
BY Decode DEF Target, Write

LEMMA TargetOfModify ==
  ASSUME NEW B
  PROVE  /\ Target(Set(TT.CTRL, B)) = "ctrl" /\ Target(Clear(TT.CTRL, B)) = "ctrl"
         /\ Target(Set(DMA.CTRL, B)) = "none" /\ Target(Clear(DMA.CTRL, B)) = "none"
BY Decode DEF Target, Set, Clear

LEMMA AccessTypes ==
  ASSUME NEW a \in Nat
  PROVE  /\ Read(a) \in AccessType
         /\ \A b \in Byte : Await(a, b) \in AccessType
         /\ \A d \in Values : /\ Write(a, d) \in AccessType
                              /\ Set(a, d) \in AccessType /\ Clear(a, d) \in AccessType
BY DEF AccessType, Read, Await, Write, Set, Clear

LEMMA Kinds ==
  ASSUME NEW a, NEW d
  PROVE  /\ Read(a).kind = "read" /\ Await(a, d).kind = "await"
         /\ Write(a, d).kind = "write" /\ Write(a, d).data = d
         /\ Set(a, d).kind = "set" /\ Set(a, d).bits = d
         /\ Clear(a, d).kind = "clear" /\ Clear(a, d).bits = d
BY DEF Read, Await, Write, Set, Clear

LEMMA Reads == PRDATA(TT.DATA) = ui_in /\ PRDATA(TT.CTRL) = ctrl
BY Decode DEF PRDATA, uo_out

(* The fabric stores what is written to a register to that register.       *)
LEMMA Stores ==
  ASSUME TypeInv, NEW a \in AccessType, a.kind \in {"write", "set", "clear"},
         NEW d, PWRITE(a.addr, d)
  PROVE  /\ ui_in' = IF Target(a) = "ui_in" THEN d ELSE ui_in
         /\ uio_in' = IF Target(a) = "uio_in" THEN d ELSE uio_in
         /\ ctrl' = IF Target(a) = "ctrl" THEN d \cap CtrlBits ELSE ctrl
BY DEF PWRITE, Target, CtrlBits

-----------------------------------------------------------------------------
(* What holds of a list of accesses holds of the rest of it.               *)

LEMMA TailElements ==
  ASSUME NEW t \in Seq(AccessType), t # <<>>
  PROVE  /\ Tail(t) \in Seq(AccessType) /\ Len(Tail(t)) = Len(t) - 1
         /\ Len(t) \in Nat \ {0} /\ Head(t) = t[1] /\ t[1] \in AccessType
         /\ DOMAIN t = 1 .. Len(t) /\ DOMAIN Tail(t) = 1 .. Len(t) - 1
         /\ \A k \in DOMAIN Tail(t) : k + 1 \in DOMAIN t /\ Tail(t)[k] = t[k + 1]
         /\ \A k \in DOMAIN t : k # 1 => k - 1 \in DOMAIN Tail(t) /\ Tail(t)[k - 1] = t[k]
<1>1. /\ Tail(t) \in Seq(AccessType) /\ Len(Tail(t)) = Len(t) - 1
      /\ \A i \in 1 .. Len(Tail(t)) : Tail(t)[i] = t[i + 1]
      /\ Len(t) \in Nat \ {0} /\ Head(t) = t[1]
  BY HeadTailProperties, EmptySeq
<1>2. DOMAIN t = 1 .. Len(t) /\ DOMAIN Tail(t) = 1 .. Len(t) - 1
  BY <1>1, LenProperties
<1>3. t[1] \in AccessType
  BY <1>1, HeadTailProperties
<1>. QED
  BY <1>1, <1>2, <1>3

LEMMA Second ==
  ASSUME NEW t \in Seq(AccessType), t # <<>>, Tail(t) # <<>>
  PROVE  1 \in DOMAIN Tail(t) /\ 2 \in DOMAIN t /\ Tail(t)[1] = t[2]
<1>. DEFINE m == Len(Tail(t))
<1>1. m \in Nat \ {0} /\ DOMAIN Tail(t) = 1 .. m
  BY TailElements, EmptySeq, LenProperties
<1>2. 1 \in DOMAIN Tail(t)
  <2>. HIDE DEF m
  <2>. QED BY <1>1
<1>3. 1 + 1 \in DOMAIN t /\ Tail(t)[1] = t[1 + 1]
  BY <1>2, TailElements
<1>4. 1 + 1 = 2
  OBVIOUS
<1>. QED
  BY <1>2, <1>3, <1>4

LEMMA TailPlan ==
  ASSUME NEW t \in Seq(AccessType), t # <<>>, NEW a, Plan(t, a)
  PROVE  Plan(Tail(t), a)
<1>. SUFFICES ASSUME NEW k \in DOMAIN Tail(t)
              PROVE  /\ Target(Tail(t)[k]) = "ui_in"
                          => Tail(t)[k].kind = "write" /\ Tail(t)[k].data = a.ui
                     /\ Target(Tail(t)[k]) = "uio_in"
                          => Tail(t)[k].kind = "write" /\ Tail(t)[k].data = a.uio
                     /\ Target(Tail(t)[k]) = "ctrl" /\ Tail(t)[k].kind = "write"
                          => Tail(t)[k].data \cap CtrlBits = a.ctrl
                     /\ Target(Tail(t)[k]) = "ctrl" /\ Tail(t)[k].kind # "write" =>
                          /\ Tail(t)[k].bits = {clk}
                          /\ k > 1 => Tail(t)[k - 1] = Read(TT.CTRL)
                          /\ (\A j \in DOMAIN Tail(t) : j > k => Target(Tail(t)[j]) # "ctrl")
                               => (Tail(t)[k].kind = "set" <=> clk \in a.ctrl)
  BY DEF Plan
<1>. DEFINE n == k + 1
<1>1. n \in DOMAIN t /\ Tail(t)[k] = t[n] /\ k \in Int /\ n \in Int /\ n > 1
  BY TailElements
<1>2. /\ Target(t[n]) = "ui_in" => t[n].kind = "write" /\ t[n].data = a.ui
      /\ Target(t[n]) = "uio_in" => t[n].kind = "write" /\ t[n].data = a.uio
      /\ Target(t[n]) = "ctrl" /\ t[n].kind = "write" => t[n].data \cap CtrlBits = a.ctrl
      /\ Target(t[n]) = "ctrl" /\ t[n].kind # "write" =>
           /\ t[n].bits = {clk}
           /\ t[n - 1] = Read(TT.CTRL)
           /\ (\A j \in DOMAIN t : j > n => Target(t[j]) # "ctrl")
                => (t[n].kind = "set" <=> clk \in a.ctrl)
  BY <1>1 DEF Plan
<1>3. k > 1 => Tail(t)[k - 1] = t[n - 1]
  <2>. SUFFICES ASSUME k > 1 PROVE Tail(t)[k - 1] = t[n - 1]
    OBVIOUS
  <2>1. k - 1 \in DOMAIN Tail(t) /\ (k - 1) + 1 = n - 1
    BY TailElements
  <2>. QED BY <2>1, TailElements
<1>4. (\A j \in DOMAIN Tail(t) : j > k => Target(Tail(t)[j]) # "ctrl")
        => (\A j \in DOMAIN t : j > n => Target(t[j]) # "ctrl")
  <2>. SUFFICES ASSUME \A j \in DOMAIN Tail(t) : j > k => Target(Tail(t)[j]) # "ctrl",
                       NEW j \in DOMAIN t, j > n
                PROVE  Target(t[j]) # "ctrl"
    OBVIOUS
  <2>1. j \in Int /\ j # 1 /\ j - 1 > k
    BY <1>1, TailElements
  <2>2. j - 1 \in DOMAIN Tail(t) /\ Tail(t)[j - 1] = t[j]
    BY <2>1, TailElements
  <2>. QED BY <2>1, <2>2
<1>. HIDE DEF n
<1>. QED
  BY <1>1, <1>2, <1>3, <1>4
LEMMA TailSpares ==
  ASSUME NEW t \in Seq(AccessType), t # <<>>, NEW r, Target(t[1]) # r, Spares(Tail(t), r)
  PROVE  Spares(t, r)
<1>. SUFFICES ASSUME NEW k \in DOMAIN t PROVE Target(t[k]) # r
  BY DEF Spares
<1>1. CASE k = 1
  BY <1>1
<1>2. CASE k # 1
  <2>1. k - 1 \in DOMAIN Tail(t) /\ Tail(t)[k - 1] = t[k]
    BY <1>2, TailElements
  <2>2. Target(Tail(t)[k - 1]) # r
    BY <2>1 DEF Spares
  <2>. QED BY <2>1, <2>2
<1>. QED
  BY <1>1, <1>2

LEMMA TailToggles ==
  ASSUME NEW t \in Seq(AccessType), t # <<>>, Toggles(Tail(t)),
         Target(t[1]) = "ctrl" => t[1].kind # "write"
  PROVE  Toggles(t)
<1>. SUFFICES ASSUME NEW k \in DOMAIN t, Target(t[k]) = "ctrl" PROVE t[k].kind # "write"
  BY DEF Toggles
<1>1. CASE k = 1
  BY <1>1
<1>2. CASE k # 1
  <2>1. k - 1 \in DOMAIN Tail(t) /\ Tail(t)[k - 1] = t[k]
    BY <1>2, TailElements
  <2>2. Target(Tail(t)[k - 1]) = "ctrl" => Tail(t)[k - 1].kind # "write"
    BY <2>1 DEF Toggles
  <2>. QED BY <2>1, <2>2
<1>. QED
  BY <1>1, <1>2

(* Of the accesses that raise the clock there is at most one.              *)
LEMMA TailRise ==
  ASSUME NEW t \in Seq(AccessType), t # <<>>, OneRise(t)
  PROVE  /\ OneRise(Tail(t))
         /\ Raises(t[1]) => \A k \in DOMAIN Tail(t) : ~Raises(Tail(t)[k])
         /\ (\A k \in DOMAIN t : ~Raises(t[k])) => \A k \in DOMAIN Tail(t) : ~Raises(Tail(t)[k])
<1>1. ASSUME NEW j \in DOMAIN Tail(t), NEW k \in DOMAIN Tail(t),
             Raises(Tail(t)[j]), Raises(Tail(t)[k])
      PROVE  j = k
  <2>1. /\ j + 1 \in DOMAIN t /\ Tail(t)[j] = t[j + 1] /\ j \in Int
        /\ k + 1 \in DOMAIN t /\ Tail(t)[k] = t[k + 1] /\ k \in Int
    BY TailElements
  <2>2. j + 1 = k + 1
    BY <1>1, <2>1 DEF OneRise
  <2>. QED BY <2>1, <2>2
<1>2. ASSUME Raises(t[1]), NEW k \in DOMAIN Tail(t), Raises(Tail(t)[k])
      PROVE  FALSE
  <2>1. k + 1 \in DOMAIN t /\ Tail(t)[k] = t[k + 1] /\ 1 \in DOMAIN t /\ k \in 1 .. Len(t) - 1
    BY TailElements
  <2>2. k + 1 = 1
    BY <1>2, <2>1 DEF OneRise
  <2>. QED BY <2>1, <2>2
<1>3. ASSUME \A k \in DOMAIN t : ~Raises(t[k]), NEW k \in DOMAIN Tail(t)
      PROVE  ~Raises(Tail(t)[k])
  <2>1. k + 1 \in DOMAIN t /\ Tail(t)[k] = t[k + 1]
    BY TailElements
  <2>. QED BY <1>3, <2>1
<1>. QED
  BY <1>1, <1>2, <1>3 DEF OneRise

LEMMA TailSend ==
  ASSUME NEW t \in Seq(AccessType), t # <<>>, SendPlan(t)
  PROVE  SendPlan(Tail(t))
<1>1. ASSUME NEW k \in DOMAIN Tail(t)
      PROVE  /\ Target(Tail(t)[k]) = "ctrl" => Tail(t)[k].kind \in {"set", "clear"}
             /\ Tail(t)[k].kind = "set" => Target(Tail(t)[k]) = "ctrl"
  <2>1. k + 1 \in DOMAIN t /\ Tail(t)[k] = t[k + 1]
    BY TailElements
  <2>2. /\ Target(t[k + 1]) = "ctrl" => t[k + 1].kind \in {"set", "clear"}
        /\ t[k + 1].kind = "set" => Target(t[k + 1]) = "ctrl"
    BY <2>1 DEF SendPlan
  <2>. QED BY <2>1, <2>2
<1>2. ASSUME NEW k \in DOMAIN Tail(t), Tail(t)[k].kind = "set", NEW j \in DOMAIN Tail(t)
      PROVE  /\ j < k => Target(Tail(t)[j]) # "ctrl"
             /\ j > k => Target(Tail(t)[j]) # "ui_in" /\ Tail(t)[j].kind # "set"
  <2>1. /\ j + 1 \in DOMAIN t /\ Tail(t)[j] = t[j + 1] /\ j \in Int
        /\ k + 1 \in DOMAIN t /\ Tail(t)[k] = t[k + 1] /\ k \in Int
    BY TailElements
  <2>2. t[k + 1].kind = "set"
    BY <1>2, <2>1
  <2>3. /\ j + 1 < k + 1 => Target(t[j + 1]) # "ctrl"
        /\ j + 1 > k + 1 => Target(t[j + 1]) # "ui_in" /\ t[j + 1].kind # "set"
    BY <2>1, <2>2 DEF SendPlan
  <2>4. (j < k <=> j + 1 < k + 1) /\ (j > k <=> j + 1 > k + 1)
    BY <2>1
  <2>. QED BY <2>1, <2>3, <2>4
<1>3. ASSUME Tail(t) # <<>>
      PROVE  Tail(t)[Len(Tail(t))] = Read(TT.DATA)
  <2>1. Len(Tail(t)) \in DOMAIN Tail(t) /\ Len(Tail(t)) + 1 = Len(t)
    <3>. DEFINE m == Len(Tail(t))
                n == Len(t)
    <3>1. m \in Nat \ {0} /\ n \in Nat /\ m = n - 1 /\ DOMAIN Tail(t) = 1 .. n - 1
      BY <1>3, TailElements, EmptySeq
    <3>2. m \in 1 .. n - 1 /\ m + 1 = n
      <4>. HIDE DEF m, n
      <4>. QED BY <3>1
    <3>. QED BY <3>1, <3>2, Zenon
  <2>2. Tail(t)[Len(Tail(t))] = t[Len(Tail(t)) + 1]
    BY <2>1, TailElements
  <2>. QED BY <2>1, <2>2 DEF SendPlan
<1>. QED
  BY <1>1, <1>2, <1>3 DEF SendPlan

-----------------------------------------------------------------------------
(* The accesses of a call, one after the other *)

(* A read, or a poll of a bit that is 0, changes no register.              *)
LEMMA ReadTypes ==
  ASSUME TypeInv, BusRead
  PROVE  /\ TypeInv' /\ todo # <<>> /\ todo \in Seq(AccessType)
         /\ todo[1].kind \in {"read", "await"} /\ Target(todo[1]) = "none"
         /\ acc' = PRDATA(todo[1].addr)
         /\ todo' = Tail(todo) \/ (todo[1].kind = "await" /\ todo' = todo)
<1>1. /\ todo # <<>> /\ todo \in Seq(AccessType) /\ Head(todo) = todo[1]
      /\ todo[1].kind \in {"read", "await"}
  BY TailElements DEF BusRead, TypeInv
<1>2. acc' \in Values
  BY DEF BusRead, PRDATA, TypeInv, uo_out, uio_out, uio_oe, Values, Byte, CtrlBits, clk, rst_n, ena
<1>3. /\ acc' = PRDATA(todo[1].addr)
      /\ todo' = Tail(todo) \/ (todo[1].kind = "await" /\ todo' = todo)
  BY <1>1 DEF BusRead
<1>4. todo' \in Seq(AccessType) /\ Len(todo') <= 13
  BY <1>1, <1>3, TailElements DEF TypeInv
<1>5. Target(todo[1]) = "none"
  BY <1>1 DEF Target
<1>. QED
  BY <1>1, <1>2, <1>3, <1>4, <1>5 DEF TypeInv, BusRead, wrapper, history

LEMMA WriteTypes ==
  ASSUME TypeInv, BusWrite
  PROVE  /\ todo # <<>> /\ todo \in Seq(AccessType) /\ todo' = Tail(todo)
         /\ todo[1] \in AccessType /\ todo[1].kind \in {"write", "set", "clear"}
         /\ ui_in' = IF Target(todo[1]) = "ui_in" THEN Stored(todo[1]) ELSE ui_in
         /\ uio_in' = IF Target(todo[1]) = "uio_in" THEN Stored(todo[1]) ELSE uio_in
         /\ ctrl' = IF Target(todo[1]) = "ctrl" THEN Stored(todo[1]) \cap CtrlBits ELSE ctrl
         /\ edges' = IF clk \in ctrl' \ ctrl THEN Append(edges, ui_in') ELSE edges
         /\ UNCHANGED <<call, acc, asked, clkWas, spied>>
         /\ TypeInv'
<1>1. /\ todo # <<>> /\ todo \in Seq(AccessType) /\ Head(todo) = todo[1]
      /\ todo[1] \in AccessType /\ todo[1].kind \in {"write", "set", "clear"}
  BY TailElements DEF BusWrite, TypeInv
<1>2. Stored(todo[1]) \in Values
  BY <1>1 DEF Stored, AccessType, TypeInv, Values
<1>3. PWRITE(todo[1].addr, Stored(todo[1]))
  BY <1>1 DEF BusWrite
<1>4. /\ ui_in' = IF Target(todo[1]) = "ui_in" THEN Stored(todo[1]) ELSE ui_in
      /\ uio_in' = IF Target(todo[1]) = "uio_in" THEN Stored(todo[1]) ELSE uio_in
      /\ ctrl' = IF Target(todo[1]) = "ctrl" THEN Stored(todo[1]) \cap CtrlBits ELSE ctrl
  BY <1>1, <1>3, Stores
<1>5. ui_in' \in Values /\ uio_in' \in Values /\ ctrl' \in SUBSET CtrlBits
  BY <1>2, <1>4 DEF TypeInv
<1>6. todo' = Tail(todo) /\ todo' \in Seq(AccessType) /\ Len(todo') <= 13
  BY <1>1, TailElements DEF TypeInv, BusWrite
<1>7. /\ edges' = IF clk \in ctrl' \ ctrl THEN Append(edges, ui_in') ELSE edges
      /\ UNCHANGED <<call, acc, asked, clkWas, spied>>
  BY DEF BusWrite
<1>8. edges' \in Seq(Values)
  BY <1>5, <1>7, AppendProperties DEF TypeInv
<1>. QED
  BY <1>1, <1>4, <1>5, <1>6, <1>7, <1>8 DEF TypeInv
LEMMA NoRise ==
  ASSUME TypeInv, BusWrite, clk \in ctrl' \ ctrl
  PROVE  Raises(todo[1])
<1>1. Target(todo[1]) = "ctrl" /\ clk \in Stored(todo[1])
  BY WriteTypes
<1>. QED
  BY <1>1 DEF Raises, Stored

LEMMA EdgeStep ==
  ASSUME TypeInv, EdgeInv, BusRead \/ BusWrite
  PROVE  EdgeInv'
<1>1. CASE BusRead
  <2>1. CASE todo' = todo
    BY <1>1, <2>1 DEF EdgeInv, BusRead, history
  <2>2. CASE todo' = Tail(todo)
    BY <1>1, <2>2, ReadTypes, TailRise DEF EdgeInv, BusRead, history
  <2>. QED BY <1>1, <2>1, <2>2, ReadTypes
<1>2. CASE BusWrite
  <2>1. /\ todo # <<>> /\ todo \in Seq(AccessType) /\ todo' = Tail(todo)
        /\ edges' = IF clk \in ctrl' \ ctrl THEN Append(edges, ui_in') ELSE edges
        /\ edges \in Seq(Values) /\ ui_in' \in Values
    BY <1>2, WriteTypes DEF TypeInv
  <2>2. OneRise(todo')
    BY <2>1, TailRise DEF EdgeInv
  <2>3. CASE clk \in ctrl' \ ctrl
    <3>1. Raises(todo[1]) /\ 1 \in DOMAIN todo
      BY <1>2, <2>1, <2>3, NoRise, TailElements
    <3>2. edges = <<>> /\ \A k \in DOMAIN todo' : ~Raises(todo'[k])
      BY <2>1, <3>1, TailRise DEF EdgeInv
    <3>3. Len(edges') = 1
      <4>1. edges' = Append(<<>>, ui_in')
        BY <2>1, <2>3, <3>2
      <4>2. Append(<<>>, ui_in') = <<ui_in'>>
        OBVIOUS
      <4>. QED BY <4>1, <4>2
    <3>. QED BY <2>2, <3>2, <3>3 DEF EdgeInv
  <2>4. CASE clk \notin ctrl' \ ctrl
    <3>1. edges' = edges
      BY <2>1, <2>4
    <3>. QED BY <2>1, <2>2, <3>1, TailRise DEF EdgeInv
  <2>. QED BY <2>3, <2>4
<1>. QED
  BY <1>1, <1>2

(* The registers that no access to come changes are as they were asked for.*)
LEMMA OwnRead ==
  ASSUME TypeInv, OwnInv, BusRead
  PROVE  OwnInv'
<1>0. /\ todo # <<>> /\ todo \in Seq(AccessType)
      /\ todo[1].kind \in {"read", "await"} /\ Target(todo[1]) = "none"
      /\ acc' = PRDATA(todo[1].addr)
      /\ todo' = Tail(todo) \/ (todo[1].kind = "await" /\ todo' = todo)
      /\ UNCHANGED <<ui_in, uio_in, ctrl, asked>>
  BY ReadTypes DEF BusRead, wrapper, history
<1>1. CASE todo' = todo
  BY <1>0, <1>1 DEF OwnInv
<1>2. CASE todo' = Tail(todo)
  <2>1. Plan(todo', asked')
    BY <1>0, <1>2, TailPlan DEF OwnInv
  <2>2. /\ Spares(todo', "ui_in") => ui_in' = asked'.ui
        /\ Spares(todo', "uio_in") => uio_in' = asked'.uio
        /\ Spares(todo', "ctrl") => ctrl' = asked'.ctrl
        /\ Toggles(todo') => ctrl' \ {clk} = asked'.ctrl \ {clk}
    BY <1>0, <1>2, TailSpares, TailToggles DEF OwnInv
  <2>3. ASSUME todo' # <<>>, Target(todo'[1]) = "ctrl", todo'[1].kind # "write"
        PROVE  acc' = ctrl'
    <3>1. 1 \in DOMAIN todo' /\ todo'[1] = todo[2] /\ 2 \in DOMAIN todo
      BY <1>0, <1>2, <2>3, Second
    <3>2. todo[1] = Read(TT.CTRL)
      BY <2>3, <3>1 DEF OwnInv, Plan
    <3>3. acc' = PRDATA(TT.CTRL)
      BY <1>0, <3>2 DEF Read
    <3>. QED BY <1>0, <3>3, Reads
  <2>. QED BY <2>1, <2>2, <2>3 DEF OwnInv
<1>. QED
  BY <1>0, <1>1, <1>2

LEMMA OwnWrite ==
  ASSUME TypeInv, OwnInv, BusWrite
  PROVE  OwnInv'
<1>. DEFINE a == todo[1]
<1>0. /\ todo # <<>> /\ todo \in Seq(AccessType) /\ todo' = Tail(todo)
      /\ a.kind \in {"write", "set", "clear"} /\ 1 \in DOMAIN todo /\ a \in AccessType
      /\ ui_in' = IF Target(a) = "ui_in" THEN Stored(a) ELSE ui_in
      /\ uio_in' = IF Target(a) = "uio_in" THEN Stored(a) ELSE uio_in
      /\ ctrl' = IF Target(a) = "ctrl" THEN Stored(a) \cap CtrlBits ELSE ctrl
      /\ UNCHANGED <<acc, asked>>
  BY WriteTypes, TailElements
<1>1. Plan(todo', asked')
  BY <1>0, TailPlan DEF OwnInv
<1>2. Spares(todo', "ui_in") => ui_in' = asked'.ui
  <2>1. CASE Target(a) = "ui_in"
    <3>1. a.kind = "write" /\ a.data = asked.ui
      BY <1>0, <2>1 DEF OwnInv, Plan
    <3>. QED BY <1>0, <2>1, <3>1 DEF Stored
  <2>2. CASE Target(a) # "ui_in"
    BY <1>0, <2>2, TailSpares DEF OwnInv
  <2>. QED BY <2>1, <2>2
<1>3. Spares(todo', "uio_in") => uio_in' = asked'.uio
  <2>1. CASE Target(a) = "uio_in"
    <3>1. a.kind = "write" /\ a.data = asked.uio
      BY <1>0, <2>1 DEF OwnInv, Plan
    <3>. QED BY <1>0, <2>1, <3>1 DEF Stored
  <2>2. CASE Target(a) # "uio_in"
    BY <1>0, <2>2, TailSpares DEF OwnInv
  <2>. QED BY <2>1, <2>2
<1>4. /\ Spares(todo', "ctrl") => ctrl' = asked'.ctrl
      /\ Toggles(todo') => ctrl' \ {clk} = asked'.ctrl \ {clk}
  <2>1. CASE Target(a) # "ctrl"
    BY <1>0, <2>1, TailSpares, TailToggles DEF OwnInv
  <2>2. CASE Target(a) = "ctrl" /\ a.kind = "write"
    <3>1. a.data \cap CtrlBits = asked.ctrl
      BY <1>0, <2>2 DEF OwnInv, Plan
    <3>2. ctrl' = asked.ctrl
      BY <1>0, <2>2, <3>1 DEF Stored
    <3>. QED BY <1>0, <3>2
  <2>3. CASE Target(a) = "ctrl" /\ a.kind # "write"
    <3>1. /\ a.bits = {clk}
          /\ (\A j \in DOMAIN todo : j > 1 => Target(todo[j]) # "ctrl")
               => (a.kind = "set" <=> clk \in asked.ctrl)
      BY <1>0, <2>3 DEF OwnInv, Plan
    <3>2. acc = ctrl /\ ctrl \in SUBSET CtrlBits /\ asked.ctrl \in SUBSET CtrlBits /\ clk \in CtrlBits
      BY <1>0, <2>3 DEF OwnInv, TypeInv, AskedType, CtrlBits
    <3>3. ctrl' = IF a.kind = "set" THEN ctrl \cup {clk} ELSE ctrl \ {clk}
      <4>1. CASE a.kind = "set"
        <5>1. Stored(a) = ctrl \cup {clk}
          BY <3>1, <3>2, <4>1 DEF Stored
        <5>. QED BY <1>0, <2>3, <3>2, <4>1, <5>1
      <4>2. CASE a.kind = "clear"
        <5>1. Stored(a) = ctrl \ {clk}
          BY <3>1, <3>2, <4>2 DEF Stored
        <5>. QED BY <1>0, <2>3, <3>2, <4>2, <5>1
      <4>. QED BY <1>0, <2>3, <4>1, <4>2
    <3>4. ASSUME Toggles(todo')
          PROVE  ctrl' \ {clk} = asked'.ctrl \ {clk}
      <4>1. ctrl \ {clk} = asked.ctrl \ {clk}
        BY <1>0, <2>3, <3>4, TailToggles DEF OwnInv
      <4>2. ctrl' \ {clk} = ctrl \ {clk}
        BY <3>3
      <4>. QED BY <1>0, <4>1, <4>2
    <3>5. ASSUME Spares(todo', "ctrl")
          PROVE  ctrl' = asked'.ctrl
      <4>1. Toggles(todo')
        BY <3>5 DEF Spares, Toggles
      <4>2. \A j \in DOMAIN todo : j > 1 => Target(todo[j]) # "ctrl"
        <5>. SUFFICES ASSUME NEW j \in DOMAIN todo, j > 1 PROVE Target(todo[j]) # "ctrl"
          OBVIOUS
        <5>1. j # 1
          BY <1>0, TailElements
        <5>2. j - 1 \in DOMAIN todo' /\ todo'[j - 1] = todo[j]
          BY <1>0, <5>1, TailElements
        <5>3. Target(todo'[j - 1]) # "ctrl"
          BY <3>5, <5>2 DEF Spares
        <5>. QED BY <5>2, <5>3
      <4>3. a.kind = "set" <=> clk \in asked.ctrl
        BY <3>1, <4>2
      <4>4. ctrl' \ {clk} = asked'.ctrl \ {clk}
        BY <3>4, <4>1
      <4>. QED BY <1>0, <3>2, <3>3, <4>3, <4>4
    <3>. QED BY <3>4, <3>5
  <2>. QED BY <2>1, <2>2, <2>3
<1>5. ASSUME todo' # <<>>, Target(todo'[1]) = "ctrl", todo'[1].kind # "write"
      PROVE  acc' = ctrl'
  <2>1. 1 \in DOMAIN todo' /\ todo'[1] = todo[2] /\ 2 \in DOMAIN todo
    BY <1>0, <1>5, Second
  <2>2. a = Read(TT.CTRL)
    BY <1>5, <2>1 DEF OwnInv, Plan
  <2>. QED BY <1>0, <2>2, Kinds
<1>. QED
  BY <1>1, <1>2, <1>3, <1>4, <1>5 DEF OwnInv
LEMMA OneLeft ==
  ASSUME NEW t \in Seq(AccessType), t # <<>>, Tail(t) = <<>>
  PROVE  Len(t) = 1
<1>. DEFINE n == Len(t)
<1>1. n \in Nat /\ Len(Tail(t)) = n - 1 /\ Len(Tail(t)) = 0
  BY TailElements, EmptySeq
<1>2. n - 1 = 0
  BY <1>1
<1>3. n = 1
  <2>. HIDE DEF n
  <2>. QED BY <1>1, <1>2
<1>. QED
  BY <1>3

LEMMA ToRiseTail ==
  ASSUME todo # <<>>, todo \in Seq(AccessType), todo' = Tail(todo), todo[1].kind # "set"
  PROVE  ToRise' <=> ToRise
<1>1. ASSUME NEW k \in DOMAIN todo, todo[k].kind = "set"
      PROVE  ToRise'
  <2>1. k # 1
    BY <1>1
  <2>2. k - 1 \in DOMAIN Tail(todo) /\ Tail(todo)[k - 1] = todo[k]
    BY <2>1, TailElements
  <2>. QED BY <1>1, <2>2 DEF ToRise
<1>2. ASSUME NEW k \in DOMAIN Tail(todo), Tail(todo)[k].kind = "set"
      PROVE  ToRise
  <2>1. k + 1 \in DOMAIN todo /\ Tail(todo)[k] = todo[k + 1]
    BY TailElements
  <2>. QED BY <1>2, <2>1 DEF ToRise
<1>. QED
  BY <1>1, <1>2 DEF ToRise

(* The one edge of a send. *)
LEMMA SendRead ==
  ASSUME TypeInv, OwnInv, call.op = "send", SendInv, BusRead
  PROVE  SendInv'
<1>0. /\ todo # <<>> /\ todo \in Seq(AccessType)
      /\ todo[1].kind \in {"read", "await"} /\ Target(todo[1]) = "none"
      /\ acc' = PRDATA(todo[1].addr)
      /\ todo' = Tail(todo) \/ (todo[1].kind = "await" /\ todo' = todo)
      /\ UNCHANGED <<ui_in, uio_in, ctrl, asked, edges, clkWas, call>>
  BY ReadTypes DEF BusRead, wrapper, history
<1>1. CASE todo' = todo
  BY <1>0, <1>1 DEF SendInv, ToRise
<1>2. CASE todo' = Tail(todo)
  <2>1. SendPlan(todo')
    BY <1>0, <1>2, TailSend DEF SendInv
  <2>2. ToRise' <=> ToRise
    BY <1>0, <1>2, ToRiseTail
  <2>3. ASSUME todo' = <<>>
        PROVE  acc' = call'.ui
    <3>1. Len(todo) = 1
      BY <1>0, <1>2, <2>3, OneLeft
    <3>2. todo[1] = Read(TT.DATA)
      BY <1>0, <3>1 DEF SendInv, SendPlan
    <3>3. acc' = ui_in
      BY <1>0, <3>2, Reads DEF Read
    <3>4. Spares(todo', "ui_in")
      BY <2>3 DEF Spares
    <3>5. ui_in = asked.ui
      BY <1>0, <1>2, <3>4, TailSpares DEF OwnInv
    <3>. QED BY <1>0, <3>3, <3>5 DEF SendInv
  <2>. QED BY <1>0, <2>1, <2>2, <2>3 DEF SendInv
<1>. QED
  BY <1>0, <1>1, <1>2

LEMMA SendWrite ==
  ASSUME TypeInv, OwnInv, call.op = "send", SendInv, BusWrite
  PROVE  SendInv'
<1>. DEFINE a == todo[1]
<1>0. /\ todo # <<>> /\ todo \in Seq(AccessType) /\ todo' = Tail(todo)
      /\ a.kind \in {"write", "set", "clear"} /\ 1 \in DOMAIN todo
      /\ ui_in' = IF Target(a) = "ui_in" THEN Stored(a) ELSE ui_in
      /\ ctrl' = IF Target(a) = "ctrl" THEN Stored(a) \cap CtrlBits ELSE ctrl
      /\ edges' = IF clk \in ctrl' \ ctrl THEN Append(edges, ui_in') ELSE edges
      /\ UNCHANGED <<acc, asked, clkWas, call>>
  BY WriteTypes, TailElements
<1>1. SendPlan(todo') /\ asked'.ui = call'.ui
  BY <1>0, TailSend DEF SendInv
<1>2. todo' # <<>>
  <2>. SUFFICES ASSUME todo' = <<>> PROVE FALSE
    OBVIOUS
  <2>1. Len(todo) = 1
    BY <1>0, OneLeft
  <2>2. a = Read(TT.DATA)
    BY <1>0, <2>1 DEF SendInv, SendPlan
  <2>. QED BY <1>0, <2>2, Kinds
<1>3. CASE a.kind = "set"
  <2>1. /\ Target(a) = "ctrl" /\ ToRise
        /\ \A j \in DOMAIN todo : j > 1 => Target(todo[j]) # "ui_in" /\ todo[j].kind # "set"
    BY <1>0, <1>3 DEF SendInv, SendPlan, ToRise
  <2>2. \A j \in DOMAIN todo' : Target(todo'[j]) # "ui_in" /\ todo'[j].kind # "set"
    <3>. SUFFICES ASSUME NEW j \in DOMAIN todo'
                  PROVE  Target(todo'[j]) # "ui_in" /\ todo'[j].kind # "set"
      OBVIOUS
    <3>1. j + 1 \in DOMAIN todo /\ todo'[j] = todo[j + 1] /\ j + 1 > 1
      BY <1>0, TailElements
    <3>. QED BY <2>1, <3>1
  <2>3. ui_in' = call.ui
    <3>1. Spares(todo', "ui_in") /\ Target(a) # "ui_in"
      BY <2>1, <2>2 DEF Spares
    <3>2. ui_in = asked.ui
      BY <1>0, <3>1, TailSpares DEF OwnInv
    <3>. QED BY <1>0, <3>1, <3>2 DEF SendInv
  <2>4. a.bits = {clk}
    BY <1>0, <1>3, <2>1 DEF OwnInv, Plan
  <2>5. clk \in ctrl'
    BY <1>0, <1>3, <2>1, <2>4 DEF Stored, CtrlBits
  <2>6. edges = <<>> /\ (clkWas <=> clk \in ctrl)
    BY <2>1 DEF SendInv
  <2>7. edges' = IF clkWas THEN <<>> ELSE <<call.ui>>
    <3>1. CASE clk \in ctrl
      BY <1>0, <2>6, <3>1
    <3>2. CASE clk \notin ctrl
      <4>1. edges' = Append(<<>>, call.ui)
        BY <1>0, <2>3, <2>5, <2>6, <3>2
      <4>2. Append(<<>>, call.ui) = <<call.ui>>
        OBVIOUS
      <4>. QED BY <2>6, <3>2, <4>1, <4>2
    <3>. QED BY <3>1, <3>2
  <2>8. ~ToRise'
    BY <2>2 DEF ToRise
  <2>. QED BY <1>0, <1>1, <1>2, <2>7, <2>8 DEF SendInv
<1>4. CASE a.kind # "set"
  <2>1. ToRise' <=> ToRise
    BY <1>0, <1>4, ToRiseTail
  <2>2. edges' = edges
    <3>1. CASE Target(a) = "ctrl"
      <4>1. a.kind = "clear" /\ a.bits = {clk}
        BY <1>0, <1>4, <3>1 DEF SendInv, SendPlan, OwnInv, Plan
      <4>2. clk \notin ctrl'
        BY <1>0, <3>1, <4>1 DEF Stored
      <4>. QED BY <1>0, <4>2
    <3>2. CASE Target(a) # "ctrl"
      BY <1>0, <3>2
    <3>. QED BY <3>1, <3>2
  <2>3. ToRise => ctrl' = ctrl
    <3>. SUFFICES ASSUME NEW k \in DOMAIN todo, todo[k].kind = "set" PROVE Target(a) # "ctrl"
      BY <1>0 DEF ToRise
    <3>1. 1 < k
      BY <1>0, <1>4, TailElements
    <3>. QED BY <1>0, <3>1 DEF SendInv, SendPlan
  <2>4. CASE ToRise
    BY <1>0, <1>1, <1>2, <2>1, <2>2, <2>3, <2>4 DEF SendInv
  <2>5. CASE ~ToRise
    BY <1>0, <1>1, <1>2, <2>1, <2>2, <2>5 DEF SendInv
  <2>. QED BY <2>4, <2>5
<1>. QED
  BY <1>3, <1>4
-----------------------------------------------------------------------------
(* The lists of accesses *)

LEMMA ConcatIs ==
  ASSUME NEW S, NEW m \in Nat, NEW n \in Nat,
         NEW s \in Seq(S), NEW t \in Seq(S), NEW u \in Seq(S),
         Len(s) = m, Len(t) = n, Len(u) = m + n,
         \A i \in 1 .. m : u[i] = s[i],
         \A i \in 1 .. n : u[m + i] = t[i]
  PROVE  s \o t = u
<1>1. /\ s \o t \in Seq(S) /\ Len(s \o t) = Len(u)
      /\ \A i \in 1 .. m + n : (s \o t)[i] = IF i <= m THEN s[i] ELSE t[i - m]
  BY ConcatProperties
<1>2. ASSUME NEW i \in 1 .. m + n, ~(i <= m)
      PROVE  t[i - m] = u[i]
  <2>1. i - m \in 1 .. n /\ m + (i - m) = i
    BY <1>2
  <2>. QED BY <2>1
<1>3. \A i \in 1 .. Len(s \o t) : (s \o t)[i] = u[i]
  BY <1>1, <1>2
<1>. QED
  BY <1>1, <1>3, SeqEqual

LEMMA Concat12 ==
  ASSUME NEW S, NEW a \in S, NEW b \in S, NEW c \in S
  PROVE  <<a>> \o <<b, c>> = <<a, b, c>>
<1>. DEFINE m == 1
            n == 2
            s == <<a>>
            t == <<b, c>>
            u == <<a, b, c>>
<1>1. /\ m \in Nat /\ n \in Nat /\ s \in Seq(S) /\ t \in Seq(S) /\ u \in Seq(S)
      /\ Len(s) = m /\ Len(t) = n /\ Len(u) = m + n
      /\ \A i \in 1 .. m : u[i] = s[i]
      /\ \A i \in 1 .. n : u[m + i] = t[i]
  OBVIOUS
<1>2. s \o t = u
  <2>. HIDE DEF m, n, s, t, u
  <2>. QED BY <1>1, ConcatIs
<1>. QED BY <1>2

LEMMA Concat32 ==
  ASSUME NEW S, NEW a \in S, NEW b \in S, NEW c \in S, NEW d \in S, NEW e \in S
  PROVE  <<a, b, c>> \o <<d, e>> = <<a, b, c, d, e>>
<1>. DEFINE m == 3
            n == 2
            s == <<a, b, c>>
            t == <<d, e>>
            u == <<a, b, c, d, e>>
<1>1. /\ m \in Nat /\ n \in Nat /\ s \in Seq(S) /\ t \in Seq(S) /\ u \in Seq(S)
      /\ Len(s) = m /\ Len(t) = n /\ Len(u) = m + n
      /\ \A i \in 1 .. m : u[i] = s[i]
      /\ \A i \in 1 .. n : u[m + i] = t[i]
  OBVIOUS
<1>2. s \o t = u
  <2>. HIDE DEF m, n, s, t, u
  <2>. QED BY <1>1, ConcatIs
<1>. QED BY <1>2

LEMMA Concat51 ==
  ASSUME NEW S, NEW a \in S, NEW b \in S, NEW c \in S, NEW d \in S, NEW e \in S, NEW f \in S
  PROVE  <<a, b, c, d, e>> \o <<f>> = <<a, b, c, d, e, f>>
<1>. DEFINE m == 5
            n == 1
            s == <<a, b, c, d, e>>
            t == <<f>>
            u == <<a, b, c, d, e, f>>
<1>1. /\ m \in Nat /\ n \in Nat /\ s \in Seq(S) /\ t \in Seq(S) /\ u \in Seq(S)
      /\ Len(s) = m /\ Len(t) = n /\ Len(u) = m + n
      /\ \A i \in 1 .. m : u[i] = s[i]
      /\ \A i \in 1 .. n : u[m + i] = t[i]
  OBVIOUS
<1>2. s \o t = u
  <2>. HIDE DEF m, n, s, t, u
  <2>. QED BY <1>1, ConcatIs
<1>. QED BY <1>2

LEMMA Concat11 ==
  ASSUME NEW S, NEW a \in S, NEW b \in S
  PROVE  <<a>> \o <<b>> = <<a, b>>
<1>. DEFINE m == 1
            n == 1
            s == <<a>>
            t == <<b>>
            u == <<a, b>>
<1>1. /\ m \in Nat /\ n \in Nat /\ s \in Seq(S) /\ t \in Seq(S) /\ u \in Seq(S)
      /\ Len(s) = m /\ Len(t) = n /\ Len(u) = m + n
      /\ \A i \in 1 .. m : u[i] = s[i]
      /\ \A i \in 1 .. n : u[m + i] = t[i]
  OBVIOUS
<1>2. s \o t = u
  <2>. HIDE DEF m, n, s, t, u
  <2>. QED BY <1>1, ConcatIs
<1>. QED BY <1>2

LEMMA Concat22 ==
  ASSUME NEW S, NEW a \in S, NEW b \in S, NEW c \in S, NEW d \in S
  PROVE  <<a, b>> \o <<c, d>> = <<a, b, c, d>>
<1>. DEFINE m == 2
            n == 2
            s == <<a, b>>
            t == <<c, d>>
            u == <<a, b, c, d>>
<1>1. /\ m \in Nat /\ n \in Nat /\ s \in Seq(S) /\ t \in Seq(S) /\ u \in Seq(S)
      /\ Len(s) = m /\ Len(t) = n /\ Len(u) = m + n
      /\ \A i \in 1 .. m : u[i] = s[i]
      /\ \A i \in 1 .. n : u[m + i] = t[i]
  OBVIOUS
<1>2. s \o t = u
  <2>. HIDE DEF m, n, s, t, u
  <2>. QED BY <1>1, ConcatIs
<1>. QED BY <1>2

LEMMA Concat42 ==
  ASSUME NEW S, NEW a \in S, NEW b \in S, NEW c \in S, NEW d \in S, NEW e \in S, NEW f \in S
  PROVE  <<a, b, c, d>> \o <<e, f>> = <<a, b, c, d, e, f>>
<1>. DEFINE m == 4
            n == 2
            s == <<a, b, c, d>>
            t == <<e, f>>
            u == <<a, b, c, d, e, f>>
<1>1. /\ m \in Nat /\ n \in Nat /\ s \in Seq(S) /\ t \in Seq(S) /\ u \in Seq(S)
      /\ Len(s) = m /\ Len(t) = n /\ Len(u) = m + n
      /\ \A i \in 1 .. m : u[i] = s[i]
      /\ \A i \in 1 .. n : u[m + i] = t[i]
  OBVIOUS
<1>2. s \o t = u
  <2>. HIDE DEF m, n, s, t, u
  <2>. QED BY <1>1, ConcatIs
<1>. QED BY <1>2

LEMMA Concat61 ==
  ASSUME NEW S, NEW a \in S, NEW b \in S, NEW c \in S, NEW d \in S, NEW e \in S, NEW f \in S, NEW g \in S
  PROVE  <<a, b, c, d, e, f>> \o <<g>> = <<a, b, c, d, e, f, g>>
<1>. DEFINE m == 6
            n == 1
            s == <<a, b, c, d, e, f>>
            t == <<g>>
            u == <<a, b, c, d, e, f, g>>
<1>1. /\ m \in Nat /\ n \in Nat /\ s \in Seq(S) /\ t \in Seq(S) /\ u \in Seq(S)
      /\ Len(s) = m /\ Len(t) = n /\ Len(u) = m + n
      /\ \A i \in 1 .. m : u[i] = s[i]
      /\ \A i \in 1 .. n : u[m + i] = t[i]
  OBVIOUS
<1>2. s \o t = u
  <2>. HIDE DEF m, n, s, t, u
  <2>. QED BY <1>1, ConcatIs
<1>. QED BY <1>2

(* What the accesses t of a call that makes b of the registers a must be.  *)
Begins(t) == t \in Seq(AccessType) /\ Len(t) <= 13 /\ OneRise(t)

Owns(t, a, b) ==
  /\ Plan(t, b)
  /\ Spares(t, "ui_in") => b.ui = a.ui
  /\ Spares(t, "uio_in") => b.uio = a.uio
  /\ Spares(t, "ctrl") => b.ctrl = a.ctrl
  /\ Toggles(t) => b.ctrl \ {clk} = a.ctrl \ {clk}
  /\ t # <<>> /\ Target(t[1]) = "ctrl" => t[1].kind = "write"

LEMMA NoTarget ==
  ASSUME NEW t \in Seq(AccessType), Len(t) <= 13, \A k \in DOMAIN t : Target(t[k]) = "none",
         NEW a
  PROVE  Begins(t) /\ Owns(t, a, a)
<1>1. OneRise(t)
  BY DEF OneRise, Raises
<1>2. t # <<>> => Target(t[1]) = "none"
  <2>1. t # <<>> => 1 \in DOMAIN t
    BY TailElements
  <2>. QED BY <2>1
<1>. QED
  BY <1>1, <1>2 DEF Begins, Owns, Plan

LEMMA One ==
  ASSUME NEW e \in AccessType
  PROVE  /\ <<e>> \in Seq(AccessType) /\ Len(<<e>>) = 1 /\ DOMAIN <<e>> = {1} /\ <<e>>[1] = e
         /\ Begins(<<e>>)
<1>1. <<e>> \in Seq(AccessType) /\ Len(<<e>>) = 1 /\ DOMAIN <<e>> = {1} /\ <<e>>[1] = e
  OBVIOUS
<1>. QED
  BY <1>1 DEF Begins, OneRise

LEMMA OneIdle ==
  ASSUME NEW e \in AccessType, Target(e) = "none", NEW a
  PROVE  Begins(<<e>>) /\ Owns(<<e>>, a, a)
<1>1. <<e>> \in Seq(AccessType) /\ Len(<<e>>) <= 13 /\ \A k \in DOMAIN <<e>> : <<e>>[k] = e
  BY One
<1>. QED
  BY <1>1, NoTarget, Zenon

(* A call that writes one register. *)
LEMMA OneWrite ==
  ASSUME NEW e \in AccessType, e.kind = "write", NEW a \in AskedType, NEW b \in AskedType,
         \/ Target(e) = "ui_in" /\ b = [a EXCEPT !.ui = e.data]
         \/ Target(e) = "uio_in" /\ b = [a EXCEPT !.uio = e.data]
         \/ Target(e) = "ctrl" /\ b = [a EXCEPT !.ctrl = e.data \cap CtrlBits]
  PROVE  Begins(<<e>>) /\ Owns(<<e>>, a, b)
<1>. DEFINE t == <<e>>
<1>1. Begins(t) /\ DOMAIN t = {1} /\ t[1] = e
  BY One
<1>. HIDE DEF t
<1>2. (Spares(t, "ui_in") <=> Target(e) # "ui_in") /\ (Spares(t, "uio_in") <=> Target(e) # "uio_in")
      /\ (Spares(t, "ctrl") <=> Target(e) # "ctrl") /\ (Toggles(t) <=> Target(e) # "ctrl")
  BY <1>1 DEF Spares, Toggles
<1>3. /\ Target(e) = "ui_in" => b.ui = e.data /\ b.uio = a.uio /\ b.ctrl = a.ctrl
      /\ Target(e) = "uio_in" => b.uio = e.data /\ b.ui = a.ui /\ b.ctrl = a.ctrl
      /\ Target(e) = "ctrl" => b.ctrl = e.data \cap CtrlBits /\ b.ui = a.ui /\ b.uio = a.uio
      /\ Target(e) \in {"ui_in", "uio_in", "ctrl"}
  BY DEF AskedType
<1>4. Owns(t, a, b)
  BY <1>1, <1>2, <1>3 DEF Owns, Plan
<1>. QED
  BY <1>1, <1>4 DEF t

LEMMA Two ==
  ASSUME NEW e \in AccessType, NEW f \in AccessType
  PROVE  /\ <<e, f>> \in Seq(AccessType) /\ Len(<<e, f>>) = 2 /\ DOMAIN <<e, f>> = {1, 2}
         /\ <<e, f>>[1] = e /\ <<e, f>>[2] = f
OBVIOUS

(* set_clock *)
LEMMA ClockPlan ==
  ASSUME NEW up \in BOOLEAN, NEW a \in AskedType, NEW b \in AskedType,
         b = [a EXCEPT !.ctrl = IF up THEN @ \cup {clk} ELSE @ \ {clk}]
  PROVE  Begins(SetClock(up)) /\ Owns(SetClock(up), a, b)
<1>. DEFINE e == Read(TT.CTRL)
            f == IF up THEN Set(TT.CTRL, {clk}) ELSE Clear(TT.CTRL, {clk})
            t == <<e, f>>
<1>1. /\ e \in AccessType /\ f \in AccessType /\ Target(e) = "none" /\ Target(f) = "ctrl"
      /\ f.kind = IF up THEN "set" ELSE "clear"
      /\ f.bits = {clk}
  <2>1. {clk} \in Values /\ TT.CTRL \in Nat
    BY Addresses DEF Values, Byte, clk
  <2>. QED BY <2>1, AccessTypes, Kinds, TargetOfRead, TargetOfModify
<1>2. /\ t \in Seq(AccessType) /\ Len(t) = 2 /\ DOMAIN t = {1, 2} /\ t[1] = e /\ t[2] = f
  BY <1>1, Two
<1>3. /\ b.ui = a.ui /\ b.uio = a.uio /\ b.ctrl = IF up THEN a.ctrl \cup {clk} ELSE a.ctrl \ {clk}
  BY DEF AskedType
<1>4. SetClock(up) = t
  BY DEF SetClock
<1>5. e = Read(TT.CTRL)
  OBVIOUS
<1>. HIDE DEF t, e, f
<1>6. Begins(t)
  BY <1>1, <1>2 DEF Begins, OneRise, Raises
<1>7. Plan(t, b)
  <2>. SUFFICES ASSUME NEW k \in {1, 2}
                PROVE  Target(t[k]) \notin {"ui_in", "uio_in"} /\
                       (Target(t[k]) = "ctrl" => /\ k = 2 /\ t[k] = f /\ t[k - 1] = e
                                                 /\ t[k].kind = "set" <=> clk \in b.ctrl)
    BY <1>1, <1>2, <1>5 DEF Plan
  <2>1. CASE k = 1
    BY <1>1, <1>2, <2>1
  <2>2. CASE k = 2
    <3>1. t[k] = f /\ t[k - 1] = e
      BY <1>2, <2>2
    <3>2. f.kind = "set" <=> clk \in b.ctrl
      BY <1>1, <1>3
    <3>. QED BY <1>1, <2>2, <3>1, <3>2
  <2>. QED BY <2>1, <2>2
<1>8. ~Spares(t, "ctrl") /\ b.ctrl \ {clk} = a.ctrl \ {clk}
  BY <1>1, <1>2, <1>3 DEF Spares
<1>9. Owns(t, a, b)
  BY <1>1, <1>2, <1>3, <1>7, <1>8 DEF Owns
<1>. QED
  BY <1>4, <1>6, <1>9
(* send, with and without uio. *)
SendOf(ui) ==
  <<Write(TT.DATA, ui), Read(TT.CTRL), Set(TT.CTRL, {clk}), Read(TT.CTRL), Clear(TT.CTRL, {clk}),
    Read(TT.DATA)>>

SendBoth(ui, uio) ==
  <<Write(TT.DATA, ui), Write(TT.UIO, uio), Read(TT.CTRL), Set(TT.CTRL, {clk}), Read(TT.CTRL),
    Clear(TT.CTRL, {clk}), Read(TT.DATA)>>

LEMMA SendTypes ==
  ASSUME NEW d \in Values
  PROVE  /\ Write(TT.DATA, d) \in AccessType /\ Write(TT.UIO, d) \in AccessType
         /\ Read(TT.CTRL) \in AccessType /\ Read(TT.DATA) \in AccessType
         /\ Set(TT.CTRL, {clk}) \in AccessType /\ Clear(TT.CTRL, {clk}) \in AccessType
<1>1. {clk} \in Values /\ TT.CTRL \in Nat /\ TT.DATA \in Nat /\ TT.UIO \in Nat
  BY Addresses DEF Values, Byte, clk
<1>. QED
  BY <1>1, AccessTypes

LEMMA SendList ==
  ASSUME NEW ui \in Values, NEW uio, uio = None \/ uio \in Values
  PROVE  Send(ui, uio) = IF uio = None THEN SendOf(ui) ELSE SendBoth(ui, uio)
<1>. DEFINE w == Write(TT.DATA, ui)
            v == Write(TT.UIO, uio)
            rc == Read(TT.CTRL)
            sc == Set(TT.CTRL, {clk})
            cc == Clear(TT.CTRL, {clk})
            rd == Read(TT.DATA)
<1>1. /\ w \in AccessType /\ rc \in AccessType /\ sc \in AccessType /\ cc \in AccessType
      /\ rd \in AccessType
      /\ uio # None => v \in AccessType
  BY SendTypes
<1>2. SetClock(TRUE) = <<rc, sc>> /\ SetClock(FALSE) = <<rc, cc>>
  BY DEF SetClock
<1>3. CASE uio = None
  <2>1. Send(ui, uio) = <<w>> \o <<>> \o <<rc, sc>> \o <<rc, cc>> \o <<rd>>
    BY <1>2, <1>3 DEF Send
  <2>. HIDE DEF w, v, rc, sc, cc, rd
  <2>2. <<w>> \o <<>> = <<w>>
    BY <1>1, One, ConcatEmptySeq
  <2>3. <<w>> \o <<rc, sc>> = <<w, rc, sc>>
    BY <1>1, Concat12
  <2>4. <<w, rc, sc>> \o <<rc, cc>> = <<w, rc, sc, rc, cc>>
    BY <1>1, Concat32
  <2>5. <<w, rc, sc, rc, cc>> \o <<rd>> = <<w, rc, sc, rc, cc, rd>>
    BY <1>1, Concat51
  <2>6. Send(ui, uio) = <<w, rc, sc, rc, cc, rd>>
    BY <2>1, <2>2, <2>3, <2>4, <2>5, Zenon
  <2>. QED BY <1>3, <2>6 DEF SendOf, w, rc, sc, cc, rd
<1>4. CASE uio # None
  <2>1. Send(ui, uio) = <<w>> \o <<v>> \o <<rc, sc>> \o <<rc, cc>> \o <<rd>>
    BY <1>2, <1>4 DEF Send
  <2>. HIDE DEF w, v, rc, sc, cc, rd
  <2>2. <<w>> \o <<v>> = <<w, v>>
    BY <1>1, <1>4, Concat11
  <2>3. <<w, v>> \o <<rc, sc>> = <<w, v, rc, sc>>
    BY <1>1, <1>4, Concat22
  <2>4. <<w, v, rc, sc>> \o <<rc, cc>> = <<w, v, rc, sc, rc, cc>>
    BY <1>1, <1>4, Concat42
  <2>5. <<w, v, rc, sc, rc, cc>> \o <<rd>> = <<w, v, rc, sc, rc, cc, rd>>
    BY <1>1, <1>4, Concat61
  <2>6. Send(ui, uio) = <<w, v, rc, sc, rc, cc, rd>>
    BY <2>1, <2>2, <2>3, <2>4, <2>5, Zenon
  <2>. QED BY <1>4, <2>6 DEF SendBoth, w, v, rc, sc, cc, rd
<1>. QED
  BY <1>3, <1>4

(* Either list, with n inputs. *)
LEMMA SendPlans ==
  ASSUME NEW n \in {1, 2}, NEW ui \in Values, NEW uio, n = 2 => uio \in Values,
         NEW t, t = IF n = 1 THEN SendOf(ui) ELSE SendBoth(ui, uio),
         NEW a \in AskedType, NEW b \in AskedType,
         b.ui = ui, b.uio = IF n = 1 THEN a.uio ELSE uio, b.ctrl = a.ctrl \ {clk}
  PROVE  /\ Begins(t) /\ Owns(t, a, b)
         /\ SendPlan(t) /\ t # <<>> /\ \E k \in DOMAIN t : t[k].kind = "set"
<1>. DEFINE w == Write(TT.DATA, ui)
            v == Write(TT.UIO, uio)
            rc == Read(TT.CTRL)
            sc == Set(TT.CTRL, {clk})
            cc == Clear(TT.CTRL, {clk})
            rd == Read(TT.DATA)
<1>1. /\ w \in AccessType /\ rc \in AccessType /\ sc \in AccessType /\ cc \in AccessType
      /\ rd \in AccessType
      /\ n = 2 => v \in AccessType
  BY SendTypes
<1>2. /\ Target(w) = "ui_in" /\ w.kind = "write" /\ w.data = ui
      /\ Target(v) = "uio_in" /\ v.kind = "write" /\ v.data = uio
      /\ Target(rc) = "none" /\ rc.kind = "read" /\ Target(rd) = "none" /\ rd.kind = "read"
      /\ Target(sc) = "ctrl" /\ sc.kind = "set" /\ sc.bits = {clk}
      /\ Target(cc) = "ctrl" /\ cc.kind = "clear" /\ cc.bits = {clk}
  BY TargetOfRead, TargetOfWrite, TargetOfModify, Kinds
<1>3. /\ rc = Read(TT.CTRL) /\ rd = Read(TT.DATA)
      /\ n = 1 => t = <<w, rc, sc, rc, cc, rd>>
      /\ n = 2 => t = <<w, v, rc, sc, rc, cc, rd>>
  BY DEF SendOf, SendBoth
<1>. HIDE DEF w, v, rc, sc, cc, rd
<1>4. /\ t \in Seq(AccessType) /\ Len(t) = n + 5 /\ DOMAIN t = 1 .. n + 5
      /\ t[1] = w /\ (n = 2 => t[2] = v)
      /\ t[n + 1] = rc /\ t[n + 2] = sc /\ t[n + 3] = rc /\ t[n + 4] = cc /\ t[n + 5] = rd
  <2>1. CASE n = 1
    <3>1. /\ t \in Seq(AccessType) /\ Len(t) = 6 /\ DOMAIN t = 1 .. 6
          /\ t[1] = w /\ t[2] = rc /\ t[3] = sc /\ t[4] = rc /\ t[5] = cc /\ t[6] = rd
      <4>. DEFINE x == <<w, rc, sc, rc, cc, rd>>
      <4>1. /\ x \in Seq(AccessType) /\ Len(x) = 6 /\ DOMAIN x = 1 .. 6
            /\ x[1] = w /\ x[2] = rc /\ x[3] = sc /\ x[4] = rc /\ x[5] = cc /\ x[6] = rd
        BY <1>1
      <4>2. t = x
        BY <1>3, <2>1
      <4>. HIDE DEF x
      <4>. QED BY <4>1, <4>2
    <3>. QED BY <2>1, <3>1
  <2>2. CASE n = 2
    <3>1. /\ t \in Seq(AccessType) /\ Len(t) = 7 /\ DOMAIN t = 1 .. 7
          /\ t[1] = w /\ t[2] = v /\ t[3] = rc /\ t[4] = sc /\ t[5] = rc /\ t[6] = cc /\ t[7] = rd
      <4>. DEFINE x == <<w, v, rc, sc, rc, cc, rd>>
      <4>1. /\ x \in Seq(AccessType) /\ Len(x) = 7 /\ DOMAIN x = 1 .. 7
            /\ x[1] = w /\ x[2] = v /\ x[3] = rc /\ x[4] = sc /\ x[5] = rc /\ x[6] = cc /\ x[7] = rd
        BY <1>1, <2>2
      <4>2. t = x
        BY <1>3, <2>2
      <4>. HIDE DEF x
      <4>. QED BY <4>1, <4>2
    <3>. QED BY <2>2, <3>1
  <2>. QED BY <2>1, <2>2
<1>5. \A k \in 1 .. n + 5 : /\ Target(t[k]) = "ui_in" <=> k = 1
                            /\ Target(t[k]) = "uio_in" <=> n = 2 /\ k = 2
                            /\ Target(t[k]) = "ctrl" <=> k \in {n + 2, n + 4}
                            /\ t[k].kind = "set" <=> k = n + 2
                            /\ t[k].kind = "write" <=> k = 1 \/ (n = 2 /\ k = 2)
                            /\ t[k].kind \in {"read", "write", "set", "clear"}
  <2>1. CASE n = 1
    BY <1>2, <1>4, <2>1
  <2>2. CASE n = 2
    BY <1>2, <1>4, <2>2
  <2>. QED BY <2>1, <2>2
<1>6. t[n + 4].kind = "clear" /\ t[n + 2].bits = {clk} /\ t[n + 4].bits = {clk}
  BY <1>2, <1>4
<1>7. Begins(t)
  <2>1. \A k \in 1 .. n + 5 : Raises(t[k]) => k = n + 2
    BY <1>5, <1>6 DEF Raises
  <2>. QED BY <1>4, <2>1 DEF Begins, OneRise
<1>8. Plan(t, b)
  <2>1. t[1].data = b.ui /\ (n = 2 => t[2].data = b.uio) /\ clk \notin b.ctrl
    BY <1>2, <1>4
  <2>2. ASSUME NEW k \in 1 .. n + 5, Target(t[k]) = "ctrl"
        PROVE  /\ t[k].kind # "write" /\ t[k].bits = {clk} /\ t[k - 1] = Read(TT.CTRL)
               /\ (\A j \in 1 .. n + 5 : j > k => Target(t[j]) # "ctrl")
                    => (t[k].kind = "set" <=> clk \in b.ctrl)
    <3>1. CASE k = n + 2
      <4>1. n + 4 \in 1 .. n + 5 /\ n + 4 > k /\ Target(t[n + 4]) = "ctrl"
        BY <1>5, <3>1
      <4>2. t[k - 1] = Read(TT.CTRL)
        BY <1>3, <1>4, <3>1
      <4>. QED BY <1>5, <1>6, <3>1, <4>1, <4>2
    <3>2. CASE k = n + 4
      <4>1. t[k - 1] = Read(TT.CTRL)
        BY <1>3, <1>4, <3>2
      <4>. QED BY <1>5, <1>6, <2>1, <3>2, <4>1
    <3>. QED BY <1>5, <2>2, <3>1, <3>2
  <2>3. ASSUME NEW k \in 1 .. n + 5
        PROVE  /\ Target(t[k]) = "ui_in" => t[k].kind = "write" /\ t[k].data = b.ui
               /\ Target(t[k]) = "uio_in" => t[k].kind = "write" /\ t[k].data = b.uio
    BY <1>5, <2>1
  <2>. QED BY <1>4, <2>2, <2>3 DEF Plan
<1>9. Owns(t, a, b)
  <2>1. /\ ~Spares(t, "ui_in") /\ ~Spares(t, "ctrl") /\ Target(t[1]) # "ctrl"
        /\ n = 2 => ~Spares(t, "uio_in")
    <3>1. 1 \in DOMAIN t /\ n + 2 \in DOMAIN t /\ (n = 2 => 2 \in DOMAIN t)
      BY <1>4
    <3>. QED BY <1>4, <1>5, <3>1 DEF Spares
  <2>2. b.ctrl \ {clk} = a.ctrl \ {clk}
    OBVIOUS
  <2>. QED BY <1>8, <2>1, <2>2 DEF Owns
<1>10. SendPlan(t) /\ t # <<>> /\ \E k \in DOMAIN t : t[k].kind = "set"
  <2>1. ASSUME NEW k \in 1 .. n + 5, NEW j \in 1 .. n + 5, t[k].kind = "set"
        PROVE  /\ j < k => Target(t[j]) # "ctrl"
               /\ j > k => Target(t[j]) # "ui_in" /\ t[j].kind # "set"
    BY <1>5, <2>1
  <2>2. \A k \in 1 .. n + 5 : /\ Target(t[k]) = "ctrl" => t[k].kind \in {"set", "clear"}
                              /\ t[k].kind = "set" => Target(t[k]) = "ctrl"
    BY <1>5, <1>6
  <2>3. t[Len(t)] = Read(TT.DATA)
    BY <1>3, <1>4
  <2>4. SendPlan(t)
    BY <1>4, <2>1, <2>2, <2>3 DEF SendPlan
  <2>5. n + 2 \in DOMAIN t /\ t[n + 2].kind = "set"
    BY <1>4, <1>5
  <2>6. DOMAIN <<>> = {}
    OBVIOUS
  <2>. QED BY <2>4, <2>5, <2>6
<1>. QED
  BY <1>7, <1>9, <1>10
(* SPI: only the types, and that one access raises the clock at most.      *)
LEMMA SpiLists ==
  ASSUME NEW d \in Values
  PROVE  Begins(SpiInit(d)) /\ Begins(SpiTransfer(d))
<1>. DEFINE e == Write(SPI.CTRL, d)
            f == Write(SPI.SSMASK, Byte)
            x == Await(SPI.STATUS, 5)
            w == Write(SPI.WDATA, d)
            y == Await(SPI.STATUS, 6)
            r == Read(SPI.RDATA)
<1>1. /\ e \in AccessType /\ f \in AccessType /\ x \in AccessType /\ w \in AccessType
      /\ y \in AccessType /\ r \in AccessType
  <2>1. Byte \in Values /\ 5 \in Byte /\ 6 \in Byte
    BY DEF Values, Byte
  <2>. QED BY <2>1, Addresses, AccessTypes
<1>2. Target(e) = "ui_in" /\ Target(x) = "none" /\ Target(w) = "uio_in" /\ Target(y) = "none" /\ Target(r) = "none"
  BY TargetOfRead, TargetOfWrite
<1>3. SpiInit(d) = <<e, f>> /\ SpiTransfer(d) = <<x, w, y, r>>
  BY DEF SpiInit, SpiTransfer
<1>. HIDE DEF e, f, x, w, y, r
<1>4. Begins(<<e, f>>)
  <2>. DEFINE t == <<e, f>>
  <2>1. t \in Seq(AccessType) /\ Len(t) = 2 /\ DOMAIN t = {1, 2} /\ t[1] = e
    BY <1>1, Two
  <2>. HIDE DEF t
  <2>2. Begins(t)
    BY <1>2, <2>1 DEF Begins, OneRise, Raises
  <2>. QED BY <2>2 DEF t
<1>5. Begins(<<x, w, y, r>>)
  <2>. DEFINE t == <<x, w, y, r>>
  <2>1. /\ t \in Seq(AccessType) /\ Len(t) = 4 /\ DOMAIN t = 1 .. 4
        /\ t[1] = x /\ t[2] = w /\ t[3] = y /\ t[4] = r
    BY <1>1
  <2>. HIDE DEF t
  <2>2. \A k \in 1 .. 4 : Target(t[k]) # "ctrl"
    BY <1>2, <2>1
  <2>3. Begins(t)
    BY <2>1, <2>2 DEF Begins, OneRise, Raises
  <2>. QED BY <2>3 DEF t
<1>. QED
  BY <1>3, <1>4, <1>5

LEMMA AdcList ==
  ASSUME NEW ch \in Channels, NEW a
  PROVE  Begins(AdcRead(ch)) /\ Owns(AdcRead(ch), a, a)
<1>. DEFINE e == Write(ADC.CFG, {7} \cup ch)
            f == Read(ADC.DATA)
            t == <<e, f>>
<1>1. e \in AccessType /\ f \in AccessType /\ Target(e) = "none" /\ Target(f) = "none"
  <2>1. {7} \cup ch \in Values
    BY SocAssumption DEF Values, Byte
  <2>. QED BY <2>1, Addresses, AccessTypes, TargetOfRead, TargetOfWrite
<1>2. AdcRead(ch) = t
  BY DEF AdcRead
<1>. HIDE DEF e, f
<1>3. t \in Seq(AccessType) /\ Len(t) = 2 /\ DOMAIN t = {1, 2} /\ t[1] = e /\ t[2] = f
  BY <1>1, Two
<1>. HIDE DEF t
<1>4. Len(t) <= 13 /\ \A k \in DOMAIN t : Target(t[k]) = "none"
  BY <1>1, <1>3
<1>. QED
  BY <1>2, <1>3, <1>4, NoTarget

(* A copy touches the wrapper with its own words only. *)
LEMMA DmaList ==
  ASSUME NEW w \in Seq(AccessType), Len(w) = 4
  PROVE  /\ DmaTransfer(w) \in Seq(AccessType) /\ Len(DmaTransfer(w)) = 13
         /\ \A k \in 1 .. 13 : IF k \in 6 .. 9 THEN DmaTransfer(w)[k] = w[k - 5]
                              ELSE Target(DmaTransfer(w)[k]) = "none"
<1>. DEFINE p1 == Write(DMA.SRC, {})
            p2 == Write(DMA.DST, {})
            p3 == Write(DMA.LEN, {})
            rc == Read(DMA.CTRL)
            p5 == Set(DMA.CTRL, {0, 1})
            q2 == Clear(DMA.CTRL, {1})
            q4 == Set(DMA.CTRL, {2})
            p  == <<p1, p2, p3, rc, p5>>
            q  == <<rc, q2, rc, q4>>
<1>1. /\ p1 \in AccessType /\ p2 \in AccessType /\ p3 \in AccessType /\ rc \in AccessType
      /\ p5 \in AccessType /\ q2 \in AccessType /\ q4 \in AccessType
  <2>1. {} \in Values /\ {0, 1} \in Values /\ {1} \in Values /\ {2} \in Values
    BY DEF Values, Byte
  <2>. QED BY <2>1, Addresses, AccessTypes
<1>2. /\ Target(p1) = "none" /\ Target(p2) = "none" /\ Target(p3) = "none" /\ Target(rc) = "none"
      /\ Target(p5) = "none" /\ Target(q2) = "none" /\ Target(q4) = "none"
  BY TargetOfRead, TargetOfWrite, TargetOfModify
<1>3. DmaTransfer(w) = (p \o w) \o q
  BY DEF DmaTransfer
<1>. HIDE DEF p1, p2, p3, rc, p5, q2, q4
<1>4. /\ p \in Seq(AccessType) /\ Len(p) = 5
      /\ p[1] = p1 /\ p[2] = p2 /\ p[3] = p3 /\ p[4] = rc /\ p[5] = p5
  BY <1>1
<1>5. /\ q \in Seq(AccessType) /\ Len(q) = 4
      /\ q[1] = rc /\ q[2] = q2 /\ q[3] = rc /\ q[4] = q4
  BY <1>1
<1>. HIDE DEF p, q
<1>6. /\ \A k \in 1 .. 5 : Target(p[k]) = "none"
      /\ \A k \in 1 .. 4 : Target(q[k]) = "none"
  BY <1>2, <1>4, <1>5
<1>. DEFINE h == p \o w
            t == h \o q
<1>7. h \in Seq(AccessType) /\ Len(h) = 9 /\ \A k \in 1 .. 9 : h[k] = IF k <= 5 THEN p[k] ELSE w[k - 5]
  <2>1. /\ h \in Seq(AccessType) /\ Len(h) = Len(p) + Len(w)
        /\ \A k \in 1 .. Len(p) + Len(w) : h[k] = IF k <= Len(p) THEN p[k] ELSE w[k - Len(p)]
    BY <1>4, ConcatProperties
  <2>. HIDE DEF h
  <2>. QED BY <1>4, <2>1
<1>. HIDE DEF h
<1>8. t \in Seq(AccessType) /\ Len(t) = 13 /\ \A k \in 1 .. 13 : t[k] = IF k <= 9 THEN h[k] ELSE q[k - 9]
  <2>1. /\ t \in Seq(AccessType) /\ Len(t) = Len(h) + Len(q)
        /\ \A k \in 1 .. Len(h) + Len(q) : t[k] = IF k <= Len(h) THEN h[k] ELSE q[k - Len(h)]
    BY <1>5, <1>7, ConcatProperties
  <2>. HIDE DEF t
  <2>. QED BY <1>5, <1>7, <2>1
<1>9. DmaTransfer(w) = t
  BY <1>3 DEF h
<1>. HIDE DEF t
<1>10. ASSUME NEW k \in 1 .. 13
       PROVE  IF k \in 6 .. 9 THEN t[k] = w[k - 5] ELSE Target(t[k]) = "none"
  <2>1. CASE k \in 6 .. 9
    BY <1>7, <1>8, <2>1
  <2>2. CASE k <= 5
    <3>1. t[k] = p[k] /\ k \in 1 .. 5
      BY <1>7, <1>8, <2>2
    <3>. QED BY <1>6, <2>2, <3>1
  <2>3. CASE k >= 10
    <3>1. t[k] = q[k - 9] /\ k - 9 \in 1 .. 4
      BY <1>8, <2>3
    <3>. QED BY <1>6, <2>3, <3>1
  <2>. QED BY <2>1, <2>2, <2>3
<1>. QED
  BY <1>8, <1>9, <1>10

LEMMA DmaReads ==
  ASSUME NEW a
  PROVE  LET t == DmaTransfer([k \in 1 .. 4 |-> Read(TTWords[k])])
         IN  Begins(t) /\ Owns(t, a, a)
<1>. DEFINE w == [k \in 1 .. 4 |-> Read(TTWords[k])]
            t == DmaTransfer(w)
<1>1. \A k \in 1 .. 4 : TTWords[k] \in Nat
  BY Addresses DEF TTWords
<1>2. w \in Seq(AccessType) /\ Len(w) = 4 /\ \A k \in 1 .. 4 : Target(w[k]) = "none"
  BY <1>1, AccessTypes, TargetOfRead
<1>. HIDE DEF w
<1>3. /\ t \in Seq(AccessType) /\ Len(t) = 13
      /\ \A k \in 1 .. 13 : IF k \in 6 .. 9 THEN t[k] = w[k - 5] ELSE Target(t[k]) = "none"
  BY <1>2, DmaList
<1>. HIDE DEF t
<1>4. Len(t) <= 13 /\ DOMAIN t = 1 .. 13
  BY <1>3
<1>5. \A k \in DOMAIN t : Target(t[k]) = "none"
  <2>. SUFFICES ASSUME NEW k \in 1 .. 13, k \in 6 .. 9 PROVE Target(t[k]) = "none"
    BY <1>3, <1>4
  <2>1. k - 5 \in 1 .. 4 /\ t[k] = w[k - 5]
    BY <1>3
  <2>. QED BY <1>2, <2>1
<1>6. Begins(t) /\ Owns(t, a, a)
  BY <1>3, <1>4, <1>5, NoTarget
<1>. QED
  BY <1>6 DEF t, w

LEMMA DmaWrites ==
  ASSUME NEW words \in Copies, NEW a \in AskedType, NEW b \in AskedType,
         b.ui = words[1], b.uio = words[2], b.ctrl = words[4] \cap CtrlBits
  PROVE  LET t == DmaTransfer([k \in 1 .. 4 |-> Write(TTWords[k], words[k])])
         IN  Begins(t) /\ Owns(t, a, b)
<1>. DEFINE w == [k \in 1 .. 4 |-> Write(TTWords[k], words[k])]
            t == DmaTransfer(w)
<1>1. \A k \in 1 .. 4 : TTWords[k] \in Nat /\ words[k] \in Values
  BY SocAssumption, Addresses DEF TTWords, Values, Byte
<1>2. w \in Seq(AccessType) /\ Len(w) = 4 /\ \A k \in 1 .. 4 : w[k] = Write(TTWords[k], words[k])
  BY <1>1, AccessTypes
<1>. HIDE DEF w
<1>3. /\ w[1] = Write(TT.DATA, words[1]) /\ w[2] = Write(TT.UIO, words[2])
      /\ w[3] = Write(TT.OE, words[3]) /\ w[4] = Write(TT.CTRL, words[4])
  BY <1>2 DEF TTWords
<1>4. /\ Target(w[1]) = "ui_in" /\ w[1].kind = "write" /\ w[1].data = b.ui
      /\ Target(w[2]) = "uio_in" /\ w[2].kind = "write" /\ w[2].data = b.uio
      /\ Target(w[3]) = "none"
      /\ Target(w[4]) = "ctrl" /\ w[4].kind = "write" /\ w[4].data \cap CtrlBits = b.ctrl
  BY <1>3, TargetOfWrite, Kinds
<1>5. /\ t \in Seq(AccessType) /\ Len(t) = 13
      /\ \A k \in 1 .. 13 : IF k \in 6 .. 9 THEN t[k] = w[k - 5] ELSE Target(t[k]) = "none"
  BY <1>2, DmaList
<1>. HIDE DEF t
<1>6. /\ Len(t) <= 13 /\ DOMAIN t = 1 .. 13
      /\ t[6] = w[1] /\ t[7] = w[2] /\ t[8] = w[3] /\ t[9] = w[4]
  BY <1>5
<1>7. \A k \in 1 .. 13 : k \in {6, 7, 9} \/ Target(t[k]) = "none"
  <2>. SUFFICES ASSUME NEW k \in 1 .. 13, k \notin {6, 7, 9} PROVE Target(t[k]) = "none"
    OBVIOUS
  <2>1. CASE k = 8
    BY <1>4, <1>6, <2>1
  <2>2. CASE k # 8
    BY <1>5, <2>2
  <2>. QED BY <2>1, <2>2
<1>8. Begins(t)
  <2>1. \A k \in 1 .. 13 : Raises(t[k]) => k = 9
    BY <1>4, <1>6, <1>7 DEF Raises
  <2>. QED BY <1>5, <1>6, <2>1 DEF Begins, OneRise
<1>9. Plan(t, b)
  <2>. SUFFICES ASSUME NEW k \in 1 .. 13
                PROVE  /\ Target(t[k]) = "ui_in" => t[k].kind = "write" /\ t[k].data = b.ui
                       /\ Target(t[k]) = "uio_in" => t[k].kind = "write" /\ t[k].data = b.uio
                       /\ Target(t[k]) = "ctrl" => t[k].kind = "write" /\ t[k].data \cap CtrlBits = b.ctrl
    BY <1>6 DEF Plan
  <2>. QED BY <1>4, <1>6, <1>7
<1>10. ~Spares(t, "ui_in") /\ ~Spares(t, "uio_in") /\ ~Spares(t, "ctrl") /\ ~Toggles(t)
  <2>1. 6 \in DOMAIN t /\ 7 \in DOMAIN t /\ 9 \in DOMAIN t
    BY <1>6
  <2>. QED BY <1>4, <1>6, <2>1 DEF Spares, Toggles
<1>11. Target(t[1]) = "none"
  BY <1>7
<1>12. Owns(t, a, b)
  BY <1>9, <1>10, <1>11 DEF Owns
<1>. QED
  BY <1>8, <1>12 DEF t, w
-----------------------------------------------------------------------------
(* Calls *)

LEMMA Arguments ==
  ASSUME NEW c \in Calls
  PROVE  /\ c.op \in {"tt_init", "get_uo", "get_uio", "get_uoe", "set_clock", "set_ui", "set_uio",
                     "set_uoe", "send", "spi_init", "spi_transfer", "adc_read", "dma_write",
                     "dma_read"}
         /\ c.op = "set_clock" => c.up \in BOOLEAN
         /\ c.op \in {"set_ui", "set_uio", "set_uoe", "spi_transfer"} => c.val \in Values
         /\ c.op = "send" => c.ui \in Values /\ (c.uio = None \/ c.uio \in Values)
         /\ c.op = "spi_init" => c.spi \in Values
         /\ c.op = "adc_read" => c.channel \in Channels
         /\ c.op = "dma_write" => c.words \in Copies
<1>1. Bytes \subseteq Values /\ SpiCtrls \subseteq Values
  BY SocAssumption DEF Values, Byte
<1>. QED
  BY <1>1 DEF Calls

(* A call that leaves what is asked for alone. *)
Idle == {"get_uo", "get_uio", "get_uoe", "set_uoe", "adc_read", "dma_read"}

LEMMA IdleCalls ==
  ASSUME NEW c \in Calls, c.op \in Idle, NEW a \in AskedType
  PROVE  /\ Wish(a, c) = a
         /\ Begins(Accesses(c)) /\ Owns(Accesses(c), a, a)
<1>0. Wish(a, c) = a
  BY DEF Wish, Idle
<1>1. CASE c.op = "get_uo"
  <2>1. Accesses(c) = <<Read(TT.DATA)>>
    BY <1>1 DEF Accesses
  <2>. QED BY <1>0, <2>1, OneIdle, AccessTypes, Addresses, TargetOfRead
<1>2. CASE c.op = "get_uio"
  <2>1. Accesses(c) = <<Read(TT.UIO)>>
    BY <1>2 DEF Accesses
  <2>. QED BY <1>0, <2>1, OneIdle, AccessTypes, Addresses, TargetOfRead
<1>3. CASE c.op = "get_uoe"
  <2>1. Accesses(c) = <<Read(TT.OE)>>
    BY <1>3 DEF Accesses
  <2>. QED BY <1>0, <2>1, OneIdle, AccessTypes, Addresses, TargetOfRead
<1>4. CASE c.op = "set_uoe"
  <2>1. Accesses(c) = <<Write(TT.OE, c.val)>> /\ c.val \in Values
    BY <1>4, Arguments DEF Accesses
  <2>. QED BY <1>0, <2>1, OneIdle, AccessTypes, Addresses, TargetOfWrite
<1>5. CASE c.op = "adc_read"
  <2>1. Accesses(c) = AdcRead(c.channel) /\ c.channel \in Channels
    BY <1>5, Arguments DEF Accesses
  <2>. QED BY <1>0, <2>1, AdcList
<1>6. CASE c.op = "dma_read"
  <2>1. Accesses(c) = DmaTransfer([k \in 1 .. 4 |-> Read(TTWords[k])])
    BY <1>6 DEF Accesses
  <2>. QED BY <1>0, <2>1, DmaReads
<1>. QED
  BY <1>1, <1>2, <1>3, <1>4, <1>5, <1>6 DEF Idle

LEMMA WriteCalls ==
  ASSUME NEW c \in Calls, c.op \in {"tt_init", "set_ui", "set_uio"}, NEW a \in AskedType
  PROVE  /\ Wish(a, c) \in AskedType
         /\ Begins(Accesses(c)) /\ Owns(Accesses(c), a, Wish(a, c))
<1>1. CASE c.op = "tt_init"
  <2>. DEFINE d == {rst_n, ena}
              e == Write(TT.CTRL, d)
              b == [a EXCEPT !.ctrl = d \cap CtrlBits]
  <2>1. d \in Values /\ d \cap CtrlBits = d /\ d \in SUBSET CtrlBits
    BY DEF Values, Byte, CtrlBits, rst_n, ena, clk
  <2>2. Accesses(c) = <<e>> /\ Wish(a, c) = b
    BY <1>1, <2>1 DEF Accesses, Wish
  <2>3. b \in AskedType
    BY <2>1 DEF AskedType
  <2>4. e \in AccessType /\ e.kind = "write" /\ e.data = d /\ Target(e) = "ctrl"
    BY <2>1, AccessTypes, Addresses, Kinds, TargetOfWrite
  <2>. HIDE DEF d, e
  <2>. QED BY <2>2, <2>3, <2>4, OneWrite
<1>2. CASE c.op = "set_ui"
  <2>. DEFINE e == Write(TT.DATA, c.val)
              b == [a EXCEPT !.ui = c.val]
  <2>1. c.val \in Values /\ Accesses(c) = <<e>> /\ Wish(a, c) = b
    BY <1>2, Arguments DEF Accesses, Wish
  <2>2. b \in AskedType
    BY <2>1 DEF AskedType
  <2>3. e \in AccessType /\ e.kind = "write" /\ e.data = c.val /\ Target(e) = "ui_in"
    BY <2>1, AccessTypes, Addresses, Kinds, TargetOfWrite
  <2>. HIDE DEF e
  <2>. QED BY <2>1, <2>2, <2>3, OneWrite
<1>3. CASE c.op = "set_uio"
  <2>. DEFINE e == Write(TT.UIO, c.val)
              b == [a EXCEPT !.uio = c.val]
  <2>1. c.val \in Values /\ Accesses(c) = <<e>> /\ Wish(a, c) = b
    BY <1>3, Arguments DEF Accesses, Wish
  <2>2. b \in AskedType
    BY <2>1 DEF AskedType
  <2>3. e \in AccessType /\ e.kind = "write" /\ e.data = c.val /\ Target(e) = "uio_in"
    BY <2>1, AccessTypes, Addresses, Kinds, TargetOfWrite
  <2>. HIDE DEF e
  <2>. QED BY <2>1, <2>2, <2>3, OneWrite
<1>. QED
  BY <1>1, <1>2, <1>3

LEMMA SendCalls ==
  ASSUME NEW c \in Calls, c.op = "send", NEW a \in AskedType
  PROVE  /\ Wish(a, c) \in AskedType /\ Wish(a, c).ui = c.ui
         /\ Begins(Accesses(c)) /\ Owns(Accesses(c), a, Wish(a, c))
         /\ SendPlan(Accesses(c)) /\ Accesses(c) # <<>>
         /\ \E k \in DOMAIN Accesses(c) : Accesses(c)[k].kind = "set"
<1>. DEFINE n == IF c.uio = None THEN 1 ELSE 2
            b == Wish(a, c)
<1>1. c.ui \in Values /\ (c.uio = None \/ c.uio \in Values)
  BY Arguments
<1>2. b = [ui |-> c.ui, uio |-> IF c.uio = None THEN a.uio ELSE c.uio, ctrl |-> a.ctrl \ {clk}]
  BY DEF Wish
<1>3. Accesses(c) = Send(c.ui, c.uio)
  BY DEF Accesses
<1>. HIDE DEF b
<1>4. /\ b \in AskedType /\ b.ui = c.ui /\ b.ctrl = a.ctrl \ {clk}
      /\ b.uio = IF c.uio = None THEN a.uio ELSE c.uio
  BY <1>1, <1>2 DEF AskedType
<1>5. Accesses(c) = IF n = 1 THEN SendOf(c.ui) ELSE SendBoth(c.ui, c.uio)
  BY <1>1, <1>3, SendList
<1>6. n \in {1, 2} /\ (n = 2 => c.uio \in Values) /\ (n = 1 <=> c.uio = None)
  BY <1>1
<1>. HIDE DEF n
<1>. QED
  BY <1>1, <1>4, <1>5, <1>6, SendPlans DEF b

LEMMA AccessesOf ==
  ASSUME NEW c \in Calls, NEW a \in AskedType
  PROVE  /\ Wish(a, c) \in AskedType /\ Begins(Accesses(c))
         /\ c.op \notin {"spi_init", "spi_transfer"} => Owns(Accesses(c), a, Wish(a, c))
<1>1. CASE c.op \in Idle
  BY <1>1, IdleCalls
<1>2. CASE c.op \in {"tt_init", "set_ui", "set_uio"}
  BY <1>2, WriteCalls
<1>3. CASE c.op = "set_clock"
  <2>. DEFINE b == [a EXCEPT !.ctrl = IF c.up THEN @ \cup {clk} ELSE @ \ {clk}]
  <2>1. c.up \in BOOLEAN /\ Accesses(c) = SetClock(c.up) /\ Wish(a, c) = b
    BY <1>3, Arguments DEF Accesses, Wish
  <2>2. b \in AskedType
    <3>1. a.ctrl \cup {clk} \in SUBSET CtrlBits /\ a.ctrl \ {clk} \in SUBSET CtrlBits
      BY DEF AskedType, CtrlBits
    <3>2. (IF c.up THEN a.ctrl \cup {clk} ELSE a.ctrl \ {clk}) \in SUBSET CtrlBits
      BY <2>1, <3>1
    <3>. QED BY <3>2 DEF AskedType
  <2>. QED BY <2>1, <2>2, ClockPlan
<1>4. CASE c.op = "send"
  BY <1>4, SendCalls
<1>5. CASE c.op \in {"spi_init", "spi_transfer"}
  <2>1. Wish(a, c) = a
    BY <1>5 DEF Wish
  <2>2. Begins(Accesses(c))
    BY <1>5, Arguments, SpiLists DEF Accesses
  <2>. QED BY <1>5, <2>1, <2>2
<1>6. CASE c.op = "dma_write"
  <2>. DEFINE b == Wish(a, c)
  <2>1. c.words \in Copies /\ Accesses(c) = DmaTransfer([k \in 1 .. 4 |-> Write(TTWords[k], c.words[k])])
    BY <1>6, Arguments DEF Accesses
  <2>2. b = [ui |-> c.words[1], uio |-> c.words[2], ctrl |-> c.words[4] \cap CtrlBits]
    BY <1>6 DEF Wish, CtrlBits
  <2>3. c.words[1] \in Values /\ c.words[2] \in Values
    BY <2>1, SocAssumption DEF Values, Byte
  <2>. HIDE DEF b
  <2>4. b \in AskedType
    BY <2>2, <2>3 DEF AskedType
  <2>. QED BY <2>1, <2>2, <2>4, <1>6, DmaWrites DEF b
<1>. QED
  BY <1>1, <1>2, <1>3, <1>4, <1>5, <1>6, Arguments DEF Idle

LEMMA BeginStep ==
  ASSUME SocInv, NEW c \in Calls, Begin(c)
  PROVE  SocInv'
<1>0. /\ TypeInv /\ todo = <<>> /\ call' = c /\ todo' = Accesses(c) /\ asked' = Wish(asked, c)
      /\ edges' = <<>> /\ clkWas' = (clk \in ctrl)
      /\ spied' = (spied \/ c.op \in {"spi_init", "spi_transfer"})
      /\ UNCHANGED <<ui_in, uio_in, ctrl, acc>>
  BY DEF SocInv, Begin, wrapper
<1>1. /\ asked' \in AskedType /\ Begins(todo')
      /\ c.op \notin {"spi_init", "spi_transfer"} => Owns(todo', asked, asked')
  BY <1>0, AccessesOf DEF TypeInv
<1>2. TypeInv'
  <2>1. edges' \in Seq(Values) /\ clkWas' \in BOOLEAN /\ spied' \in BOOLEAN
    BY <1>0, EmptySeq
  <2>. QED BY <1>0, <1>1, <2>1 DEF TypeInv, Begins
<1>3. EdgeInv'
  <2>1. Len(<<>>) <= 1
    OBVIOUS
  <2>. QED BY <1>0, <1>1, <2>1 DEF EdgeInv, Begins
<1>4. ASSUME ~spied'
      PROVE  OwnInv'
  <2>1. OwnInv /\ Owns(todo', asked, asked')
    BY <1>0, <1>1, <1>4 DEF SocInv
  <2>2. ui_in = asked.ui /\ uio_in = asked.uio /\ ctrl = asked.ctrl
    <3>1. DOMAIN todo = {}
      BY <1>0
    <3>. QED BY <2>1, <3>1 DEF OwnInv, Spares
  <2>. QED BY <1>0, <2>1, <2>2 DEF OwnInv, Owns
<1>5. ASSUME ~spied', call'.op = "send"
      PROVE  SendInv'
  <2>1. /\ asked'.ui = c.ui /\ SendPlan(todo') /\ todo' # <<>>
        /\ \E k \in DOMAIN todo' : todo'[k].kind = "set"
    BY <1>0, <1>5, SendCalls DEF TypeInv
  <2>2. ToRise'
    BY <2>1 DEF ToRise
  <2>. QED BY <1>0, <2>1, <2>2 DEF SendInv
<1>. QED
  BY <1>2, <1>3, <1>4, <1>5 DEF SocInv

-----------------------------------------------------------------------------

LEMMA SocInit == Init => SocInv
<1>. SUFFICES ASSUME Init PROVE SocInv
  OBVIOUS
<1>1. TypeInv
  <2>1. {} \in Values /\ {} \in SUBSET CtrlBits
    BY DEF Values
  <2>2. asked \in AskedType
    BY <2>1 DEF Init, AskedType
  <2>3. todo \in Seq(AccessType) /\ Len(todo) <= 13 /\ edges \in Seq(Values)
    BY EmptySeq DEF Init
  <2>. QED BY <2>1, <2>2, <2>3 DEF Init, TypeInv
<1>2. DOMAIN todo = {} /\ Len(<<>>) <= 1
  BY DEF Init
<1>3. EdgeInv
  BY <1>2 DEF EdgeInv, OneRise, Init
<1>4. OwnInv
  BY <1>2 DEF OwnInv, Plan, Init
<1>5. call.op # "send"
  BY DEF Init, NoCall
<1>. QED
  BY <1>1, <1>3, <1>4, <1>5 DEF SocInv

(* The invariant holds in every reachable state: whatever values are sent  *)
(* and copied, the registers and the accesses still to come lead to what   *)
(* the calls of tt.py asked for.                                           *)
THEOREM SocInvariant == Spec => []SocInv
<1>1. SocInv /\ [Next]_vars => SocInv'
  <2>. SUFFICES ASSUME SocInv, [Next]_vars PROVE SocInv'
    OBVIOUS
  <2>1. ASSUME NEW c \in Calls, Begin(c)
        PROVE  SocInv'
    BY <2>1, BeginStep
  <2>2. CASE BusRead
    <3>1. TypeInv' /\ EdgeInv' /\ UNCHANGED <<call, spied>>
      BY <2>2, ReadTypes, EdgeStep DEF SocInv, BusRead, history
    <3>. QED BY <2>2, <3>1, OwnRead, SendRead DEF SocInv
  <2>3. CASE BusWrite
    <3>1. TypeInv' /\ EdgeInv' /\ UNCHANGED <<call, spied>>
      BY <2>3, WriteTypes, EdgeStep DEF SocInv
    <3>. QED BY <2>3, <3>1, OwnWrite, SendWrite DEF SocInv
  <2>4. CASE UNCHANGED vars
    BY <2>4 DEF vars, wrapper, history, SocInv, TypeInv, EdgeInv, OwnInv, SendInv, ToRise
  <2>. QED BY <2>1, <2>2, <2>3, <2>4 DEF Next
<1>. QED
  BY <1>1, SocInit, PTL DEF Spec

(* Every variable keeps its type: no register takes more bits than it has, *)
(* and a call raises the clock once at most.                               *)
THEOREM TypeCorrect == Spec => []TypeOK
<1>1. SocInv => TypeOK
  BY DEF SocInv, TypeInv, EdgeInv, TypeOK, Values, AskedType, CtrlBits
<1>. QED
  BY <1>1, SocInvariant, PTL

(* As long as SPI is not used, the design's inputs between calls are those *)
(* that the calls of tt.py asked for.                                      *)
THEOREM WrapperIsOwned == Spec => []TTOwned
<1>1. SocInv => TTOwned
  <2>. SUFFICES ASSUME TypeInv, OwnInv, todo = <<>> PROVE Registers = asked
    BY DEF SocInv, TTOwned
  <2>1. DOMAIN todo = {}
    OBVIOUS
  <2>2. ui_in = asked.ui /\ uio_in = asked.uio /\ ctrl = asked.ctrl
    BY <2>1 DEF OwnInv, Spares
  <2>. QED BY <2>2 DEF Registers, TypeInv, AskedType
<1>. QED
  BY <1>1, SocInvariant, PTL

(* Every send is one clock edge that sees its data, and returns the output *)
(* for it.                                                                 *)
THEOREM SendIsOneClock == Spec => []SendClocks
<1>1. SocInv => SendClocks
  <2>. SUFFICES ASSUME SendInv, todo = <<>>
                PROVE  edges = (IF clkWas THEN <<>> ELSE <<call.ui>>) /\ acc = call.ui
    BY DEF SocInv, SendClocks
  <2>1. ~ToRise
    <3>1. DOMAIN todo = {}
      OBVIOUS
    <3>. QED BY <3>1 DEF ToRise
  <2>. QED BY <2>1 DEF SendInv
<1>. QED
  BY <1>1, SocInvariant, PTL

=============================================================================
