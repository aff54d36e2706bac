---------------------------- MODULE FlashProofs ----------------------------
(***************************************************************************)
(* flash.c is a block device above the firmware, for every geometry and    *)
(* all requests whose last byte has an offset that fits a uint32_t.        *)
(***************************************************************************)
EXTENDS Flash, SequenceTheorems, TLAPS

(* The offset of the request's first byte into the volume, before any cut. *)
Start(r) == r.block * BlockSize + r.off

(* What littlefs asks for: it computes its blocks from BlockCount.         *)
NoWrap == \A r \in Requests : Start(r) + Size(r) < Word

(* The addresses a request may store to. *)
Target(r) ==
  IF r.op = "write" /\ InRange(r) THEN {Address(r, k) : k \in 0 .. Size(r) - 1} ELSE {}

(* The request under way has stored its bytes where memcpy has been, and   *)
(* nothing else has changed.                                               *)
StoredSoFar ==
  /\ request = NoRequest => todo = {}
  /\ request # NoRequest =>
       /\ todo \subseteq Target(request)
       /\ \A a \in 0 .. FlashSize - 1 :
            mem[a] = IF FlashBase + a \in Target(request) \ todo
                     THEN request.data[a - FsOffset - Start(request) + 1] ELSE before[a]

FlashInv == TypeOK /\ FirmwareKept /\ StoredSoFar

-----------------------------------------------------------------------------
(* Geometry *)

LEMMA Params ==
  /\ Word \in Nat \ {0} /\ FlashBase \in Nat \ {0} /\ FlashSize \in Nat \ {0}
  /\ FsOffset \in Nat \ {0} /\ BlockSize \in Nat \ {0} /\ FsSize \in Nat \ {0}
  /\ FsOffset + FsSize = FlashSize /\ FlashBase + FlashSize <= Word
  /\ FsSize % BlockSize = 0
  /\ Erased \in Byte /\ MaxLen \in Nat
  /\ Blocks \subseteq 0 .. Word - 1 /\ Offsets \subseteq 0 .. Word - 1
<1>1. /\ FlashBase \in Nat \ {0} /\ FlashSize \in Nat \ {0}
      /\ FsOffset \in Nat \ {0} /\ BlockSize \in Nat \ {0}
      /\ FsOffset < FlashSize /\ FlashBase + FlashSize <= Word
  BY FlashAssumption
<1>2. /\ FsSize % BlockSize = 0 /\ Erased \in Byte /\ MaxLen \in Nat
      /\ Blocks \subseteq 0 .. Word - 1 /\ Offsets \subseteq 0 .. Word - 1
  BY FlashAssumption
<1>3. FsSize \in Nat \ {0} /\ FsOffset + FsSize = FlashSize
  BY <1>1 DEF FsSize
<1>4. Word \in Nat \ {0}
  BY FlashAssumption
<1>. QED
  BY <1>1, <1>2, <1>3, <1>4

LEMMA CodeByte == Code \in Byte /\ Code # Erased
BY FlashAssumption DEF Code

LEMMA ModSmall ==
  ASSUME NEW m \in Nat \ {0}, NEW a \in 0 .. m - 1
  PROVE  a % m = a
OBVIOUS

LEMMA Division ==
  ASSUME NEW m \in Nat \ {0}, NEW a \in Nat, a % m = 0
  PROVE  a \div m \in Nat /\ (a \div m) * m = a
OBVIOUS

(* A block that begins before the end of a whole number of blocks ends     *)
(* before it.                                                              *)
LEMMA WholeBlocks ==
  ASSUME NEW m \in Nat \ {0}, NEW q \in Nat, NEW b \in Nat, b * m < q * m
  PROVE  b * m + m <= q * m
<1>1. b < q
  OBVIOUS
<1>2. b + 1 <= q
  BY <1>1
<1>3. (b + 1) * m <= q * m
  BY <1>2
<1>. QED
  BY <1>3

LEMMA Capacity == BlockCount * BlockSize = FsSize /\ BlockCount \in Nat
BY Params, Division DEF BlockCount

-----------------------------------------------------------------------------
(* Requests *)

LEMMA DataType ==
  ASSUME NEW d \in Datas
  PROVE  d \in Seq(Byte) /\ Len(d) \in Nat
<1>1. PICK n \in 0 .. MaxLen : d \in [1 .. n -> Byte]
  BY DEF Datas
<1>2. n \in Nat
  BY Params
<1>3. d \in Seq(Byte)
  BY <1>1, <1>2, SeqDef
<1>. QED
  BY <1>3, LenProperties

LEMMA EraseData ==
  LET e == [k \in 1 .. BlockSize |-> Erased]
  IN  e \in Seq(Byte) /\ Len(e) = BlockSize
<1>. DEFINE e == [k \in 1 .. BlockSize |-> Erased]
<1>1. e \in [1 .. BlockSize -> Byte] /\ BlockSize \in Nat
  BY Params
<1>2. e \in Seq(Byte)
  BY <1>1, SeqDef
<1>3. DOMAIN e = 1 .. BlockSize /\ DOMAIN e = 1 .. Len(e) /\ Len(e) \in Nat
  BY <1>2, LenProperties
<1>4. Len(e) = BlockSize
  <2>. HIDE DEF e
  <2>. QED BY <1>1, <1>3
<1>. QED
  BY <1>2, <1>4

LEMMA RequestType ==
  ASSUME NEW r \in Requests
  PROVE  /\ r.op \in {"read", "write"} /\ Start(r) \in Nat /\ Size(r) \in Nat
         /\ r.op = "write" => /\ r.data \in Seq(Byte) /\ Size(r) = Len(r.data)
                              /\ \A k \in 0 .. Size(r) - 1 : r.data[k + 1] \in Byte
         /\ r.op = "write" /\ r.erase =>
              \E b \in Nat : Start(r) = b * BlockSize /\ Size(r) = BlockSize
<1>1. /\ \A b \in Blocks : b \in Nat /\ b * BlockSize \in Nat
      /\ \A f \in Offsets : f \in Nat
  BY Params
<1>2. CASE r \in ReadRequests
  <2>1. r.op = "read" /\ r.len \in Nat /\ r.block \in Blocks /\ r.off \in Offsets
    BY <1>2, Params DEF ReadRequests
  <2>2. r.block * BlockSize \in Nat /\ r.off \in Nat
    BY <1>1, <2>1
  <2>3. Start(r) \in Nat
    BY <2>2 DEF Start
  <2>. QED
    BY <2>1, <2>3 DEF Size
<1>3. CASE r \in WriteRequests
  <2>1. r.op = "write" /\ r.data \in Datas /\ r.block \in Blocks /\ r.off \in Offsets
        /\ r.erase = FALSE
    BY <1>3 DEF WriteRequests
  <2>2. r.block * BlockSize \in Nat /\ r.off \in Nat
    BY <1>1, <2>1
  <2>3. Start(r) \in Nat
    BY <2>2 DEF Start
  <2>4. r.data \in Seq(Byte) /\ Size(r) = Len(r.data) /\ Len(r.data) \in Nat
    BY <2>1, DataType DEF Size
  <2>5. \A k \in 0 .. Size(r) - 1 : r.data[k + 1] \in Byte
    BY <2>4, ElementOfSeq
  <2>. QED
    BY <2>1, <2>3, <2>4, <2>5
<1>4. CASE r \in EraseRequests
  <2>1. r.op = "write" /\ r.data = [k \in 1 .. BlockSize |-> Erased] /\ r.block \in Blocks /\ r.off = 0
    BY <1>4 DEF EraseRequests
  <2>2. r.block \in Nat /\ r.block * BlockSize \in Nat
    BY <1>1, <2>1
  <2>3. Start(r) = r.block * BlockSize
    BY <2>1, <2>2 DEF Start
  <2>4. r.data \in Seq(Byte) /\ Size(r) = Len(r.data) /\ Len(r.data) = BlockSize /\ BlockSize \in Nat
    BY <2>1, EraseData, Params DEF Size
  <2>5. \A k \in 0 .. Size(r) - 1 : r.data[k + 1] \in Byte
    BY <2>4, ElementOfSeq
  <2>. QED
    BY <2>1, <2>2, <2>3, <2>4, <2>5
<1>. QED
  BY <1>2, <1>3, <1>4 DEF Requests

(* The checks of flash.c let through what lies in the volume, and nothing  *)
(* else; and that is stored above the firmware, in place.                  *)
LEMMA Placed ==
  ASSUME NoWrap, NEW r \in Requests
  PROVE  /\ InRange(r) <=> Start(r) + Size(r) <= FsSize
         /\ InRange(r) => \A k \in 0 .. Size(r) - 1 :
                            Address(r, k) = FlashBase + FsOffset + Start(r) + k
<1>1. /\ Start(r) \in Nat /\ Size(r) \in Nat /\ Start(r) + Size(r) < Word
      /\ Start(r) \in 0 .. Word - 1 /\ Start(r) + Size(r) \in 0 .. Word - 1
  BY RequestType, Params DEF NoWrap
<1>2. Offset(r) = Start(r)
  BY <1>1, ModSmall, Params DEF Offset, Start
<1>3. (Start(r) + Size(r)) % Word = Start(r) + Size(r)
  BY <1>1, ModSmall, Params
<1>4. InRange(r) <=> Start(r) + Size(r) <= FsSize
  <2>1. CASE r.op = "write" /\ r.erase
    <3>1. PICK b \in Nat : Start(r) = b * BlockSize /\ Size(r) = BlockSize
      BY <2>1, RequestType
    <3>2. b * BlockSize < FsSize => b * BlockSize + BlockSize <= FsSize
      BY WholeBlocks, Capacity, Params
    <3>. QED
      BY <1>1, <1>2, <2>1, <3>1, <3>2, Params DEF InRange
  <2>2. CASE ~(r.op = "write" /\ r.erase)
    BY <1>2, <1>3, <2>2 DEF InRange
  <2>. QED
    BY <2>1, <2>2
<1>5. ASSUME InRange(r), NEW k \in 0 .. Size(r) - 1
      PROVE  Address(r, k) = FlashBase + FsOffset + Start(r) + k
  <2>1. FlashBase + FsOffset + Start(r) + k \in 0 .. Word - 1
    BY <1>1, <1>4, <1>5, Params
  <2>. QED
    BY <1>2, <2>1, ModSmall, Params DEF Address
<1>. QED
  BY <1>4, <1>5

(* A write that is let through stores to consecutive addresses of the      *)
(* volume, and any other call to none.                                     *)
LEMMA TargetRange ==
  ASSUME NoWrap, NEW r \in Requests
  PROVE  Target(r) = IF r.op = "write" /\ Start(r) + Size(r) <= FsSize
                     THEN FlashBase + FsOffset + Start(r) .. FlashBase + FsOffset + Start(r) + Size(r) - 1
                     ELSE {}
<1>1. Start(r) \in Nat /\ Size(r) \in Nat
  BY RequestType
<1>2. CASE r.op = "write" /\ InRange(r)
  <2>1. Target(r) = {FlashBase + FsOffset + Start(r) + k : k \in 0 .. Size(r) - 1}
    BY <1>2, Placed DEF Target
  <2>2. \A a \in FlashBase + FsOffset + Start(r) .. FlashBase + FsOffset + Start(r) + Size(r) - 1 :
          /\ a - (FlashBase + FsOffset + Start(r)) \in 0 .. Size(r) - 1
          /\ a = FlashBase + FsOffset + Start(r) + (a - (FlashBase + FsOffset + Start(r)))
    BY <1>1, Params
  <2>3. \A k \in 0 .. Size(r) - 1 :
          FlashBase + FsOffset + Start(r) + k
            \in FlashBase + FsOffset + Start(r) .. FlashBase + FsOffset + Start(r) + Size(r) - 1
    BY <1>1, Params
  <2>. QED
    BY <1>2, <2>1, <2>2, <2>3, Placed
<1>3. CASE ~(r.op = "write" /\ InRange(r))
  BY <1>3, Placed DEF Target
<1>. QED
  BY <1>2, <1>3

LEMMA TargetAbove ==
  ASSUME NoWrap, NEW r \in Requests
  PROVE  Target(r) \subseteq FlashBase + FsOffset .. FlashBase + FlashSize - 1
BY TargetRange, RequestType, Params

-----------------------------------------------------------------------------
(* The invariant *)

LEMMA InitInv == Init => FlashInv
<1>. SUFFICES ASSUME Init PROVE FlashInv
  OBVIOUS
<1>1. mem \in [0 .. FlashSize - 1 -> Byte] /\ before = mem
  BY CodeByte, Params DEF Init
<1>2. reply.status = "none" /\ reply.data \in Seq(Byte)
  BY EmptySeq DEF Init
<1>3. FirmwareKept
  BY Params DEF Init, FirmwareKept
<1>4. StoredSoFar
  BY RequestAssumption DEF Init, StoredSoFar
<1>. QED
  BY <1>1, <1>2, <1>3, <1>4 DEF Init, FlashInv, TypeOK

LEMMA CallInv ==
  ASSUME NoWrap, FlashInv, NEW r \in Requests, Call(r)
  PROVE  FlashInv'
<1>1. /\ mem' = mem /\ before' = mem /\ reply' = reply /\ request = NoRequest
      /\ request' = r /\ todo' = Target(r)
  BY DEF Call, Target
<1>2. Target(r) \subseteq Chip
  BY TargetAbove, Params DEF Chip
<1>3. TypeOK'
  BY <1>1, <1>2 DEF FlashInv, TypeOK
<1>4. StoredSoFar'
  BY <1>1, RequestAssumption DEF StoredSoFar
<1>5. FirmwareKept'
  BY <1>1 DEF FlashInv, FirmwareKept
<1>. QED
  BY <1>3, <1>4, <1>5 DEF FlashInv

LEMMA StoreInv ==
  ASSUME NoWrap, FlashInv, request # NoRequest,
         NEW k \in 0 .. Size(request) - 1, StoreByte(k)
  PROVE  FlashInv'
<1>1. request \in Requests /\ UNCHANGED <<request, reply, before>>
  BY DEF FlashInv, TypeOK, StoreByte
<1>2. /\ Start(request) \in Nat /\ Size(request) \in Nat
      /\ request.op = "write" /\ InRange(request)
      /\ todo \subseteq Target(request)
  BY <1>1, RequestType DEF FlashInv, StoredSoFar, StoreByte, Target
<1>3. /\ Address(request, k) = FlashBase + FsOffset + Start(request) + k
      /\ Start(request) + Size(request) <= FsSize
  BY <1>1, <1>2, Placed
<1>. DEFINE at == FsOffset + Start(request) + k
<1>4. at \in FsOffset .. FlashSize - 1 /\ Address(request, k) - FlashBase = at
      /\ Address(request, k) = FlashBase + at
  BY <1>2, <1>3, Params
<1>5. Address(request, k) \in Chip
  BY <1>4, Params DEF Chip
<1>6. mem' = [mem EXCEPT ![at] = request.data[k + 1]] /\ todo' = todo \ {FlashBase + at}
  BY <1>4, <1>5 DEF StoreByte
<1>7. request.data[k + 1] \in Byte
  BY <1>1, <1>2, RequestType
<1>8. mem \in [0 .. FlashSize - 1 -> Byte]
  BY DEF FlashInv, TypeOK
<1>. HIDE DEF at
<1>9. TypeOK'
  BY <1>1, <1>6, <1>7, <1>8 DEF FlashInv, TypeOK
<1>10. FirmwareKept'
  BY <1>4, <1>6, <1>8, Params DEF FlashInv, FirmwareKept
<1>11. StoredSoFar'
  <2>1. Target(request)' = Target(request) /\ Start(request)' = Start(request)
    BY <1>1 DEF Target, Start, InRange, Offset, Address, Size
  <2>2. FlashBase + at \in Target(request)
    <3>. FlashBase + at \in todo
      BY <1>4 DEF StoreByte
    <3>. QED BY <1>2
  <2>3. at - FsOffset - Start(request) + 1 = k + 1
    BY <1>2, Params DEF at
  <2>4. ASSUME NEW a \in 0 .. FlashSize - 1
        PROVE  mem'[a] = IF FlashBase + a \in Target(request) \ todo'
                         THEN request.data[a - FsOffset - Start(request) + 1] ELSE before[a]
    <3>1. CASE a = at
      BY <1>4, <1>6, <1>8, <2>2, <2>3, <3>1, Params
    <3>2. CASE a # at
      <4>1. FlashBase + a # FlashBase + at
        BY <1>4, <3>2, Params
      <4>. QED
        BY <1>6, <1>8, <3>2, <4>1 DEF FlashInv, StoredSoFar
    <3>. QED
      BY <3>1, <3>2
  <2>. QED
    BY <1>1, <1>2, <1>6, <2>1, <2>4 DEF StoredSoFar
<1>. QED
  BY <1>9, <1>10, <1>11 DEF FlashInv

LEMMA RepliesType ==
  ASSUME NoWrap, FlashInv, request # NoRequest
  PROVE  Replies(request).status \in {"ok", "EIO"} /\ Replies(request).data \in Seq(Byte)
<1>1. request \in Requests /\ mem \in [0 .. FlashSize - 1 -> Byte]
  BY DEF FlashInv, TypeOK
<1>2. << >> \in Seq(Byte)
  BY EmptySeq
<1>3. CASE InRange(request) /\ request.op # "write"
  <2>1. \A k \in 1 .. Size(request) : mem[Address(request, k - 1) - FlashBase] \in Byte
    <3>. TAKE k \in 1 .. Size(request)
    <3>1. Start(request) \in Nat /\ Size(request) \in Nat /\ k - 1 \in 0 .. Size(request) - 1
      BY <1>1, RequestType
    <3>2. /\ Address(request, k - 1) = FlashBase + FsOffset + Start(request) + (k - 1)
          /\ Start(request) + Size(request) <= FsSize
      BY <1>1, <1>3, <3>1, Placed
    <3>3. Address(request, k - 1) - FlashBase \in 0 .. FlashSize - 1
      BY <3>1, <3>2, Params
    <3>. QED
      BY <1>1, <3>3
  <2>2. Size(request) \in Nat
    BY <1>1, RequestType
  <2>. DEFINE d == [k \in 1 .. Size(request) |-> mem[Address(request, k - 1) - FlashBase]]
  <2>3. d \in [1 .. Size(request) -> Byte]
    BY <2>1
  <2>4. d \in Seq(Byte)
    BY <2>2, <2>3, SeqDef
  <2>. QED
    BY <1>3, <2>4 DEF Replies
<1>4. CASE ~(InRange(request) /\ request.op # "write")
  BY <1>2, <1>4 DEF Replies
<1>. QED
  BY <1>3, <1>4

LEMMA NextInv == NoWrap /\ FlashInv /\ [Next]_vars => FlashInv'
<1>. SUFFICES ASSUME NoWrap, FlashInv, [Next]_vars PROVE FlashInv'
  OBVIOUS
<1>1. CASE \E r \in Requests : Call(r)
  BY <1>1, CallInv
<1>2. CASE request # NoRequest /\ \E k \in 0 .. Size(request) - 1 : StoreByte(k)
  BY <1>2, StoreInv
<1>3. CASE Return
  <2>1. reply'.status \in {"none", "ok", "EIO"} /\ reply'.data \in Seq(Byte)
    BY <1>3, RepliesType DEF Return
  <2>2. /\ request' = NoRequest /\ todo' = {} /\ mem' = mem /\ before' = before
    BY <1>3 DEF Return
  <2>. QED
    BY <2>1, <2>2 DEF FlashInv, TypeOK, FirmwareKept, StoredSoFar
<1>4. CASE Reset
  <2>1. reply'.status = "none" /\ reply'.data \in Seq(Byte)
    BY <1>4, EmptySeq DEF Reset
  <2>2. /\ request' = NoRequest /\ todo' = {} /\ mem' = mem /\ before' = before
    BY <1>4 DEF Reset
  <2>. QED
    BY <2>1, <2>2 DEF FlashInv, TypeOK, FirmwareKept, StoredSoFar
<1>5. CASE UNCHANGED vars
  BY <1>5 DEF vars, FlashInv, TypeOK, FirmwareKept, StoredSoFar, Target, Start, InRange,
     Offset, Address, Size
<1>. QED
  BY <1>1, <1>2, <1>3, <1>4, <1>5 DEF Next

THEOREM FlashInvariant == NoWrap => (Spec => []FlashInv)
<1>. SUFFICES ASSUME NoWrap PROVE Spec => []FlashInv
  OBVIOUS
<1>1. FlashInv /\ [Next]_vars => FlashInv'
  BY NextInv
<1>. QED
  BY <1>1, InitInv, PTL DEF Spec

(* Types: every store goes to the chip.                                    *)
THEOREM FlashTypeCorrect == NoWrap => (Spec => []TypeOK)
<1>. SUFFICES ASSUME NoWrap PROVE Spec => []TypeOK
  OBVIOUS
<1>1. Spec => []FlashInv
  BY FlashInvariant
<1>2. FlashInv => TypeOK
  BY DEF FlashInv
<1>. QED
  BY <1>1, <1>2, PTL

(* No request whose end fits a uint32_t reaches the firmware.              *)
THEOREM FirmwareSafe == NoWrap => (Spec => []FirmwareKept)
<1>. SUFFICES ASSUME NoWrap PROVE Spec => []FirmwareKept
  OBVIOUS
<1>1. Spec => []FlashInv
  BY FlashInvariant
<1>2. FlashInv => FirmwareKept
  BY DEF FlashInv
<1>. QED
  BY <1>1, <1>2, PTL

-----------------------------------------------------------------------------
(* Refinement *)

(* The bytes of the volume, as Device sees them. *)
Volume == [c \in 0 .. FsSize - 1 |->
             IF request = NoRequest THEN mem[FsOffset + c] ELSE before[FsOffset + c]]

LEMMA Cells == Device!Capacity = FsSize /\ Device!Cells = 0 .. FsSize - 1
BY Capacity DEF Device!Capacity, Device!Cells

LEMMA FitsIfInRange ==
  ASSUME NoWrap, request \in Requests
  PROVE  /\ Device!Fits <=> InRange(request)
         /\ Device!First = Start(request) /\ Device!Size = Size(request)
BY Placed, Cells DEF Device!Fits, Device!First, Device!Size, Start, Size

LEMMA InitRefines == Init => Device!BInit
<1>. SUFFICES ASSUME Init PROVE Device!BInit
  OBVIOUS
<1>1. \A c \in 0 .. FsSize - 1 : mem[FsOffset + c] \in Byte /\ before[FsOffset + c] \in Byte
  BY CodeByte, Params DEF Init
<1>. QED
  BY <1>1, Cells DEF Init, Device!BInit, Device!NoReply

(* What was stored below c is what Device writes there. *)
LEMMA StoredCells ==
  ASSUME NoWrap, FlashInv, request # NoRequest, NEW c \in 0 .. FsSize - 1
  PROVE  mem[FsOffset + c] =
           IF c \in {x \in Device!Touched : request.op = "write" /\ InRange(request)
                                            /\ FlashBase + FsOffset + x \notin todo}
           THEN request.data[c - Device!First + 1] ELSE Volume[c]
<1>1. request \in Requests /\ Start(request) \in Nat /\ Size(request) \in Nat
  BY RequestType DEF FlashInv, TypeOK
<1>2. FsOffset + c \in 0 .. FlashSize - 1 /\ Volume[c] = before[FsOffset + c]
  BY Params DEF Volume
<1>3. FlashBase + (FsOffset + c) \in Target(request)
      <=> c \in Device!Touched /\ request.op = "write" /\ InRange(request)
  <2>1. Target(request) = IF request.op = "write" /\ InRange(request)
                     THEN FlashBase + FsOffset + Start(request) .. FlashBase + FsOffset + Start(request) + Size(request) - 1
                     ELSE {}
    BY <1>1, TargetRange, Placed
  <2>2. Device!Touched = (0 .. FsSize - 1) \cap (Start(request) .. Start(request) + Size(request) - 1)
    BY <1>1, FitsIfInRange, Cells DEF Device!Touched
  <2>. QED
    BY <1>1, <2>1, <2>2, Params
<1>4. mem[FsOffset + c] = IF FlashBase + (FsOffset + c) \in Target(request) \ todo
        THEN request.data[(FsOffset + c) - FsOffset - Start(request) + 1] ELSE before[FsOffset + c]
  BY <1>2 DEF FlashInv, StoredSoFar
<1>5. (FsOffset + c) - FsOffset - Start(request) + 1 = c - Device!First + 1
      /\ FlashBase + (FsOffset + c) = FlashBase + FsOffset + c
  BY <1>1, FitsIfInRange, Params
<1>. QED
  BY <1>2, <1>3, <1>4, <1>5

(* After a call, or a reset in it, the volume holds what had been stored.  *)
LEMMA EndRefines ==
  ASSUME NoWrap, FlashInv, request # NoRequest, request' = NoRequest, mem' = mem
  PROVE  /\ Volume' = [c \in 0 .. FsSize - 1 |->
              IF c \in {x \in Device!Touched : request.op = "write" /\ InRange(request)
                                               /\ FlashBase + FsOffset + x \notin todo}
              THEN request.data[c - Device!First + 1] ELSE Volume[c]]
         /\ request.op # "write" \/ ~InRange(request) => Volume' = Volume
<1>1. Volume' = [c \in 0 .. FsSize - 1 |-> mem[FsOffset + c]]
  BY DEF Volume
<1>2. ~(request.op = "write" /\ InRange(request)) =>
        \A c \in 0 .. FsSize - 1 : mem[FsOffset + c] = Volume[c]
  BY StoredCells
<1>. QED
  BY <1>1, <1>2, StoredCells DEF Volume

LEMMA CallRefines ==
  ASSUME NEW r \in Requests, Call(r)
  PROVE  Device!Call
<1>1. request = NoRequest /\ request' # NoRequest /\ reply' = reply
  BY RequestAssumption DEF Call
<1>2. Volume' = Volume
  BY <1>1 DEF Volume, Call
<1>. QED
  BY <1>1, <1>2 DEF Device!Call, Volume

LEMMA ReturnRefines ==
  ASSUME NoWrap, FlashInv, Return
  PROVE  Device!Read \/ Device!Write \/ Device!Fail
<1>1. /\ request # NoRequest /\ todo = {} /\ request' = NoRequest /\ mem' = mem
      /\ reply' = Replies(request) /\ request \in Requests
  BY DEF Return, FlashInv, TypeOK
<1>2. request.op \in {"read", "write"} /\ Start(request) \in Nat /\ Size(request) \in Nat
  BY <1>1, RequestType
<1>3. CASE ~InRange(request)
  <2>1. Volume' = Volume
    BY <1>1, <1>3, EndRefines
  <2>2. reply' = Device!EIO
    BY <1>1, <1>3 DEF Replies, Device!EIO
  <2>. QED
    BY <1>1, <1>3, <2>1, <2>2, FitsIfInRange DEF Device!Fail, Volume
<1>4. CASE InRange(request) /\ request.op = "write"
  <2>1. Volume' = [c \in 0 .. FsSize - 1 |->
                     IF c \in Device!Touched THEN request.data[c - Device!First + 1] ELSE Volume[c]]
    BY <1>1, <1>4, EndRefines DEF Device!Touched
  <2>2. Volume' = Device!Written(Device!Touched)
    BY <2>1, Cells DEF Device!Written, Volume
  <2>3. reply' = Device!Ok(<<>>)
    BY <1>1, <1>4 DEF Replies, Device!Ok
  <2>. QED
    BY <1>1, <1>4, <2>2, <2>3, FitsIfInRange DEF Device!Write, Volume
<1>5. CASE InRange(request) /\ request.op = "read"
  <2>1. Volume' = Volume
    BY <1>1, <1>5, EndRefines
  <2>2. ASSUME NEW k \in 1 .. Size(request)
        PROVE  mem[Address(request, k - 1) - FlashBase] = Volume[Start(request) + k - 1]
    <3>1. k - 1 \in 0 .. Size(request) - 1 /\ Start(request) + k - 1 \in 0 .. FsSize - 1
      BY <1>1, <1>2, <1>5, Placed, Params
    <3>2. Address(request, k - 1) = FlashBase + FsOffset + Start(request) + (k - 1)
      BY <1>1, <1>5, <3>1, Placed
    <3>3. Address(request, k - 1) - FlashBase = FsOffset + (Start(request) + k - 1)
      BY <1>2, <3>1, <3>2, Params
    <3>4. mem[FsOffset + (Start(request) + k - 1)] = Volume[Start(request) + k - 1]
      BY <1>1, <1>5, <3>1, StoredCells
    <3>. QED
      BY <3>3, <3>4
  <2>3. reply' = [status |-> "ok", data |-> [k \in 1 .. Size(request) |-> Volume[Start(request) + k - 1]]]
    BY <1>1, <1>5, <2>2 DEF Replies
  <2>4. reply' = Device!Ok([k \in 1 .. Device!Size |-> Volume[Device!First + k - 1]])
    BY <1>1, <2>3, FitsIfInRange DEF Device!Ok
  <2>. QED
    BY <1>1, <1>5, <2>1, <2>4, FitsIfInRange DEF Device!Read, Volume
<1>. QED
  BY <1>2, <1>3, <1>4, <1>5

LEMMA ResetRefines ==
  ASSUME NoWrap, FlashInv, Reset
  PROVE  Device!Reset
<1>1. /\ request # NoRequest /\ request' = NoRequest /\ mem' = mem /\ request \in Requests
      /\ reply' = Device!NoReply
  BY DEF Reset, FlashInv, TypeOK, Device!NoReply
<1>2. CASE ~(InRange(request) /\ request.op = "write")
  <2>1. Volume' = Volume
    BY <1>1, <1>2, EndRefines
  <2>. QED
    BY <1>1, <2>1 DEF Device!Reset, Volume
<1>3. CASE InRange(request) /\ request.op = "write"
  <2>. DEFINE S == {x \in Device!Touched : FlashBase + FsOffset + x \notin todo}
  <2>1. Volume' = [c \in 0 .. FsSize - 1 |->
                     IF c \in S THEN request.data[c - Device!First + 1] ELSE Volume[c]]
    BY <1>1, <1>3, EndRefines
  <2>2. Volume' = Device!Written(S)
    BY <2>1, Cells DEF Device!Written, Volume
  <2>3. S \in SUBSET Device!Touched
    OBVIOUS
  <2>. HIDE DEF S
  <2>. QED
    BY <1>1, <1>3, <2>2, <2>3, FitsIfInRange DEF Device!Reset, Volume
<1>. QED
  BY <1>2, <1>3

LEMMA NextRefines ==
  ASSUME NoWrap, FlashInv, [Next]_vars
  PROVE  [Device!BNext]_(Device!bvars)
<1>1. CASE \E r \in Requests : Call(r)
  BY <1>1, CallRefines DEF Device!BNext
<1>2. CASE request # NoRequest /\ \E k \in 0 .. Size(request) - 1 : StoreByte(k)
  <2>1. request' = request /\ reply' = reply /\ before' = before
    BY <1>2 DEF StoreByte
  <2>2. Volume' = Volume
    BY <1>2, <2>1 DEF Volume
  <2>. QED
    BY <2>1, <2>2 DEF Device!bvars, Volume
<1>3. CASE Return
  BY <1>3, ReturnRefines DEF Device!BNext, Return
<1>4. CASE Reset
  BY <1>4, ResetRefines DEF Device!BNext, Reset
<1>5. CASE UNCHANGED vars
  <2>1. Volume' = Volume
    BY <1>5 DEF vars, Volume
  <2>. QED
    BY <1>5, <2>1 DEF vars, Device!bvars, Volume
<1>. QED
  BY <1>1, <1>2, <1>3, <1>4, <1>5 DEF Next

(* flash.c is a block device: nothing tears but what a reset cuts off.     *)
THEOREM IsBlockDevice == NoWrap => (Spec => BlockDevice)
<1>. SUFFICES ASSUME NoWrap PROVE Spec => BlockDevice
  OBVIOUS
<1>1. Spec => []FlashInv
  BY FlashInvariant
<1>2. FlashInv /\ [Next]_vars => [Device!BNext]_(Device!bvars)
  BY NextRefines
<1>. QED
  BY <1>1, <1>2, InitRefines, PTL DEF Spec, BlockDevice, Device!Spec

=============================================================================
