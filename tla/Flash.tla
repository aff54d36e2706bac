------------------------------- MODULE Flash -------------------------------
(***************************************************************************)
(* machine.Flash (flash.c), the block device under the littlefs2 volume:   *)
(* memory-mapped external flash, of which the part from FS_OFFSET on       *)
(* belongs to the filesystem and the part below to the firmware.           *)
(*                                                                         *)
(* All arithmetic is in uint32_t.  memcpy and memset store byte by byte in *)
(* no order the program can rely on, and a reset (machine.reset, watchdog, *)
(* power) may come between two bytes.                                      *)
(***************************************************************************)
EXTENDS Integers, Sequences, FiniteSets

CONSTANTS
  Word,          (* 2^32                                                   *)
  FlashBase,     (* FLASH_BASE_ADDR                                        *)
  FlashSize,     (* FLASH_SIZE                                             *)
  FsOffset,      (* FS_OFFSET: 256 KB with SPLIT_FLASH, else 1 MB          *)
  BlockSize,     (* FLASH_BLOCK_SIZE                                       *)
  Byte, Erased,  (* the values of a byte; 0xFF                             *)
  NoRequest,
  Blocks,        (* the block numbers callers pass                         *)
  Offsets,       (* their offsets into a block; a call without is with 0   *)
  MaxLen         (* the longest buffer they pass                           *)

FsSize     == FlashSize - FsOffset                             (* FS_SIZE  *)
BlockCount == FsSize \div BlockSize      (* ioctl(BLOCK_COUNT)             *)

ASSUME FlashAssumption ==
  /\ {Word, FlashBase, FlashSize, FsOffset, BlockSize} \subseteq Nat \ {0}
  /\ FsOffset < FlashSize
  /\ FlashBase + FlashSize <= Word
  /\ FsSize % BlockSize = 0
  /\ Erased \in Byte /\ \E b \in Byte : b # Erased
  /\ Blocks \subseteq 0 .. Word - 1
  /\ Offsets \subseteq 0 .. Word - 1
  /\ MaxLen \in Nat

VARIABLES
  mem,       (* the flash, by offset from FLASH_BASE_ADDR                  *)
  request,   (* the call the filesystem has made                           *)
  todo,      (* addresses memcpy or memset has still to store to           *)
  reply,     (* what the last call returned                                *)
  before     (* history: mem when the call was made                        *)

vars == <<mem, request, todo, reply, before>>

-----------------------------------------------------------------------------
(* Requests *)

Datas == UNION {[1 .. n -> Byte] : n \in 0 .. MaxLen}

ReadRequests  == [op : {"read"}, block : Blocks, off : Offsets, len : 0 .. MaxLen]
WriteRequests == [op : {"write"}, block : Blocks, off : Offsets, data : Datas, erase : {FALSE}]
EraseRequests == [op : {"write"}, block : Blocks, off : {0},
                  data : {[k \in 1 .. BlockSize |-> Erased]}, erase : {TRUE}]
Requests      == ReadRequests \cup WriteRequests \cup EraseRequests

ASSUME RequestAssumption == NoRequest \notin Requests

Size(r) == IF r.op = "read" THEN r.len ELSE Len(r.data)

(* block_num * FLASH_BLOCK_SIZE + offset. *)
Offset(r) == (r.block * BlockSize + r.off) % Word

(* Mutants: `>=' for `>', and `>' for `>='. *)
MutInRange(r) == (Offset(r) + Size(r)) % Word < FsSize
MutInRangeErase(r) == (Offset(r) + IF r.op = "write" /\ r.erase THEN 0 ELSE Size(r)) % Word <= FsSize

(* The checks of readblocks, writeblocks and ioctl(BLOCK_ERASE).           *)
InRange(r) ==
  IF r.op = "write" /\ r.erase THEN Offset(r) < FsSize
  ELSE (Offset(r) + Size(r)) % Word <= FsSize

(* Mutant: FLASH_BASE_ADDR for FS_START_ADDR. *)
MutAddress(r, k) == (FlashBase + Offset(r) + k) % Word

(* FS_START_ADDR + offset, the address of byte k of the request.           *)
Address(r, k) == (FlashBase + FsOffset + Offset(r) + k) % Word

(* Addresses in the flash; any other byte is not the flash's.              *)
Chip == FlashBase .. FlashBase + FlashSize - 1

-----------------------------------------------------------------------------
(* The calls *)

Call(r) ==
  /\ request = NoRequest
  /\ request' = r
  /\ todo' = IF r.op = "write" /\ InRange(r) THEN {Address(r, k) : k \in 0 .. Size(r) - 1} ELSE {}
  /\ before' = mem
  /\ UNCHANGED <<mem, reply>>

Replies(r) ==
  IF ~InRange(r) THEN [status |-> "EIO", data |-> <<>>]
  ELSE [status |-> "ok",
        data   |-> IF r.op = "write" THEN <<>>
                   ELSE [k \in 1 .. Size(r) |-> mem[Address(r, k - 1) - FlashBase]]]

(* memcpy or memset stores byte k. *)
StoreByte(k) ==
  /\ Address(request, k) \in todo
  /\ todo' = todo \ {Address(request, k)}
  /\ mem' = IF Address(request, k) \in Chip
            THEN [mem EXCEPT ![Address(request, k) - FlashBase] = request.data[k + 1]] ELSE mem
  /\ UNCHANGED <<request, reply, before>>

(* The call returns or raises OSError(EIO). *)
Return ==
  /\ request # NoRequest /\ todo = {}
  /\ reply' = Replies(request)
  /\ request' = NoRequest
  /\ UNCHANGED <<mem, todo, before>>

(* A reset in the middle of a call. *)
Reset ==
  /\ request # NoRequest
  /\ request' = NoRequest /\ todo' = {}
  /\ reply' = [status |-> "none", data |-> <<>>]
  /\ UNCHANGED <<mem, before>>

-----------------------------------------------------------------------------
(* Firmware of one value and an erased volume. *)
Code == CHOOSE b \in Byte : b # Erased

Init ==
  /\ mem = [a \in 0 .. FlashSize - 1 |-> IF a < FsOffset THEN Code ELSE Erased]
  /\ request = NoRequest /\ todo = {}
  /\ reply = [status |-> "none", data |-> <<>>]
  /\ before = mem

Next ==
  \/ \E r \in Requests : Call(r)
  \/ request # NoRequest /\ \E k \in 0 .. Size(request) - 1 : StoreByte(k)
  \/ Return
  \/ Reset

Spec == Init /\ [][Next]_vars

-----------------------------------------------------------------------------
(* Correctness *)

TypeOK ==
  /\ mem \in [0 .. FlashSize - 1 -> Byte] /\ before \in [0 .. FlashSize - 1 -> Byte]
  /\ request = NoRequest \/ request \in Requests
  /\ todo \subseteq Chip
  /\ reply.status \in {"none", "ok", "EIO"} /\ reply.data \in Seq(Byte)

(* "To avoid corrupting any potential firmware": no call changes a byte    *)
(* below FS_OFFSET, completed or cut off.                                  *)
FirmwareKept == \A a \in 0 .. FsOffset - 1 : mem[a] = Code

(* flash.c is a block device of BlockCount blocks: what is read is what    *)
(* was written last, a call that runs off the end fails with EIO and       *)
(* changes nothing, and a reset tears no bytes but those of the write it   *)
(* interrupts.                                                             *)
Device == INSTANCE BlockDev WITH
  content <- [c \in 0 .. FsSize - 1 |->
                IF request = NoRequest THEN mem[FsOffset + c] ELSE before[FsOffset + c]]

BlockDevice == Device!Spec

=============================================================================
