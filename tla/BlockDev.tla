------------------------------ MODULE BlockDev ------------------------------
(***************************************************************************)
(* The block device a filesystem relies on: blocks of bytes that keep what *)
(* was last written to them.  A call either takes effect as a whole or     *)
(* fails with EIO and changes nothing; a reset in the middle of a write    *)
(* damages no byte but those the write was about.                          *)
(***************************************************************************)
EXTENDS Integers, Sequences

CONSTANTS BlockCount, BlockSize, Byte, Erased, NoRequest

VARIABLES
  content,   (* the bytes of the device, block after block                 *)
  request,   (* the call under way, or NoRequest                           *)
  reply      (* what the last call returned                                *)

bvars == <<content, request, reply>>

Capacity == BlockCount * BlockSize
Cells    == 0 .. Capacity - 1

NoReply   == [status |-> "none", data |-> <<>>]
Ok(d)     == [status |-> "ok", data |-> d]
EIO       == [status |-> "EIO", data |-> <<>>]

(* Where the bytes of the request lie, if the device has that many.        *)
First == request.block * BlockSize + request.off
Size  == IF request.op = "read" THEN request.len ELSE Len(request.data)
Fits  == First + Size <= Capacity
Touched == Cells \cap (First .. First + Size - 1)

Written(S) == [c \in Cells |-> IF c \in S THEN request.data[c - First + 1] ELSE content[c]]

BInit ==
  /\ content \in [Cells -> Byte]
  /\ request = NoRequest
  /\ reply = NoReply

Call ==
  /\ request = NoRequest /\ request' # NoRequest
  /\ UNCHANGED <<content, reply>>

Read ==
  /\ request.op = "read" /\ Fits
  /\ reply' = Ok([k \in 1 .. Size |-> content[First + k - 1]])
  /\ UNCHANGED content

(* An erase is a write of Erased to all of a block.                        *)
Write ==
  /\ request.op = "write" /\ Fits
  /\ content' = Written(Touched)
  /\ reply' = Ok(<<>>)

Fail ==
  /\ ~Fits
  /\ reply' = EIO
  /\ UNCHANGED content

Reset ==
  /\ \/ UNCHANGED content
     \/ /\ request.op = "write" /\ Fits
        /\ \E S \in SUBSET Touched : content' = Written(S)
  /\ reply' = NoReply

BNext ==
  \/ Call
  \/ /\ request # NoRequest
     /\ request' = NoRequest
     /\ (Read \/ Write \/ Fail \/ Reset)

Spec == BInit /\ [][BNext]_bvars

=============================================================================
