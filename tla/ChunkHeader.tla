----------------------------- MODULE ChunkHeader -----------------------------
(***************************************************************************)
(* The arithmetic of class ChunkHeader: what the two size bytes of a chunk *)
(* header hold and how a chunk is sized.                                   *)
(*                                                                         *)
(* A header word is the 16-bit value of header[1] * 256 + header[0]: two   *)
(* type bits, three bits of size exponent, eleven bits counting the bytes  *)
(* of the chunk that carry nothing.                                        *)
(***************************************************************************)
EXTENDS Naturals, FiniteSetsExt

CONSTANTS
  MinP2,        \* log2 of the smallest chunk (5 in the code)
  MaxP2,        \* log2 of the largest chunk (12 in the code)
  HeaderBytes   \* size of the common header (4 in the code)

ASSUME SizesAssumption ==
  /\ MinP2 \in Nat /\ MaxP2 \in MinP2 .. (MinP2 + 7)
  /\ HeaderBytes \in 1 .. 2^MinP2

MinChunk == 2^MinP2
MaxChunk == 2^MaxP2

Fill  == 3
Data  == 2

(* Position of the most significant bit; the De Bruijn table gives 0 for 0. *)
Log2(x) == IF x = 0 THEN 0 ELSE CHOOSE k \in 0 .. 31 : 2^k <= x /\ x < 2^(k + 1)

TypeOf(word)       == word % 4
ChunkSizeOf(word)  == 2^(MinP2 + ((word \div 4) % 8))
InvalidBytes(word) == word \div 32

(* What a reader of the header takes for the bytes that follow it; the     *)
(* subtraction is unsigned, so a word that declares more invalid bytes     *)
(* than its chunk holds wraps to a huge count.                             *)
Huge == 2^30
NumberValidBytes(word) ==
  (Huge + ChunkSizeOf(word) - InvalidBytes(word) - HeaderBytes) % Huge

(* Mutated form: rounds the logarithm of the space up. *)
SetBestFitSizeRoundUp(word, space) ==
  LET p2 == IF space < MinChunk THEN 0 ELSE Min({Log2(space - 1) + 1, MaxP2}) - MinP2
  IN  InvalidBytes(word) * 32 + p2 * 4 + TypeOf(word)

(* The word with its size bits replaced; the invalid bytes stay. *)
SetBestFitSize(word, space) ==
  LET p2 == IF space < MinChunk THEN 0 ELSE Min({Log2(space), MaxP2}) - MinP2
  IN  InvalidBytes(word) * 32 + p2 * 4 + TypeOf(word)

SetAllBytesValid(word) == word % 32

(* The bytes really kept when n are asked for: clamped to the chunk, or to *)
(* the largest chunk when the chunk may grow.                              *)
KeptBytes(word, n, canGrow) ==
  Min({n, (IF canGrow THEN MaxChunk ELSE ChunkSizeOf(word)) - HeaderBytes})

(* Mutated form: sizes the chunk from the bytes without the "- 1". *)
SetNumberValidBytesNoMinusOne(word, n, canGrow) ==
  LET kept    == KeptBytes(word, n, canGrow)
      bits    == Max({Log2(kept + HeaderBytes) + 1, MinP2})
      invalid == 2^bits - kept - HeaderBytes
  IN  (invalid * 32 + (bits - MinP2) * 4 + TypeOf(word)) % 2^16

(* The word of the smallest chunk that holds the header and those bytes. *)
SetNumberValidBytes(word, n, canGrow) ==
  LET kept    == KeptBytes(word, n, canGrow)
      bits    == Max({Log2(kept + HeaderBytes - 1) + 1, MinP2})
      invalid == 2^bits - kept - HeaderBytes
  IN  (invalid * 32 + (bits - MinP2) * 4 + TypeOf(word)) % 2^16

(* A header as its constructor leaves it, for a subclass that adds bytes. *)
NewHeader(type, additional) ==
  SetNumberValidBytes(896, additional, TRUE) + type
==============================================================================
