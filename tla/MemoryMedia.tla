------------------------------ MODULE MemoryMedia ------------------------------
(***************************************************************************)
(* MemoryContainer::Private: a shared vector of bytes and a position.      *)
(***************************************************************************)
EXTENDS Status, Sequences

CONSTANTS
  ByteValues,  \* the values of a byte
  MaxLength    \* bound on the length of the buffer

VARIABLES
  memoryBuffer,
  currentPosition,
  buffer,  \* the bytes that the last call read
  status   \* what it returned

Returns(s) == status' = s /\ buffer' = <<>>
Fewer(a, b) == IF a < b THEN a ELSE b
Buffers == UNION {[1 .. n -> ByteValues] : n \in 0 .. MaxLength}

Init == memoryBuffer = <<>> /\ currentPosition = 0 /\ buffer = <<>> /\ status = NoStatus

SetBuffer(newBuffer) == memoryBuffer' = newBuffer /\ currentPosition' = 0 /\ Returns(NoStatus)

SetPosition(p) ==
  /\ p <= Len(memoryBuffer)
  /\ currentPosition' = p /\ Returns(NoStatus) /\ UNCHANGED memoryBuffer

SetPositionRefused(p) ==
  p > Len(memoryBuffer) /\ Returns(SeekError) /\ UNCHANGED <<memoryBuffer, currentPosition>>

SetPositionLast ==
  currentPosition' = Len(memoryBuffer) /\ Returns(NoStatus) /\ UNCHANGED memoryBuffer

Read(n) ==
  LET bytesToCopy == Fewer(n, Len(memoryBuffer) - currentPosition)
  IN  /\ buffer' = SubSeq(memoryBuffer, currentPosition + 1, currentPosition + bytesToCopy)
      /\ status' = ReadSuccessful(bytesToCopy)
      /\ currentPosition' = currentPosition + bytesToCopy
      /\ UNCHANGED memoryBuffer

(* Mutated form: all of the bytes are pushed back, the overwritten too. *)
WritePushesAll(d) ==
  LET k == Fewer(Len(d), Len(memoryBuffer) - currentPosition)
  IN  /\ currentPosition + Len(d) <= MaxLength
      /\ memoryBuffer' = [i \in DOMAIN memoryBuffer |->
                            IF i \in currentPosition + 1 .. currentPosition + k
                            THEN d[i - currentPosition] ELSE memoryBuffer[i]] \o d
      /\ currentPosition' = currentPosition + Len(d)
      /\ Returns(WriteSuccessful(Len(d)))

(* What there is behind the position is overwritten, the rest pushed back. *)
Write(d) ==
  LET k == Fewer(Len(d), Len(memoryBuffer) - currentPosition)
  IN  /\ currentPosition + Len(d) <= MaxLength
      /\ memoryBuffer' = [i \in DOMAIN memoryBuffer |->
                            IF i \in currentPosition + 1 .. currentPosition + k
                            THEN d[i - currentPosition] ELSE memoryBuffer[i]]
                         \o SubSeq(d, k + 1, Len(d))
      /\ currentPosition' = currentPosition + Len(d)
      /\ Returns(WriteSuccessful(Len(d)))

Truncate ==
  memoryBuffer' = SubSeq(memoryBuffer, 1, currentPosition) /\ Returns(NoStatus) /\ UNCHANGED currentPosition

Flush == Returns(NoStatus) /\ UNCHANGED <<memoryBuffer, currentPosition>>

Next ==
  \/ \E b \in Buffers : SetBuffer(b) \/ Write(b)
  \/ \E n \in 0 .. MaxLength : SetPosition(n) \/ SetPositionRefused(n) \/ Read(n)
  \/ SetPositionLast \/ Truncate \/ Flush
================================================================================
