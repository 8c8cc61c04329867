--------------------------------- MODULE Media ---------------------------------
(***************************************************************************)
(* What Container asks of the class that holds its bytes (the pure virtual *)
(* methods of container_container.h): a row of bytes and a position in it  *)
(* that never leaves it, so that a chunk can only be written where the     *)
(* media ends or before.                                                   *)
(***************************************************************************)
EXTENDS Integers, Sequences

CONSTANTS
  ByteValues,  \* the values of a byte
  MaxLength    \* bound on the length of the media

VARIABLES
  content,   \* the bytes
  position,  \* where the next read or write starts
  answer     \* what the last call returned: bytes read, or a refusal

mediaVars == <<content, position, answer>>

Refused == <<-1>>  \* no byte is negative
Done    == <<>>

BytesOfLength(n) == [1 .. n -> ByteValues]
Least(a, b) == IF a < b THEN a ELSE b

(* The bytes with d written at position p, which may lengthen them. *)
Overwritten(s, p, d) == SubSeq(s, 1, p) \o d \o SubSeq(s, p + Len(d) + 1, Len(s))

MediaInit == content = <<>> /\ position = 0 /\ answer = Done

Attach(bytes) == content' = bytes /\ position' = 0 /\ answer' = Done

(* What could not be attached or cut is left, at one end of it. *)
Detach == position' \in {0, Len(content)} /\ answer' = Refused /\ UNCHANGED content

SeekTo(p) == p <= Len(content) /\ position' = p /\ answer' = Done /\ UNCHANGED content

ReadSome(n) ==
  LET m == Least(n, Len(content) - position)
  IN  /\ answer' = SubSeq(content, position + 1, position + m)
      /\ position' = position + m /\ UNCHANGED content

WriteAll(d) ==
  /\ content' = Overwritten(content, position, d)
  /\ position' = position + Len(d) /\ answer' = Done

(* A write that fails may have reached the media in part. *)
WritePart(d) ==
  /\ content' = Overwritten(content, position, d)
  /\ position' = position + Len(d) /\ answer' = Refused

(* A read that fails may have passed over some of the bytes. *)
ReadPart(m) ==
  /\ position + m < Len(content)
  /\ position' = position + m /\ answer' = Refused /\ UNCHANGED content

CutHere == content' = SubSeq(content, 1, position) /\ answer' = Done /\ UNCHANGED position

Refuse == answer' = Refused /\ UNCHANGED <<content, position>>
Let    == answer' = Done /\ UNCHANGED <<content, position>>

MediaNext ==
  \/ Attach(<<>>) \/ Attach(content)
  \/ \E n \in 0 .. MaxLength : \E bytes \in BytesOfLength(n) :
       Attach(bytes) \/ WriteAll(bytes) \/ WritePart(bytes)
  \/ \E n \in 0 .. MaxLength : SeekTo(n) \/ ReadSome(n) \/ ReadPart(n)
  \/ CutHere \/ Detach \/ Refuse \/ Let

MediaSpec == MediaInit /\ [][MediaNext]_mediaVars
==============================================================================
