------------------------------- MODULE ByteFile -------------------------------
(***************************************************************************)
(* What a virtual file promises its user: a sequence of bytes with a       *)
(* position in it.  Every call takes effect at once and nothing is cached. *)
(*                                                                         *)
(* A byte is the pair of the offset it was written to and a version, so    *)
(* that a byte that turns up elsewhere, or a stale one, is seen.           *)
(***************************************************************************)
EXTENDS Integers, SequencesExt

CONSTANTS
  Versions,  \* the different values written to one offset
  MaxCount,  \* most bytes moved by one call
  MaxFile    \* bound on the size of the file

VARIABLES
  content,   \* the bytes of the file
  position,  \* where the next read or write starts
  result     \* the bytes the last call returned

byteFileVars == <<content, position, result>>

Bytes(p, n, v) == [i \in 1 .. n |-> <<p + i - 1, v>>]
Least(a, b) == IF a < b THEN a ELSE b

ByteFileInit == content = <<>> /\ position = 0 /\ result = <<>>

(* Reads what there is, up to the end of the file. *)
ReadBytes(n) ==
  LET m == Least(n, Len(content) - position)
  IN  /\ result' = SubSeq(content, position + 1, position + m)
      /\ position' = position + m
      /\ UNCHANGED content

(* Overwrites from the position on and extends the file as needed. *)
WriteBytes(n, v) ==
  /\ position + n <= MaxFile
  /\ content' = SubSeq(content, 1, position) \o Bytes(position, n, v)
                \o SubSeq(content, position + n + 1, Len(content))
  /\ position' = position + n
  /\ result' = <<>>

AppendBytes(n, v) ==
  /\ Len(content) + n <= MaxFile
  /\ content' = content \o Bytes(Len(content), n, v)
  /\ position' = Len(content')
  /\ result' = <<>>

TruncateBytes ==
  /\ content' = SubSeq(content, 1, position)
  /\ result' = <<>>
  /\ UNCHANGED position

Seek(p) ==
  /\ position' = p
  /\ result' = <<>>
  /\ UNCHANGED content

ByteFileNext ==
  \/ \E n \in 0 .. MaxCount : ReadBytes(n)
  \/ \E n \in 0 .. MaxCount, v \in Versions : WriteBytes(n, v) \/ AppendBytes(n, v)
  \/ TruncateBytes
  \/ \E p \in 0 .. Len(content) : Seek(p)

ByteFileSpec == ByteFileInit /\ [][ByteFileNext]_byteFileVars
==============================================================================
