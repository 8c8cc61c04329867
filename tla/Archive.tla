------------------------------- MODULE Archive -------------------------------
(***************************************************************************)
(* What a container promises: a directory of named files, each a sequence  *)
(* of pieces of data.  Closing and opening the container, moving holes     *)
(* about and writing buffers out change nothing.                           *)
(***************************************************************************)
EXTENDS Naturals, Sequences

CONSTANTS Names, Pieces, MaxPieces

VARIABLE archive  \* the pieces of each file, by name

Put(n, s) == [x \in DOMAIN archive \cup {n} |-> IF x = n THEN s ELSE archive[x]]
Without(n) == [x \in DOMAIN archive \ {n} |-> archive[x]]

ArchiveInit == archive = [n \in {} |-> <<>>]

CreateFile(n) == n \notin DOMAIN archive /\ archive' = Put(n, <<>>)

AppendPiece(n, p) ==
  /\ n \in DOMAIN archive /\ Len(archive[n]) < MaxPieces
  /\ archive' = Put(n, Append(archive[n], p))

TruncateFile(n, k) ==
  /\ n \in DOMAIN archive /\ k <= Len(archive[n])
  /\ archive' = Put(n, SubSeq(archive[n], 1, k))

EraseFile(n) == n \in DOMAIN archive /\ archive' = Without(n)

RenameFile(n, m) ==
  /\ n \in DOMAIN archive /\ m \notin DOMAIN archive
  /\ archive' = [x \in (DOMAIN archive \ {n}) \cup {m} |-> IF x = m THEN archive[n] ELSE archive[x]]

ArchiveNext ==
  \E n \in Names :
    \/ CreateFile(n) \/ EraseFile(n)
    \/ \E p \in Pieces : AppendPiece(n, p)
    \/ \E k \in 0 .. MaxPieces : TruncateFile(n, k)
    \/ \E m \in Names : RenameFile(n, m)

ArchiveSpec == ArchiveInit /\ [][ArchiveNext]_archive
==============================================================================
