------------------------------- MODULE FileMedia -------------------------------
(***************************************************************************)
(* FileContainer::Private: a stdio file, its position, and the size of the *)
(* file as the class counts it.  The file keeps its bytes when it is       *)
(* closed and is opened again to be read, to be changed, or as a new file. *)
(* The stdio calls are external: a seek past the end succeeds, and a write *)
(* there leaves a gap of zeros.                                            *)
(***************************************************************************)
EXTENDS Status, Sequences

CONSTANTS
  ByteValues,  \* the values of a byte; the zero of a gap is another one
  MaxLength,   \* bound on the length of the file
  CallsFail,   \* may the stdio calls fail once the file is open?
  Shrinks      \* is truncate() called with bytes behind the position?

ASSUME FileMediaAssumption ==
  MaxLength \in Nat /\ {CallsFail, Shrinks} \subseteq BOOLEAN

VARIABLES
  openMode,         \* "closed", "readOnly", "readWrite" (as OVERWRITE becomes),
                    \* "unsized" or "dangling"
  file,             \* the bytes of the file
  filePosition,     \* largeTell(fileHandle)
  currentFileSize,
  buffer,           \* the bytes that the last call read
  status            \* what it returned

Nothing == <<>>  \* no bytes were read
Gap     == 0
Shorter(a, b) == IF a < b THEN a ELSE b
Longer(a, b)  == IF a < b THEN b ELSE a

(* A file whose open failed at a seek is "unsized": it is open, its size   *)
(* was not found, and a caller who was told so opens another or closes it. *)
(* A freopen that fails has freed the handle, which stays in use: what the *)
(* code does with it then is undefined, and nothing follows.               *)
IsOpen    == openMode \in {"readOnly", "readWrite"}
HasHandle == IsOpen \/ openMode = "unsized"
Usable    == openMode # "dangling"

Init ==
  /\ openMode = "closed" /\ file = <<>> /\ filePosition = 0
  /\ currentFileSize = 0 /\ buffer = Nothing /\ status = NoStatus

(* Calls but read() hand out no bytes. *)
Returns(s) == status' = s /\ buffer' = Nothing

(* Whatever was open is closed first; the size is found by a seek to the   *)
(* end and the position goes back to the start.                            *)
Open(mode) ==
  /\ Usable
  /\ openMode' = (IF mode = "overwrite" THEN "readWrite" ELSE mode)
  /\ file' = (IF mode = "overwrite" THEN <<>> ELSE file)
  /\ currentFileSize' = Len(file')
  /\ filePosition' = 0 /\ Returns(NoStatus)

(* fclose fails, the mode is unknown, or fopen fails: what was open is     *)
(* closed all the same.                                                    *)
OpenFails ==
  /\ Usable /\ openMode' = "closed" /\ filePosition' = 0
  /\ \/ Returns(InvalidOpenMode)
     \/ Returns(FailedToOpenFile)
     \/ HasHandle /\ CallsFail /\ Returns(FileCloseError)
  /\ UNCHANGED <<file, currentFileSize>>

(* The seek to the end fails, or the one back.                             *)
OpenSeekFails ==
  /\ Usable /\ CallsFail /\ openMode' = "unsized"
  /\ \/ filePosition' = 0 /\ currentFileSize' = currentFileSize
     \/ filePosition' = Len(file) /\ currentFileSize' = Len(file)
  /\ Returns(FailedToOpenFile) /\ UNCHANGED file

(* The handle is gone whatever fclose says.                                *)
Close ==
  /\ Usable /\ openMode' = "closed" /\ filePosition' = 0
  /\ \/ Returns(NoStatus)
     \/ HasHandle /\ CallsFail /\ Returns(FileCloseError)
  /\ UNCHANGED <<file, currentFileSize>>

Stays == UNCHANGED <<openMode, file, filePosition, currentFileSize>>

(* FileContainerNotOpen, for every call but size() and position(). *)
NotOpen == openMode = "closed" /\ Returns(FileContainerNotOpen) /\ Stays

SetPosition(p) ==
  /\ IsOpen /\ p <= currentFileSize
  /\ filePosition' = p /\ Returns(NoStatus)
  /\ UNCHANGED <<openMode, file, currentFileSize>>

SetPositionRefused(p) == IsOpen /\ p > currentFileSize /\ Returns(SeekError) /\ Stays

SetPositionLast ==
  /\ IsOpen
  /\ filePosition' = Len(file) /\ Returns(NoStatus)
  /\ UNCHANGED <<openMode, file, currentFileSize>>

(* fseek fails, in either of them; the position stays. *)
SetPositionFails == IsOpen /\ CallsFail /\ Returns(SeekError) /\ Stays

Read(n) ==
  LET m == Shorter(n, Longer(0, Len(file) - filePosition))
  IN  /\ IsOpen
      /\ buffer' = SubSeq(file, filePosition + 1, filePosition + m)
      /\ status' = ReadSuccessful(m)
      /\ filePosition' = filePosition + m
      /\ UNCHANGED <<openMode, file, currentFileSize>>

(* fread stops before the end of the file with m of the bytes. *)
ReadFails(m) ==
  /\ IsOpen /\ CallsFail /\ filePosition + m < Len(file)
  /\ filePosition' = filePosition + m /\ Returns(FileReadError)
  /\ UNCHANGED <<openMode, file, currentFileSize>>

(* fwrite of d at the position. *)
Put(d) ==
  IF d = <<>> THEN file
  ELSE SubSeq(file, 1, filePosition)
       \o [i \in 1 .. Longer(0, filePosition - Len(file)) |-> Gap]
       \o d \o SubSeq(file, filePosition + Len(d) + 1, Len(file))

(* Mutated form: every write sets the size to where it ended. *)
WriteSetsSize(d) ==
  /\ openMode = "readWrite" /\ filePosition + Len(d) <= MaxLength
  /\ file' = Put(d)
  /\ filePosition' = filePosition + Len(d)
  /\ currentFileSize' = currentFileSize + Len(d)
  /\ Returns(WriteSuccessful(Len(d)))
  /\ UNCHANGED openMode

Write(d) ==
  /\ openMode = "readWrite" /\ filePosition + Len(d) <= MaxLength
  /\ file' = Put(d)
  /\ filePosition' = filePosition + Len(d)
  /\ currentFileSize' = Longer(currentFileSize, filePosition + Len(d))
  /\ Returns(WriteSuccessful(Len(d)))
  /\ UNCHANGED openMode

(* A part of it got out: the error is returned before the size is looked   *)
(* at.  A file opened to be read takes nothing.                            *)
WriteFails(d) ==
  /\ IsOpen
  /\ \/ openMode = "readOnly" /\ d = <<>>
     \/ openMode = "readWrite" /\ CallsFail /\ filePosition + Len(d) <= MaxLength
  /\ file' = Put(d)
  /\ filePosition' = filePosition + Len(d)
  /\ Returns(FileWriteError)
  /\ UNCHANGED <<openMode, currentFileSize>>

(* fflush, ftruncate, freopen, and a seek back; the size is not changed.   *)
Truncate ==
  /\ openMode = "readWrite"
  /\ filePosition <= currentFileSize
  /\ Shrinks \/ filePosition >= Len(file)
  /\ file' = SubSeq(file, 1, filePosition) \o [i \in 1 .. filePosition - Len(file) |-> Gap]
  /\ Returns(NoStatus)
  /\ UNCHANGED <<openMode, filePosition, currentFileSize>>

(* The seek back is refused when a failed write left the position past the *)
(* counted size: the file is cut, and open at its start.                   *)
TruncateSeekRefused ==
  /\ openMode = "readWrite"
  /\ filePosition > currentFileSize
  /\ Shrinks \/ filePosition >= Len(file)
  /\ file' = SubSeq(file, 1, filePosition) \o [i \in 1 .. filePosition - Len(file) |-> Gap]
  /\ filePosition' = 0
  /\ Returns(SeekError)
  /\ UNCHANGED <<openMode, currentFileSize>>

(* freopen fails: the file is cut, and its handle is freed.                *)
TruncateReopenFails ==
  /\ openMode = "readWrite" /\ CallsFail
  /\ Shrinks \/ filePosition >= Len(file)
  /\ file' = SubSeq(file, 1, filePosition) \o [i \in 1 .. filePosition - Len(file) |-> Gap]
  /\ openMode' = "dangling" /\ filePosition' = 0
  /\ Returns(FileTruncateError)
  /\ UNCHANGED currentFileSize

(* ftruncate fails on a file that is open to be read, or fflush does. *)
TruncateFails ==
  /\ openMode = "readOnly" \/ (openMode = "readWrite" /\ CallsFail)
  /\ Returns(FileTruncateError) /\ Stays

Flush ==
  /\ IsOpen
  /\ \/ Returns(NoStatus)
     \/ CallsFail /\ Returns(FileFlushError)
  /\ Stays

Next ==
  \/ \E mode \in {"readOnly", "readWrite", "overwrite"} : Open(mode)
  \/ OpenFails \/ OpenSeekFails \/ Close \/ NotOpen
  \/ \E p \in 0 .. MaxLength : SetPosition(p) \/ SetPositionRefused(p)
  \/ SetPositionLast \/ SetPositionFails
  \/ \E n \in 0 .. MaxLength : Read(n) \/ ReadFails(n)
  \/ \E n \in 0 .. MaxLength : \E d \in [1 .. n -> ByteValues] : Write(d) \/ WriteFails(d)
  \/ Truncate \/ TruncateSeekRefused \/ TruncateReopenFails \/ TruncateFails \/ Flush
================================================================================
