-------------------------------- MODULE BackEnd --------------------------------
(***************************************************************************)
(* The two classes that hold the bytes of a container.  Container calls    *)
(* them through one interface and never learns which it has: a behaviour   *)
(* is that of a FileContainer or that of a MemoryContainer.                *)
(***************************************************************************)
EXTENDS FileMedia

VARIABLES
  backEnd,  \* "file" or "memory"
  memoryBuffer, currentPosition

Memory == INSTANCE MemoryMedia

vars == <<backEnd, openMode, file, filePosition, currentFileSize, memoryBuffer, currentPosition, buffer, status>>

BackEndInit == backEnd \in {"file", "memory"} /\ Init /\ Memory!Init

FileNext   == backEnd = "file" /\ Next /\ UNCHANGED <<backEnd, memoryBuffer, currentPosition>>
MemoryNext ==
  backEnd = "memory" /\ Memory!Next
  /\ UNCHANGED <<backEnd, openMode, file, filePosition, currentFileSize>>

Spec == BackEndInit /\ [][FileNext \/ MemoryNext]_vars

------------------------------------------------------------------------------
(* What the caller sees of whichever class it has. *)
Bytes  == IF backEnd = "file" THEN file ELSE memoryBuffer
At     == IF backEnd = "file" THEN filePosition ELSE currentPosition
Answer == IF Failed(status) THEN <<-1>> ELSE buffer

(* Either class is the media that Container asks for: reads, writes and    *)
(* seeks act on one row of bytes, a failed write leaves a prefix, and the  *)
(* position stays among them, so that the unsigned size() - position is    *)
(* the distance to the end.                                                *)
AsMedia == INSTANCE Media WITH content <- Bytes, position <- At, answer <- Answer
IsMedia == AsMedia!MediaSpec
==============================================================================
