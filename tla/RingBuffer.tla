------------------------------ MODULE RingBuffer ------------------------------
(***************************************************************************)
(* RingBuffer<T, L>: single and bulk insertion and extraction over a       *)
(* circular array.  A bulk operation is the pair of segments that          *)
(* bulk...Start hands out, the caller's use of their front, and            *)
(* bulk...Finish.                                                          *)
(***************************************************************************)
EXTENDS Integers, Sequences

CONSTANTS
  Entries,  \* the values of type T
  Default,  \* T()
  L         \* bufferLength

ASSUME RingAssumption == L \in Nat \ {0} /\ Default \in Entries

VARIABLES
  buffer, currentInsertionIndex, currentExtractionIndex, currentEntryCount,
  out  \* what the last operation handed to its caller

ringVars == <<buffer, currentInsertionIndex, currentExtractionIndex, currentEntryCount, out>>

Cells == 0 .. L - 1

TypeOK ==
  /\ buffer \in [Cells -> Entries]
  /\ currentInsertionIndex \in Cells
  /\ currentExtractionIndex \in Cells
  /\ currentEntryCount \in 0 .. L
  /\ out \in Seq(Entries)

Init ==
  /\ buffer = [i \in Cells |-> Default]
  /\ currentInsertionIndex = 0 /\ currentExtractionIndex = 0 /\ currentEntryCount = 0
  /\ out = <<>>

(* An index moved on by n <= L cells. *)
Advance(index, n) == IF index + n >= L THEN index + n - L ELSE index + n

(* A segment is its first cell and its length. *)
Segment(p, l) == [first |-> p, length |-> l]
NoSegment     == Segment(0, 0)

(* Mutated form: the second segment is as long as the array. *)
InsertionSegmentsLong ==
  IF currentEntryCount = L THEN <<NoSegment, NoSegment>>
  ELSE IF currentInsertionIndex >= currentExtractionIndex
  THEN <<Segment(currentInsertionIndex, L - currentInsertionIndex), Segment(0, L)>>
  ELSE <<Segment(currentInsertionIndex, L - currentEntryCount), NoSegment>>

(* bulkInsertionStart: the free cells, in the order to fill them. *)
InsertionSegments ==
  IF currentEntryCount = L THEN <<NoSegment, NoSegment>>
  ELSE IF currentInsertionIndex >= currentExtractionIndex
  THEN <<Segment(currentInsertionIndex, L - currentInsertionIndex),
         Segment(0, currentExtractionIndex)>>
  ELSE <<Segment(currentInsertionIndex, L - currentEntryCount), NoSegment>>

(* Mutated form: the part before the wrap is handed out last. *)
ExtractionSegmentsSwapped ==
  IF currentEntryCount = 0 THEN <<NoSegment, NoSegment>>
  ELSE IF currentInsertionIndex > currentExtractionIndex
  THEN <<Segment(currentExtractionIndex, currentEntryCount), NoSegment>>
  ELSE <<Segment(0, currentInsertionIndex),
         Segment(currentExtractionIndex, L - currentExtractionIndex)>>

(* bulkExtractionStart: the cells in use, in the order to read them. *)
ExtractionSegments ==
  IF currentEntryCount = 0 THEN <<NoSegment, NoSegment>>
  ELSE IF currentInsertionIndex > currentExtractionIndex
  THEN <<Segment(currentExtractionIndex, currentEntryCount), NoSegment>>
  ELSE <<Segment(currentExtractionIndex, L - currentExtractionIndex),
         Segment(0, currentInsertionIndex)>>

(* The k-th cell (from 1) of a pair of segments, and how many there are. *)
CellOf(pair, k) ==
  IF k <= pair[1].length THEN pair[1].first + k - 1 ELSE pair[2].first + k - pair[1].length - 1
Room(pair) == pair[1].length + pair[2].length

------------------------------------------------------------------------------
Insert(v) ==
  /\ IF currentEntryCount < L
     THEN /\ buffer' = [buffer EXCEPT ![currentInsertionIndex] = v]
          /\ currentInsertionIndex' = Advance(currentInsertionIndex, 1)
          /\ currentEntryCount' = currentEntryCount + 1
     ELSE UNCHANGED <<buffer, currentInsertionIndex, currentEntryCount>>
  /\ out' = <<>>
  /\ UNCHANGED currentExtractionIndex

Extract ==
  /\ IF currentEntryCount > 0
     THEN /\ out' = <<buffer[currentExtractionIndex]>>
          /\ currentExtractionIndex' = Advance(currentExtractionIndex, 1)
          /\ currentEntryCount' = currentEntryCount - 1
     ELSE out' = <<Default>> /\ UNCHANGED <<currentExtractionIndex, currentEntryCount>>
  /\ UNCHANGED <<buffer, currentInsertionIndex>>

(* The array the index wraps around in is never asked past its entries. *)
Snoop(offset) ==
  /\ offset < currentEntryCount
  /\ out' = <<buffer[(currentExtractionIndex + offset) % L]>>
  /\ UNCHANGED <<buffer, currentInsertionIndex, currentExtractionIndex, currentEntryCount>>

(* The caller writes s into the front of the segments and finishes. *)
BulkInsert(s) ==
  /\ Len(s) <= Room(InsertionSegments)
  /\ Len(s) <= L - currentEntryCount
  /\ buffer' = [c \in Cells |->
                  IF \E k \in 1 .. Len(s) : CellOf(InsertionSegments, k) = c
                  THEN s[CHOOSE k \in 1 .. Len(s) : CellOf(InsertionSegments, k) = c]
                  ELSE buffer[c]]
  /\ currentInsertionIndex' = Advance(currentInsertionIndex, Len(s))
  /\ currentEntryCount' = currentEntryCount + Len(s)
  /\ out' = <<>>
  /\ UNCHANGED currentExtractionIndex

(* bulkInsertionFinish and bulkExtractionFinish refuse a count too large. *)
BulkRefused(n) ==
  /\ n > L - currentEntryCount \/ n > currentEntryCount
  /\ out' = <<>>
  /\ UNCHANGED <<buffer, currentInsertionIndex, currentExtractionIndex, currentEntryCount>>

(* The caller reads n entries from the front of the segments and finishes. *)
BulkExtract(n) ==
  /\ n <= Room(ExtractionSegments)
  /\ n <= currentEntryCount
  /\ out' = [k \in 1 .. n |-> buffer[CellOf(ExtractionSegments, k)]]
  /\ currentExtractionIndex' = Advance(currentExtractionIndex, n)
  /\ currentEntryCount' = currentEntryCount - n
  /\ UNCHANGED <<buffer, currentInsertionIndex>>

(* Mutated form: the count is not reset. *)
ClearIndices ==
  /\ currentInsertionIndex' = 0 /\ currentExtractionIndex' = 0
  /\ out' = <<>>
  /\ UNCHANGED <<buffer, currentEntryCount>>

Clear ==
  /\ currentInsertionIndex' = 0 /\ currentExtractionIndex' = 0 /\ currentEntryCount' = 0
  /\ out' = <<>>
  /\ UNCHANGED buffer

Next ==
  \/ \E v \in Entries : Insert(v)
  \/ Extract
  \/ \E k \in Cells : Snoop(k)
  \/ \E n \in 0 .. L : \E s \in [1 .. n -> Entries] : BulkInsert(s)
  \/ \E n \in 0 .. L : BulkExtract(n) \/ BulkRefused(n)
  \/ Clear

Spec == Init /\ [][Next]_ringVars

------------------------------------------------------------------------------
(* The entries, oldest first. *)
Content ==
  [k \in 1 .. currentEntryCount |-> buffer[Advance(currentExtractionIndex, k - 1)]]

(* The count tells a full buffer from an empty one: the insertion index is *)
(* always count cells after the extraction index, and both in the array.   *)
CountIsDistance ==
  TypeOK /\ currentInsertionIndex = Advance(currentExtractionIndex, currentEntryCount)

(* The segments handed out for writing and those for reading share no cell *)
(* and together are the array.                                             *)
SegmentCells(pair) == {CellOf(pair, k) : k \in 1 .. Room(pair)}
SegmentsPartition ==
  /\ Room(InsertionSegments) = L - currentEntryCount
  /\ Room(ExtractionSegments) = currentEntryCount
  /\ SegmentCells(InsertionSegments) \cap SegmentCells(ExtractionSegments) = {}
  /\ SegmentCells(InsertionSegments) \cup SegmentCells(ExtractionSegments) = Cells

(* The ring buffer is a bounded queue: what goes in by either interface    *)
(* comes out by either, in order, and snoop looks ahead of extract.        *)
Queue == INSTANCE Fifo WITH Capacity <- L, queue <- Content
IsQueue == Queue!Spec
==============================================================================
