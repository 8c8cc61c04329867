--------------------------- MODULE RingBufferProofs ---------------------------
(***************************************************************************)
(* The ring buffer for every length of its array and every type of entry:  *)
(* the count is the distance of the two indices, and the segments of the   *)
(* bulk operations are the free cells and the cells in use.                *)
(***************************************************************************)
EXTENDS RingBuffer, SequenceTheorems, TLAPS

(* Moving an index on stays in the array, and moving on by n and then by m *)
(* is moving on by n + m.                                                  *)
LEMMA AdvanceInCells ==
  ASSUME NEW i \in Cells, NEW n \in 0 .. L
  PROVE  Advance(i, n) \in Cells
BY RingAssumption DEF Advance, Cells

LEMMA AdvanceTwice ==
  ASSUME NEW i \in Cells, NEW n \in 0 .. L, NEW m \in 0 .. L, n + m <= L
  PROVE  Advance(Advance(i, n), m) = Advance(i, n + m)
BY RingAssumption DEF Advance, Cells

(* Extraction shortens the distance from the other end.                    *)
LEMMA AdvanceShortens ==
  ASSUME NEW i \in Cells, NEW n \in 0 .. L, NEW m \in 0 .. n
  PROVE  Advance(Advance(i, m), n - m) = Advance(i, n)
<1>1. m \in 0 .. L /\ n - m \in 0 .. L /\ m + (n - m) = n /\ m + (n - m) <= L
  BY RingAssumption
<1> QED
  BY <1>1, AdvanceTwice

(* The segments for writing are the cells behind the entries. *)
LEMMA InsertionCells ==
  ASSUME CountIsDistance
  PROVE  /\ Room(InsertionSegments) = L - currentEntryCount
         /\ \A k \in 1 .. L - currentEntryCount :
              CellOf(InsertionSegments, k) = Advance(currentExtractionIndex, currentEntryCount + k - 1)
<1> USE RingAssumption DEF CountIsDistance, TypeOK, Cells, Advance, Room, CellOf, InsertionSegments,
        Segment, NoSegment
<1>1. CASE currentEntryCount = L
  BY <1>1
<1>2. CASE currentEntryCount # L /\ currentInsertionIndex >= currentExtractionIndex
  BY <1>2
<1>3. CASE currentEntryCount # L /\ ~(currentInsertionIndex >= currentExtractionIndex)
  BY <1>3
<1> QED
  BY <1>1, <1>2, <1>3

(* And the cells in use, from the oldest entry on. *)
LEMMA ExtractionCells ==
  ASSUME CountIsDistance
  PROVE  /\ Room(ExtractionSegments) = currentEntryCount
         /\ \A k \in 1 .. currentEntryCount :
              CellOf(ExtractionSegments, k) = Advance(currentExtractionIndex, k - 1)
<1> USE RingAssumption DEF CountIsDistance, TypeOK, Cells, Advance, Room, CellOf, ExtractionSegments,
        Segment, NoSegment
<1>1. CASE currentEntryCount = 0
  BY <1>1
<1>2. CASE currentEntryCount # 0 /\ currentInsertionIndex > currentExtractionIndex
  BY <1>2
<1>3. CASE currentEntryCount # 0 /\ ~(currentInsertionIndex > currentExtractionIndex)
  BY <1>3
<1> QED
  BY <1>1, <1>2, <1>3

(* No cell is met twice on the way round, and every cell is met. *)
LEMMA AdvanceInjective ==
  ASSUME NEW i \in Cells, NEW n \in 0 .. L - 1, NEW m \in 0 .. L - 1, Advance(i, n) = Advance(i, m)
  PROVE  n = m
BY RingAssumption DEF Advance, Cells

LEMMA AdvanceOnto ==
  ASSUME NEW i \in Cells, NEW c \in Cells
  PROVE  \E n \in 0 .. L - 1 : c = Advance(i, n)
<1> DEFINE n == IF c >= i THEN c - i ELSE c + L - i
<1>1. n \in 0 .. L - 1 /\ c = Advance(i, n)
  BY RingAssumption DEF Advance, Cells
<1> QED
  BY <1>1

------------------------------------------------------------------------------
(* The segments of the two bulk operations are the array, each cell once.  *)
LEMMA DistancePartitions ==
  ASSUME CountIsDistance
  PROVE  SegmentsPartition
<1> DEFINE e == currentExtractionIndex
           count == currentEntryCount
           free == SegmentCells(InsertionSegments)
           inUse == SegmentCells(ExtractionSegments)
<1>1. L \in Nat \ {0} /\ e \in Cells /\ count \in 0 .. L
  BY RingAssumption DEF CountIsDistance, TypeOK
<1>2. Room(InsertionSegments) = L - count /\ Room(ExtractionSegments) = count
  BY InsertionCells, ExtractionCells
<1>3. \A k \in 1 .. L - count : CellOf(InsertionSegments, k) = Advance(e, count + k - 1)
  BY InsertionCells
<1>4. \A k \in 1 .. count : CellOf(ExtractionSegments, k) = Advance(e, k - 1)
  BY ExtractionCells
<1>5. free = {Advance(e, count + k - 1) : k \in 1 .. L - count}
  BY <1>2, <1>3 DEF SegmentCells
<1>6. inUse = {Advance(e, k - 1) : k \in 1 .. count}
  BY <1>2, <1>4 DEF SegmentCells
<1>7. free \cap inUse = {}
  <2> SUFFICES ASSUME NEW k \in 1 .. L - count, NEW j \in 1 .. count,
                      Advance(e, count + k - 1) = Advance(e, j - 1)
               PROVE  FALSE
    BY <1>5, <1>6
  <2>1. count + k - 1 \in 0 .. L - 1 /\ j - 1 \in 0 .. L - 1 /\ count + k - 1 # j - 1
    BY <1>1
  <2> HIDE DEF e, count
  <2> QED
    BY <1>1, <2>1, AdvanceInjective
<1>8. free \cup inUse = Cells
  <2>1. ASSUME NEW k \in 1 .. L - count
        PROVE  Advance(e, count + k - 1) \in Cells
    <3>1. count + k - 1 \in 0 .. L
      BY <1>1
    <3> HIDE DEF e, count
    <3> QED
      BY <1>1, <3>1, AdvanceInCells
  <2>2. ASSUME NEW k \in 1 .. count
        PROVE  Advance(e, k - 1) \in Cells
    <3>1. k - 1 \in 0 .. L
      BY <1>1
    <3> HIDE DEF e, count
    <3> QED
      BY <1>1, <3>1, AdvanceInCells
  <2>3. ASSUME NEW c \in Cells
        PROVE  c \in free \cup inUse
    <3>1. PICK n \in 0 .. L - 1 : c = Advance(e, n)
      BY <1>1, AdvanceOnto
    <3>2. CASE n < count
      <4>1. n + 1 \in 1 .. count /\ (n + 1) - 1 = n
        BY <1>1, <3>2
      <4> QED
        BY <1>6, <3>1, <4>1
    <3>3. CASE n >= count
      <4>1. n - count + 1 \in 1 .. L - count /\ count + (n - count + 1) - 1 = n
        BY <1>1, <3>3
      <4> QED
        BY <1>5, <3>1, <4>1
    <3> QED
      BY <1>1, <3>2, <3>3
  <2> QED
    BY <1>5, <1>6, <2>1, <2>2, <2>3
<1> QED
  BY <1>2, <1>7, <1>8 DEF SegmentsPartition

------------------------------------------------------------------------------
(* What is extracted alone is a sequence of one entry. *)
LEMMA OneEntry == ASSUME NEW v \in Entries PROVE <<v>> \in Seq(Entries)
OBVIOUS

(* An empty ring buffer has both indices in one cell. *)
LEMMA DistanceAtInit == Init => CountIsDistance
BY RingAssumption DEF Init, CountIsDistance, TypeOK, Cells, Advance

(* Every operation moves the count with the index that it moves. *)
LEMMA DistanceStep == CountIsDistance /\ [Next]_ringVars => CountIsDistance'
<1> SUFFICES ASSUME CountIsDistance, [Next]_ringVars
             PROVE  CountIsDistance'
  OBVIOUS
<1>1. L \in Nat \ {0} /\ Default \in Entries
  BY RingAssumption
<1>2. TypeOK /\ currentInsertionIndex = Advance(currentExtractionIndex, currentEntryCount)
  BY DEF CountIsDistance
<1>3. ASSUME NEW v \in Entries, Insert(v)
      PROVE  CountIsDistance'
  <2>1. CASE currentEntryCount < L
    <3>1. currentEntryCount + 1 \in 0 .. L /\ 1 \in 0 .. L
      BY <1>1, <1>2, <2>1 DEF TypeOK
    <3>2. currentInsertionIndex' \in Cells
      BY <1>2, <1>3, <2>1, <3>1, AdvanceInCells DEF Insert, TypeOK
    <3>3. currentInsertionIndex' = Advance(currentExtractionIndex, currentEntryCount + 1)
      BY <1>2, <1>3, <2>1, <3>1, AdvanceTwice DEF Insert, TypeOK
    <3> QED
      BY <1>2, <1>3, <2>1, <3>1, <3>2, <3>3 DEF Insert, CountIsDistance, TypeOK
  <2>2. CASE ~(currentEntryCount < L)
    BY <1>2, <1>3, <2>2 DEF Insert, CountIsDistance, TypeOK
  <2> QED
    BY <2>1, <2>2
<1>4. CASE Extract
  <2>1. CASE currentEntryCount > 0
    <3>1. currentEntryCount - 1 \in 0 .. L /\ 1 \in 0 .. L /\ 1 \in 0 .. currentEntryCount
      BY <1>1, <1>2, <2>1 DEF TypeOK
    <3>2. currentExtractionIndex' \in Cells
      BY <1>2, <1>4, <2>1, <3>1, AdvanceInCells DEF Extract, TypeOK
    <3>3. currentInsertionIndex = Advance(Advance(currentExtractionIndex, 1), currentEntryCount - 1)
      BY <1>2, <3>1, AdvanceShortens DEF TypeOK
    <3>4. out' = <<buffer[currentExtractionIndex]>> /\ buffer[currentExtractionIndex] \in Entries
      BY <1>2, <1>4, <2>1 DEF Extract, TypeOK
    <3>5. out' \in Seq(Entries)
      BY <3>4, OneEntry
    <3> QED
      BY <1>2, <1>4, <2>1, <3>1, <3>2, <3>3, <3>5 DEF Extract, CountIsDistance, TypeOK
  <2>2. CASE ~(currentEntryCount > 0)
    <3>1. out' \in Seq(Entries)
      BY <1>1, <1>4, <2>2, OneEntry DEF Extract
    <3> QED
      BY <1>2, <1>4, <2>2, <3>1 DEF Extract, CountIsDistance, TypeOK
  <2> QED
    BY <2>1, <2>2
<1>5. ASSUME NEW k \in Cells, Snoop(k)
      PROVE  CountIsDistance'
  <2>1. (currentExtractionIndex + k) % L \in Cells
    BY <1>1, <1>2 DEF TypeOK, Cells
  <2> QED
    BY <1>2, <1>5, <2>1 DEF Snoop, CountIsDistance, TypeOK
<1>6. ASSUME NEW n \in 0 .. L, NEW s \in [1 .. n -> Entries], BulkInsert(s)
      PROVE  CountIsDistance'
  <2>1. Len(s) = n /\ n + currentEntryCount \in 0 .. L /\ currentEntryCount + n <= L
    BY <1>1, <1>2, <1>6 DEF BulkInsert, TypeOK
  <2>2. buffer' \in [Cells -> Entries]
    <3> SUFFICES ASSUME NEW c \in Cells, \E k \in 1 .. n : CellOf(InsertionSegments, k) = c
                 PROVE  s[CHOOSE k \in 1 .. n : CellOf(InsertionSegments, k) = c] \in Entries
      BY <1>2, <1>6, <2>1 DEF BulkInsert, TypeOK
    <3> QED
      OBVIOUS
  <2>3. currentInsertionIndex' \in Cells
    BY <1>2, <1>6, <2>1, AdvanceInCells DEF BulkInsert, TypeOK
  <2>4. currentInsertionIndex' = Advance(currentExtractionIndex, currentEntryCount + n)
    BY <1>2, <1>6, <2>1, AdvanceTwice DEF BulkInsert, TypeOK
  <2> QED
    BY <1>2, <1>6, <2>1, <2>2, <2>3, <2>4 DEF BulkInsert, CountIsDistance, TypeOK
<1>7. ASSUME NEW n \in 0 .. L, BulkExtract(n)
      PROVE  CountIsDistance'
  <2>1. n \in 0 .. currentEntryCount /\ currentEntryCount - n \in 0 .. L
    BY <1>1, <1>2, <1>7 DEF BulkExtract, TypeOK
  <2>2. currentExtractionIndex' \in Cells
    BY <1>2, <1>7, AdvanceInCells DEF BulkExtract, TypeOK
  <2>3. currentInsertionIndex = Advance(Advance(currentExtractionIndex, n), currentEntryCount - n)
    BY <1>2, <2>1, AdvanceShortens DEF TypeOK
  <2>4. ASSUME NEW k \in 1 .. n
        PROVE  CellOf(ExtractionSegments, k) \in Cells
    <3>1. k \in 1 .. currentEntryCount /\ k - 1 \in 0 .. L
      BY <1>1, <1>2, <2>1 DEF TypeOK
    <3>2. CellOf(ExtractionSegments, k) = Advance(currentExtractionIndex, k - 1)
      BY <3>1, ExtractionCells
    <3> QED
      BY <1>2, <3>1, <3>2, AdvanceInCells DEF TypeOK
  <2>5. out' \in Seq(Entries)
    <3>1. out' \in [1 .. n -> Entries]
      BY <1>2, <1>7, <2>4 DEF BulkExtract, TypeOK
    <3> QED
      BY <3>1
  <2> QED
    BY <1>2, <1>7, <2>1, <2>2, <2>3, <2>5 DEF BulkExtract, CountIsDistance, TypeOK
<1>8. ASSUME NEW n \in 0 .. L, BulkRefused(n)
      PROVE  CountIsDistance'
  BY <1>2, <1>8 DEF BulkRefused, CountIsDistance, TypeOK
<1>9. CASE Clear
  BY <1>1, <1>2, <1>9 DEF Clear, CountIsDistance, TypeOK, Cells, Advance
<1>10. CASE UNCHANGED ringVars
  BY <1>2, <1>10 DEF ringVars, CountIsDistance, TypeOK
<1> QED
  BY <1>3, <1>4, <1>5, <1>6, <1>7, <1>8, <1>9, <1>10 DEF Next

------------------------------------------------------------------------------
(* Full and empty buffers have the same indices; the count, kept apart by  *)
(* every operation of ring_buffer.h, always is their distance.             *)
THEOREM CountCorrect == Spec => []CountIsDistance
BY DistanceAtInit, DistanceStep, PTL DEF Spec

(* bulkInsertionStart hands out exactly the cells that bulkExtractionStart *)
(* does not: a bulk insertion overwrites nothing that is still to be read. *)
THEOREM SegmentsCorrect == Spec => []SegmentsPartition
BY CountCorrect, DistancePartitions, PTL

------------------------------------------------------------------------------
(* The entries in the order of their insertion, from the extraction index. *)
LEMMA ContentIs ==
  ASSUME CountIsDistance
  PROVE  /\ Content \in Seq(Entries) /\ Len(Content) = currentEntryCount
         /\ \A k \in 1 .. currentEntryCount : Content[k] = buffer[Advance(currentExtractionIndex, k - 1)]
<1>1. L \in Nat \ {0} /\ TypeOK
  BY RingAssumption DEF CountIsDistance
<1>2. ASSUME NEW k \in 1 .. currentEntryCount
      PROVE  buffer[Advance(currentExtractionIndex, k - 1)] \in Entries
  <2>1. k - 1 \in 0 .. L
    BY <1>1 DEF TypeOK
  <2> QED
    BY <1>1, <2>1, AdvanceInCells DEF TypeOK
<1>3. Content \in [1 .. currentEntryCount -> Entries]
  BY <1>2 DEF Content
<1> QED
  BY <1>1, <1>3 DEF Content, TypeOK

(* n entries come out in front: those behind them are what is left. *)
LEMMA ContentGet ==
  ASSUME CountIsDistance, CountIsDistance', NEW n \in 0 .. currentEntryCount,
         buffer' = buffer,
         currentExtractionIndex' = Advance(currentExtractionIndex, n),
         currentEntryCount' = currentEntryCount - n
  PROVE  Content' = SubSeq(Content, n + 1, Len(Content))
<1>1. L \in Nat \ {0} /\ TypeOK
  BY RingAssumption DEF CountIsDistance
<1>2. ASSUME NEW k \in 1 .. currentEntryCount - n
      PROVE  Content'[k] = Content[n + k]
  <2>1. n \in 0 .. L /\ k - 1 \in 0 .. L /\ n + (k - 1) <= L /\ n + k \in 1 .. currentEntryCount
        /\ n + (k - 1) = (n + k) - 1
    BY <1>1 DEF TypeOK
  <2>2. Content[n + k] = buffer[Advance(currentExtractionIndex, (n + k) - 1)]
    BY <2>1, ContentIs
  <2>3. Content'[k] = buffer[Advance(Advance(currentExtractionIndex, n), k - 1)]
    BY DEF Content, Advance
  <2>4. Advance(Advance(currentExtractionIndex, n), k - 1) = Advance(currentExtractionIndex, n + (k - 1))
    BY <1>1, <2>1, AdvanceTwice DEF TypeOK
  <2> QED
    BY <2>1, <2>2, <2>3, <2>4
<1>3. Content' = [k \in 1 .. currentEntryCount - n |-> Content'[k]]
  BY DEF Content
<1>4. SubSeq(Content, n + 1, Len(Content)) = [k \in 1 .. currentEntryCount - n |-> Content[n + k]]
  BY <1>1, ContentIs DEF TypeOK
<1> QED
  BY <1>2, <1>3, <1>4

(* What is written behind the entries comes after them. *)
LEMMA ContentPut ==
  ASSUME CountIsDistance, CountIsDistance', NEW n \in 0 .. L - currentEntryCount, NEW s \in [1 .. n -> Entries],
         \A k \in 1 .. n : buffer'[Advance(currentExtractionIndex, currentEntryCount + k - 1)] = s[k],
         \A k \in 1 .. currentEntryCount :
           buffer'[Advance(currentExtractionIndex, k - 1)] = buffer[Advance(currentExtractionIndex, k - 1)],
         currentExtractionIndex' = currentExtractionIndex,
         currentEntryCount' = currentEntryCount + n
  PROVE  Content' = Content \o s
<1>1. L \in Nat \ {0} /\ TypeOK
  BY RingAssumption DEF CountIsDistance
<1>2. Content' = [k \in 1 .. currentEntryCount + n |-> buffer'[Advance(currentExtractionIndex, k - 1)]]
  BY DEF Content, Advance
<1>3. s \in Seq(Entries) /\ Len(s) = n /\ Content \in Seq(Entries) /\ Len(Content) = currentEntryCount
  BY <1>1, ContentIs DEF TypeOK
<1>4. /\ Content \o s = [k \in 1 .. currentEntryCount + n |-> (Content \o s)[k]]
      /\ \A k \in 1 .. currentEntryCount + n :
           (Content \o s)[k] = IF k <= currentEntryCount THEN Content[k] ELSE s[k - currentEntryCount]
  <2>1. /\ Content \o s \in Seq(Entries) /\ Len(Content \o s) = currentEntryCount + n
        /\ \A k \in 1 .. currentEntryCount + n :
             (Content \o s)[k] = IF k <= currentEntryCount THEN Content[k] ELSE s[k - currentEntryCount]
    BY <1>3, ConcatProperties
  <2>2. Content \o s \in [1 .. Len(Content \o s) -> Entries]
    BY <2>1, LenProperties
  <2> QED
    BY <2>1, <2>2
<1>5. ASSUME NEW k \in 1 .. currentEntryCount + n
      PROVE  buffer'[Advance(currentExtractionIndex, k - 1)] = (Content \o s)[k]
  <2>1. CASE k <= currentEntryCount
    <3>1. k \in 1 .. currentEntryCount
      BY <1>1, <2>1 DEF TypeOK
    <3> QED
      BY <1>4, <2>1, <3>1, ContentIs
  <2>2. CASE ~(k <= currentEntryCount)
    <3>1. k - currentEntryCount \in 1 .. n /\ currentEntryCount + (k - currentEntryCount) - 1 = k - 1
      BY <1>1, <2>2 DEF TypeOK
    <3>2. buffer'[Advance(currentExtractionIndex, currentEntryCount + (k - currentEntryCount) - 1)]
            = s[k - currentEntryCount]
      BY <3>1
    <3> QED
      BY <1>4, <2>2, <3>1, <3>2
  <2> QED
    BY <2>1, <2>2
<1> QED
  BY <1>2, <1>4, <1>5

(* The new ring buffer is the empty queue. *)
LEMMA InitIsQueue == Init => Queue!Init
BY DEF Init, Queue!Init, Content

(* Each operation of the ring buffer is one of the queue. *)
LEMMA StepIsQueue ==
  ASSUME CountIsDistance, CountIsDistance', [Next]_ringVars
  PROVE  [Queue!Next]_<<Content, out>>
<1>1. L \in Nat \ {0} /\ Default \in Entries /\ TypeOK /\ currentEntryCount \in 0 .. L
  BY RingAssumption DEF CountIsDistance, TypeOK
<1>2. currentInsertionIndex = Advance(currentExtractionIndex, currentEntryCount)
  BY DEF CountIsDistance
<1>3. Content \in Seq(Entries) /\ Len(Content) = currentEntryCount
  BY ContentIs
<1>4. ASSUME NEW k \in 1 .. currentEntryCount, NEW j \in 1 .. L - currentEntryCount
      PROVE  Advance(currentExtractionIndex, k - 1) # Advance(currentExtractionIndex, currentEntryCount + j - 1)
  <2>1. k - 1 \in 0 .. L - 1 /\ currentEntryCount + j - 1 \in 0 .. L - 1 /\ k - 1 # currentEntryCount + j - 1
    BY <1>1
  <2> QED
    BY <1>1, <2>1, AdvanceInjective DEF TypeOK
<1>5. \A k \in 1 .. currentEntryCount : Advance(currentExtractionIndex, k - 1) \in Cells
  <2> TAKE k \in 1 .. currentEntryCount
  <2>1. k - 1 \in 0 .. L
    BY <1>1
  <2> QED
    BY <1>1, <2>1, AdvanceInCells DEF TypeOK
<1>6. ASSUME UNCHANGED <<buffer, currentExtractionIndex, currentEntryCount>>
      PROVE  Content' = Content
  BY <1>6 DEF Content, Advance
<1>7. ASSUME NEW v \in Entries, Insert(v)
      PROVE  Queue!Next
  <2>1. CASE currentEntryCount < L
    <3> DEFINE s == [k \in 1 .. 1 |-> v]
    <3>1. 1 \in 0 .. L - currentEntryCount /\ 1 \in 1 .. L - currentEntryCount /\ s \in [1 .. 1 -> Entries]
      BY <1>1, <2>1
    <3>2. buffer'[Advance(currentExtractionIndex, currentEntryCount + 1 - 1)] = s[1]
      BY <1>1, <1>2, <1>7, <2>1 DEF Insert, TypeOK
    <3>3. ASSUME NEW k \in 1 .. currentEntryCount
          PROVE  buffer'[Advance(currentExtractionIndex, k - 1)] = buffer[Advance(currentExtractionIndex, k - 1)]
      <4>1. Advance(currentExtractionIndex, k - 1) # Advance(currentExtractionIndex, currentEntryCount + 1 - 1)
        BY <1>4, <3>1
      <4>2. Advance(currentExtractionIndex, k - 1) # currentInsertionIndex
        BY <1>1, <1>2, <4>1
      <4> QED
        BY <1>1, <1>5, <1>7, <2>1, <4>2 DEF Insert, TypeOK
    <3>4. Content' = Content \o s
      <4>1. \A k \in 1 .. 1 : buffer'[Advance(currentExtractionIndex, currentEntryCount + k - 1)] = s[k]
        BY <3>2
      <4>2. currentExtractionIndex' = currentExtractionIndex /\ currentEntryCount' = currentEntryCount + 1
        BY <1>7, <2>1 DEF Insert
      <4> HIDE DEF s
      <4> QED
        BY <3>1, <3>3, <4>1, <4>2, ContentPut
    <3>5. Len(s) = 1 /\ Len(Content) + Len(s) <= L /\ out' = <<>>
      BY <1>1, <1>3, <1>7, <2>1 DEF Insert
    <3>6. Queue!Put(s)
      BY <3>4, <3>5 DEF Queue!Put
    <3>7. 1 \in 0 .. L
      BY <1>1
    <3> HIDE DEF s
    <3> QED
      BY <3>1, <3>6, <3>7 DEF Queue!Next
  <2>2. CASE ~(currentEntryCount < L)
    <3>1. Content' = Content /\ out' = <<>>
      BY <1>6, <1>7, <2>2 DEF Insert
    <3> QED
      BY <3>1 DEF Queue!Next, Queue!Refuse
  <2> QED
    BY <2>1, <2>2
<1>8. CASE Extract
  <2>1. CASE currentEntryCount > 0
    <3>1. 1 \in 0 .. currentEntryCount /\ 1 \in 0 .. L /\ 1 \in 1 .. currentEntryCount
      BY <1>1, <2>1
    <3>2. Content' = SubSeq(Content, 1 + 1, Len(Content))
      BY <1>8, <2>1, <3>1, ContentGet DEF Extract
    <3>3. Content[1] = buffer[currentExtractionIndex]
      <4>1. Advance(currentExtractionIndex, 1 - 1) = currentExtractionIndex
        BY <1>1 DEF Advance, TypeOK, Cells
      <4> QED
        BY <3>1, <4>1, ContentIs
    <3>4. out' = SubSeq(Content, 1, 1)
      BY <1>3, <1>8, <2>1, <3>1, <3>3 DEF Extract
    <3>5. Queue!Get(1)
      BY <1>3, <2>1, <3>1, <3>2, <3>4 DEF Queue!Get
    <3> QED
      BY <3>1, <3>5 DEF Queue!Next
  <2>2. CASE ~(currentEntryCount > 0)
    <3>1. Content' = Content
      BY <1>6, <1>8, <2>2 DEF Extract
    <3>2. Content = <<>> /\ out' = <<Default>>
      BY <1>1, <1>3, <1>8, <2>2 DEF Extract
    <3> QED
      BY <3>1, <3>2 DEF Queue!Next, Queue!GetNothing
  <2> QED
    BY <2>1, <2>2
<1>9. ASSUME NEW k \in Cells, Snoop(k)
      PROVE  Queue!Next
  <2>1. k + 1 \in 1 .. currentEntryCount /\ k \in 0 .. L - 1
    BY <1>1, <1>9 DEF Snoop, Cells
  <2>2. (currentExtractionIndex + k) % L = Advance(currentExtractionIndex, k)
    BY <1>1, <2>1 DEF Advance, TypeOK, Cells
  <2>3. Content[k + 1] = buffer[Advance(currentExtractionIndex, (k + 1) - 1)] /\ (k + 1) - 1 = k
    BY <1>1, <2>1, ContentIs
  <2>4. Content' = Content
    BY <1>6, <1>9 DEF Snoop
  <2>5. Queue!Look(k)
    BY <1>3, <1>9, <2>2, <2>3, <2>4 DEF Queue!Look, Snoop
  <2> QED
    BY <2>1, <2>5 DEF Queue!Next
<1>10. ASSUME NEW n \in 0 .. L, NEW s \in [1 .. n -> Entries], BulkInsert(s)
       PROVE  Queue!Next
  <2>1. Len(s) = n /\ n \in 0 .. L - currentEntryCount
    BY <1>1, <1>10 DEF BulkInsert
  <2>2. \A k \in 1 .. L - currentEntryCount :
          CellOf(InsertionSegments, k) = Advance(currentExtractionIndex, currentEntryCount + k - 1)
    BY InsertionCells
  <2>3. \A k \in 1 .. n : k \in 1 .. L - currentEntryCount
    BY <1>1, <2>1
  <2>4. ASSUME NEW k \in 1 .. n
        PROVE  buffer'[Advance(currentExtractionIndex, currentEntryCount + k - 1)] = s[k]
    <3>1. CellOf(InsertionSegments, k) = Advance(currentExtractionIndex, currentEntryCount + k - 1)
      BY <2>2, <2>3
    <3>2. CellOf(InsertionSegments, k) \in Cells
      <4>1. currentEntryCount + k - 1 \in 0 .. L
        BY <1>1, <2>3
      <4> QED
        BY <1>1, <3>1, <4>1, AdvanceInCells DEF TypeOK
    <3>3. ASSUME NEW j \in 1 .. n, CellOf(InsertionSegments, j) = CellOf(InsertionSegments, k)
          PROVE  j = k
      <4>1. Advance(currentExtractionIndex, currentEntryCount + j - 1)
              = Advance(currentExtractionIndex, currentEntryCount + k - 1)
        BY <2>2, <2>3, <3>3
      <4>2. currentEntryCount + j - 1 \in 0 .. L - 1 /\ currentEntryCount + k - 1 \in 0 .. L - 1
        BY <1>1, <2>3
      <4>3. currentEntryCount + j - 1 = currentEntryCount + k - 1
        BY <1>1, <4>1, <4>2, AdvanceInjective DEF TypeOK
      <4> QED
        BY <1>1, <4>3
    <3>4. (CHOOSE j \in 1 .. n : CellOf(InsertionSegments, j) = CellOf(InsertionSegments, k)) = k
      BY <3>3
    <3> QED
      BY <1>10, <2>1, <3>1, <3>2, <3>4 DEF BulkInsert
  <2>5. ASSUME NEW k \in 1 .. currentEntryCount
        PROVE  buffer'[Advance(currentExtractionIndex, k - 1)] = buffer[Advance(currentExtractionIndex, k - 1)]
    <3>1. ~\E j \in 1 .. n : CellOf(InsertionSegments, j) = Advance(currentExtractionIndex, k - 1)
      BY <1>4, <2>2, <2>3
    <3> QED
      BY <1>5, <1>10, <2>1, <3>1 DEF BulkInsert
  <2>6. Content' = Content \o s
    BY <1>10, <2>1, <2>4, <2>5, ContentPut DEF BulkInsert
  <2>7. Queue!Put(s)
    BY <1>1, <1>3, <1>10, <2>1, <2>6 DEF Queue!Put, BulkInsert
  <2> QED
    BY <2>7 DEF Queue!Next
<1>11. ASSUME NEW n \in 0 .. L, BulkExtract(n)
       PROVE  Queue!Next
  <2>1. n \in 0 .. currentEntryCount
    BY <1>1, <1>11 DEF BulkExtract
  <2>2. Content' = SubSeq(Content, n + 1, Len(Content))
    BY <1>11, <2>1, ContentGet DEF BulkExtract
  <2>3. ASSUME NEW k \in 1 .. n
        PROVE  buffer[CellOf(ExtractionSegments, k)] = Content[k]
    <3>1. k \in 1 .. currentEntryCount
      BY <1>1, <2>1
    <3> QED
      BY <3>1, ExtractionCells, ContentIs
  <2>4. SubSeq(Content, 1, n) = [k \in 1 .. n |-> Content[k]]
    BY <1>1, <1>3, <2>1
  <2>5. out' = SubSeq(Content, 1, n)
    BY <1>11, <2>3, <2>4 DEF BulkExtract
  <2>6. Queue!Get(n)
    BY <1>1, <1>3, <2>1, <2>2, <2>5 DEF Queue!Get
  <2> QED
    BY <2>6 DEF Queue!Next
<1>12. ASSUME NEW n \in 0 .. L, BulkRefused(n)
       PROVE  Queue!Next
  BY <1>6, <1>12 DEF BulkRefused, Queue!Next, Queue!Refuse
<1>13. CASE Clear
  BY <1>13 DEF Clear, Content, Queue!Next, Queue!Clear
<1>14. CASE UNCHANGED ringVars
  BY <1>6, <1>14 DEF ringVars
<1> QED
  BY <1>7, <1>8, <1>9, <1>10, <1>11, <1>12, <1>13, <1>14 DEF Next

(* The ring buffer implements the bounded queue: entries leave in the      *)
(* order they came in, by whichever of the two interfaces.                 *)
THEOREM ImplementsQueue == Spec => IsQueue
<1>1. Spec => Queue!Init
  BY InitIsQueue DEF Spec
<1>2. CountIsDistance /\ CountIsDistance' /\ [Next]_ringVars => [Queue!Next]_<<Content, out>>
  BY StepIsQueue
<1> QED
  BY <1>1, <1>2, CountCorrect, PTL DEF Spec, IsQueue, Queue!Spec
===============================================================================
