----------------------------- MODULE BackEndProofs -----------------------------
(***************************************************************************)
(* Both back ends are the media that Container asks for, for every set of  *)
(* byte values and every length, whatever stdio calls fail, as long as     *)
(* truncate() is called where the media ends: the only such call of the    *)
(* library that a FileContainer gets.                                      *)
(***************************************************************************)
EXTENDS BackEnd, DataLemmas

(* The position and the size the file class counts never pass the end of   *)
(* the bytes: no write leaves a gap.                                       *)
FileInv ==
  /\ file \in Seq(ByteValues) /\ Len(file) <= MaxLength
  /\ filePosition \in 0 .. Len(file) /\ currentFileSize \in 0 .. Len(file)

MemoryInv ==
  /\ memoryBuffer \in Seq(ByteValues) /\ Len(memoryBuffer) <= MaxLength
  /\ currentPosition \in 0 .. Len(memoryBuffer)

BackEndInv == FileInv /\ MemoryInv

------------------------------------------------------------------------------
(* Which answers are refusals. *)
LEMMA AnswersLemma ==
  /\ ~Failed(NoStatus)
  /\ \A n : ~Failed(ReadSuccessful(n)) /\ ~Failed(WriteSuccessful(n))
  /\ Failed(SeekError) /\ Failed(InvalidOpenMode) /\ Failed(FileContainerNotOpen)
  /\ Failed(FailedToOpenFile) /\ Failed(FileCloseError) /\ Failed(FileReadError)
  /\ Failed(FileWriteError) /\ Failed(FileTruncateError) /\ Failed(FileFlushError)
BY DEF Failed, Recoverable, NoStatus, StatusPimpl, ErrorPimpl, Pimpl, WithCode, FilesystemStatus,
       FilesystemError, ReadSuccessful, WriteSuccessful, SeekError, InvalidOpenMode,
       FileContainerNotOpen, FailedToOpenFile, FileCloseError, FileReadError, FileWriteError,
       FileTruncateError, FileFlushError

(* Bytes written at a position among s: those of d there, those of s       *)
(* elsewhere.                                                              *)
LEMMA OverwrittenLemma ==
  ASSUME NEW B, NEW s \in Seq(B), NEW p \in 0 .. Len(s), NEW d \in Seq(B)
  PROVE  LET o == AsMedia!Overwritten(s, p, d)
         IN  /\ o \in Seq(B)
             /\ Len(o) = IF Len(s) < p + Len(d) THEN p + Len(d) ELSE Len(s)
             /\ \A i \in 1 .. Len(o) :
                  o[i] = IF p < i /\ i <= p + Len(d) THEN d[i - p] ELSE s[i]
<1> DEFINE a == SubSeq(s, 1, p)
           c == SubSeq(s, p + Len(d) + 1, Len(s))
<1>1. Len(s) \in Nat /\ Len(d) \in Nat /\ p \in Nat /\ p <= Len(s)
  BY LenProperties
<1>2. a \in Seq(B) /\ Len(a) = p /\ \A i \in 1 .. p : a[i] = s[i]
  BY <1>1, ElementOfSeq, SubSeqProperties
<1>3. /\ c \in Seq(B)
      /\ Len(c) = IF p + Len(d) + 1 <= Len(s) THEN Len(s) - (p + Len(d)) ELSE 0
      /\ \A i \in 1 .. Len(s) - (p + Len(d)) : c[i] = s[p + Len(d) + i]
  <2>1. \A i \in p + Len(d) + 1 .. Len(s) : s[i] \in B
    BY <1>1, ElementOfSeq
  <2> QED BY <1>1, <2>1, SubSeqProperties
<1> HIDE DEF a, c
<1> DEFINE w == a \o d
           o == w \o c
<1>4. /\ w \in Seq(B) /\ Len(w) = p + Len(d)
      /\ \A i \in 1 .. p + Len(d) : w[i] = IF i <= p THEN a[i] ELSE d[i - p]
  BY <1>2, ConcatProperties
<1> HIDE DEF w
<1>5. /\ o \in Seq(B) /\ Len(o) = Len(w) + Len(c)
      /\ \A i \in 1 .. Len(w) + Len(c) : o[i] = IF i <= Len(w) THEN w[i] ELSE c[i - Len(w)]
  BY <1>3, <1>4, ConcatProperties
<1>6. AsMedia!Overwritten(s, p, d) = o
  BY DEF AsMedia!Overwritten, a, c, w
<1> HIDE DEF o
<1>7. Len(c) \in Nat /\ Len(o) = IF Len(s) < p + Len(d) THEN p + Len(d) ELSE Len(s)
  <2>1. CASE p + Len(d) + 1 <= Len(s)
    BY <1>1, <1>3, <1>4, <1>5, <2>1
  <2>2. CASE ~(p + Len(d) + 1 <= Len(s))
    <3>1. Len(c) = 0
      BY <1>3, <2>2
    <3>2. Len(o) = p + Len(d)
      BY <1>1, <1>4, <1>5, <3>1
    <3> QED BY <1>1, <2>2, <3>1, <3>2
  <2> QED BY <2>1, <2>2
<1>8. ASSUME NEW i \in 1 .. Len(o)
      PROVE  o[i] = IF p < i /\ i <= p + Len(d) THEN d[i - p] ELSE s[i]
  <2>1. CASE i <= p
    BY <1>1, <1>2, <1>4, <1>5, <1>7, <2>1
  <2>2. CASE p < i /\ i <= p + Len(d)
    BY <1>1, <1>4, <1>5, <1>7, <2>2
  <2>3. CASE p + Len(d) < i
    <3>1. i - (p + Len(d)) \in 1 .. Len(s) - (p + Len(d)) /\ p + Len(d) + (i - (p + Len(d))) = i
      BY <1>1, <1>7, <2>3
    <3>2. c[i - (p + Len(d))] = s[i]
      BY <1>3, <3>1
    <3>3. o[i] = c[i - (p + Len(d))]
      BY <1>1, <1>4, <1>5, <1>7, <2>3
    <3> QED BY <1>1, <2>3, <3>2, <3>3
  <2> QED BY <1>1, <2>1, <2>2, <2>3
<1> QED BY <1>5, <1>6, <1>7, <1>8

(* A file written at a position among its bytes has no gap. *)
LEMMA PutLemma ==
  ASSUME FileInv, NEW d \in Seq(ByteValues)
  PROVE  Put(d) = AsMedia!Overwritten(file, filePosition, d)
<1>1. /\ file \in Seq(ByteValues) /\ filePosition \in 0 .. Len(file)
      /\ Len(file) \in Nat /\ filePosition \in Nat
  BY LenProperties DEF FileInv
<1>2. CASE d = <<>>
  <2> DEFINE o == AsMedia!Overwritten(file, filePosition, d)
  <2>1. Len(d) = 0
    BY <1>2
  <2>2. /\ o \in Seq(ByteValues)
        /\ Len(o) = IF Len(file) < filePosition + Len(d) THEN filePosition + Len(d) ELSE Len(file)
        /\ \A i \in 1 .. Len(o) :
             o[i] = IF filePosition < i /\ i <= filePosition + Len(d) THEN d[i - filePosition] ELSE file[i]
    BY <1>1, OverwrittenLemma
  <2> HIDE DEF o
  <2>3. Len(o) = Len(file) /\ \A i \in 1 .. Len(o) : o[i] = file[i]
    BY <1>1, <2>1, <2>2
  <2>4. o = file
    BY <1>1, <2>2, <2>3, SeqEqual
  <2> QED BY <1>2, <2>4 DEF Put, o
<1>3. CASE d # <<>>
  <2> DEFINE a == SubSeq(file, 1, filePosition)
  <2>1. Longer(0, filePosition - Len(file)) = 0
    BY <1>1 DEF Longer
  <2>2. [i \in 1 .. 0 |-> Gap] = <<>>
    OBVIOUS
  <2>3. a \in Seq(ByteValues)
    BY <1>1, ElementOfSeq, SubSeqProperties
  <2> HIDE DEF a
  <2>4. a \o <<>> = a
    BY <2>3, ConcatEmptySeq
  <2> QED BY <1>3, <2>1, <2>2, <2>4 DEF Put, AsMedia!Overwritten, a
<1> QED BY <1>2, <1>3
------------------------------------------------------------------------------
(* A step of the file class keeps the invariant and is a call of the media. *)
LEMMA FileStep ==
  ASSUME Shrinks = FALSE, BackEndInv, FileNext
  PROVE  BackEndInv' /\ AsMedia!MediaNext
<1>1. /\ Bytes = file /\ Bytes' = file' /\ At = filePosition /\ At' = filePosition'
      /\ UNCHANGED <<memoryBuffer, currentPosition>> /\ Next
  BY DEF FileNext, Bytes, At
<1>2. MemoryInv'
  BY <1>1 DEF BackEndInv, MemoryInv
<1>3. /\ file \in Seq(ByteValues) /\ Len(file) \in Nat /\ Len(file) <= MaxLength /\ MaxLength \in Nat
      /\ filePosition \in 0 .. Len(file) /\ currentFileSize \in 0 .. Len(file)
  BY FileMediaAssumption, LenProperties DEF BackEndInv, FileInv
<1>4. <<>> \in Seq(ByteValues) /\ Len(<<>>) = 0
  BY EmptySeq
<1>5. ASSUME NEW s, Returns(s) PROVE Answer' = IF Failed(s) THEN AsMedia!Refused ELSE AsMedia!Done
  BY <1>5 DEF Returns, Answer, AsMedia!Refused, AsMedia!Done, Nothing
<1>6. CASE \E mode \in {"readOnly", "readWrite", "overwrite"} : Open(mode)
  <2>1. PICK mode : Open(mode)
    BY <1>6
  <2>2. /\ file' \in {<<>>, file} /\ currentFileSize' = Len(file') /\ filePosition' = 0
        /\ Answer' = AsMedia!Done
    BY <2>1, <1>5, AnswersLemma DEF Open
  <2>3. FileInv'
    <3>1. CASE file' = <<>>
      BY <1>3, <1>4, <2>2, <3>1 DEF FileInv
    <3>2. CASE file' = file
      BY <1>3, <2>2, <3>2 DEF FileInv
    <3> QED BY <2>2, <3>1, <3>2
  <2>4. AsMedia!Attach(<<>>) \/ AsMedia!Attach(Bytes)
    BY <1>1, <2>2 DEF AsMedia!Attach
  <2> QED BY <1>2, <2>3, <2>4 DEF AsMedia!MediaNext, BackEndInv
<1>7. CASE OpenFails \/ OpenSeekFails \/ Close
  <2>1. /\ filePosition' \in {0, Len(file)} /\ currentFileSize' \in {currentFileSize, Len(file)} /\ file' = file
        /\ \/ Answer' = AsMedia!Refused
           \/ Answer' = AsMedia!Done /\ filePosition' = 0
    BY <1>5, <1>7, AnswersLemma DEF OpenFails, OpenSeekFails, Close
  <2>2. FileInv'
    BY <1>3, <2>1 DEF FileInv
  <2>3. AsMedia!Attach(Bytes) \/ AsMedia!Detach
    BY <1>1, <2>1 DEF AsMedia!Attach, AsMedia!Detach
  <2> QED BY <1>2, <2>2, <2>3 DEF AsMedia!MediaNext, BackEndInv
<1>8. CASE NotOpen \/ SetPositionFails \/ TruncateFails \/ Flush \/ \E p \in 0 .. MaxLength : SetPositionRefused(p)
  <2>1. Stays /\ Answer' \in {AsMedia!Refused, AsMedia!Done}
    BY <1>5, <1>8, AnswersLemma DEF NotOpen, SetPositionFails, TruncateFails, Flush, SetPositionRefused
  <2>2. FileInv'
    BY <1>3, <2>1 DEF FileInv, Stays
  <2>3. AsMedia!Refuse \/ AsMedia!Let
    BY <1>1, <2>1 DEF Stays, AsMedia!Refuse, AsMedia!Let
  <2> QED BY <1>2, <2>2, <2>3 DEF AsMedia!MediaNext, BackEndInv
<1>9. CASE SetPositionLast \/ \E p \in 0 .. MaxLength : SetPosition(p)
  <2>1. PICK p \in 0 .. MaxLength : /\ p <= Len(file) /\ filePosition' = p /\ Answer' = AsMedia!Done
                                   /\ UNCHANGED <<file, currentFileSize>>
    <3>1. CASE SetPositionLast
      <4>1. Len(file) \in 0 .. MaxLength /\ Len(file) <= Len(file)
        BY <1>3
      <4> QED BY <1>5, <3>1, <4>1, AnswersLemma DEF SetPositionLast
    <3>2. CASE \E p \in 0 .. MaxLength : SetPosition(p)
      <4>1. PICK p \in 0 .. MaxLength : SetPosition(p)
        BY <3>2
      <4>2. p <= Len(file)
        BY <1>3, <4>1 DEF SetPosition
      <4> QED BY <1>5, <4>1, <4>2, AnswersLemma DEF SetPosition
    <3> QED BY <1>9, <3>1, <3>2
  <2>2. FileInv'
    BY <1>3, <2>1 DEF FileInv
  <2>3. AsMedia!SeekTo(p)
    BY <1>1, <2>1 DEF AsMedia!SeekTo
  <2> QED BY <1>2, <2>2, <2>3 DEF AsMedia!MediaNext, BackEndInv
<1>10. ASSUME NEW n \in 0 .. MaxLength, Read(n) PROVE BackEndInv' /\ AsMedia!MediaNext
  <2>1. PICK m \in Nat : /\ m = Shorter(n, Longer(0, Len(file) - filePosition))
                         /\ m = AsMedia!Least(n, Len(file) - filePosition)
                         /\ filePosition + m <= Len(file)
    <3>1. PICK k \in Nat : k = Len(file) - filePosition /\ Longer(0, k) = k
      <4>1. Len(file) - filePosition \in Nat
        BY <1>3
      <4> QED BY <4>1 DEF Longer
    <3>2. n \in Nat /\ Shorter(n, k) \in Nat /\ Shorter(n, k) <= k /\ Shorter(n, k) = AsMedia!Least(n, k)
      BY <1>3 DEF Shorter, AsMedia!Least
    <3> QED BY <1>3, <3>1, <3>2
  <2>2. /\ buffer' = SubSeq(file, filePosition + 1, filePosition + m)
        /\ filePosition' = filePosition + m /\ UNCHANGED <<file, currentFileSize>>
        /\ Answer' = buffer'
    BY <1>10, <2>1, AnswersLemma DEF Read, Answer
  <2>3. FileInv'
    <3>1. filePosition + m \in 0 .. Len(file)
      BY <1>3, <2>1
    <3> QED BY <1>3, <2>2, <3>1 DEF FileInv
  <2>4. AsMedia!ReadSome(n)
    BY <1>1, <2>1, <2>2 DEF AsMedia!ReadSome
  <2> QED BY <1>2, <2>3, <2>4 DEF AsMedia!MediaNext, BackEndInv
<1>11. ASSUME NEW m \in 0 .. MaxLength, ReadFails(m) PROVE BackEndInv' /\ AsMedia!MediaNext
  <2>1. /\ filePosition + m < Len(file) /\ filePosition' = filePosition + m
        /\ UNCHANGED <<file, currentFileSize>> /\ Answer' = AsMedia!Refused
    BY <1>5, <1>11, AnswersLemma DEF ReadFails
  <2>2. FileInv'
    BY <1>3, <2>1 DEF FileInv
  <2>3. AsMedia!ReadPart(m)
    BY <1>1, <2>1 DEF AsMedia!ReadPart
  <2> QED BY <1>2, <2>2, <2>3 DEF AsMedia!MediaNext, BackEndInv
<1>12. ASSUME NEW n \in 0 .. MaxLength, NEW d \in [1 .. n -> ByteValues], Write(d) \/ WriteFails(d)
       PROVE  BackEndInv' /\ AsMedia!MediaNext
  <2>1. d \in Seq(ByteValues) /\ Len(d) = n /\ n \in Nat
    BY RowLemma
  <2>2. /\ file' = AsMedia!Overwritten(file, filePosition, d)
        /\ filePosition' = filePosition + n /\ filePosition + n <= MaxLength
        /\ \/ currentFileSize' = Longer(currentFileSize, filePosition + n) /\ Answer' = AsMedia!Done
           \/ currentFileSize' = currentFileSize /\ Answer' = AsMedia!Refused
    <3>1. filePosition + Len(<<>>) <= MaxLength
      BY <1>3, <1>4
    <3> QED BY <1>5, <1>12, <2>1, <3>1, PutLemma, AnswersLemma DEF Write, WriteFails, BackEndInv
  <2>3. /\ file' \in Seq(ByteValues)
        /\ Len(file') = IF Len(file) < filePosition + n THEN filePosition + n ELSE Len(file)
    BY <1>3, <2>1, <2>2, OverwrittenLemma
  <2>4. FileInv'
    BY <1>3, <2>1, <2>2, <2>3 DEF FileInv, Longer
  <2>5. AsMedia!WriteAll(d) \/ AsMedia!WritePart(d)
    BY <1>1, <2>1, <2>2 DEF AsMedia!WriteAll, AsMedia!WritePart
  <2> QED BY <1>2, <2>4, <2>5 DEF AsMedia!MediaNext, AsMedia!BytesOfLength, BackEndInv
<1>13. CASE Truncate \/ TruncateSeekRefused \/ TruncateReopenFails
  <2> USE DEF Truncate, TruncateSeekRefused, TruncateReopenFails
  <2>1. filePosition = Len(file)
    BY <1>3, <1>13
  <2>2. file' = SubSeq(file, 1, filePosition) \o [i \in 1 .. 0 |-> Gap] /\ UNCHANGED currentFileSize
    <3>1. filePosition - Len(file) = 0
      BY <1>3, <2>1
    <3> QED BY <1>13, <3>1
  <2>3. [i \in 1 .. 0 |-> Gap] = <<>>
    OBVIOUS
  <2>4. file' = file
    BY <1>3, <2>1, <2>2, <2>3, SubSeqFull, ConcatEmptySeq
  <2>5. \/ UNCHANGED filePosition /\ Answer' = AsMedia!Done
        \/ filePosition' = 0 /\ Answer' = AsMedia!Refused
    BY <1>5, <1>13, AnswersLemma
  <2>6. FileInv'
    BY <1>3, <2>2, <2>4, <2>5 DEF FileInv
  <2>7. AsMedia!Let \/ AsMedia!Detach
    BY <1>1, <2>4, <2>5 DEF AsMedia!Let, AsMedia!Detach
  <2> QED BY <1>2, <2>6, <2>7 DEF AsMedia!MediaNext, BackEndInv
<1> QED BY <1>1, <1>6, <1>7, <1>8, <1>9, <1>10, <1>11, <1>12, <1>13 DEF Next

(* What there is behind the position overwritten, and the rest pushed      *)
(* back, is the bytes written at the position.                             *)
LEMMA PushedBack ==
  ASSUME NEW s \in Seq(ByteValues), NEW p \in 0 .. Len(s), NEW d \in Seq(ByteValues),
         NEW k \in Nat, k = Memory!Fewer(Len(d), Len(s) - p)
  PROVE  [i \in DOMAIN s |-> IF i \in p + 1 .. p + k THEN d[i - p] ELSE s[i]] \o SubSeq(d, k + 1, Len(d))
           = AsMedia!Overwritten(s, p, d)
<1>1. PICK m \in Nat, n \in Nat : Len(s) = m /\ Len(d) = n /\ p \in Nat /\ p <= m /\ DOMAIN s = 1 .. m
  BY LenProperties
<1>2. k <= n /\ p + k <= m /\ (k = n \/ p + k = m)
  BY <1>1 DEF Memory!Fewer
<1>3. PICK f : f = [i \in DOMAIN s |-> IF i \in p + 1 .. p + k THEN d[i - p] ELSE s[i]]
  OBVIOUS
<1>4. PICK t : t = SubSeq(d, k + 1, Len(d))
  OBVIOUS
<1>5. f \in Seq(ByteValues) /\ Len(f) = m
  <2>1. ASSUME NEW i \in 1 .. m
        PROVE  (IF i \in p + 1 .. p + k THEN d[i - p] ELSE s[i]) \in ByteValues
    <3>1. s[i] \in ByteValues
      BY <1>1, ElementOfSeq
    <3>2. CASE i \in p + 1 .. p + k
      <4>1. i - p \in 1 .. n
        BY <1>1, <1>2, <3>2
      <4>2. d[i - p] \in ByteValues
        BY <1>1, <4>1, ElementOfSeq
      <4> QED BY <3>2, <4>2
    <3> QED BY <3>1, <3>2
  <2>2. f \in [1 .. m -> ByteValues]
    BY <1>1, <1>3, <2>1
  <2> QED BY <2>2, RowLemma
<1>6. \A i \in 1 .. m : f[i] = IF p < i /\ i <= p + k THEN d[i - p] ELSE s[i]
  <2>1. \A i \in 1 .. m : i \in p + 1 .. p + k <=> p < i /\ i <= p + k
    BY <1>1
  <2> QED BY <1>1, <1>3, <2>1
<1>7. /\ t \in Seq(ByteValues) /\ Len(t) = n - k
      /\ \A i \in 1 .. n - k : t[i] = d[k + i]
  <2>1. \A i \in k + 1 .. n : d[i] \in ByteValues
    BY <1>1, <1>2, ElementOfSeq
  <2>2. PICK j \in Int : j = k + 1
    OBVIOUS
  <2>3. /\ t \in Seq(ByteValues) /\ Len(t) = IF k + 1 <= n THEN n - (k + 1) + 1 ELSE 0
        /\ \A i \in 1 .. n - (k + 1) + 1 : t[i] = d[k + 1 + i - 1]
    <3>1. \A i \in j .. n : d[i] \in ByteValues
      BY <2>1, <2>2
    <3>2. t = SubSeq(d, j, n)
      BY <1>1, <1>4, <2>2
    <3> QED BY <2>2, <3>1, <3>2, SubSeqProperties
  <2>4. (IF k + 1 <= n THEN n - (k + 1) + 1 ELSE 0) = n - k /\ n - (k + 1) + 1 = n - k
    BY <1>2
  <2>5. ASSUME NEW i \in 1 .. n - k PROVE t[i] = d[k + i]
    <3>1. k + 1 + i - 1 = k + i
      OBVIOUS
    <3> QED BY <2>3, <2>4, <3>1
  <2> QED BY <2>3, <2>4, <2>5
<1>8. PICK w : w = f \o t
  OBVIOUS
<1>9. /\ w \in Seq(ByteValues) /\ Len(w) = m + (n - k)
      /\ \A i \in 1 .. m + (n - k) : w[i] = IF i <= m THEN f[i] ELSE t[i - m]
  <2>1. /\ w \in Seq(ByteValues) /\ Len(w) = Len(f) + Len(t)
        /\ \A i \in 1 .. Len(f) + Len(t) : w[i] = IF i <= Len(f) THEN f[i] ELSE t[i - Len(f)]
    BY <1>5, <1>7, <1>8, ConcatProperties
  <2> QED BY <1>5, <1>7, <2>1
<1>10. PICK o : o = AsMedia!Overwritten(s, p, d)
  OBVIOUS
<1>11. /\ o \in Seq(ByteValues)
       /\ Len(o) = IF m < p + n THEN p + n ELSE m
       /\ \A i \in 1 .. Len(o) : o[i] = IF p < i /\ i <= p + n THEN d[i - p] ELSE s[i]
  BY <1>1, <1>10, OverwrittenLemma
<1>12. m + (n - k) = IF m < p + n THEN p + n ELSE m
  BY <1>1, <1>2
<1>13. ASSUME NEW i \in 1 .. m + (n - k) PROVE w[i] = o[i]
  <2>1. CASE i <= m
    <3>1. i \in 1 .. m /\ (i <= p + k <=> i <= p + n)
      BY <1>1, <1>2, <2>1
    <3>2. w[i] = f[i]
      BY <1>9, <2>1
    <3> QED BY <1>6, <1>11, <1>12, <3>1, <3>2
  <2>2. CASE ~(i <= m)
    <3>1. i - m \in 1 .. n - k /\ k + (i - m) = i - p /\ p < i /\ i <= p + n
      <4>1. i \in Nat /\ m < i /\ i <= m + (n - k)
        BY <1>2, <2>2
      <4>2. p + k = m
        BY <1>2, <4>1
      <4>3. p \in Nat
        BY <1>1
      <4>4. i - m \in 1 .. n - k
        BY <4>1
      <4>5. k + (i - m) = i - p
        <5>1. k + (i - (p + k)) = i - p
          BY <4>1, <4>3
        <5> QED BY <4>2, <5>1
      <4>6. p < i /\ i <= p + n
        BY <1>2, <4>1, <4>2, <4>3
      <4> QED BY <4>4, <4>5, <4>6
    <3>2. w[i] = t[i - m]
      BY <1>9, <2>2
    <3>3. t[i - m] = d[i - p]
      BY <1>7, <3>1
    <3> QED BY <1>11, <1>12, <3>1, <3>2, <3>3
  <2> QED BY <2>1, <2>2
<1>14. w = o
  BY <1>9, <1>11, <1>12, <1>13, SeqEqual
<1> QED BY <1>3, <1>4, <1>8, <1>10, <1>14

(* The same of the statuses as MemoryMedia names them. *)
LEMMA MemoryAnswers ==
  /\ ~Failed(Memory!NoStatus) /\ Failed(Memory!SeekError)
  /\ \A n : ~Failed(Memory!ReadSuccessful(n)) /\ ~Failed(Memory!WriteSuccessful(n))
BY DEF Failed, Recoverable, Memory!NoStatus, Memory!StatusPimpl, Memory!ErrorPimpl, Memory!Pimpl,
       Memory!WithCode, Memory!FilesystemStatus, Memory!FilesystemError, Memory!ReadSuccessful,
       Memory!WriteSuccessful, Memory!SeekError

(* A step of the memory class keeps the invariant and is a call of the     *)
(* media.                                                                  *)
LEMMA MemoryStep ==
  ASSUME BackEndInv, MemoryNext
  PROVE  BackEndInv' /\ AsMedia!MediaNext
<1>1. /\ Bytes = memoryBuffer /\ Bytes' = memoryBuffer'
      /\ At = currentPosition /\ At' = currentPosition'
      /\ UNCHANGED <<file, filePosition, currentFileSize>> /\ Memory!Next
  BY DEF MemoryNext, Bytes, At
<1>2. FileInv'
  BY <1>1 DEF BackEndInv, FileInv
<1>3. /\ memoryBuffer \in Seq(ByteValues) /\ Len(memoryBuffer) \in Nat
      /\ Len(memoryBuffer) <= MaxLength /\ MaxLength \in Nat
      /\ currentPosition \in 0 .. Len(memoryBuffer)
  BY FileMediaAssumption, LenProperties DEF BackEndInv, MemoryInv
<1>4. ASSUME NEW s, Memory!Returns(s)
      PROVE  Answer' = IF Failed(s) THEN AsMedia!Refused ELSE AsMedia!Done
  BY <1>4 DEF Memory!Returns, Answer, AsMedia!Refused, AsMedia!Done
<1>5. ASSUME NEW n \in 0 .. MaxLength, NEW b \in [1 .. n -> ByteValues], Memory!SetBuffer(b)
      PROVE  BackEndInv' /\ AsMedia!MediaNext
  <2>1. memoryBuffer' = b /\ currentPosition' = 0 /\ Answer' = AsMedia!Done
    BY <1>4, <1>5, MemoryAnswers DEF Memory!SetBuffer
  <2>2. b \in Seq(ByteValues) /\ Len(b) = n
    BY RowLemma
  <2>3. MemoryInv'
    BY <2>1, <2>2 DEF MemoryInv
  <2>4. AsMedia!Attach(b)
    BY <1>1, <2>1 DEF AsMedia!Attach
  <2> QED BY <1>2, <2>3, <2>4 DEF AsMedia!MediaNext, AsMedia!BytesOfLength, BackEndInv
<1>6. ASSUME NEW n \in 0 .. MaxLength, NEW d \in [1 .. n -> ByteValues], Memory!Write(d)
      PROVE  BackEndInv' /\ AsMedia!MediaNext
  <2>1. d \in Seq(ByteValues) /\ Len(d) = n /\ n \in Nat
    BY RowLemma
  <2>2. /\ memoryBuffer' = AsMedia!Overwritten(memoryBuffer, currentPosition, d)
        /\ currentPosition' = currentPosition + n /\ currentPosition + n <= MaxLength
        /\ Answer' = AsMedia!Done
    <3>1. PICK k \in Nat : k = Memory!Fewer(n, Len(memoryBuffer) - currentPosition)
      <4>1. PICK j \in Nat : j = Len(memoryBuffer) - currentPosition
        <5>1. Len(memoryBuffer) - currentPosition \in Nat
          BY <1>3
        <5> QED BY <5>1
      <4>2. Memory!Fewer(n, j) \in Nat
        BY <2>1 DEF Memory!Fewer
      <4> QED BY <4>1, <4>2
    <3>2. currentPosition + n <= MaxLength /\ currentPosition' = currentPosition + n
      BY <1>6, <2>1 DEF Memory!Write
    <3>3. Answer' = AsMedia!Done
      BY <1>4, <1>6, MemoryAnswers DEF Memory!Write
    <3>4. memoryBuffer' = [i \in DOMAIN memoryBuffer |->
                             IF i \in currentPosition + 1 .. currentPosition + k
                             THEN d[i - currentPosition] ELSE memoryBuffer[i]]
                          \o SubSeq(d, k + 1, Len(d))
      BY <1>6, <2>1, <3>1 DEF Memory!Write
    <3> QED BY <1>3, <2>1, <3>1, <3>2, <3>3, <3>4, PushedBack
  <2>3. /\ memoryBuffer' \in Seq(ByteValues)
        /\ Len(memoryBuffer') = IF Len(memoryBuffer) < currentPosition + n
                                THEN currentPosition + n ELSE Len(memoryBuffer)
    BY <1>3, <2>1, <2>2, OverwrittenLemma
  <2>4. MemoryInv'
    BY <1>3, <2>1, <2>2, <2>3 DEF MemoryInv
  <2>5. AsMedia!WriteAll(d)
    BY <1>1, <2>1, <2>2 DEF AsMedia!WriteAll
  <2> QED BY <1>2, <2>4, <2>5 DEF AsMedia!MediaNext, AsMedia!BytesOfLength, BackEndInv
<1>7. CASE Memory!SetPositionLast \/ \E n \in 0 .. MaxLength : Memory!SetPosition(n)
  <2>1. PICK p \in 0 .. MaxLength : /\ p <= Len(memoryBuffer) /\ currentPosition' = p
                                   /\ Answer' = AsMedia!Done /\ UNCHANGED memoryBuffer
    <3>1. CASE Memory!SetPositionLast
      <4>1. Len(memoryBuffer) \in 0 .. MaxLength /\ Len(memoryBuffer) <= Len(memoryBuffer)
        BY <1>3
      <4> QED BY <1>4, <3>1, <4>1, MemoryAnswers DEF Memory!SetPositionLast
    <3>2. CASE \E n \in 0 .. MaxLength : Memory!SetPosition(n)
      BY <1>4, <3>2, MemoryAnswers DEF Memory!SetPosition
    <3> QED BY <1>7, <3>1, <3>2
  <2>2. MemoryInv'
    BY <1>3, <2>1 DEF MemoryInv
  <2>3. AsMedia!SeekTo(p)
    BY <1>1, <2>1 DEF AsMedia!SeekTo
  <2> QED BY <1>2, <2>2, <2>3 DEF AsMedia!MediaNext, BackEndInv
<1>8. CASE Memory!Flush \/ \E n \in 0 .. MaxLength : Memory!SetPositionRefused(n)
  <2>1. UNCHANGED <<memoryBuffer, currentPosition>> /\ Answer' \in {AsMedia!Refused, AsMedia!Done}
    BY <1>4, <1>8, MemoryAnswers DEF Memory!Flush, Memory!SetPositionRefused
  <2>2. MemoryInv'
    BY <1>3, <2>1 DEF MemoryInv
  <2>3. AsMedia!Refuse \/ AsMedia!Let
    BY <1>1, <2>1 DEF AsMedia!Refuse, AsMedia!Let
  <2> QED BY <1>2, <2>2, <2>3 DEF AsMedia!MediaNext, BackEndInv
<1>9. ASSUME NEW n \in 0 .. MaxLength, Memory!Read(n) PROVE BackEndInv' /\ AsMedia!MediaNext
  <2>1. PICK m \in Nat : /\ m = Memory!Fewer(n, Len(memoryBuffer) - currentPosition)
                         /\ m = AsMedia!Least(n, Len(memoryBuffer) - currentPosition)
                         /\ currentPosition + m <= Len(memoryBuffer)
    <3>1. PICK k \in Nat : k = Len(memoryBuffer) - currentPosition
      <4>1. Len(memoryBuffer) - currentPosition \in Nat
        BY <1>3
      <4> QED BY <4>1
    <3>2. /\ n \in Nat /\ Memory!Fewer(n, k) \in Nat /\ Memory!Fewer(n, k) <= k
          /\ Memory!Fewer(n, k) = AsMedia!Least(n, k)
      BY <1>3 DEF Memory!Fewer, AsMedia!Least
    <3> QED BY <1>3, <3>1, <3>2
  <2>2. /\ buffer' = SubSeq(memoryBuffer, currentPosition + 1, currentPosition + m)
        /\ currentPosition' = currentPosition + m /\ UNCHANGED memoryBuffer
        /\ Answer' = buffer'
    BY <1>9, <2>1, MemoryAnswers DEF Memory!Read, Answer
  <2>3. MemoryInv'
    BY <1>3, <2>1, <2>2 DEF MemoryInv
  <2>4. AsMedia!ReadSome(n)
    BY <1>1, <2>1, <2>2 DEF AsMedia!ReadSome
  <2> QED BY <1>2, <2>3, <2>4 DEF AsMedia!MediaNext, BackEndInv
<1>10. CASE Memory!Truncate
  <2>1. /\ memoryBuffer' = SubSeq(memoryBuffer, 1, currentPosition)
        /\ UNCHANGED currentPosition /\ Answer' = AsMedia!Done
    BY <1>4, <1>10, MemoryAnswers DEF Memory!Truncate
  <2>2. memoryBuffer' \in Seq(ByteValues) /\ Len(memoryBuffer') = currentPosition
    BY <1>3, <2>1, ElementOfSeq, SubSeqProperties
  <2>3. MemoryInv'
    BY <1>3, <2>1, <2>2 DEF MemoryInv
  <2>4. AsMedia!CutHere
    BY <1>1, <2>1 DEF AsMedia!CutHere
  <2> QED BY <1>2, <2>3, <2>4 DEF AsMedia!MediaNext, BackEndInv
<1> QED BY <1>1, <1>5, <1>6, <1>7, <1>8, <1>9, <1>10 DEF Memory!Next, Memory!Buffers

------------------------------------------------------------------------------
(* The positions of both classes stay among their bytes, and a file keeps  *)
(* within what its class counts.                                           *)
THEOREM PositionsStay ==
  ASSUME Shrinks = FALSE
  PROVE  Spec => []BackEndInv
<1>1. BackEndInit => BackEndInv
  BY FileMediaAssumption, EmptySeq DEF BackEndInit, Init, Memory!Init, BackEndInv, FileInv, MemoryInv
<1>2. BackEndInv /\ [FileNext \/ MemoryNext]_vars => BackEndInv'
  <2>1. BackEndInv /\ UNCHANGED vars => BackEndInv'
    BY DEF vars, BackEndInv, FileInv, MemoryInv
  <2> QED BY <2>1, FileStep, MemoryStep
<1> QED BY <1>1, <1>2, PTL DEF Spec

(* FileContainer and MemoryContainer are one media to their caller: every  *)
(* call is what container_container.h promises, errors included.           *)
THEOREM BackEndIsMedia ==
  ASSUME Shrinks = FALSE
  PROVE  Spec => IsMedia
<1>1. BackEndInit => AsMedia!MediaInit
  BY AnswersLemma, MemoryAnswers DEF BackEndInit, Init, Memory!Init, AsMedia!MediaInit, Bytes, At, Answer,
                      Nothing, AsMedia!Done
<1>2. BackEndInv /\ [FileNext \/ MemoryNext]_vars => [AsMedia!MediaNext]_<<Bytes, At, Answer>>
  <2>1. UNCHANGED vars => UNCHANGED <<Bytes, At, Answer>>
    BY DEF vars, Bytes, At, Answer
  <2> QED BY <2>1, FileStep, MemoryStep
<1> QED BY <1>1, <1>2, PositionsStay, PTL DEF Spec, IsMedia, AsMedia!MediaSpec, AsMedia!mediaVars
==============================================================================
