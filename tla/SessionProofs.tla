----------------------------- MODULE SessionProofs -----------------------------
(***************************************************************************)
(* The users of a container, for every media that a container may leave,   *)
(* every set of names and payloads: a program that reads it, and the tool  *)
(* with every command line.                                                *)
(*                                                                         *)
(* The reader's invariant says that a container that has been opened       *)
(* either has not been scanned, or cannot be scanned a second time without *)
(* an error; the tool's, that the container's maps agree with the chunks   *)
(* of the media, and that what they hold together with the file system is  *)
(* what the switches up to the present one promise.                        *)
(***************************************************************************)
EXTENDS Ic, DataLemmas

Content   == Seq(Payloads)
FileT     == [id : Nat, started : BOOLEAN, stored : Content, tail : Content, moved : BOOLEAN]
FileMaps  == UNION {[d -> FileT] : d \in SUBSET Names}
IdMaps    == UNION {[d -> Names] : d \in {e \in SUBSET Nat : IsFiniteSet(e)}}
HeardMaps == UNION {[d -> Content] : d \in SUBSET Names}
Classes   == {"NO_STATUS", "CONTAINER_INTERNAL_ERROR", "CONTAINER_HEADER_ERROR", "FILESYSTEM_STATUS",
              "FILESYSTEM_ERROR", "STREAMING_READ_ERROR", "CONTAINER_VERSION_DOWNLEVEL"}
StatusT   == [class : Classes, code : Nat, recoverable : BOOLEAN, count : Nat]
ContainerT == [located : BOOLEAN, populated : BOOLEAN, files : FileMaps, ids : IdMaps, last : StatusT]

------------------------------------------------------------------------------
(* What holds at 0 and is handed on from each place of a row to the next   *)
(* holds at its end.                                                       *)
LEMMA RowInduction ==
  ASSUME NEW n \in Nat, NEW G, 0 \in G, \A k \in 1 .. n : k - 1 \in G => k \in G
  PROVE  \A k \in 0 .. n : k \in G
<1> DEFINE Bad == {k \in 0 .. n : k \notin G}
<1>1. SUFFICES ASSUME Bad # {} PROVE FALSE
  OBVIOUS
<1>2. PICK b \in Bad : \A c \in Bad : b <= c
  <2>1. Bad \subseteq Nat
    OBVIOUS
  <2> HIDE DEF Bad
  <2> QED BY <1>1, <2>1, LeastOf
<1>3. b \in 1 .. n /\ b - 1 \in 0 .. n /\ b - 1 \notin Bad
  BY <1>2
<1> QED BY <1>2, <1>3

(* The keys of a finite map leave an identifier free. *)
LEMMA UnusedLemma ==
  ASSUME NEW ids \in IdMaps
  PROVE  UnusedIdentifier(ids) \in Nat /\ UnusedIdentifier(ids) \notin DOMAIN ids
<1> DEFINE D == DOMAIN ids
           Free == {k \in 0 .. Cardinality(D) : k \notin D}
<1>1. IsFiniteSet(D) /\ D \subseteq Nat
  BY DEF IdMaps
<1>2. PICK n \in Nat : n = Cardinality(D)
  BY <1>1, FS_CardinalityType
<1>3. Free # {}
  <2>1. SUFFICES ASSUME Free = {} PROVE FALSE
    OBVIOUS
  <2>2. 0 .. n \subseteq D
    BY <1>2, <2>1
  <2>3. Cardinality(0 .. n) = n + 1
    BY FS_Interval
  <2>4. Cardinality(0 .. n) <= n
    BY <1>1, <1>2, <2>2, FS_Subset
  <2> QED BY <2>3, <2>4
<1>4. Free \subseteq Nat
  BY <1>2
<1>5. \E x \in Free : \A y \in Free : x <= y
  <2> HIDE DEF Free
  <2> QED BY <1>3, <1>4, LeastOf
<1>6. Min(Free) \in Free
  <2> HIDE DEF Free
  <2> QED BY <1>5, Zenon DEF Min
<1>7. UnusedIdentifier(ids) = Min(Free)
  BY DEF UnusedIdentifier
<1> QED BY <1>4, <1>6, <1>7

------------------------------------------------------------------------------
(* The payloads of a file are collected chunk by chunk. *)
Adds(ch, id)     == ch.type = "data" /\ ch.id = id
More(c, ch, id)  == IF Adds(ch, id) THEN Append(c, ch.payload) ELSE c

LEMMA ChunkFields ==
  ASSUME NEW ch \in Chunk
  PROVE  /\ ch.type \in {"start", "data", "fill", "header"}
         /\ ch.type = "data" => ch.id \in Nat /\ ch.payload \in Payloads
         /\ ch.type = "start" => ch.id \in Nat /\ ch.name \in Names
<1>1. CASE \E n \in Names, id \in Nat : ch = Start(n, id)
  BY <1>1 DEF Start
<1>2. CASE \E id \in Nat, p \in Payloads : ch = Data(id, p)
  BY <1>2 DEF Data, NoName
<1>3. CASE ch \in {FillChunk, Zeros}
  BY <1>3 DEF FillChunk, Zeros, NoName
<1> QED BY <1>1, <1>2, <1>3 DEF Chunk

LEMMA CollectedRuns ==
  ASSUME NEW row \in Seq(Chunk), NEW id
  PROVE  \E T \in [0 .. Len(row) -> Content] :
           /\ T[0] = <<>> /\ T[Len(row)] = Collected(row, id)
           /\ \A k \in 1 .. Len(row) : T[k] = More(T[k - 1], row[k], id)
<1> DEFINE n == Len(row)
           step == [p \in (1 .. n) \X Content |->
                      IF row[p[1]].type = "data" /\ row[p[1]].id = id
                      THEN Append(p[2], row[p[1]].payload) ELSE p[2]]
           Good(g) == g = [s \in SUBSET DOMAIN row |->
                             IF s = {} THEN <<>>
                             ELSE IF row[LastIn(s)].type = "data" /\ row[LastIn(s)].id = id
                                  THEN Append(g[s \ {LastIn(s)}], row[LastIn(s)].payload)
                                  ELSE g[s \ {LastIn(s)}]]
           f == CHOOSE g : Good(g)
<1>1. n \in Nat /\ DOMAIN row = 1 .. n /\ \A k \in 1 .. n : row[k] \in Chunk
  BY LenProperties, ElementOfSeq
<1>2. <<>> \in Content
  BY EmptySeq DEF Content
<1>3. step \in [(1 .. n) \X Content -> Content]
  <2>1. ASSUME NEW p \in (1 .. n) \X Content, row[p[1]].type = "data"
        PROVE  Append(p[2], row[p[1]].payload) \in Content
    <3>1. p[1] \in 1 .. n /\ p[2] \in Content
      OBVIOUS
    <3>2. row[p[1]].payload \in Payloads
      BY <1>1, <2>1, <3>1, ChunkFields
    <3> QED BY <3>1, <3>2, AppendProperties DEF Content
  <2> QED BY <2>1
<1>5. f[DOMAIN row] = Collected(row, id)
  BY DEF Collected, FoldLeft, MapThenFoldSet, Max, LastIn
<1>6. PICK h : RowFold(h, n, Content, <<>>, step)
  <2> HIDE DEF step, n
  <2> QED BY <1>1, <1>2, <1>3, RowFoldExists
<1>7. \A s \in SUBSET (1 .. n) : s # {} => LastIn(s) \in 1 .. n
  BY <1>1, LastInLemma
<1>8. ASSUME NEW g, NEW s \in SUBSET (1 .. n), s # {}, g[s \ {LastIn(s)}] \in Content
      PROVE  step[<<LastIn(s), g[s \ {LastIn(s)}]>>]
               = IF row[LastIn(s)].type = "data" /\ row[LastIn(s)].id = id
                 THEN Append(g[s \ {LastIn(s)}], row[LastIn(s)].payload)
                 ELSE g[s \ {LastIn(s)}]
  BY <1>7, <1>8
<1>9. Good(h)
  <2>1. \A s \in SUBSET (1 .. n) : s \ {LastIn(s)} \in SUBSET (1 .. n)
    OBVIOUS
  <2> HIDE DEF step
  <2> QED BY <1>1, <1>6, <1>8, <2>1 DEF RowFold
<1>10. Good(f)
  <2> HIDE DEF Good
  <2> QED BY <1>9
<1>11. RowUnfolds(f, n, Content, <<>>, step)
  <2>1. PICK g : g = f /\ Good(g)
    BY <1>10
  <2>2. g[{}] = <<>>
    BY <2>1
  <2>3. ASSUME NEW s \in SUBSET (1 .. n), s # {}, g[s \ {LastIn(s)}] \in Content
        PROVE  g[s] = step[<<LastIn(s), g[s \ {LastIn(s)}]>>]
    <3>1. g[s] = IF row[LastIn(s)].type = "data" /\ row[LastIn(s)].id = id
                 THEN Append(g[s \ {LastIn(s)}], row[LastIn(s)].payload)
                 ELSE g[s \ {LastIn(s)}]
      BY <1>1, <2>1, <2>3
    <3> HIDE DEF step
    <3> QED BY <1>8, <2>3, <3>1
  <2> HIDE DEF step, f
  <2> QED BY <2>1, <2>2, <2>3 DEF RowUnfolds
<1>12. PICK T : RowRun(T, n, Content, <<>>, step, f[1 .. n])
  <2> HIDE DEF step, f, n
  <2> QED BY <1>1, <1>2, <1>3, <1>11, RowRunLemma
<1>13. /\ T \in [0 .. n -> Content] /\ T[0] = <<>> /\ T[n] = f[1 .. n]
       /\ \A k \in 1 .. n : T[k] = step[<<k, T[k - 1]>>]
  <2> HIDE DEF step, f, n
  <2> QED BY <1>12 DEF RowRun
<1>14. \A k \in 1 .. n : T[k] = More(T[k - 1], row[k], id)
  <2> SUFFICES ASSUME NEW k \in 1 .. n PROVE T[k] = More(T[k - 1], row[k], id)
    OBVIOUS
  <2>1. T[k - 1] \in Content
    BY <1>1, <1>13
  <2> QED BY <1>13, <2>1 DEF More, Adds
<1> HIDE DEF f
<1> QED BY <1>1, <1>5, <1>13, <1>14

(* Whatever is collected in the same steps is the same. *)
LEMMA CollectedIs ==
  ASSUME NEW row \in Seq(Chunk), NEW id, NEW T, T[0] = <<>>,
         \A k \in 1 .. Len(row) : T[k] = More(T[k - 1], row[k], id)
  PROVE  T[Len(row)] = Collected(row, id) /\ T[Len(row)] \in Content
<1>1. PICK U \in [0 .. Len(row) -> Content] :
        /\ U[0] = <<>> /\ U[Len(row)] = Collected(row, id)
        /\ \A k \in 1 .. Len(row) : U[k] = More(U[k - 1], row[k], id)
  BY CollectedRuns
<1>2. PICK n \in Nat : n = Len(row)
  BY LenProperties
<1> DEFINE G == {k \in 0 .. n : U[k] = T[k]}
<1>3. 0 \in G
  BY <1>1
<1>4. \A k \in 1 .. n : k - 1 \in G => k \in G
  BY <1>1, <1>2
<1>5. n \in G
  <2>1. \A k \in 0 .. n : k \in G
    <3> HIDE DEF G
    <3> QED BY <1>3, <1>4, RowInduction
  <2>2. n \in 0 .. n
    OBVIOUS
  <2> QED BY <2>1, <2>2
<1> QED BY <1>1, <1>2, <1>5

LEMMA CollectedType ==
  ASSUME NEW row \in Seq(Chunk), NEW id
  PROVE  Collected(row, id) \in Content
<1>1. PICK U \in [0 .. Len(row) -> Content] :
        /\ U[0] = <<>> /\ U[Len(row)] = Collected(row, id)
        /\ \A k \in 1 .. Len(row) : U[k] = More(U[k - 1], row[k], id)
  BY CollectedRuns
<1> QED BY <1>1, LenProperties

(* The payloads collected so far. *)
So(row, k, id) == Collected(SubSeq(row, 1, k), id)

LEMMA CollectedPrefix ==
  ASSUME NEW row \in Seq(Chunk), NEW id
  PROVE  /\ So(row, 0, id) = <<>> /\ So(row, Len(row), id) = Collected(row, id)
         /\ \A k \in 0 .. Len(row) : So(row, k, id) \in Content
         /\ \A k \in 1 .. Len(row) : So(row, k, id) = More(So(row, k - 1, id), row[k], id)
<1>1. PICK T \in [0 .. Len(row) -> Content] :
        /\ T[0] = <<>> /\ T[Len(row)] = Collected(row, id)
        /\ \A k \in 1 .. Len(row) : T[k] = More(T[k - 1], row[k], id)
  BY CollectedRuns
<1>2. ASSUME NEW k \in 0 .. Len(row) PROVE So(row, k, id) = T[k]
  <2>1. PICK r : r = SubSeq(row, 1, k)
    OBVIOUS
  <2>2. r \in Seq(Chunk) /\ Len(r) = k /\ \A i \in 1 .. k : r[i] = row[i]
    BY <2>1, FrontLemma
  <2>3. k \in Nat /\ Len(row) \in Nat /\ k <= Len(row)
    BY LenProperties
  <2>4. \A i \in 1 .. Len(r) : T[i] = More(T[i - 1], r[i], id)
    BY <1>1, <2>2, <2>3
  <2>5. T[0] = <<>>
    BY <1>1
  <2>6. T[Len(r)] = Collected(r, id)
    BY <2>2, <2>4, <2>5, CollectedIs
  <2> QED BY <2>1, <2>2, <2>6 DEF So
<1>3. Len(row) \in Nat /\ 0 \in 0 .. Len(row) /\ Len(row) \in 0 .. Len(row)
  BY LenProperties
<1>4. ASSUME NEW k \in 1 .. Len(row)
      PROVE  So(row, k, id) = More(So(row, k - 1, id), row[k], id)
  <2>1. k \in 0 .. Len(row) /\ k - 1 \in 0 .. Len(row)
    BY <1>3
  <2>2. So(row, k, id) = T[k] /\ So(row, k - 1, id) = T[k - 1]
    BY <1>2, <2>1
  <2> QED BY <1>1, <2>2
<1>5. So(row, 0, id) = <<>> /\ So(row, Len(row), id) = Collected(row, id)
  BY <1>1, <1>2, <1>3
<1>6. \A k \in 0 .. Len(row) : So(row, k, id) \in Content
  BY <1>1, <1>2
<1> QED BY <1>4, <1>5, <1>6

(* Rows in which the chunks of a file are the same hold the same of it. *)
LEMMA CollectedSame ==
  ASSUME NEW r \in Seq(Chunk), NEW q \in Seq(Chunk), NEW id, Len(r) = Len(q),
         \A k \in 1 .. Len(r) : r[k] = q[k] \/ (~Adds(r[k], id) /\ ~Adds(q[k], id))
  PROVE  Collected(r, id) = Collected(q, id)
<1>1. PICK T \in [0 .. Len(q) -> Content] :
        /\ T[0] = <<>> /\ T[Len(q)] = Collected(q, id)
        /\ \A k \in 1 .. Len(q) : T[k] = More(T[k - 1], q[k], id)
  BY CollectedRuns
<1>2. \A k \in 1 .. Len(r) : T[k] = More(T[k - 1], r[k], id)
  <2> SUFFICES ASSUME NEW k \in 1 .. Len(r) PROVE T[k] = More(T[k - 1], r[k], id)
    OBVIOUS
  <2>1. T[k] = More(T[k - 1], q[k], id)
    BY <1>1
  <2>2. CASE r[k] = q[k]
    BY <2>1, <2>2
  <2>3. CASE ~Adds(r[k], id) /\ ~Adds(q[k], id)
    BY <2>1, <2>3 DEF More
  <2> QED BY <2>2, <2>3
<1>3. T[Len(r)] = Collected(r, id)
  BY <1>1, <1>2, CollectedIs
<1> QED BY <1>1, <1>3

LEMMA CollectedNone ==
  ASSUME NEW r \in Seq(Chunk), NEW id, \A k \in 1 .. Len(r) : ~Adds(r[k], id)
  PROVE  Collected(r, id) = <<>>
<1> DEFINE T == [k \in 0 .. Len(r) |-> <<>>]
<1>1. Len(r) \in Nat
  BY LenProperties
<1>2. T[0] = <<>> /\ \A k \in 1 .. Len(r) : T[k] = More(T[k - 1], r[k], id)
  BY <1>1 DEF More
<1>3. T[Len(r)] = Collected(r, id)
  <2> HIDE DEF T
  <2> QED BY <1>2, CollectedIs
<1> QED BY <1>1, <1>3

LEMMA AppendBehind ==
  ASSUME NEW S, NEW b \in Seq(S), NEW u \in Seq(S), NEW p \in S
  PROVE  b \o Append(u, p) = Append(b \o u, p)
<1>1. Append(u, p) = u \o <<p>> /\ <<p>> \in Seq(S)
  BY AppendIsConcat
<1>2. b \o u \in Seq(S)
  BY ConcatProperties
<1>3. Append(b \o u, p) = (b \o u) \o <<p>>
  BY <1>2, AppendIsConcat
<1> QED BY <1>1, <1>3, ConcatAssociative

(* What is behind is collected behind. *)
LEMMA CollectedConcat ==
  ASSUME NEW r \in Seq(Chunk), NEW q \in Seq(Chunk), NEW id
  PROVE  Collected(r \o q, id) = Collected(r, id) \o Collected(q, id)
<1>1. PICK T \in [0 .. Len(r) -> Content] :
        /\ T[0] = <<>> /\ T[Len(r)] = Collected(r, id)
        /\ \A k \in 1 .. Len(r) : T[k] = More(T[k - 1], r[k], id)
  BY CollectedRuns
<1>2. PICK U \in [0 .. Len(q) -> Content] :
        /\ U[0] = <<>> /\ U[Len(q)] = Collected(q, id)
        /\ \A k \in 1 .. Len(q) : U[k] = More(U[k - 1], q[k], id)
  BY CollectedRuns
<1>3. PICK m \in Nat, n \in Nat : m = Len(r) /\ n = Len(q)
  BY LenProperties
<1>4. PICK b \in Content : b = Collected(r, id)
  BY CollectedType
<1> DEFINE V == [k \in 0 .. m + n |-> IF k <= m THEN T[k] ELSE b \o U[k - m]]
<1>5. PICK z : z = r \o q
  OBVIOUS
<1>6. z \in Seq(Chunk) /\ Len(z) = m + n
  BY <1>3, <1>5, ConcatProperties
<1>7. (\A k \in 1 .. m : z[k] = r[k]) /\ (\A j \in 1 .. n : z[m + j] = q[j])
  BY <1>3, <1>5, ConcatProperties
<1>8. b \o <<>> = b
  BY ConcatEmptySeq DEF Content
<1>9. \A k \in 0 .. m : V[k] = T[k]
  OBVIOUS
<1>10. ASSUME NEW j \in 0 .. n PROVE V[m + j] = b \o U[j]
  <2>1. CASE j = 0
    <3>1. V[m + j] = T[m] /\ T[m] = b /\ U[j] = <<>>
      BY <1>1, <1>2, <1>3, <1>4, <2>1
    <3> QED BY <1>8, <3>1
  <2>2. CASE j # 0
    <3>1. m + j \in 0 .. m + n /\ ~(m + j <= m) /\ (m + j) - m = j
      BY <2>2
    <3> QED BY <3>1
  <2> QED BY <2>1, <2>2
<1> HIDE DEF V
<1>11. ASSUME NEW k \in 1 .. m PROVE V[k] = More(V[k - 1], z[k], id)
  <2>1. k \in 0 .. m /\ k - 1 \in 0 .. m
    OBVIOUS
  <2>2. T[k] = More(T[k - 1], r[k], id)
    BY <1>1, <1>3
  <2> QED BY <1>7, <1>9, <2>1, <2>2
<1>12. ASSUME NEW j \in 1 .. n PROVE V[m + j] = More(V[m + j - 1], z[m + j], id)
  <2>1. j \in 0 .. n /\ j - 1 \in 0 .. n /\ m + j - 1 = m + (j - 1)
    OBVIOUS
  <2>2. V[m + j] = b \o U[j] /\ V[m + j - 1] = b \o U[j - 1] /\ z[m + j] = q[j]
    BY <1>7, <1>10, <2>1
  <2>3. U[j] = More(U[j - 1], q[j], id) /\ U[j - 1] \in Content
    BY <1>2, <1>3, <2>1
  <2>4. CASE Adds(q[j], id)
    <3>1. q[j].payload \in Payloads
      <4>1. q[j] \in Chunk
        BY <1>3, ElementOfSeq
      <4> QED BY <2>4, <4>1, ChunkFields DEF Adds
    <3>2. b \o Append(U[j - 1], q[j].payload) = Append(b \o U[j - 1], q[j].payload)
      <4>1. PICK u, p : u = U[j - 1] /\ p = q[j].payload
        OBVIOUS
      <4>2. b \in Seq(Payloads) /\ u \in Seq(Payloads) /\ p \in Payloads
        BY <2>3, <3>1, <4>1 DEF Content
      <4>3. b \o Append(u, p) = Append(b \o u, p)
        BY <4>2, AppendBehind
      <4> QED BY <4>1, <4>3
    <3> QED BY <2>2, <2>3, <2>4, <3>2 DEF More
  <2>5. CASE ~Adds(q[j], id)
    BY <2>2, <2>3, <2>5 DEF More
  <2> QED BY <2>4, <2>5
<1>13. \A k \in 1 .. Len(z) : V[k] = More(V[k - 1], z[k], id)
  <2> SUFFICES ASSUME NEW k \in 1 .. m + n PROVE V[k] = More(V[k - 1], z[k], id)
    BY <1>6
  <2>1. CASE k <= m
    BY <1>11, <2>1
  <2>2. CASE k > m
    <3>1. PICK j \in 1 .. n : k = m + j
      <4>1. k - m \in 1 .. n /\ k = m + (k - m)
        BY <2>2
      <4> QED BY <4>1
    <3> QED BY <1>12, <3>1
  <2> QED BY <2>1, <2>2
<1>14. V[0] = <<>>
  BY <1>1, <1>9
<1>15. V[Len(z)] = Collected(z, id)
  BY <1>6, <1>13, <1>14, CollectedIs
<1>16. V[m + n] = b \o Collected(q, id)
  <2>1. n \in 0 .. n
    OBVIOUS
  <2> QED BY <1>2, <1>3, <1>10, <2>1
<1> QED BY <1>4, <1>5, <1>6, <1>15, <1>16

(* The files of a row, each once. *)
NamesOn(row) == {row[i].name : i \in StartsIn(row)}

LEMMA RowChunks ==
  ASSUME NEW row \in Seq(Chunk)
  PROVE  /\ Len(row) \in Nat /\ DOMAIN row = 1 .. Len(row)
         /\ \A i \in DOMAIN row :
              /\ row[i] \in Chunk /\ row[i].type \in {"start", "data", "fill", "header"}
              /\ row[i].type = "data" => row[i].id \in Nat /\ row[i].payload \in Payloads
              /\ row[i].type = "start" => row[i].id \in Nat /\ row[i].name \in Names
         /\ \A i \in StartsIn(row) : i \in DOMAIN row /\ row[i].id \in Nat /\ row[i].name \in Names
<1>1. Len(row) \in Nat /\ DOMAIN row = 1 .. Len(row) /\ \A i \in 1 .. Len(row) : row[i] \in Chunk
  BY LenProperties, ElementOfSeq
<1>2. \A i \in DOMAIN row :
              /\ row[i] \in Chunk /\ row[i].type \in {"start", "data", "fill", "header"}
              /\ row[i].type = "data" => row[i].id \in Nat /\ row[i].payload \in Payloads
              /\ row[i].type = "start" => row[i].id \in Nat /\ row[i].name \in Names
  BY <1>1, ChunkFields
<1> QED BY <1>1, <1>2 DEF StartsIn

LEMMA FilesOnLemma ==
  ASSUME NEW m, m.chunks \in Seq(Chunk), WellFormed(m.chunks)
  PROVE  /\ DOMAIN FilesOn(m) = NamesOn(m.chunks) /\ DOMAIN IdOnMedia(m) = NamesOn(m.chunks)
         /\ NamesOn(m.chunks) \subseteq Names
         /\ \A i \in StartsIn(m.chunks) :
              /\ IdOnMedia(m)[m.chunks[i].name] = m.chunks[i].id
              /\ FilesOn(m)[m.chunks[i].name] = Collected(m.chunks, m.chunks[i].id)
         /\ FilesOn(m) = [n \in NamesOn(m.chunks) |-> FilesOn(m)[n]]
<1> DEFINE row == m.chunks
           S == StartsIn(row)
<1>1. DOMAIN IdOnMedia(m) = NamesOn(row)
  BY DEF IdOnMedia, NamesOn, Starts
<1>2. DOMAIN FilesOn(m) = NamesOn(row)
  BY <1>1 DEF FilesOn
<1>3. ASSUME NEW i \in S
      PROVE  /\ IdOnMedia(m)[row[i].name] = row[i].id
             /\ FilesOn(m)[row[i].name] = Collected(row, row[i].id)
  <2>1. \A j \in S : row[j].name = row[i].name => j = i
    BY DEF WellFormed
  <2>2. (CHOOSE j \in S : row[j].name = row[i].name) = i
    BY <2>1
  <2>3. row[i].name \in NamesOn(row)
    BY DEF NamesOn
  <2>4. IdOnMedia(m)[row[i].name] = row[i].id
    BY <2>2, <2>3 DEF IdOnMedia, NamesOn, Starts
  <2> QED BY <1>1, <2>3, <2>4 DEF FilesOn
<1>4. NamesOn(row) \subseteq Names
  BY RowChunks DEF NamesOn
<1>5. FilesOn(m) = [n \in NamesOn(m.chunks) |-> FilesOn(m)[n]]
  BY <1>1 DEF FilesOn
<1> QED BY <1>1, <1>2, <1>3, <1>4, <1>5

(* What follows of two media with the same chunks. *)
LEMMA FilesOnSame ==
  ASSUME NEW m, NEW x, x.chunks = m.chunks
  PROVE  FilesOn(x) = FilesOn(m) /\ IdOnMedia(x) = IdOnMedia(m) /\ Starts(x) = Starts(m)
<1>1. Starts(x) = Starts(m)
  BY DEF Starts
<1>2. IdOnMedia(x) = IdOnMedia(m)
  BY <1>1 DEF IdOnMedia
<1> QED BY <1>1, <1>2 DEF FilesOn

------------------------------------------------------------------------------
(* The maps keep their types. *)
LEMMA FileMapsAre ==
  ASSUME NEW f
  PROVE  /\ f \in FileMaps => f \in [DOMAIN f -> FileT] /\ DOMAIN f \subseteq Names
         /\ \A d \in SUBSET Names : f \in [d -> FileT] => f \in FileMaps
BY DEF FileMaps

LEMMA AssignedLemma ==
  ASSUME NEW f, NEW k, NEW v
  PROVE  /\ DOMAIN Assigned(f, k, v) = DOMAIN f \cup {k} /\ Assigned(f, k, v)[k] = v
         /\ \A x \in DOMAIN f : x # k => Assigned(f, k, v)[x] = f[x]
BY DEF Assigned

LEMMA WithoutLemma ==
  ASSUME NEW f, NEW k
  PROVE  /\ DOMAIN Without(f, k) = DOMAIN f \ {k}
         /\ \A x \in DOMAIN f \ {k} : Without(f, k)[x] = f[x]
BY DEF Without

LEMMA AssignedFile ==
  ASSUME NEW f \in FileMaps, NEW n \in Names, NEW v \in FileT
  PROVE  Assigned(f, n, v) \in FileMaps
<1>1. f \in [DOMAIN f -> FileT] /\ DOMAIN f \cup {n} \in SUBSET Names
  BY FileMapsAre
<1>2. Assigned(f, n, v) \in [DOMAIN f \cup {n} -> FileT]
  BY <1>1 DEF Assigned
<1> QED BY <1>1, <1>2 DEF FileMaps

LEMMA WithoutFile ==
  ASSUME NEW f \in FileMaps, NEW n
  PROVE  Without(f, n) \in FileMaps
<1>1. f \in [DOMAIN f -> FileT] /\ DOMAIN f \ {n} \in SUBSET Names
  BY FileMapsAre
<1>2. Without(f, n) \in [DOMAIN f \ {n} -> FileT]
  BY <1>1 DEF Without
<1> QED BY <1>1, <1>2 DEF FileMaps

LEMMA AssignedHeard ==
  ASSUME NEW f \in HeardMaps, NEW n \in Names, NEW v \in Content
  PROVE  Assigned(f, n, v) \in HeardMaps
<1>1. f \in [DOMAIN f -> Content] /\ DOMAIN f \cup {n} \in SUBSET Names
  BY DEF HeardMaps
<1>2. Assigned(f, n, v) \in [DOMAIN f \cup {n} -> Content]
  BY <1>1 DEF Assigned
<1> QED BY <1>1, <1>2 DEF HeardMaps

LEMMA IdMapsAre ==
  ASSUME NEW f \in IdMaps
  PROVE  /\ f \in [DOMAIN f -> Names] /\ DOMAIN f \subseteq Nat /\ IsFiniteSet(DOMAIN f)
BY DEF IdMaps

LEMMA AssignedId ==
  ASSUME NEW f \in IdMaps, NEW k \in Nat, NEW n \in Names
  PROVE  Assigned(f, k, n) \in IdMaps
<1>1. f \in [DOMAIN f -> Names] /\ DOMAIN f \cup {k} \in SUBSET Nat /\ IsFiniteSet(DOMAIN f \cup {k})
  BY IdMapsAre, FS_AddElement
<1>2. Assigned(f, k, n) \in [DOMAIN f \cup {k} -> Names]
  BY <1>1 DEF Assigned
<1> QED BY <1>1, <1>2 DEF IdMaps

LEMMA WithoutId ==
  ASSUME NEW f \in IdMaps, NEW k
  PROVE  Without(f, k) \in IdMaps
<1>1. f \in [DOMAIN f -> Names] /\ DOMAIN f \ {k} \in SUBSET Nat /\ IsFiniteSet(DOMAIN f \ {k})
  BY IdMapsAre, FS_RemoveElement, FS_Subset
<1>2. Without(f, k) \in [DOMAIN f \ {k} -> Names]
  BY <1>1 DEF Without
<1> QED BY <1>1, <1>2 DEF IdMaps

LEMMA EmptyMaps ==
  /\ NoEntries \in FileMaps /\ NoEntries \in IdMaps /\ NoEntries \in HeardMaps
  /\ DOMAIN NoEntries = {}
<1>1. DOMAIN NoEntries = {} /\ \A S : NoEntries \in [{} -> S]
  BY DEF NoEntries
<1>2. IsFiniteSet({}) /\ {} \in SUBSET Nat /\ {} \in SUBSET Names
  BY FS_EmptySet
<1> QED BY <1>1, <1>2 DEF FileMaps, IdMaps, HeardMaps

------------------------------------------------------------------------------
(* The statuses, the loads and one chunk of a scan.                      *)

ScanT == [container : ContainerT, status : StatusT, heard : HeardMaps]

LEMMA StatusTypes ==
  /\ NoStatus \in StatusT /\ ~Informs(NoStatus)
  /\ \A s \in {ShortRead, FilenameMismatch, StreamIdentifierMismatch, StreamingReadError,
               ContainerDataError, FailedToOpenFile, FileWriteError, HeaderIdentifierInvalid,
               VersionDownlevelStatus, HeaderVersionInvalid, HeaderCrcError} :
       s \in StatusT /\ Informs(s)
<1>1. ASSUME NEW c \in Classes, NEW n \in Nat, NEW r \in BOOLEAN
      PROVE  /\ WithCode(Pimpl(c, r), n) = [class |-> c, code |-> n, recoverable |-> r, count |-> 0]
             /\ WithCode(Pimpl(c, r), n) \in StatusT
             /\ c # "NO_STATUS" => Informs(WithCode(Pimpl(c, r), n))
  BY DEF StatusT, WithCode, Pimpl, Informs
<1>2. NoStatus \in StatusT /\ ~Informs(NoStatus)
  BY DEF NoStatus, StatusPimpl, Pimpl, Informs, StatusT, Classes
<1>3. ShortRead \in StatusT /\ Informs(ShortRead)
  <2>1. ShortRead = [WithCode(Pimpl("FILESYSTEM_STATUS", TRUE), 12) EXCEPT !.count = 1]
    BY DEF ShortRead, ReadSuccessful, FilesystemStatus, StatusPimpl
  <2>2. WithCode(Pimpl("FILESYSTEM_STATUS", TRUE), 12)
          = [class |-> "FILESYSTEM_STATUS", code |-> 12, recoverable |-> TRUE, count |-> 0]
    BY <1>1 DEF Classes
  <2>3. ShortRead = [class |-> "FILESYSTEM_STATUS", code |-> 12, recoverable |-> TRUE, count |-> 1]
    <3>1. PICK r : r = WithCode(Pimpl("FILESYSTEM_STATUS", TRUE), 12)
      OBVIOUS
    <3>2. r = [class |-> "FILESYSTEM_STATUS", code |-> 12, recoverable |-> TRUE, count |-> 0]
      BY <2>2, <3>1
    <3>3. ShortRead = [r EXCEPT !.count = 1]
      BY <2>1, <3>1
    <3> QED BY <3>2, <3>3
  <2> QED BY <2>3 DEF StatusT, Classes, Informs
<1>4. /\ FilenameMismatch \in StatusT /\ Informs(FilenameMismatch)
      /\ StreamIdentifierMismatch \in StatusT /\ Informs(StreamIdentifierMismatch)
      /\ ContainerDataError \in StatusT /\ Informs(ContainerDataError)
  BY <1>1 DEF FilenameMismatch, StreamIdentifierMismatch, ContainerDataError,
              MetadataMismatchError, InternalError, ErrorPimpl, Classes
<1>5. StreamingReadError \in StatusT /\ Informs(StreamingReadError)
  BY <1>1 DEF StreamingReadError, ErrorPimpl, Classes
<1>6. /\ FailedToOpenFile \in StatusT /\ Informs(FailedToOpenFile)
      /\ FileWriteError \in StatusT /\ Informs(FileWriteError)
  BY <1>1 DEF FailedToOpenFile, FileWriteError, FilesystemError, ErrorPimpl, Classes
<1>7. /\ HeaderIdentifierInvalid \in StatusT /\ Informs(HeaderIdentifierInvalid)
      /\ HeaderVersionInvalid \in StatusT /\ Informs(HeaderVersionInvalid)
      /\ HeaderCrcError \in StatusT /\ Informs(HeaderCrcError)
  BY <1>1 DEF HeaderIdentifierInvalid, HeaderVersionInvalid, HeaderCrcError, HeaderError, ErrorPimpl, Classes
<1>8. VersionDownlevelStatus \in StatusT /\ Informs(VersionDownlevelStatus)
  BY <1>1 DEF VersionDownlevelStatus, ErrorPimpl, Classes
<1> QED BY <1>2, <1>3, <1>4, <1>5, <1>6, <1>7, <1>8

LEMMA LoadStatus ==
  ASSUME NEW m, NEW i, NEW p
  PROVE  Load(m, i, p) \in {NoStatus, ShortRead} /\ Load(m, i, p) \in StatusT
<1>1. Load(m, i, p) = NoStatus \/ Load(m, i, p) = ShortRead
  BY DEF Load
<1> QED BY <1>1, StatusTypes

(* The file that a start chunk makes. *)
Begun(id) == [id |-> id, started |-> TRUE, stored |-> <<>>, tail |-> <<>>, moved |-> FALSE]

LEMMA NewFileType ==
  ASSUME NEW id \in Nat
  PROVE  /\ NewFile(id) \in FileT /\ Begun(id) \in FileT
         /\ [NewFile(id) EXCEPT !.started = TRUE] = Begun(id)
<1>1. <<>> \in Content
  BY EmptySeq DEF Content
<1>2. NewFile(id) \in FileT /\ Begun(id) \in FileT
  BY <1>1 DEF NewFile, Begun, FileT
<1>3. PICK r : r = NewFile(id)
  OBVIOUS
<1>4. r = [id |-> id, started |-> FALSE, stored |-> <<>>, tail |-> <<>>, moved |-> FALSE]
  BY <1>3 DEF NewFile
<1>5. [r EXCEPT !.started = TRUE] = Begun(id)
  <2>1. r \in FileT
    BY <1>2, <1>3
  <2>2. PICK q : q = [r EXCEPT !.started = TRUE]
    OBVIOUS
  <2>3. q.id = r.id /\ q.started = TRUE /\ q.stored = r.stored /\ q.tail = r.tail /\ q.moved = r.moved
        /\ q \in FileT
    BY <2>1, <2>2 DEF FileT
  <2>4. q = [id |-> q.id, started |-> q.started, stored |-> q.stored, tail |-> q.tail, moved |-> q.moved]
    BY <2>3 DEF FileT
  <2> QED BY <1>4, <2>2, <2>3, <2>4 DEF Begun
<1> QED BY <1>2, <1>3, <1>5

LEMMA FoundFileLemma ==
  ASSUME NEW c \in ContainerT, NEW ch, ch.name \in Names, ch.id \in Nat
  PROVE  /\ FoundFile(c, ch) \in ContainerT
         /\ FoundFile(c, ch).located = c.located /\ FoundFile(c, ch).populated = c.populated
         /\ FoundFile(c, ch).last = c.last
         /\ FoundFile(c, ch).files = Assigned(c.files, ch.name, Begun(ch.id))
         /\ DOMAIN FoundFile(c, ch).ids = DOMAIN c.ids \cup {ch.id}
         /\ ch.id \notin DOMAIN c.ids =>
              /\ FoundFile(c, ch).ids[ch.id] = ch.name
              /\ \A k \in DOMAIN c.ids : FoundFile(c, ch).ids[k] = c.ids[k]
<1> DEFINE known(g) == Assigned(c.ids, g, ch.name)
           after(g) == IF g = ch.id THEN known(g)
                       ELSE Without(IF ch.id \in DOMAIN known(g) THEN known(g)
                                    ELSE Assigned(known(g), ch.id, ch.name), g)
<1>1. c.files \in FileMaps /\ c.ids \in IdMaps /\ c.located \in BOOLEAN /\ c.populated \in BOOLEAN
        /\ c.last \in StatusT
  BY DEF ContainerT
<1>2. PICK g \in Nat : g = UnusedIdentifier(c.ids) /\ g \notin DOMAIN c.ids
  BY <1>1, UnusedLemma
<1>3. FoundFile(c, ch) = [c EXCEPT !.files = Assigned(@, ch.name, Begun(ch.id)), !.ids = after(g)]
  BY <1>2, NewFileType DEF FoundFile
<1>4. known(g) \in IdMaps
  BY <1>1, <1>2, AssignedId
<1>5. after(g) \in IdMaps
  <2>1. Assigned(known(g), ch.id, ch.name) \in IdMaps
    <3> HIDE DEF known
    <3> QED BY <1>4, AssignedId
  <2> HIDE DEF known
  <2> QED BY <1>4, <2>1, WithoutId
<1>6. DOMAIN after(g) = DOMAIN c.ids \cup {ch.id}
  BY <1>2 DEF Assigned, Without
<1>7. ch.id \notin DOMAIN c.ids =>
        after(g)[ch.id] = ch.name /\ \A k \in DOMAIN c.ids : after(g)[k] = c.ids[k]
  BY <1>2 DEF Assigned, Without
<1>8. Assigned(c.files, ch.name, Begun(ch.id)) \in FileMaps
  BY <1>1, AssignedFile, NewFileType
<1> HIDE DEF after
<1>9. PICK f, d : f = Assigned(c.files, ch.name, Begun(ch.id)) /\ d = after(g)
  OBVIOUS
<1>10. FoundFile(c, ch) = [c EXCEPT !.files = f, !.ids = d]
  BY <1>3, <1>9
<1>11. /\ [c EXCEPT !.files = f, !.ids = d] \in ContainerT
       /\ [c EXCEPT !.files = f, !.ids = d].located = c.located
       /\ [c EXCEPT !.files = f, !.ids = d].populated = c.populated
       /\ [c EXCEPT !.files = f, !.ids = d].last = c.last
       /\ [c EXCEPT !.files = f, !.ids = d].files = f
       /\ [c EXCEPT !.files = f, !.ids = d].ids = d
  BY <1>1, <1>5, <1>8, <1>9 DEF ContainerT
<1> QED BY <1>6, <1>7, <1>9, <1>10, <1>11

(* A step of a scan adds to the maps. *)
LEMMA ScanChunkType ==
  ASSUME NEW s \in ScanT, NEW m, m.chunks \in Seq(Chunk), NEW i \in DOMAIN m.chunks,
         NEW mapsOnly \in BOOLEAN, NEW listens \in BOOLEAN
  PROVE  /\ ScanChunk(s, m, i, mapsOnly, listens) \in ScanT
         /\ ScanChunk(s, m, i, mapsOnly, listens).container.located = s.container.located
         /\ ScanChunk(s, m, i, mapsOnly, listens).container.populated = s.container.populated
         /\ DOMAIN s.container.files \subseteq DOMAIN ScanChunk(s, m, i, mapsOnly, listens).container.files
<1> DEFINE t == ScanChunk(s, m, i, mapsOnly, listens)
           Fine(x) == /\ x \in ScanT /\ x.container.located = s.container.located
                      /\ x.container.populated = s.container.populated
                      /\ DOMAIN s.container.files \subseteq DOMAIN x.container.files
           ch == m.chunks[i]
<1>1. /\ ch.type \in {"start", "data", "fill", "header"}
      /\ ch.type = "data" => ch.id \in Nat /\ ch.payload \in Payloads
      /\ ch.type = "start" => ch.id \in Nat /\ ch.name \in Names
  BY RowChunks
<1>2. s.container \in ContainerT /\ s.status \in StatusT /\ s.heard \in HeardMaps
  BY DEF ScanT
<1>3. ASSUME NEW x \in StatusT PROVE Fine(Fails(s, x))
  <2>1. Fails(s, x) \in ScanT /\ Fails(s, x).container = s.container
    BY <1>2 DEF Fails, ScanT
  <2> QED BY <2>1
<1>4. Fine(s)
  OBVIOUS
<1>5. ASSUME ch.type = "start" PROVE Fine(ScanStart(s, m, i))
  <2> DEFINE c == FoundFile(s.container, ch)
             x == [s EXCEPT !.container = FoundFile(@, ch), !.heard = Assigned(@, ch.name, <<>>)]
  <2>1. c \in ContainerT /\ c.located = s.container.located /\ c.populated = s.container.populated
        /\ c.files = Assigned(s.container.files, ch.name, Begun(ch.id))
    BY <1>1, <1>2, <1>5, FoundFileLemma
  <2>2. DOMAIN s.container.files \subseteq DOMAIN c.files
    <3>1. DOMAIN Assigned(s.container.files, ch.name, Begun(ch.id)) = DOMAIN s.container.files \cup {ch.name}
      BY DEF Assigned
    <3> HIDE DEF c
    <3> QED BY <2>1, <3>1
  <2>3. Assigned(s.heard, ch.name, <<>>) \in HeardMaps
    BY <1>1, <1>2, <1>5, AssignedHeard, EmptySeq DEF Content
  <2> HIDE DEF c
  <2>4. x = [s EXCEPT !.container = c, !.heard = Assigned(@, ch.name, <<>>)]
    BY DEF c
  <2>5. x \in ScanT /\ x.container = c
    BY <2>1, <2>3, <2>4 DEF ScanT
  <2>6. Fine(x)
    BY <2>1, <2>2, <2>5
  <2>7. ScanStart(s, m, i) \in {Fails(s, Load(m, i, 2)), Fails(s, FilenameMismatch), x}
    BY DEF ScanStart
  <2>8. Fine(Fails(s, Load(m, i, 2))) /\ Fine(Fails(s, FilenameMismatch))
    <3> HIDE DEF Fine
    <3> QED BY <1>3, LoadStatus, StatusTypes
  <2> HIDE DEF Fine, x
  <2> QED BY <2>6, <2>7, <2>8
<1>6. ASSUME ch.type = "data" PROVE Fine(ScanData(s, m, i, mapsOnly, listens))
  <2> DEFINE name == s.container.ids[ch.id]
             c == [s.container EXCEPT !.files[name].stored = Append(@, ch.payload)]
             h == IF mapsOnly \/ ~listens THEN s.heard
                  ELSE [s.heard EXCEPT ![name] = Append(@, ch.payload)]
             x == [container |-> c,
                   status |-> IF mapsOnly \/ listens THEN NoStatus ELSE StreamingReadError,
                   heard |-> h]
             p == IF mapsOnly THEN 2 ELSE 3
  <2>1. c \in ContainerT /\ c.located = s.container.located /\ c.populated = s.container.populated
          /\ DOMAIN c.files = DOMAIN s.container.files
    <3>1. PICK f \in FileMaps : f = s.container.files
      BY <1>2 DEF ContainerT
    <3>2. f \in [DOMAIN f -> FileT] /\ DOMAIN f \in SUBSET Names
      BY <3>1, FileMapsAre
    <3>3. PICK n : n = name
      OBVIOUS
    <3>4. [f EXCEPT ![n].stored = Append(@, ch.payload)] \in [DOMAIN f -> FileT]
      <4>1. ASSUME n \in DOMAIN f PROVE [f[n] EXCEPT !.stored = Append(@, ch.payload)] \in FileT
        <5>1. f[n] \in FileT
          BY <3>2, <4>1
        <5>2. Append(f[n].stored, ch.payload) \in Content
          BY <1>1, <1>6, <5>1, AppendProperties DEF FileT, Content
        <5> QED BY <5>1, <5>2 DEF FileT
      <4> QED BY <3>2, <4>1
    <3>5. PICK g : g = [f EXCEPT ![n].stored = Append(@, ch.payload)]
      OBVIOUS
    <3>6. g \in FileMaps /\ DOMAIN g = DOMAIN f
      BY <3>2, <3>4, <3>5 DEF FileMaps
    <3>7. c = [s.container EXCEPT !.files = g]
      BY <1>2, <3>1, <3>3, <3>5 DEF ContainerT
    <3> QED BY <1>2, <3>1, <3>6, <3>7 DEF ContainerT
  <2>2. h \in HeardMaps
    <3>1. CASE mapsOnly \/ ~listens
      BY <1>2, <3>1
    <3>2. CASE ~(mapsOnly \/ ~listens)
      <4>1. s.heard \in [DOMAIN s.heard -> Content] /\ DOMAIN s.heard \in SUBSET Names
        BY <1>2 DEF HeardMaps
      <4>2. \A y \in Content : Append(y, ch.payload) \in Content
        BY <1>1, <1>6, AppendProperties DEF Content
      <4>3. [s.heard EXCEPT ![name] = Append(@, ch.payload)] \in [DOMAIN s.heard -> Content]
        BY <4>1, <4>2
      <4> QED BY <3>2, <4>1, <4>3 DEF HeardMaps
    <3> QED BY <3>1, <3>2
  <2>3. x \in ScanT /\ x.container = c
    <3> HIDE DEF c, h
    <3> QED BY <2>1, <2>2, StatusTypes DEF ScanT
  <2>4. Fine(x)
    <3> HIDE DEF c, h, x
    <3> QED BY <2>1, <2>3
  <2>5. ScanData(s, m, i, mapsOnly, listens) \in {Fails(s, Load(m, i, p)), Fails(s, StreamIdentifierMismatch), x}
    BY DEF ScanData
  <2>6. Fine(Fails(s, Load(m, i, p))) /\ Fine(Fails(s, StreamIdentifierMismatch))
    <3> HIDE DEF Fine, p
    <3> QED BY <1>3, LoadStatus, StatusTypes
  <2> HIDE DEF Fine, x
  <2> QED BY <2>4, <2>5, <2>6
<1>7. t \in {Fails(s, Load(m, i, 1)), Fails(s, ContainerDataError), s}
      \/ (ch.type = "start" /\ t = ScanStart(s, m, i))
      \/ (ch.type = "data" /\ t = ScanData(s, m, i, mapsOnly, listens))
  BY <1>1 DEF ScanChunk
<1>8. Fine(Fails(s, Load(m, i, 1))) /\ Fine(Fails(s, ContainerDataError))
  <2> HIDE DEF Fine
  <2> QED BY <1>3, LoadStatus, StatusTypes
<1>9. Fine(t)
  <2> HIDE DEF Fine, t
  <2> QED BY <1>4, <1>5, <1>6, <1>7, <1>8
<1> QED BY <1>9

(* A scan, one chunk after the other. *)
ScanFrom(c) == [container |-> [c EXCEPT !.populated = TRUE], status |-> NoStatus, heard |-> NoEntries]
ScanStep(t, m, i, mapsOnly, listens) ==
  IF Informs(t.status) THEN t ELSE ScanChunk(t, m, i, mapsOnly, listens)

ScanRun(T, c, m, mapsOnly, listens) ==
  /\ T \in [0 .. Len(m.chunks) -> ScanT]
  /\ T[0] = ScanFrom(c) /\ T[Len(m.chunks)] = Traverse(c, m, mapsOnly, listens)
  /\ \A k \in 1 .. Len(m.chunks) : T[k] = ScanStep(T[k - 1], m, k, mapsOnly, listens)

LEMMA ScanFromType ==
  ASSUME NEW c \in ContainerT
  PROVE  /\ ScanFrom(c) \in ScanT /\ ~Informs(ScanFrom(c).status)
         /\ ScanFrom(c).container.files = c.files /\ ScanFrom(c).container.ids = c.ids
         /\ ScanFrom(c).container.located = c.located /\ ScanFrom(c).container.populated
         /\ ScanFrom(c).heard = NoEntries
<1>1. PICK d : d = [c EXCEPT !.populated = TRUE]
  OBVIOUS
<1>2. d \in ContainerT /\ d.files = c.files /\ d.ids = c.ids /\ d.located = c.located /\ d.populated
  BY <1>1 DEF ContainerT
<1>3. ScanFrom(c) = [container |-> d, status |-> NoStatus, heard |-> NoEntries]
  BY <1>1 DEF ScanFrom
<1> QED BY <1>2, <1>3, StatusTypes, EmptyMaps DEF ScanT

LEMMA ScanRuns ==
  ASSUME NEW c \in ContainerT, c.located, NEW m, m.chunks \in Seq(Chunk),
         NEW mapsOnly \in BOOLEAN, NEW listens \in BOOLEAN
  PROVE  \E T : ScanRun(T, c, m, mapsOnly, listens)
<1> DEFINE row == m.chunks
           n == Len(row)
           b == ScanFrom(c)
           step == [p \in (1 .. n) \X ScanT |-> ScanStep(p[2], m, p[1], mapsOnly, listens)]
           places == [i \in DOMAIN row |-> i]
           Good(g) == g = [s \in SUBSET DOMAIN places |->
                             IF s = {} THEN b
                             ELSE IF Informs(g[s \ {LastIn(s)}].status) THEN g[s \ {LastIn(s)}]
                                  ELSE ScanChunk(g[s \ {LastIn(s)}], m, places[LastIn(s)], mapsOnly, listens)]
           f == CHOOSE g : Good(g)
<1>1. n \in Nat /\ DOMAIN row = 1 .. n /\ DOMAIN places = 1 .. n
  BY LenProperties
<1>2. b \in ScanT
  BY ScanFromType
<1>3. step \in [(1 .. n) \X ScanT -> ScanT]
  <2>1. ASSUME NEW p \in (1 .. n) \X ScanT
        PROVE  ScanStep(p[2], m, p[1], mapsOnly, listens) \in ScanT
    <3>1. p[1] \in DOMAIN m.chunks /\ p[2] \in ScanT
      BY <1>1
    <3> QED BY <3>1, ScanChunkType DEF ScanStep
  <2> QED BY <2>1
<1>4. \A s \in SUBSET (1 .. n) : s # {} => LastIn(s) \in 1 .. n /\ places[LastIn(s)] = LastIn(s)
  <2>1. \A s \in SUBSET (1 .. n) : s # {} => LastIn(s) \in 1 .. n
    BY <1>1, LastInLemma
  <2> QED BY <1>1, <2>1
<1>5. f[DOMAIN places] = Traverse(c, m, mapsOnly, listens)
  BY DEF Traverse, FoldLeftDomain, FoldLeft, MapThenFoldSet, Max, LastIn, ScanFrom
<1>6. PICK h : RowFold(h, n, ScanT, b, step)
  <2> HIDE DEF step, n, b
  <2> QED BY <1>1, <1>2, <1>3, RowFoldExists
<1>8. ASSUME NEW g, NEW s \in SUBSET (1 .. n), s # {}, g[s \ {LastIn(s)}] \in ScanT
      PROVE  step[<<LastIn(s), g[s \ {LastIn(s)}]>>]
               = IF Informs(g[s \ {LastIn(s)}].status) THEN g[s \ {LastIn(s)}]
                 ELSE ScanChunk(g[s \ {LastIn(s)}], m, places[LastIn(s)], mapsOnly, listens)
  <2>1. LastIn(s) \in 1 .. n /\ places[LastIn(s)] = LastIn(s)
    BY <1>4, <1>8
  <2> QED BY <1>8, <2>1 DEF ScanStep
<1>9. Good(h)
  <2>1. \A s \in SUBSET (1 .. n) : s \ {LastIn(s)} \in SUBSET (1 .. n)
    OBVIOUS
  <2> HIDE DEF step, places, b
  <2> QED BY <1>1, <1>6, <1>8, <2>1 DEF RowFold
<1>10. Good(f)
  <2> HIDE DEF Good
  <2> QED BY <1>9
<1>11. RowUnfolds(f, n, ScanT, b, step)
  <2>1. PICK g : g = f /\ Good(g)
    BY <1>10
  <2>2. g[{}] = b
    BY <2>1
  <2>3. ASSUME NEW s \in SUBSET (1 .. n), s # {}, g[s \ {LastIn(s)}] \in ScanT
        PROVE  g[s] = step[<<LastIn(s), g[s \ {LastIn(s)}]>>]
    <3>1. g[s] = IF Informs(g[s \ {LastIn(s)}].status) THEN g[s \ {LastIn(s)}]
                 ELSE ScanChunk(g[s \ {LastIn(s)}], m, places[LastIn(s)], mapsOnly, listens)
      <4> HIDE DEF places, b
      <4> QED BY <1>1, <2>1, <2>3
    <3> HIDE DEF step, places
    <3> QED BY <1>8, <2>3, <3>1
  <2> HIDE DEF step, f, b
  <2> QED BY <2>1, <2>2, <2>3 DEF RowUnfolds
<1>12. PICK T : RowRun(T, n, ScanT, b, step, f[1 .. n])
  <2> HIDE DEF step, f, n, b
  <2> QED BY <1>1, <1>2, <1>3, <1>11, RowRunLemma
<1>13. /\ T \in [0 .. n -> ScanT] /\ T[0] = b /\ T[n] = f[1 .. n]
       /\ \A k \in 1 .. n : T[k] = step[<<k, T[k - 1]>>]
  <2> HIDE DEF step, f, n, b
  <2> QED BY <1>12 DEF RowRun
<1>14. \A k \in 1 .. n : T[k] = ScanStep(T[k - 1], m, k, mapsOnly, listens)
  <2> SUFFICES ASSUME NEW k \in 1 .. n PROVE T[k] = ScanStep(T[k - 1], m, k, mapsOnly, listens)
    OBVIOUS
  <2>1. T[k - 1] \in ScanT
    BY <1>1, <1>13
  <2> QED BY <1>13, <2>1
<1>15. T[n] = Traverse(c, m, mapsOnly, listens)
  <2> HIDE DEF f, n
  <2> QED BY <1>1, <1>5, <1>13
<1> HIDE DEF f, b, step
<1> QED BY <1>13, <1>14, <1>15 DEF ScanRun, b

(* A scan that has something to say has ended, and no scan forgets a file. *)
LEMMA ScanGrows ==
  ASSUME NEW c \in ContainerT, NEW m, m.chunks \in Seq(Chunk),
         NEW mapsOnly \in BOOLEAN, NEW listens \in BOOLEAN, NEW T, ScanRun(T, c, m, mapsOnly, listens)
  PROVE  \A k \in 0 .. Len(m.chunks) :
           /\ T[k] \in ScanT
           /\ T[k].container.located = c.located /\ T[k].container.populated
           /\ DOMAIN c.files \subseteq DOMAIN T[k].container.files
           /\ \A j \in 0 .. k : /\ DOMAIN T[j].container.files \subseteq DOMAIN T[k].container.files
                                /\ Informs(T[j].status) => T[k] = T[j]
<1>1. PICK n \in Nat : n = Len(m.chunks)
  BY LenProperties
<1> DEFINE P(k) == /\ T[k].container.located = c.located /\ T[k].container.populated
                   /\ \A j \in 0 .. k : /\ DOMAIN T[j].container.files \subseteq DOMAIN T[k].container.files
                                        /\ Informs(T[j].status) => T[k] = T[j]
           G == {k \in 0 .. n : P(k)}
<1>2. T \in [0 .. n -> ScanT] /\ T[0] = ScanFrom(c)
        /\ \A k \in 1 .. n : T[k] = ScanStep(T[k - 1], m, k, mapsOnly, listens)
  BY <1>1 DEF ScanRun
<1>3. 0 \in G
  <2>1. \A j \in 0 .. 0 : j = 0
    OBVIOUS
  <2>2. P(0)
    BY <1>2, <2>1, ScanFromType
  <2> QED BY <2>2
<1>4. ASSUME NEW k \in 1 .. n, k - 1 \in G PROVE k \in G
  <2>1. k - 1 \in 0 .. n /\ k \in 0 .. n /\ k \in DOMAIN m.chunks
    BY <1>1, LenProperties
  <2>2. T[k - 1] \in ScanT /\ P(k - 1)
    BY <1>2, <1>4, <2>1
  <2>3. /\ T[k].container.located = T[k - 1].container.located
        /\ T[k].container.populated = T[k - 1].container.populated
        /\ DOMAIN T[k - 1].container.files \subseteq DOMAIN T[k].container.files
        /\ Informs(T[k - 1].status) => T[k] = T[k - 1]
    <3>1. T[k] = ScanStep(T[k - 1], m, k, mapsOnly, listens)
      BY <1>2
    <3>2. CASE Informs(T[k - 1].status)
      BY <3>1, <3>2 DEF ScanStep
    <3>3. CASE ~Informs(T[k - 1].status)
      <4>1. T[k] = ScanChunk(T[k - 1], m, k, mapsOnly, listens)
        BY <3>1, <3>3 DEF ScanStep
      <4>2. PICK s : s = T[k - 1]
        OBVIOUS
      <4>3. s \in ScanT /\ T[k] = ScanChunk(s, m, k, mapsOnly, listens) /\ ~Informs(s.status)
        BY <2>2, <3>3, <4>1, <4>2
      <4>4. /\ T[k].container.located = s.container.located
            /\ T[k].container.populated = s.container.populated
            /\ DOMAIN s.container.files \subseteq DOMAIN T[k].container.files
        BY <2>1, <4>3, ScanChunkType
      <4> QED BY <4>2, <4>3, <4>4
    <3> QED BY <3>2, <3>3
  <2>4. ASSUME NEW j \in 0 .. k
        PROVE  /\ DOMAIN T[j].container.files \subseteq DOMAIN T[k].container.files
               /\ Informs(T[j].status) => T[k] = T[j]
    <3>1. CASE j = k
      BY <3>1
    <3>2. CASE j \in 0 .. (k - 1)
      <4>1. /\ DOMAIN T[j].container.files \subseteq DOMAIN T[k - 1].container.files
            /\ Informs(T[j].status) => T[k - 1] = T[j]
        BY <2>2, <3>2
      <4> QED BY <2>3, <4>1
    <3> QED BY <3>1, <3>2
  <2>5. P(k)
    BY <2>2, <2>3, <2>4
  <2> QED BY <2>1, <2>5
<1>5. \A k \in 0 .. n : k \in G
  <2> HIDE DEF G
  <2> QED BY <1>3, <1>4, RowInduction
<1>6. ASSUME NEW k \in 0 .. n
      PROVE  DOMAIN c.files \subseteq DOMAIN T[k].container.files
  <2>1. 0 \in 0 .. k
    OBVIOUS
  <2>2. DOMAIN T[0].container.files \subseteq DOMAIN T[k].container.files
    BY <1>5, <2>1
  <2> QED BY <1>2, <2>2, ScanFromType
<1> QED BY <1>1, <1>2, <1>5, <1>6

LEMMA TraverseType ==
  ASSUME NEW c \in ContainerT, NEW m, m.chunks \in Seq(Chunk),
         NEW mapsOnly \in BOOLEAN, NEW listens \in BOOLEAN
  PROVE  /\ Traverse(c, m, mapsOnly, listens) \in ScanT
         /\ Traverse(c, m, mapsOnly, listens).container.located = c.located
         /\ Traverse(c, m, mapsOnly, listens).container.populated
         /\ DOMAIN c.files \subseteq DOMAIN Traverse(c, m, mapsOnly, listens).container.files
<1>1. CASE c.located
  <2>1. PICK T : ScanRun(T, c, m, mapsOnly, listens)
    BY <1>1, ScanRuns
  <2>2. Len(m.chunks) \in 0 .. Len(m.chunks)
    BY LenProperties
  <2>3. T[Len(m.chunks)] = Traverse(c, m, mapsOnly, listens)
    BY <2>1 DEF ScanRun
  <2> QED BY <2>1, <2>2, <2>3, ScanGrows
<1>2. CASE ~c.located
  <2>1. Traverse(c, m, mapsOnly, listens) = ScanFrom(c)
    BY <1>2 DEF Traverse, ScanFrom
  <2> QED BY <2>1, ScanFromType
<1> QED BY <1>1, <1>2 DEF ContainerT

------------------------------------------------------------------------------
(* What a scan of the first k chunks has made of a container that knew     *)
(* nothing, and has handed to receivedData.                                *)
FileOf(id, stored) == [id |-> id, started |-> TRUE, stored |-> stored, tail |-> <<>>, moved |-> FALSE]

LEMMA FileOfLemma ==
  ASSUME NEW id \in Nat, NEW a \in Content, NEW b \in Content
  PROVE  /\ FileOf(id, a) \in FileT /\ [FileOf(id, a) EXCEPT !.stored = b] = FileOf(id, b)
<1>1. PICK r : r = FileOf(id, a)
  OBVIOUS
<1>2. /\ r \in FileT /\ r.id = id /\ r.started = TRUE /\ r.stored = a /\ r.tail = <<>> /\ r.moved = FALSE
  BY <1>1, EmptySeq DEF FileOf, FileT, Content
<1>3. PICK q : q = [r EXCEPT !.stored = b]
  OBVIOUS
<1>4. /\ q.id = r.id /\ q.started = r.started /\ q.stored = b /\ q.tail = r.tail /\ q.moved = r.moved
      /\ q \in FileT
  BY <1>2, <1>3 DEF FileT
<1>5. q = [id |-> q.id, started |-> q.started, stored |-> q.stored, tail |-> q.tail, moved |-> q.moved]
  BY <1>4 DEF FileT
<1>6. q = FileOf(id, b)
  BY <1>2, <1>4, <1>5 DEF FileOf
<1> QED BY <1>1, <1>2, <1>3, <1>6

StartsTo(row, k) == {i \in StartsIn(row) : i <= k}
ScannedTo(s, row, k, mapsOnly) ==
  /\ DOMAIN s.container.files = {row[i].name : i \in StartsTo(row, k)}
  /\ DOMAIN s.container.ids = {row[i].id : i \in StartsTo(row, k)}
  /\ \A i \in StartsTo(row, k) :
       /\ s.container.ids[row[i].id] = row[i].name
       /\ s.container.files[row[i].name] = FileOf(row[i].id, So(row, k, row[i].id))
  /\ ~mapsOnly => /\ DOMAIN s.heard = {row[i].name : i \in StartsTo(row, k)}
                  /\ \A i \in StartsTo(row, k) : s.heard[row[i].name] = So(row, k, row[i].id)

LEMMA ScannedStep ==
  ASSUME NEW s \in ScanT, NEW m, m.chunks \in Seq(Chunk), WellFormed(m.chunks),
         NEW k \in 1 .. Len(m.chunks), NEW mapsOnly \in BOOLEAN, NEW listens \in BOOLEAN,
         ~Informs(s.status), ScannedTo(s, m.chunks, k - 1, mapsOnly),
         ~Informs(ScanChunk(s, m, k, mapsOnly, listens).status)
  PROVE  ScannedTo(ScanChunk(s, m, k, mapsOnly, listens), m.chunks, k, mapsOnly)
<1> DEFINE t == ScanChunk(s, m, k, mapsOnly, listens)
<1>0. PICK row \in Seq(Chunk) : row = m.chunks
  OBVIOUS
<1> DEFINE ch == row[k]
           st == StartsTo(row, k)
           su == StartsTo(row, k - 1)
<1>1. /\ Len(row) \in Nat /\ k \in 1 .. Len(row) /\ k \in Nat /\ k \in DOMAIN row
      /\ ch.type \in {"start", "data", "fill", "header"}
      /\ ch.type = "data" => ch.id \in Nat /\ ch.payload \in Payloads
      /\ ch.type = "start" => ch.id \in Nat /\ ch.name \in Names
      /\ \A i \in StartsIn(row) : i \in Nat /\ row[i].id \in Nat /\ row[i].name \in Names
      /\ StartsIn(row) \subseteq DOMAIN row
  BY <1>0, RowChunks
<1>2. /\ \A i, j \in StartsIn(row) : i # j => row[i].id # row[j].id /\ row[i].name # row[j].name
      /\ \A j \in DOMAIN row : row[j].type = "data" =>
           \E i \in StartsIn(row) : i < j /\ row[i].id = row[j].id
  BY <1>0 DEF WellFormed
<1>3. /\ DOMAIN s.container.files = {row[i].name : i \in su}
      /\ DOMAIN s.container.ids = {row[i].id : i \in su}
      /\ \A i \in su :
           /\ s.container.ids[row[i].id] = row[i].name
           /\ s.container.files[row[i].name] = FileOf(row[i].id, So(row, k - 1, row[i].id))
      /\ ~mapsOnly => /\ DOMAIN s.heard = {row[i].name : i \in su}
                      /\ \A i \in su : s.heard[row[i].name] = So(row, k - 1, row[i].id)
  BY <1>0 DEF ScannedTo
<1>4. \A id : So(row, k, id) = More(So(row, k - 1, id), ch, id) /\ So(row, k - 1, id) \in Content
  <2>1. k - 1 \in 0 .. Len(row)
    BY <1>1
  <2> QED BY <1>1, <2>1, CollectedPrefix
<1>5. ch.type # "start" => st = su
  BY <1>1 DEF StartsTo, StartsIn
<1>6. s.container \in ContainerT /\ s.heard \in HeardMaps
  BY DEF ScanT
<1>7. CASE ch.type = "fill"
  <2>1. t = s
    <3>1. t = Fails(s, Load(m, k, 1)) \/ t = s
      BY <1>0, <1>7 DEF ScanChunk
    <3>2. Informs(Load(m, k, 1)) => t = Fails(s, Load(m, k, 1))
      BY <1>0, <1>7 DEF ScanChunk
    <3>3. Fails(s, Load(m, k, 1)).status = Load(m, k, 1)
      BY DEF Fails, ScanT
    <3>4. ~Informs(Load(m, k, 1)) => t = s
      BY <1>0, <1>7 DEF ScanChunk
    <3> HIDE DEF t
    <3> QED BY <3>2, <3>3, <3>4 DEF t
  <2>2. st = su /\ \A id : So(row, k, id) = So(row, k - 1, id)
    BY <1>4, <1>5, <1>7 DEF More, Adds
  <2> HIDE DEF t, st, su
  <2> QED BY <1>0, <1>3, <2>1, <2>2 DEF ScannedTo, st, t, su
<1>8. CASE ch.type = "header"
  <2>1. (t = Fails(s, Load(m, k, 1)) /\ Informs(Load(m, k, 1))) \/ t = Fails(s, ContainerDataError)
    BY <1>0, <1>8 DEF ScanChunk
  <2>2. \A x : Fails(s, x).status = x
    BY DEF Fails, ScanT
  <2>3. Informs(t.status)
    <3> HIDE DEF t
    <3> QED BY <2>1, <2>2, StatusTypes
  <2> QED BY <2>3
<1>9. \A x : Fails(s, x).status = x
  BY DEF Fails, ScanT
<1>10. CASE ch.type = "start"
  <2>1. /\ ~Informs(Load(m, k, 1)) /\ t = ScanStart(s, m, k)
    <3>1. Informs(Load(m, k, 1)) => t = Fails(s, Load(m, k, 1))
      BY <1>0, <1>10 DEF ScanChunk
    <3>2. ~Informs(Load(m, k, 1)) => t = ScanStart(s, m, k)
      BY <1>0, <1>10 DEF ScanChunk
    <3> HIDE DEF t
    <3> QED BY <1>9, <3>1, <3>2 DEF t
  <2> DEFINE c == FoundFile(s.container, ch)
             h == Assigned(s.heard, ch.name, <<>>)
  <2>2. ch.name \notin DOMAIN s.container.files /\ t = [s EXCEPT !.container = c, !.heard = h]
    <3>1. Informs(Load(m, k, 2)) => t = Fails(s, Load(m, k, 2))
      BY <2>1 DEF ScanStart
    <3>2. ~Informs(Load(m, k, 2)) /\ ch.name \in DOMAIN s.container.files => t = Fails(s, FilenameMismatch)
      BY <1>0, <2>1 DEF ScanStart
    <3>3. ~Informs(Load(m, k, 2)) /\ ch.name \notin DOMAIN s.container.files
            => t = [s EXCEPT !.container = c, !.heard = h]
      BY <1>0, <2>1 DEF ScanStart
    <3>4. Informs(FilenameMismatch)
      BY StatusTypes
    <3>5. ~Informs(t.status)
      OBVIOUS
    <3> HIDE DEF t, c, h
    <3> QED BY <1>9, <3>1, <3>2, <3>3, <3>4, <3>5
  <2>3. t.container = c /\ t.heard = h
    <3> HIDE DEF t, c, h
    <3> QED BY <2>2 DEF ScanT
  <2>4. k \in StartsIn(row)
    BY <1>1, <1>10 DEF StartsIn
  <2>5. st = su \cup {k} /\ k \notin su /\ su \subseteq StartsIn(row)
    BY <1>1, <2>4 DEF StartsTo
  <2>6. \A i \in su : row[i].id # ch.id /\ row[i].name # ch.name
    BY <1>2, <2>4, <2>5
  <2>7. \A id : So(row, k, id) = So(row, k - 1, id)
    BY <1>4, <1>10 DEF More, Adds
  <2>8. So(row, k - 1, ch.id) = <<>>
    <3>1. PICK r : r = SubSeq(row, 1, k - 1)
      OBVIOUS
    <3>2. r \in Seq(Chunk) /\ Len(r) = k - 1 /\ \A i \in 1 .. k - 1 : r[i] = row[i]
      <4>1. PICK j \in 0 .. Len(row) : j = k - 1
        BY <1>1
      <4>2. r = SubSeq(row, 1, j)
        BY <3>1, <4>1
      <4> QED BY <4>1, <4>2, FrontLemma
    <3>3. ASSUME NEW j \in 1 .. Len(r), Adds(r[j], ch.id) PROVE FALSE
      <4>1. j \in DOMAIN row /\ row[j].type = "data" /\ row[j].id = ch.id /\ j < k
        BY <1>1, <3>2, <3>3 DEF Adds
      <4>2. PICK i \in StartsIn(row) : i < j /\ row[i].id = ch.id
        BY <1>2, <4>1
      <4>3. i # k
        BY <1>1, <3>2, <4>1, <4>2
      <4> QED BY <1>2, <2>4, <4>2, <4>3
    <3>4. Collected(r, ch.id) = <<>>
      BY <3>2, <3>3, CollectedNone
    <3> QED BY <3>1, <3>4 DEF So
  <2>9. /\ c.files = Assigned(s.container.files, ch.name, Begun(ch.id))
        /\ DOMAIN c.ids = DOMAIN s.container.ids \cup {ch.id}
        /\ ch.id \notin DOMAIN s.container.ids =>
              /\ c.ids[ch.id] = ch.name
              /\ \A x \in DOMAIN s.container.ids : c.ids[x] = s.container.ids[x]
    BY <1>1, <1>6, <1>10, FoundFileLemma
  <2>10. ch.id \notin DOMAIN s.container.ids
    BY <1>3, <2>6
  <2> HIDE DEF c, t, su, st
  <2>11. DOMAIN t.container.files = {row[i].name : i \in st}
    <3>1. DOMAIN t.container.files = DOMAIN s.container.files \cup {ch.name}
      BY <2>3, <2>9 DEF Assigned
    <3> QED BY <1>3, <2>5, <3>1
  <2>12. DOMAIN t.container.ids = {row[i].id : i \in st}
    BY <1>3, <2>3, <2>5, <2>9
  <2>13. ASSUME NEW i \in st
         PROVE  /\ t.container.ids[row[i].id] = row[i].name
                /\ t.container.files[row[i].name] = FileOf(row[i].id, So(row, k, row[i].id))
    <3>1. CASE i = k
      <4>1. t.container.files[ch.name] = Begun(ch.id)
        BY <2>3, <2>9 DEF Assigned
      <4>2. Begun(ch.id) = FileOf(ch.id, <<>>)
        BY DEF Begun, FileOf
      <4> QED BY <2>3, <2>7, <2>8, <2>9, <2>10, <3>1, <4>1, <4>2
    <3>2. CASE i # k
      <4>1. i \in su
        BY <2>5, <3>2
      <4>2. row[i].name \in DOMAIN s.container.files /\ row[i].id \in DOMAIN s.container.ids
        BY <1>3, <4>1
      <4>3. t.container.files[row[i].name] = s.container.files[row[i].name]
        BY <2>3, <2>6, <2>9, <4>1, <4>2 DEF Assigned
      <4>4. t.container.ids[row[i].id] = s.container.ids[row[i].id]
        BY <2>3, <2>9, <2>10, <4>2
      <4> QED BY <1>3, <2>7, <4>1, <4>3, <4>4
    <3> QED BY <3>1, <3>2
  <2>14. ASSUME ~mapsOnly
         PROVE  /\ DOMAIN t.heard = {row[i].name : i \in st}
                /\ \A i \in st : t.heard[row[i].name] = So(row, k, row[i].id)
    <3>1. DOMAIN t.heard = DOMAIN s.heard \cup {ch.name}
      BY <2>3 DEF Assigned
    <3>2. DOMAIN t.heard = {row[i].name : i \in st}
      BY <1>3, <2>5, <2>14, <3>1
    <3>3. ASSUME NEW i \in st PROVE t.heard[row[i].name] = So(row, k, row[i].id)
      <4>1. CASE i = k
        BY <2>3, <2>7, <2>8, <4>1 DEF Assigned
      <4>2. CASE i # k
        <5>1. i \in su
          BY <2>5, <4>2
        <5>2. row[i].name \in DOMAIN s.heard /\ s.heard[row[i].name] = So(row, k - 1, row[i].id)
          BY <1>3, <2>14, <5>1
        <5>3. t.heard[row[i].name] = s.heard[row[i].name]
          BY <2>3, <2>6, <5>1, <5>2 DEF Assigned
        <5> QED BY <2>7, <5>2, <5>3
      <4> QED BY <4>1, <4>2
    <3> QED BY <3>2, <3>3
  <2> QED BY <1>0, <2>11, <2>12, <2>13, <2>14 DEF ScannedTo, t, st
<1>11. CASE ch.type = "data"
  <2> DEFINE name == s.container.ids[ch.id]
             c == [s.container EXCEPT !.files[name].stored = Append(@, ch.payload)]
             h == IF mapsOnly \/ ~listens THEN s.heard
                  ELSE [s.heard EXCEPT ![name] = Append(@, ch.payload)]
             status == IF mapsOnly \/ listens THEN NoStatus ELSE StreamingReadError
             p == IF mapsOnly THEN 2 ELSE 3
  <2>1. /\ ~Informs(Load(m, k, 1)) /\ t = ScanData(s, m, k, mapsOnly, listens)
    <3>1. Informs(Load(m, k, 1)) => t = Fails(s, Load(m, k, 1))
      BY <1>0, <1>11 DEF ScanChunk
    <3>2. ~Informs(Load(m, k, 1)) => t = ScanData(s, m, k, mapsOnly, listens)
      BY <1>0, <1>11 DEF ScanChunk
    <3> HIDE DEF t
    <3> QED BY <1>9, <3>1, <3>2 DEF t
  <2>2. ch.id \in DOMAIN s.container.ids /\ t = [container |-> c, status |-> status, heard |-> h]
    <3>1. Informs(Load(m, k, p)) => t = Fails(s, Load(m, k, p))
      BY <2>1 DEF ScanData
    <3>2. ~Informs(Load(m, k, p)) /\ ch.id \notin DOMAIN s.container.ids => t = Fails(s, StreamIdentifierMismatch)
      BY <1>0, <2>1 DEF ScanData
    <3>3. ~Informs(Load(m, k, p)) /\ ch.id \in DOMAIN s.container.ids
            => t = [container |-> c, status |-> status, heard |-> h]
      BY <1>0, <2>1 DEF ScanData
    <3>4. Informs(StreamIdentifierMismatch)
      BY StatusTypes
    <3>5. ~Informs(t.status)
      OBVIOUS
    <3> HIDE DEF t, c, h, p, status
    <3> QED BY <1>9, <3>1, <3>2, <3>3, <3>4, <3>5
  <2>3. t.container = c /\ t.heard = h /\ (mapsOnly \/ listens)
    <3>1. t.container = c /\ t.heard = h /\ t.status = status
      <4> HIDE DEF t, c, h, status
      <4> QED BY <2>2
    <3>2. ~Informs(t.status)
      OBVIOUS
    <3> HIDE DEF t, c, h
    <3> QED BY <3>1, <3>2, StatusTypes
  <2>4. st = su
    BY <1>5, <1>11
  <2>5. PICK i \in su : row[i].id = ch.id
    <3>1. ch.id \in DOMAIN s.container.ids
      BY <2>2
    <3>2. DOMAIN s.container.ids = {row[i].id : i \in su}
      BY <1>3
    <3> HIDE DEF su, ch
    <3> QED BY <3>1, <3>2
  <2>6. name = row[i].name /\ i \in StartsIn(row) /\ su \subseteq StartsIn(row)
    <3>1. s.container.ids[row[i].id] = row[i].name
      BY <1>3, <2>5
    <3>2. name = row[i].name
      BY <2>5, <3>1
    <3>3. su \subseteq StartsIn(row)
      BY DEF StartsTo
    <3> HIDE DEF su, name
    <3> QED BY <2>5, <3>2, <3>3
  <2>7. So(row, k, ch.id) = Append(So(row, k - 1, ch.id), ch.payload)
    BY <1>4, <1>11 DEF More, Adds
  <2>8. \A j \in su : j # i => row[j].name # name /\ So(row, k, row[j].id) = So(row, k - 1, row[j].id)
    <3> SUFFICES ASSUME NEW j \in su, j # i
                 PROVE  row[j].name # name /\ So(row, k, row[j].id) = So(row, k - 1, row[j].id)
      OBVIOUS
    <3>1. row[j].name # row[i].name /\ row[j].id # ch.id
      BY <1>2, <2>5, <2>6
    <3> QED BY <1>4, <2>6, <3>1 DEF More, Adds
  <2>9. PICK f : f = s.container.files
    OBVIOUS
  <2>10. f \in FileMaps /\ f \in [DOMAIN f -> FileT] /\ name \in DOMAIN f
           /\ f[name] = FileOf(ch.id, So(row, k - 1, ch.id))
    <3>1. f \in FileMaps
      BY <1>6, <2>9 DEF ContainerT
    <3> QED BY <1>3, <2>5, <2>6, <2>9, <3>1, FileMapsAre
  <2>11. PICK nm : nm = name
    OBVIOUS
  <2>12. PICK g : g = [f EXCEPT ![nm].stored = Append(@, ch.payload)]
    OBVIOUS
  <2>13. DOMAIN g = DOMAIN f /\ (\A x \in DOMAIN f : x # nm => g[x] = f[x])
           /\ g[nm] = FileOf(ch.id, So(row, k, ch.id))
    <3>1. g[nm] = [f[nm] EXCEPT !.stored = Append(@, ch.payload)]
      BY <2>10, <2>11, <2>12
    <3>2. PICK x : x = FileOf(ch.id, So(row, k - 1, ch.id))
      OBVIOUS
    <3>3. g[nm] = [x EXCEPT !.stored = Append(@, ch.payload)] /\ x.stored = So(row, k - 1, ch.id)
      BY <2>10, <2>11, <3>1, <3>2 DEF FileOf
    <3>4. [x EXCEPT !.stored = Append(@, ch.payload)] = [x EXCEPT !.stored = So(row, k, ch.id)]
      BY <2>7, <3>3
    <3>5. [x EXCEPT !.stored = So(row, k, ch.id)] = FileOf(ch.id, So(row, k, ch.id))
      <4>1. So(row, k, ch.id) \in Content
        BY <1>1, CollectedPrefix
      <4> QED BY <1>1, <1>4, <1>11, <3>2, <4>1, FileOfLemma
    <3> QED BY <2>10, <2>12, <3>3, <3>4, <3>5
  <2>14. t.container.files = g /\ t.container.ids = s.container.ids
    <3>1. c = [s.container EXCEPT !.files = g]
      BY <1>6, <2>9, <2>11, <2>12 DEF ContainerT
    <3> HIDE DEF c, t
    <3> QED BY <1>6, <2>3, <3>1 DEF ContainerT
  <2> HIDE DEF t, c, st, su, name
  <2>15. ASSUME NEW j \in st
         PROVE  t.container.files[row[j].name] = FileOf(row[j].id, So(row, k, row[j].id))
    <3>1. CASE j = i
      BY <2>5, <2>6, <2>11, <2>13, <2>14, <3>1
    <3>2. CASE j # i
      <4>1. j \in su /\ row[j].name # nm /\ row[j].name \in DOMAIN f
        BY <1>3, <2>4, <2>8, <2>9, <2>11, <3>2
      <4> QED BY <1>3, <2>8, <2>9, <2>13, <2>14, <3>2, <4>1
    <3> QED BY <3>1, <3>2
  <2>16. ASSUME ~mapsOnly
         PROVE  /\ DOMAIN t.heard = {row[j].name : j \in st}
                /\ \A j \in st : t.heard[row[j].name] = So(row, k, row[j].id)
    <3>1. t.heard = [s.heard EXCEPT ![nm] = Append(@, ch.payload)]
      BY <2>3, <2>11, <2>16
    <3>2. DOMAIN t.heard = {row[j].name : j \in st}
      BY <1>3, <2>4, <2>16, <3>1
    <3>3. ASSUME NEW j \in st PROVE t.heard[row[j].name] = So(row, k, row[j].id)
      <4>1. row[j].name \in DOMAIN s.heard /\ s.heard[row[j].name] = So(row, k - 1, row[j].id)
        BY <1>3, <2>4, <2>16
      <4>2. CASE j = i
        BY <2>5, <2>6, <2>7, <2>11, <3>1, <4>1, <4>2
      <4>3. CASE j # i
        BY <2>4, <2>8, <2>11, <3>1, <4>1, <4>3
      <4> QED BY <4>2, <4>3
    <3> QED BY <3>2, <3>3
  <2> QED BY <1>0, <1>3, <2>4, <2>9, <2>13, <2>14, <2>15, <2>16 DEF ScannedTo, t, st
<1> QED BY <1>1, <1>7, <1>8, <1>10, <1>11

LEMMA ScannedLemma ==
  ASSUME NEW c \in ContainerT, c.files = NoEntries, c.ids = NoEntries,
         NEW m, m.chunks \in Seq(Chunk), WellFormed(m.chunks),
         NEW mapsOnly \in BOOLEAN, NEW listens \in BOOLEAN, NEW T, ScanRun(T, c, m, mapsOnly, listens)
  PROVE  \A k \in 0 .. Len(m.chunks) : ~Informs(T[k].status) => ScannedTo(T[k], m.chunks, k, mapsOnly)
<1>1. PICK n \in Nat : n = Len(m.chunks) /\ DOMAIN m.chunks = 1 .. n
  BY LenProperties
<1> DEFINE G == {k \in 0 .. n : ~Informs(T[k].status) => ScannedTo(T[k], m.chunks, k, mapsOnly)}
<1>2. T \in [0 .. n -> ScanT] /\ T[0] = ScanFrom(c)
        /\ \A k \in 1 .. n : T[k] = ScanStep(T[k - 1], m, k, mapsOnly, listens)
  BY <1>1 DEF ScanRun
<1>3. 0 \in G
  <2>1. StartsTo(m.chunks, 0) = {}
    BY <1>1 DEF StartsTo, StartsIn
  <2>2. ScannedTo(ScanFrom(c), m.chunks, 0, mapsOnly)
    BY <2>1, ScanFromType, EmptyMaps DEF ScannedTo
  <2> QED BY <1>2, <2>2
<1>4. ASSUME NEW k \in 1 .. n, k - 1 \in G PROVE k \in G
  <2>1. T[k - 1] \in ScanT
    BY <1>2
  <2>2. SUFFICES ASSUME ~Informs(T[k].status) PROVE ScannedTo(T[k], m.chunks, k, mapsOnly)
    OBVIOUS
  <2>3. ~Informs(T[k - 1].status) /\ T[k] = ScanChunk(T[k - 1], m, k, mapsOnly, listens)
    BY <1>2, <2>2 DEF ScanStep
  <2>4. ScannedTo(T[k - 1], m.chunks, k - 1, mapsOnly)
    BY <1>4, <2>3
  <2>5. PICK s \in ScanT : s = T[k - 1]
    BY <2>1
  <2>6. ScannedTo(ScanChunk(s, m, k, mapsOnly, listens), m.chunks, k, mapsOnly)
    <3>1. k \in 1 .. Len(m.chunks)
      BY <1>1
    <3>2. ~Informs(s.status) /\ ScannedTo(s, m.chunks, k - 1, mapsOnly)
            /\ ~Informs(ScanChunk(s, m, k, mapsOnly, listens).status)
      BY <2>2, <2>3, <2>4, <2>5
    <3> QED BY <3>1, <3>2, ScannedStep
  <2> QED BY <2>3, <2>5, <2>6
<1>5. \A k \in 0 .. n : k \in G
  <2> HIDE DEF G
  <2> QED BY <1>3, <1>4, RowInduction
<1> QED BY <1>1, <1>5

------------------------------------------------------------------------------
(* A chunk that stops every scan of a container with such files. *)
Stops(files, m, j) ==
  \/ Informs(Load(m, j, 1)) \/ m.chunks[j].type = "header"
  \/ m.chunks[j].type = "start" /\ (Informs(Load(m, j, 2)) \/ m.chunks[j].name \in DOMAIN files)
Blocked(files, m) == \E j \in DOMAIN m.chunks : Stops(files, m, j)

LEMMA StopsLemma ==
  ASSUME NEW s \in ScanT, NEW m, m.chunks \in Seq(Chunk), NEW j \in DOMAIN m.chunks,
         NEW mapsOnly \in BOOLEAN, NEW listens \in BOOLEAN
  PROVE  /\ Stops(s.container.files, m, j) => Informs(ScanChunk(s, m, j, mapsOnly, listens).status)
         /\ ~Informs(s.status) /\ ~Stops(s.container.files, m, j) /\ m.chunks[j].type # "data" =>
              ~Informs(ScanChunk(s, m, j, mapsOnly, listens).status)
<1> DEFINE t == ScanChunk(s, m, j, mapsOnly, listens)
           ch == m.chunks[j]
<1>1. \A x : Fails(s, x).status = x
  BY DEF Fails, ScanT
<1>2. ch.type \in {"start", "data", "fill", "header"}
  BY RowChunks
<1>3. Informs(FilenameMismatch) /\ Informs(ContainerDataError)
  BY StatusTypes
<1>4. /\ Informs(Load(m, j, 1)) => t = Fails(s, Load(m, j, 1))
      /\ ~Informs(Load(m, j, 1)) /\ ch.type = "header" => t = Fails(s, ContainerDataError)
      /\ ~Informs(Load(m, j, 1)) /\ ch.type = "fill" => t = s
      /\ ~Informs(Load(m, j, 1)) /\ ch.type = "start" => t = ScanStart(s, m, j)
  BY DEF ScanChunk
<1>5. LET u == ScanStart(s, m, j) IN
      /\ Informs(Load(m, j, 2)) => u = Fails(s, Load(m, j, 2))
      /\ ~Informs(Load(m, j, 2)) /\ ch.name \in DOMAIN s.container.files => u = Fails(s, FilenameMismatch)
      /\ ~Informs(Load(m, j, 2)) /\ ch.name \notin DOMAIN s.container.files => u.status = s.status
  BY DEF ScanStart, ScanT
<1> HIDE DEF t, ch
<1>6. Stops(s.container.files, m, j) => Informs(t.status)
  BY <1>1, <1>3, <1>4, <1>5 DEF Stops, ch
<1>7. ~Informs(s.status) /\ ~Stops(s.container.files, m, j) /\ m.chunks[j].type # "data" => ~Informs(t.status)
  BY <1>1, <1>2, <1>4, <1>5 DEF Stops, ch
<1> QED BY <1>6, <1>7 DEF t

(* Such a chunk is never passed. *)
LEMMA BlockedScan ==
  ASSUME NEW c \in ContainerT, c.located, NEW m, m.chunks \in Seq(Chunk), Blocked(c.files, m),
         NEW mapsOnly \in BOOLEAN, NEW listens \in BOOLEAN
  PROVE  Informs(Traverse(c, m, mapsOnly, listens).status)
<1>1. PICK T : ScanRun(T, c, m, mapsOnly, listens)
  BY ScanRuns
<1>2. PICK n \in Nat : n = Len(m.chunks) /\ DOMAIN m.chunks = 1 .. n
  BY LenProperties
<1>3. PICK j \in 1 .. n : Stops(c.files, m, j)
  BY <1>2 DEF Blocked
<1>4. j - 1 \in 0 .. n /\ j \in 0 .. n /\ n \in 0 .. n /\ j \in 0 .. n
  OBVIOUS
<1>5. PICK s \in ScanT : s = T[j - 1] /\ DOMAIN c.files \subseteq DOMAIN s.container.files
  BY <1>1, <1>2, <1>4, ScanGrows
<1>6. Stops(s.container.files, m, j)
  BY <1>3, <1>5 DEF Stops
<1>7. Informs(ScanChunk(s, m, j, mapsOnly, listens).status)
  BY <1>2, <1>6, StopsLemma
<1>8. T[j] = ScanStep(s, m, j, mapsOnly, listens) /\ T[n] = Traverse(c, m, mapsOnly, listens)
  BY <1>1, <1>2, <1>5 DEF ScanRun
<1>9. Informs(T[j].status)
  BY <1>7, <1>8 DEF ScanStep
<1>10. T[n] = T[j]
  <2>1. \A k \in 0 .. n : \A i \in 0 .. k : Informs(T[i].status) => T[k] = T[i]
    BY <1>1, <1>2, ScanGrows
  <2>2. j \in 0 .. n /\ n \in 0 .. n
    OBVIOUS
  <2> QED BY <1>9, <2>1, <2>2
<1> QED BY <1>8, <1>9, <1>10

(* Once a container that knew nothing has been scanned, no other scan of   *)
(* it passes, unless there is no file on the media.                        *)
LEMMA ScanBlocks ==
  ASSUME NEW c \in ContainerT, c.located, c.files = NoEntries, c.ids = NoEntries,
         NEW m, m.chunks \in Seq(Chunk), WellFormed(m.chunks),
         NEW mapsOnly \in BOOLEAN, NEW listens \in BOOLEAN
  PROVE  LET t == Traverse(c, m, mapsOnly, listens)
         IN  StartsIn(m.chunks) = {} \/ Blocked(t.container.files, m)
<1> DEFINE t == Traverse(c, m, mapsOnly, listens)
           row == m.chunks
<1>0. SUFFICES ASSUME StartsIn(row) # {} PROVE Blocked(t.container.files, m)
  OBVIOUS
<1>1. PICK T : ScanRun(T, c, m, mapsOnly, listens)
  BY ScanRuns
<1>2. PICK n \in Nat : n = Len(row) /\ DOMAIN row = 1 .. n
  BY LenProperties
<1>3. T[n] = t /\ T \in [0 .. n -> ScanT] /\ T[0] = ScanFrom(c)
        /\ \A k \in 1 .. n : T[k] = ScanStep(T[k - 1], m, k, mapsOnly, listens)
  BY <1>1, <1>2 DEF ScanRun
<1>4. \A k \in 0 .. n : DOMAIN T[k].container.files \subseteq DOMAIN T[n].container.files
  <2>1. n \in 0 .. n /\ \A k \in 0 .. n : k \in 0 .. n
    OBVIOUS
  <2> QED BY <1>1, <1>2, <2>1, ScanGrows
<1>5. \A k \in 0 .. n : ~Informs(T[k].status) => ScannedTo(T[k], row, k, mapsOnly)
  BY <1>1, <1>2, ScannedLemma
<1>6. ASSUME NEW i \in StartsIn(row), NEW k \in 0 .. n, i <= k, ~Informs(T[k].status)
      PROVE  Blocked(t.container.files, m)
  <2>1. row[i].name \in DOMAIN T[k].container.files
    BY <1>5, <1>6 DEF ScannedTo, StartsTo
  <2>2. row[i].name \in DOMAIN t.container.files
    BY <1>3, <1>4, <2>1
  <2>3. i \in DOMAIN row /\ row[i].type = "start"
    BY DEF StartsIn
  <2> HIDE DEF t
  <2> QED BY <2>2, <2>3 DEF Blocked, Stops
<1>7. CASE ~Informs(T[n].status)
  <2>1. PICK i \in StartsIn(row) : i \in 1 .. n
    BY <1>0, <1>2 DEF StartsIn
  <2> QED BY <1>6, <1>7, <2>1
<1>8. CASE Informs(T[n].status)
  <2> DEFINE B == {k \in 0 .. n : Informs(T[k].status)}
  <2>1. B \subseteq Nat /\ B # {}
    BY <1>8
  <2>2. PICK k \in B : \A j \in B : k <= j
    <3> HIDE DEF B
    <3> QED BY <2>1, LeastOf
  <2>3. k # 0
    BY <1>3, ScanFromType
  <2>4. k \in 1 .. n /\ k - 1 \in 0 .. n /\ ~Informs(T[k - 1].status) /\ Informs(T[k].status)
    <3>1. k \in 1 .. n /\ k - 1 \in 0 .. n
      BY <2>3
    <3>2. k - 1 \notin B
      BY <2>2, <3>1
    <3> QED BY <3>1, <3>2
  <2> HIDE DEF B
  <2>5. PICK s \in ScanT : s = T[k - 1]
    BY <1>3, <2>4
  <2>6. T[k] = ScanChunk(s, m, k, mapsOnly, listens)
    BY <1>3, <2>4, <2>5 DEF ScanStep
  <2>7. CASE row[k].type = "data"
    <3>1. PICK i \in StartsIn(row) : i < k
      BY <1>2, <2>4, <2>7 DEF WellFormed
    <3>2. i <= k - 1
      BY <1>2, <2>4, <3>1 DEF StartsIn
    <3> QED BY <1>6, <2>4, <3>2
  <2>8. CASE row[k].type # "data"
    <3>1. Stops(s.container.files, m, k)
      <4>1. k \in DOMAIN m.chunks /\ ~Informs(s.status)
              /\ Informs(ScanChunk(s, m, k, mapsOnly, listens).status)
        BY <1>2, <2>4, <2>5, <2>6
      <4> QED BY <2>8, <4>1, StopsLemma
    <3>2. DOMAIN s.container.files \subseteq DOMAIN t.container.files
      BY <1>3, <1>4, <2>4, <2>5
    <3> HIDE DEF t
    <3> QED BY <1>2, <2>4, <3>1, <3>2 DEF Blocked, Stops
  <2> QED BY <2>7, <2>8
<1> QED BY <1>7, <1>8

(* Of media without files nothing is heard. *)
LEMMA NothingHeard ==
  ASSUME NEW c \in ContainerT, c.located, NEW m, m.chunks \in Seq(Chunk), WellFormed(m.chunks),
         StartsIn(m.chunks) = {}, NEW mapsOnly \in BOOLEAN, NEW listens \in BOOLEAN
  PROVE  Traverse(c, m, mapsOnly, listens).heard = NoEntries
<1>1. PICK T : ScanRun(T, c, m, mapsOnly, listens)
  BY ScanRuns
<1>2. PICK n \in Nat : n = Len(m.chunks) /\ DOMAIN m.chunks = 1 .. n
  BY LenProperties
<1>3. T[n] = Traverse(c, m, mapsOnly, listens) /\ T \in [0 .. n -> ScanT] /\ T[0] = ScanFrom(c)
        /\ \A k \in 1 .. n : T[k] = ScanStep(T[k - 1], m, k, mapsOnly, listens)
  BY <1>1, <1>2 DEF ScanRun
<1> DEFINE G == {k \in 0 .. n : T[k].heard = NoEntries}
<1>4. 0 \in G
  BY <1>3, ScanFromType
<1>5. ASSUME NEW k \in 1 .. n, k - 1 \in G PROVE k \in G
  <2>1. PICK s \in ScanT : s = T[k - 1] /\ s.heard = NoEntries
    BY <1>3, <1>5
  <2>2. T[k] = s \/ T[k] = ScanChunk(s, m, k, mapsOnly, listens)
    BY <1>3, <2>1 DEF ScanStep
  <2>3. m.chunks[k].type \in {"fill", "header"}
    <3>1. m.chunks[k].type \in {"start", "data", "fill", "header"}
      BY <1>2, RowChunks
    <3>2. m.chunks[k].type # "start" /\ m.chunks[k].type # "data"
      BY <1>2 DEF WellFormed, StartsIn
    <3> QED BY <3>1, <3>2
  <2>4. \A x : Fails(s, x).heard = s.heard
    BY DEF Fails, ScanT
  <2>5. ScanChunk(s, m, k, mapsOnly, listens) \in {s, Fails(s, Load(m, k, 1)), Fails(s, ContainerDataError)}
    BY <2>3 DEF ScanChunk
  <2>6. T[k].heard = NoEntries
    BY <2>1, <2>2, <2>4, <2>5
  <2> QED BY <2>6
<1>6. n \in G
  <2>1. \A k \in 0 .. n : k \in G
    <3> HIDE DEF G
    <3> QED BY <1>4, <1>5, RowInduction
  <2>2. n \in 0 .. n
    OBVIOUS
  <2> QED BY <2>1, <2>2
<1> QED BY <1>3, <1>6

------------------------------------------------------------------------------
(* An opened container, and what its calls make of it.                   *)

(* The container knows nothing; it knows every file of the media and which *)
(* identifiers are in use.                                                 *)
Fresh(c) == c.files = NoEntries /\ c.ids = NoEntries
Whole(c, m) ==
  /\ \A i \in StartsIn(m.chunks) :
       LET n == m.chunks[i].name
       IN  /\ n \in DOMAIN c.files
           /\ c.files[n].id = m.chunks[i].id
           /\ c.files[n].stored = Collected(m.chunks, m.chunks[i].id)
           /\ m.chunks[i].id \in DOMAIN c.ids
  /\ \A n \in DOMAIN c.files : ~c.files[n].started =>
       \A i \in StartsIn(m.chunks) : m.chunks[i].id # c.files[n].id

(* An opened container has not been scanned, or no scan of it passes; and  *)
(* a directory that has nothing to say is whole, as long as nobody calls   *)
(* streamRead.                                                             *)
OpenedOK(c, m, streams) ==
  c.located =>
    /\ (Fresh(c) /\ ~c.populated) \/ StartsIn(m.chunks) = {} \/ Blocked(c.files, m)
    /\ ~streams => /\ ~c.populated => Fresh(c)
                   /\ c.populated /\ ~Informs(c.last) => Whole(c, m)

LEMMA AnyMediaIs ==
  ASSUME NEW m \in AnyMedia
  PROVE  m \in Media /\ m.chunks \in Seq(Chunk) /\ WellFormed(m.chunks) /\ (m.header = "none" => m.chunks = <<>>)
BY DEF AnyMedia, Media

LEMMA OpenLemma ==
  ASSUME NEW m \in AnyMedia, NEW ignoring \in BOOLEAN, NEW writable \in BOOLEAN
  PROVE  LET o == Open(m, ignoring, writable)
         IN  /\ o.media \in AnyMedia /\ o.media.chunks = m.chunks /\ o.media.torn = m.torn
             /\ o.container \in ContainerT /\ Fresh(o.container)
             /\ o.status \in StatusT /\ o.container.last = o.status
             /\ o.container.located = ~Informs(o.status)
             /\ o.container.populated => m.chunks = <<>>
<1> DEFINE empty == m.header = "none"
           status == CASE m.header = "absent" -> FailedToOpenFile
                       [] empty /\ ~writable      -> FileWriteError
                       [] OTHER                   -> CheckedHeader(m.header, ignoring)
           opened == ~Informs(status)
           after == IF empty /\ opened THEN [m EXCEPT !.header = "good"] ELSE m
           c == [Unopened EXCEPT !.located = opened, !.populated = opened /\ empty, !.last = status]
<1>1. Open(m, ignoring, writable) = [status |-> status, media |-> after, container |-> c]
  BY DEF Open
<1>2. status \in StatusT
  <2>1. CheckedHeader(m.header, ignoring) \in
          {ShortRead, HeaderIdentifierInvalid, VersionDownlevelStatus, HeaderVersionInvalid, HeaderCrcError, NoStatus}
    BY DEF CheckedHeader
  <2>2. CheckedHeader(m.header, ignoring) \in StatusT
    BY <2>1, StatusTypes
  <2>3. status \in {FailedToOpenFile, FileWriteError, CheckedHeader(m.header, ignoring)}
    OBVIOUS
  <2> HIDE DEF status
  <2> QED BY <2>2, <2>3, StatusTypes
<1> HIDE DEF status
<1>3. after \in AnyMedia /\ after.chunks = m.chunks /\ after.torn = m.torn
  <2>1. PICK x : x = [m EXCEPT !.header = "good"]
    OBVIOUS
  <2>2. m \in Media
    BY AnyMediaIs
  <2>3. x \in Media /\ x.chunks = m.chunks /\ x.torn = m.torn /\ x.header = "good"
    BY <2>1, <2>2 DEF Media
  <2>4. x \in AnyMedia
    BY <2>3, AnyMediaIs DEF AnyMedia
  <2> QED BY <2>1, <2>3, <2>4
<1>4. PICK u : u = Unopened
  OBVIOUS
<1>5. u \in ContainerT /\ u.files = NoEntries /\ u.ids = NoEntries
  BY <1>4, EmptyMaps, StatusTypes DEF Unopened, ContainerT
<1>6. c = [u EXCEPT !.located = opened, !.populated = opened /\ empty, !.last = status]
  BY <1>4
<1>7. /\ c \in ContainerT /\ c.files = u.files /\ c.ids = u.ids
      /\ c.last = status /\ c.located = opened /\ c.populated = (opened /\ empty)
  <2> HIDE DEF opened, empty, c
  <2>1. opened \in BOOLEAN /\ (opened /\ empty) \in BOOLEAN
    BY DEF opened, empty, Informs
  <2> QED BY <1>2, <1>5, <1>6, <2>1 DEF ContainerT
<1>8. Fresh(c)
  BY <1>5, <1>7 DEF Fresh
<1> HIDE DEF c, after
<1>9. PICK o : o = Open(m, ignoring, writable)
  OBVIOUS
<1>10. o.status = status /\ o.media = after /\ o.container = c
  BY <1>1, <1>9
<1>11. c.populated => m.chunks = <<>>
  BY <1>7, AnyMediaIs
<1> QED BY <1>2, <1>3, <1>7, <1>8, <1>9, <1>10, <1>11

LEMMA ScannedWhole ==
  ASSUME NEW s, NEW m, m.chunks \in Seq(Chunk), ScannedTo(s, m.chunks, Len(m.chunks), TRUE)
  PROVE  Whole(s.container, m) /\ DOMAIN s.container.files = NamesOn(m.chunks)
<1> DEFINE row == m.chunks
<1>1. StartsTo(row, Len(row)) = StartsIn(row)
  BY RowChunks DEF StartsTo, StartsIn
<1>2. \A id : So(row, Len(row), id) = Collected(row, id)
  BY CollectedPrefix
<1>3. /\ DOMAIN s.container.files = {row[i].name : i \in StartsIn(row)}
      /\ DOMAIN s.container.ids = {row[i].id : i \in StartsIn(row)}
      /\ \A i \in StartsIn(row) :
           s.container.files[row[i].name] = FileOf(row[i].id, Collected(row, row[i].id))
  BY <1>1, <1>2 DEF ScannedTo
<1>4. \A i \in StartsIn(row) :
        /\ s.container.files[row[i].name].id = row[i].id
        /\ s.container.files[row[i].name].stored = Collected(row, row[i].id)
        /\ s.container.files[row[i].name].started
  <2>1. \A id, x : FileOf(id, x).id = id /\ FileOf(id, x).stored = x /\ FileOf(id, x).started
    BY DEF FileOf
  <2> HIDE DEF row
  <2> QED BY <1>3, <2>1
<1>5. \A n \in DOMAIN s.container.files : s.container.files[n].started
  BY <1>3, <1>4
<1> QED BY <1>3, <1>4, <1>5 DEF Whole, NamesOn

(* The container after a scan. *)
LEMMA ScannedContainer ==
  ASSUME NEW c \in ContainerT, NEW m, m.chunks \in Seq(Chunk), WellFormed(m.chunks),
         c.located, Fresh(c), NEW mapsOnly \in BOOLEAN, NEW listens \in BOOLEAN,
         ~Informs(Traverse(c, m, mapsOnly, listens).status)
  PROVE  ScannedTo(Traverse(c, m, mapsOnly, listens), m.chunks, Len(m.chunks), mapsOnly)
<1>1. PICK T : ScanRun(T, c, m, mapsOnly, listens)
  BY ScanRuns
<1>2. T[Len(m.chunks)] = Traverse(c, m, mapsOnly, listens)
  BY <1>1 DEF ScanRun
<1>3. Len(m.chunks) \in 0 .. Len(m.chunks)
  BY LenProperties
<1> QED BY <1>1, <1>2, <1>3, ScannedLemma DEF Fresh

LEMMA LastSet ==
  ASSUME NEW c \in ContainerT, NEW s \in StatusT
  PROVE  LET d == [c EXCEPT !.last = s]
         IN  /\ d \in ContainerT /\ d.files = c.files /\ d.ids = c.ids /\ d.located = c.located
             /\ d.populated = c.populated /\ d.last = s
BY DEF ContainerT

LEMMA DirectoryLemma ==
  ASSUME NEW c \in ContainerT, NEW m, m.chunks \in Seq(Chunk), WellFormed(m.chunks),
         NEW streams, OpenedOK(c, m, streams)
  PROVE  /\ Directory(c, m) \in ContainerT /\ Directory(c, m).populated
         /\ Directory(c, m).located = c.located
         /\ OpenedOK(Directory(c, m), m, streams)
         /\ c.populated => Directory(c, m) = c
<1> DEFINE t == Traverse(c, m, TRUE, FALSE)
           d == [t.container EXCEPT !.last = t.status]
<1>1. CASE c.populated
  BY <1>1 DEF Directory
<1>2. CASE ~c.populated
  <2>1. Directory(c, m) = d
    BY <1>2 DEF Directory
  <2>2. t \in ScanT /\ t.container.located = c.located /\ t.container.populated
          /\ DOMAIN c.files \subseteq DOMAIN t.container.files
    BY TraverseType
  <2>3. /\ d \in ContainerT /\ d.files = t.container.files /\ d.ids = t.container.ids
        /\ d.located = c.located /\ d.populated /\ d.last = t.status
    <3>1. t.container \in ContainerT /\ t.status \in StatusT
      BY <2>2 DEF ScanT
    <3> HIDE DEF t
    <3> QED BY <2>2, <3>1, LastSet
  <2> HIDE DEF d
  <2>4. ASSUME c.located
        PROVE  StartsIn(m.chunks) = {} \/ Blocked(d.files, m)
    <3>1. CASE Fresh(c)
      BY <2>3, <2>4, <3>1, ScanBlocks DEF Fresh
    <3>2. CASE Blocked(c.files, m)
      <4> HIDE DEF t
      <4> QED BY <2>2, <2>3, <3>2 DEF Blocked, Stops
    <3> QED BY <1>2, <2>4, <3>1, <3>2 DEF OpenedOK
  <2>5. ASSUME c.located, ~streams, ~Informs(d.last)
        PROVE  Whole(d, m)
    <3>1. Fresh(c)
      BY <1>2, <2>5 DEF OpenedOK
    <3>2. ~Informs(t.status)
      BY <2>3, <2>5
    <3>3. ScannedTo(t, m.chunks, Len(m.chunks), TRUE)
      BY <2>5, <3>1, <3>2, ScannedContainer
    <3>4. Whole(t.container, m)
      <4> HIDE DEF t
      <4> QED BY <3>3, ScannedWhole
    <3> HIDE DEF t
    <3> QED BY <2>3, <3>4 DEF Whole
  <2> HIDE DEF t
  <2> QED BY <1>2, <2>1, <2>3, <2>4, <2>5 DEF OpenedOK
<1> QED BY <1>1, <1>2 DEF ContainerT

(* A new file has an identifier of its own. *)
LEMMA NewVirtualFileLemma ==
  ASSUME NEW c \in ContainerT, NEW m, m.chunks \in Seq(Chunk), WellFormed(m.chunks),
         NEW streams, OpenedOK(c, m, streams), NEW name \in Names, name \notin DOMAIN Directory(c, m).files
  PROVE  LET d == Directory(c, m)
             e == NewVirtualFile(c, m, name)
             id == UnusedIdentifier(d.ids)
         IN  /\ id \in Nat /\ id \notin DOMAIN d.ids
             /\ e.files = Assigned(d.files, name, NewFile(id)) /\ DOMAIN e.ids = DOMAIN d.ids \cup {id}
             /\ e \in ContainerT /\ e.located = c.located /\ e.populated /\ e.last = d.last
             /\ OpenedOK(e, m, streams)
<1>1. PICK d : d = Directory(c, m)
  OBVIOUS
<1>2. d \in ContainerT /\ d.populated /\ d.located = c.located /\ OpenedOK(d, m, streams)
        /\ name \notin DOMAIN d.files
  BY <1>1, DirectoryLemma
<1>3. d.files \in FileMaps /\ d.ids \in IdMaps
  BY <1>2 DEF ContainerT
<1>4. PICK id \in Nat : id = UnusedIdentifier(d.ids) /\ id \notin DOMAIN d.ids
  BY <1>3, UnusedLemma
<1>5. PICK f, k : f = Assigned(d.files, name, NewFile(id)) /\ k = Assigned(d.ids, id, name)
  OBVIOUS
<1>6. f \in FileMaps /\ k \in IdMaps
  BY <1>3, <1>5, AssignedFile, AssignedId, NewFileType
<1>7. PICK e : e = NewVirtualFile(c, m, name)
  OBVIOUS
<1>8. e = [d EXCEPT !.files = f, !.ids = k]
  BY <1>1, <1>4, <1>5, <1>7 DEF NewVirtualFile
<1>9. /\ e \in ContainerT /\ e.files = f /\ e.ids = k /\ e.located = c.located /\ e.populated
      /\ e.last = d.last
  BY <1>2, <1>6, <1>8 DEF ContainerT
<1>10. /\ DOMAIN e.files = DOMAIN d.files \cup {name} /\ e.files[name] = NewFile(id)
       /\ \A n \in DOMAIN d.files : e.files[n] = d.files[n]
       /\ DOMAIN e.ids = DOMAIN d.ids \cup {id}
  BY <1>2, <1>5, <1>9 DEF Assigned
<1>11. OpenedOK(e, m, streams)
  <2>1. ASSUME e.located PROVE StartsIn(m.chunks) = {} \/ Blocked(e.files, m)
    <3>1. StartsIn(m.chunks) = {} \/ Blocked(d.files, m)
      BY <1>2, <1>9, <2>1 DEF OpenedOK
    <3> QED BY <1>10, <3>1 DEF Blocked, Stops
  <2>2. ASSUME e.located, ~streams, ~Informs(e.last) PROVE Whole(e, m)
    <3>1. Whole(d, m)
      BY <1>2, <1>9, <2>2 DEF OpenedOK
    <3>2. ASSUME NEW i \in StartsIn(m.chunks)
          PROVE  LET n == m.chunks[i].name
                 IN  /\ n \in DOMAIN e.files
                     /\ e.files[n].id = m.chunks[i].id
                     /\ e.files[n].stored = Collected(m.chunks, m.chunks[i].id)
                     /\ m.chunks[i].id \in DOMAIN e.ids
      BY <1>10, <3>1 DEF Whole
    <3>3. ASSUME NEW n \in DOMAIN e.files, ~e.files[n].started, NEW i \in StartsIn(m.chunks)
          PROVE  m.chunks[i].id # e.files[n].id
      <4>1. CASE n = name
        <5>1. e.files[n].id = id
          BY <1>10, <4>1 DEF NewFile
        <5>2. m.chunks[i].id \in DOMAIN d.ids
          BY <3>1 DEF Whole
        <5> QED BY <1>4, <5>1, <5>2
      <4>2. CASE n # name
        <5>1. n \in DOMAIN d.files /\ e.files[n] = d.files[n]
          BY <1>10, <4>2
        <5> QED BY <3>1, <3>3, <5>1 DEF Whole
      <4> QED BY <4>1, <4>2
    <3> QED BY <3>2, <3>3 DEF Whole
  <2> QED BY <1>9, <2>1, <2>2 DEF OpenedOK
<1> QED BY <1>1, <1>4, <1>5, <1>7, <1>9, <1>10, <1>11

------------------------------------------------------------------------------
(* Every call of a program that reads keeps what is promised.            *)

ReaderInv ==
  /\ media \in AnyMedia /\ container \in ContainerT /\ options \in AnyOptions
  /\ OpenedOK(container, media, options.streams)
  /\ StreamDelivers /\ DirectoryWhole /\ NewIdentifierFree

LEMMA ReaderInit == OpeningInit(AnyMedia, AnyOptions) => ReaderInv
<1> SUFFICES ASSUME OpeningInit(AnyMedia, AnyOptions) PROVE ReaderInv
  OBVIOUS
<1>1. media \in AnyMedia /\ options \in AnyOptions /\ container = Unopened /\ call = "none"
  BY DEF OpeningInit
<1>2. Unopened \in ContainerT /\ ~Unopened.located
  BY EmptyMaps, StatusTypes DEF Unopened, ContainerT
<1>3. StreamDelivers /\ DirectoryWhole /\ NewIdentifierFree
  BY <1>1 DEF StreamDelivers, DirectoryWhole, NewIdentifierFree
<1> QED BY <1>1, <1>2, <1>3 DEF ReaderInv, OpenedOK

(* A whole directory, in the words of DirectoryWhole. *)
LEMMA WholeFiles ==
  ASSUME NEW m \in AnyMedia, NEW c, Whole(c, m)
  PROVE  \A n \in DOMAIN FilesOn(m) :
           /\ n \in DOMAIN c.files
           /\ c.files[n].id = IdOnMedia(m)[n]
           /\ c.files[n].stored = FilesOn(m)[n]
<1>1. m.chunks \in Seq(Chunk) /\ WellFormed(m.chunks)
  BY AnyMediaIs
<1>2. /\ DOMAIN FilesOn(m) = NamesOn(m.chunks)
      /\ \A i \in StartsIn(m.chunks) :
              /\ IdOnMedia(m)[m.chunks[i].name] = m.chunks[i].id
              /\ FilesOn(m)[m.chunks[i].name] = Collected(m.chunks, m.chunks[i].id)
  BY <1>1, FilesOnLemma
<1>3. ASSUME NEW n \in DOMAIN FilesOn(m)
      PROVE  /\ n \in DOMAIN c.files
             /\ c.files[n].id = IdOnMedia(m)[n]
             /\ c.files[n].stored = FilesOn(m)[n]
  <2>1. PICK i \in StartsIn(m.chunks) : n = m.chunks[i].name
    BY <1>2 DEF NamesOn
  <2> QED BY <1>2, <2>1 DEF Whole
<1> QED BY <1>3

LEMMA DeliveredLemma ==
  ASSUME NEW c \in ContainerT, NEW m \in AnyMedia, NEW streams, OpenedOK(c, m, streams), c.located,
         NEW listens \in BOOLEAN, ~Informs(StreamRead(c, m, listens).status)
  PROVE  /\ StreamRead(c, m, listens).heard = FilesOn(m)
         /\ DOMAIN FilesOn(m) \subseteq StreamRead(c, m, listens).ended
<1> DEFINE t == Traverse(c, m, FALSE, listens)
           row == m.chunks
<1>1. row \in Seq(Chunk) /\ WellFormed(row)
  BY AnyMediaIs
<1>2. /\ ~Informs(t.status) /\ StreamRead(c, m, listens).heard = t.heard
      /\ StreamRead(c, m, listens).ended = DOMAIN t.container.files
  BY DEF StreamRead
<1> HIDE DEF t
<1>3. /\ DOMAIN FilesOn(m) = NamesOn(row)
      /\ \A i \in StartsIn(row) : FilesOn(m)[row[i].name] = Collected(row, row[i].id)
      /\ FilesOn(m) = [n \in NamesOn(row) |-> FilesOn(m)[n]]
  BY <1>1, FilesOnLemma
<1>4. t \in ScanT
  BY <1>1, TraverseType DEF t
<1>5. CASE Fresh(c)
  <2>1. ScannedTo(t, row, Len(row), FALSE)
    BY <1>1, <1>2, <1>5, ScannedContainer DEF t
  <2>2. StartsTo(row, Len(row)) = StartsIn(row) /\ \A id : So(row, Len(row), id) = Collected(row, id)
    BY <1>1, RowChunks, CollectedPrefix DEF StartsTo, StartsIn
  <2>3. /\ DOMAIN t.heard = NamesOn(row) /\ DOMAIN t.container.files = NamesOn(row)
        /\ \A i \in StartsIn(row) : t.heard[row[i].name] = Collected(row, row[i].id)
    BY <2>1, <2>2 DEF ScannedTo, NamesOn
  <2>4. \A n \in NamesOn(row) : t.heard[n] = FilesOn(m)[n]
    <3> SUFFICES ASSUME NEW n \in NamesOn(row) PROVE t.heard[n] = FilesOn(m)[n]
      OBVIOUS
    <3>1. PICK i \in StartsIn(row) : n = row[i].name
      BY DEF NamesOn
    <3> QED BY <1>3, <2>3, <3>1
  <2>5. t.heard = [n \in NamesOn(row) |-> t.heard[n]]
    <3>1. t.heard \in HeardMaps
      BY <1>4 DEF ScanT
    <3>2. t.heard = [n \in DOMAIN t.heard |-> t.heard[n]]
      BY <3>1 DEF HeardMaps
    <3> QED BY <2>3, <3>2
  <2>6. t.heard = FilesOn(m)
    <3>1. PICK g, f, N : g = t.heard /\ f = FilesOn(m) /\ N = NamesOn(row)
      OBVIOUS
    <3>2. g = [n \in N |-> g[n]] /\ f = [n \in N |-> f[n]] /\ \A n \in N : g[n] = f[n]
      BY <1>3, <2>4, <2>5, <3>1, Zenon
    <3>3. g = f
      BY <3>2
    <3> QED BY <3>1, <3>3
  <2> QED BY <1>2, <1>3, <2>3, <2>6
<1>6. CASE StartsIn(row) = {}
  <2>1. t.heard = NoEntries
    BY <1>1, <1>6, NothingHeard DEF t
  <2>2. NamesOn(row) = {}
    BY <1>6 DEF NamesOn
  <2>3. FilesOn(m) = NoEntries
    BY <1>3, <2>2 DEF NoEntries
  <2> QED BY <1>2, <1>3, <2>1, <2>2, <2>3
<1>7. CASE Blocked(c.files, m)
  BY <1>1, <1>2, <1>7, BlockedScan DEF t
<1> QED BY <1>5, <1>6, <1>7 DEF OpenedOK

LEMMA StreamReadLemma ==
  ASSUME NEW c \in ContainerT, NEW m \in AnyMedia, OpenedOK(c, m, TRUE), NEW listens \in BOOLEAN
  PROVE  /\ StreamRead(c, m, listens).container \in ContainerT
         /\ OpenedOK(StreamRead(c, m, listens).container, m, TRUE)
         /\ StreamRead(c, m, listens).container.located = c.located
<1> DEFINE t == Traverse(c, m, FALSE, listens)
<1>1. m.chunks \in Seq(Chunk) /\ WellFormed(m.chunks)
  BY AnyMediaIs
<1>2. StreamRead(c, m, listens).container = t.container
  BY DEF StreamRead
<1>3. t \in ScanT /\ t.container.located = c.located /\ DOMAIN c.files \subseteq DOMAIN t.container.files
  BY <1>1, TraverseType
<1>4. ASSUME c.located PROVE StartsIn(m.chunks) = {} \/ Blocked(t.container.files, m)
  <2>1. CASE Fresh(c)
    BY <1>1, <1>4, <2>1, ScanBlocks DEF Fresh
  <2>2. CASE Blocked(c.files, m)
    <3> HIDE DEF t
    <3> QED BY <1>3, <2>2 DEF Blocked, Stops
  <2> QED BY <1>4, <2>1, <2>2 DEF OpenedOK
<1> HIDE DEF t
<1> QED BY <1>2, <1>3, <1>4 DEF OpenedOK, ScanT

LEMMA ReaderStep == ReaderInv /\ [ReaderNext]_openingVars => ReaderInv'
<1> SUFFICES ASSUME ReaderInv, [ReaderNext]_openingVars PROVE ReaderInv'
  OBVIOUS
<1>1. /\ media \in AnyMedia /\ container \in ContainerT /\ options \in AnyOptions
      /\ OpenedOK(container, media, options.streams)
  BY DEF ReaderInv
<1>2. /\ media.chunks \in Seq(Chunk) /\ WellFormed(media.chunks)
      /\ options.ignoring \in BOOLEAN /\ options.writable \in BOOLEAN
      /\ options.streams \in BOOLEAN /\ options.listens \in BOOLEAN
  BY <1>1, AnyMediaIs DEF AnyOptions
<1>3. CASE CallOpen
  <2>1. /\ call' = "open" /\ options' = options
        /\ media' = Open(media, options.ignoring, options.writable).media
        /\ container' = Open(media, options.ignoring, options.writable).container
    BY <1>3 DEF CallOpen, Calls
  <2>2. PICK o : o = Open(media, options.ignoring, options.writable)
    OBVIOUS
  <2>3. /\ o.media \in AnyMedia /\ o.media.chunks = media.chunks
        /\ o.container \in ContainerT /\ Fresh(o.container)
        /\ o.container.populated => media.chunks = <<>>
    BY <1>1, <1>2, <2>2, OpenLemma
  <2>4. OpenedOK(o.container, o.media, options.streams)
    <3>1. ASSUME o.container.populated
          PROVE  StartsIn(o.media.chunks) = {} /\ Whole(o.container, o.media)
      <4>1. StartsIn(o.media.chunks) = {}
        BY <2>3, <3>1 DEF StartsIn
      <4>2. DOMAIN o.container.files = {}
        BY <2>3, EmptyMaps DEF Fresh
      <4> QED BY <4>1, <4>2 DEF Whole
    <3> QED BY <2>3, <3>1 DEF OpenedOK, ContainerT
  <2>5. OpenedOK(container, media, options.streams)'
    BY <2>1, <2>2, <2>4
  <2>6. (StreamDelivers /\ DirectoryWhole /\ NewIdentifierFree)'
    BY <2>1 DEF StreamDelivers, DirectoryWhole, NewIdentifierFree
  <2> QED BY <1>1, <2>1, <2>2, <2>3, <2>5, <2>6 DEF ReaderInv
<1>4. CASE CallDirectory
  <2>1. /\ call' = "directory" /\ options' = options /\ media' = media
        /\ container' = Directory(container, media) /\ reply' = container'.last
    BY <1>4 DEF CallDirectory, Calls
  <2>2. /\ container' \in ContainerT /\ container'.populated
        /\ OpenedOK(container', media, options.streams)
    BY <1>1, <1>2, <2>1, DirectoryLemma
  <2>3. OpenedOK(container, media, options.streams)'
    BY <2>1, <2>2
  <2>4. DirectoryWhole'
    <3> SUFFICES ASSUME ~Informs(container'.last), container'.located, ~options.streams
                 PROVE  \A n \in DOMAIN FilesOn(media) :
                          /\ n \in DOMAIN container'.files
                          /\ container'.files[n].id = IdOnMedia(media)[n]
                          /\ container'.files[n].stored = FilesOn(media)[n]
      <4>1. FilesOn(media)' = FilesOn(media) /\ IdOnMedia(media)' = IdOnMedia(media)
        BY <2>1
      <4> QED BY <2>1, <4>1 DEF DirectoryWhole
    <3>1. Whole(container', media)
      BY <2>2 DEF OpenedOK
    <3> QED BY <1>1, <3>1, WholeFiles
  <2>5. (StreamDelivers /\ NewIdentifierFree)'
    BY <2>1 DEF StreamDelivers, NewIdentifierFree
  <2> QED BY <1>1, <2>1, <2>2, <2>3, <2>4, <2>5 DEF ReaderInv
<1>5. CASE CallStreamRead
  <2>1. /\ call' = "streamRead" /\ options' = options /\ media' = media /\ options.streams
        /\ container' = StreamRead(container, media, options.listens).container
        /\ reply' = StreamRead(container, media, options.listens).status
        /\ heard' = StreamRead(container, media, options.listens).heard
        /\ ended' = StreamRead(container, media, options.listens).ended
    BY <1>5 DEF CallStreamRead, Calls, Hears
  <2>2. options.streams = TRUE
    BY <1>2, <2>1
  <2>3. container' \in ContainerT /\ OpenedOK(container', media, options.streams)
          /\ container'.located = container.located
    BY <1>1, <1>2, <2>1, <2>2, StreamReadLemma
  <2>4. OpenedOK(container, media, options.streams)'
    BY <2>1, <2>3
  <2>5. StreamDelivers'
    <3>1. FilesOn(media)' = FilesOn(media)
      BY <2>1
    <3>2. ~Informs(reply') /\ container'.located =>
            heard' = FilesOn(media) /\ DOMAIN FilesOn(media) \subseteq ended'
      BY <1>1, <1>2, <2>1, <2>3, DeliveredLemma
    <3> QED BY <3>1, <3>2 DEF StreamDelivers
  <2>6. (DirectoryWhole /\ NewIdentifierFree)'
    BY <2>1 DEF DirectoryWhole, NewIdentifierFree
  <2> QED BY <1>1, <2>1, <2>3, <2>4, <2>5, <2>6 DEF ReaderInv
<1>6. ASSUME NEW name \in Names, CallNewVirtualFile(name) PROVE ReaderInv'
  <2>1. /\ call' = "newVirtualFile" /\ options' = options /\ media' = media
        /\ container' = NewVirtualFile(container, media, name) /\ reply' = container'.last
        /\ name \notin DOMAIN Directory(container, media).files
    BY <1>6 DEF CallNewVirtualFile, Calls
  <2>2. /\ container' \in ContainerT /\ container'.populated
        /\ OpenedOK(container', media, options.streams)
    BY <1>1, <1>2, <2>1, NewVirtualFileLemma
  <2>3. OpenedOK(container, media, options.streams)'
    BY <2>1, <2>2
  <2>4. NewIdentifierFree'
    <3> SUFFICES ASSUME ~Informs(container'.last), container'.located, ~options.streams,
                        NEW n \in DOMAIN container'.files, ~container'.files[n].started,
                        NEW i \in DOMAIN media.chunks, media.chunks[i].type \in {"start", "data"}
                 PROVE  media.chunks[i].id # container'.files[n].id
      BY <2>1 DEF NewIdentifierFree
    <3>1. Whole(container', media)
      BY <2>2 DEF OpenedOK
    <3>2. PICK j \in StartsIn(media.chunks) : media.chunks[j].id = media.chunks[i].id
      BY <1>2 DEF WellFormed, StartsIn
    <3>3. media.chunks[j].id # container'.files[n].id
      BY <3>1 DEF Whole
    <3> QED BY <3>2, <3>3
  <2>5. (StreamDelivers /\ DirectoryWhole)'
    BY <2>1 DEF StreamDelivers, DirectoryWhole
  <2> QED BY <1>1, <2>1, <2>2, <2>3, <2>4, <2>5 DEF ReaderInv
<1>7. CASE UNCHANGED openingVars
  BY <1>7 DEF ReaderInv, openingVars, StreamDelivers, DirectoryWhole, NewIdentifierFree, OpenedOK
<1> QED BY <1>3, <1>4, <1>5, <1>6, <1>7 DEF ReaderNext

(* A streamed read with nothing to say has given every file all of its     *)
(* payloads and ended each, whatever was called before, on every media:    *)
(* streamRead with traverseContainer and receivedData.                     *)
THEOREM StreamsDelivered == ReaderSpec => []StreamDelivers
<1>1. ReaderInv => StreamDelivers
  BY DEF ReaderInv
<1> QED BY <1>1, ReaderInit, ReaderStep, PTL DEF ReaderSpec

(* A directory with nothing to say has every file of the media, also when  *)
(* another call made the scan, without streamRead: directory and           *)
(* newVirtualFile with traverseContainer and lastReportedStatus.           *)
THEOREM DirectoriesWhole == ReaderSpec => []DirectoryWhole
<1>1. ReaderInv => DirectoryWhole
  BY DEF ReaderInv
<1> QED BY <1>1, ReaderInit, ReaderStep, PTL DEF ReaderSpec

(* A new file never shares its identifier with a chunk on the media:       *)
(* newStreamIdentifier behind the scan of newVirtualFile.                  *)
THEOREM NewIdentifiersFree == ReaderSpec => []NewIdentifierFree
<1>1. ReaderInv => NewIdentifierFree
  BY DEF ReaderInv
<1> QED BY <1>1, ReaderInit, ReaderStep, PTL DEF ReaderSpec

------------------------------------------------------------------------------
(* What the help text promises of a command line, switch by switch.      *)

(* What the switches promise, one after the other. *)
DiskT    == [Names -> DiskFile]
TextMaps == UNION {[d -> Content] : d \in SUBSET Names}
WantT    == [files : TextMaps, disk : DiskT]

NameIn(args, i) == IF i < Len(args) THEN args[i + 1] ELSE NoName
RunOf(T, args, g) ==
  /\ T \in [0 .. Len(args) -> WantT]
  /\ T[0] = [files |-> FilesOn(g.media), disk |-> g.disk]
  /\ \A k \in 1 .. Len(args) : T[k] = Promised(T[k - 1], args[k], NameIn(args, k))
WantOf(args, g) == CHOOSE T : RunOf(T, args, g)

LEMMA TextMapsAre ==
  /\ \A f \in TextMaps : f \in [DOMAIN f -> Content] /\ DOMAIN f \subseteq Names
  /\ \A f : \A d \in SUBSET Names : f \in [d -> Content] => f \in TextMaps
BY DEF TextMaps

LEMMA DiskFileIs ==
  /\ \A c \in Content : Plain(c) \in DiskFile
  /\ \A f \in DiskFile : f.content \in Content /\ f.kind \in {"plain", "missing", "locked", "folder"}
  /\ \A f \in DiskFile : f.kind = "plain" => f = Plain(f.content)
  /\ \A f \in DiskFile : f.kind # "plain" => f.content = <<>>
<1>1. \A c \in Content : Plain(c) \in DiskFile
  BY DEF Content, DiskFile
<1>2. ASSUME NEW f \in DiskFile
      PROVE  /\ f.content \in Content /\ f.kind \in {"plain", "missing", "locked", "folder"}
             /\ f.kind = "plain" => f = Plain(f.content)
             /\ f.kind # "plain" => f.content = <<>>
  <2>1. CASE f \in {Plain(content) : content \in Seq(Payloads)}
    BY <2>1 DEF Content, Plain
  <2>2. CASE f \in {Missing, Locked, Folder}
    <3>1. <<>> \in Content
      BY EmptySeq DEF Content
    <3>2. f.content = <<>> /\ f.kind \in {"missing", "locked", "folder"}
      BY <2>2 DEF Missing, Locked, Folder
    <3> QED BY <3>1, <3>2
  <2> QED BY <2>1, <2>2 DEF DiskFile
<1> QED BY <1>1, <1>2, Zenon

LEMMA FilesOnType ==
  ASSUME NEW m, m.chunks \in Seq(Chunk), WellFormed(m.chunks)
  PROVE  FilesOn(m) \in TextMaps
<1>1. ASSUME NEW n \in NamesOn(m.chunks) PROVE FilesOn(m)[n] \in Content
  <2>1. PICK i \in StartsIn(m.chunks) : m.chunks[i].name = n
    BY DEF NamesOn
  <2> QED BY <2>1, FilesOnLemma, CollectedType
<1>2. NamesOn(m.chunks) \subseteq Names /\ FilesOn(m) = [n \in NamesOn(m.chunks) |-> FilesOn(m)[n]]
  BY FilesOnLemma
<1>3. FilesOn(m) \in [NamesOn(m.chunks) -> Content]
  BY <1>1, <1>2
<1> QED BY <1>2, <1>3, TextMapsAre

LEMMA PromisedType ==
  ASSUME NEW s \in WantT, NEW w, NEW n
  PROVE  Promised(s, w, n) \in WantT
<1>1. PICK f, d : f = s.files /\ d = s.disk /\ f \in TextMaps /\ d \in DiskT
  BY DEF WantT
<1>2. f \in [DOMAIN f -> Content] /\ DOMAIN f \subseteq Names
  BY <1>1, TextMapsAre
<1>3. s = [files |-> f, disk |-> d]
  BY <1>1 DEF WantT
<1>4. \A g \in TextMaps : [s EXCEPT !.files = g] \in WantT
  BY DEF WantT
<1>5. \A e \in DiskT : [s EXCEPT !.disk = e] \in WantT
  BY DEF WantT
<1>6. CASE w = "-I"
  <2>1. NoEntries \in TextMaps
    BY TextMapsAre DEF NoEntries
  <2> QED BY <1>4, <1>6, <2>1 DEF Promised
<1>7. CASE w = "-X"
  <2> DEFINE e == [x \in DOMAIN d |-> IF x \in DOMAIN f THEN Plain(f[x]) ELSE d[x]]
  <2>1. e \in DiskT
    BY <1>1, <1>2, DiskFileIs DEF DiskT
  <2>2. Promised(s, w, n) = [s EXCEPT !.disk = e]
    BY <1>1, <1>7 DEF Promised
  <2> HIDE DEF e
  <2> QED BY <1>5, <2>1, <2>2
<1>8. CASE w = "-r"
  <2> DEFINE e == Removed(f, {n})
  <2>1. e \in TextMaps
    <3>1. e \in [DOMAIN f \ {n} -> Content]
      BY <1>2 DEF Removed
    <3> QED BY <1>2, <3>1, TextMapsAre
  <2>2. Promised(s, w, n) = [s EXCEPT !.files = e]
    BY <1>1, <1>8 DEF Promised
  <2> HIDE DEF e
  <2> QED BY <1>4, <2>1, <2>2
<1>9. CASE w = "-e" /\ n \in DOMAIN f
  <2> DEFINE e == [d EXCEPT ![n] = Plain(f[n])]
  <2>1. e \in DiskT
    BY <1>1, <1>2, <1>9, DiskFileIs DEF DiskT
  <2>2. Promised(s, w, n) = [s EXCEPT !.disk = e]
    BY <1>1, <1>9 DEF Promised
  <2> HIDE DEF e
  <2> QED BY <1>5, <2>1, <2>2
<1>10. CASE w = "-i" /\ n \in DOMAIN d
  <2> DEFINE e == Assigned(f, n, d[n].content)
  <2>1. e \in TextMaps
    <3>1. d[n].content \in Content /\ n \in Names
      BY <1>1, <1>10, DiskFileIs DEF DiskT
    <3>2. e \in [DOMAIN f \cup {n} -> Content]
      BY <1>2, <3>1 DEF Assigned
    <3>3. DOMAIN f \cup {n} \subseteq Names
      BY <1>2, <3>1
    <3> QED BY <3>2, <3>3, TextMapsAre
  <2>2. Promised(s, w, n) = [s EXCEPT !.files = e]
    BY <1>1, <1>10 DEF Promised
  <2> HIDE DEF e
  <2> QED BY <1>4, <2>1, <2>2
<1>11. CASE w \notin {"-I", "-X", "-r"} /\ ~(w = "-e" /\ n \in DOMAIN f) /\ ~(w = "-i" /\ n \in DOMAIN d)
  <2>1. Promised(s, w, n) = s
    BY <1>1, <1>11 DEF Promised
  <2> QED BY <2>1
<1> QED BY <1>6, <1>7, <1>8, <1>9, <1>10, <1>11

LEMMA WantRuns ==
  ASSUME arguments \in Seq(Switches \cup Names \cup {ContainerName}),
         given.media.chunks \in Seq(Chunk), WellFormed(given.media.chunks), given.disk \in DiskT
  PROVE  \E T : RunOf(T, arguments, given) /\ T[Len(arguments)] = Wanted
<1> DEFINE n == Len(arguments)
           b == [files |-> FilesOn(given.media), disk |-> given.disk]
           step == [p \in (1 .. n) \X WantT |-> Promised(p[2], arguments[p[1]], NameAfter(p[1]))]
           places == [i \in DOMAIN arguments |-> i]
           Good(g) == g = [s \in SUBSET DOMAIN places |->
                             IF s = {} THEN b
                             ELSE Promised(g[s \ {LastIn(s)}], arguments[places[LastIn(s)]],
                                           NameAfter(places[LastIn(s)]))]
           f == CHOOSE g : Good(g)
<1>1. n \in Nat /\ DOMAIN arguments = 1 .. n /\ DOMAIN places = 1 .. n
  BY LenProperties
<1>2. b \in WantT
  BY FilesOnType DEF WantT
<1>3. step \in [(1 .. n) \X WantT -> WantT]
  BY PromisedType
<1>4. \A s \in SUBSET (1 .. n) : s # {} => LastIn(s) \in 1 .. n /\ places[LastIn(s)] = LastIn(s)
  <2>1. \A s \in SUBSET (1 .. n) : s # {} => LastIn(s) \in 1 .. n
    BY <1>1, LastInLemma
  <2> QED BY <1>1, <2>1
<1>5. f[DOMAIN places] = Wanted
  BY DEF Wanted, FoldLeftDomain, FoldLeft, MapThenFoldSet, Max, LastIn
<1>6. PICK h : RowFold(h, n, WantT, b, step)
  <2> HIDE DEF step, n, b
  <2> QED BY <1>1, <1>2, <1>3, RowFoldExists
<1>8. ASSUME NEW g, NEW s \in SUBSET (1 .. n), s # {}, g[s \ {LastIn(s)}] \in WantT
      PROVE  step[<<LastIn(s), g[s \ {LastIn(s)}]>>]
               = Promised(g[s \ {LastIn(s)}], arguments[places[LastIn(s)]], NameAfter(places[LastIn(s)]))
  <2>1. LastIn(s) \in 1 .. n /\ places[LastIn(s)] = LastIn(s)
    BY <1>4, <1>8
  <2> QED BY <1>8, <2>1
<1>9. Good(h)
  <2>1. \A s \in SUBSET (1 .. n) : s \ {LastIn(s)} \in SUBSET (1 .. n)
    OBVIOUS
  <2> HIDE DEF step, places, b
  <2> QED BY <1>1, <1>6, <1>8, <2>1 DEF RowFold
<1>10. Good(f)
  <2> HIDE DEF Good
  <2> QED BY <1>9
<1>11. RowUnfolds(f, n, WantT, b, step)
  <2>1. PICK g : g = f /\ Good(g)
    BY <1>10
  <2>2. g[{}] = b
    BY <2>1
  <2>3. ASSUME NEW s \in SUBSET (1 .. n), s # {}, g[s \ {LastIn(s)}] \in WantT
        PROVE  g[s] = step[<<LastIn(s), g[s \ {LastIn(s)}]>>]
    <3>1. g[s] = Promised(g[s \ {LastIn(s)}], arguments[places[LastIn(s)]], NameAfter(places[LastIn(s)]))
      <4> HIDE DEF places, b
      <4> QED BY <1>1, <2>1, <2>3
    <3> HIDE DEF step, places
    <3> QED BY <1>8, <2>3, <3>1
  <2> HIDE DEF step, f, b
  <2> QED BY <2>1, <2>2, <2>3 DEF RowUnfolds
<1>12. PICK T : RowRun(T, n, WantT, b, step, f[1 .. n])
  <2> HIDE DEF step, f, n, b
  <2> QED BY <1>1, <1>2, <1>3, <1>11, RowRunLemma
<1>13. /\ T \in [0 .. n -> WantT] /\ T[0] = b /\ T[n] = f[1 .. n]
       /\ \A k \in 1 .. n : T[k] = step[<<k, T[k - 1]>>]
  <2> HIDE DEF step, f, n, b
  <2> QED BY <1>12 DEF RowRun
<1>14. \A k \in 1 .. n : T[k] = Promised(T[k - 1], arguments[k], NameIn(arguments, k))
  <2> SUFFICES ASSUME NEW k \in 1 .. n PROVE T[k] = Promised(T[k - 1], arguments[k], NameIn(arguments, k))
    OBVIOUS
  <2>1. T[k - 1] \in WantT
    BY <1>1, <1>13
  <2>2. NameAfter(k) = NameIn(arguments, k)
    BY DEF NameAfter, NameIn
  <2> QED BY <1>13, <2>1, <2>2
<1>15. T[n] = Wanted
  <2> HIDE DEF f, n
  <2> QED BY <1>1, <1>5, <1>13
<1> HIDE DEF f, step
<1> QED BY <1>13, <1>14, <1>15 DEF RunOf

LEMMA WantLemma ==
  ASSUME arguments \in Seq(Switches \cup Names \cup {ContainerName}),
         given.media.chunks \in Seq(Chunk), WellFormed(given.media.chunks), given.disk \in DiskT
  PROVE  RunOf(WantOf(arguments, given), arguments, given) /\ WantOf(arguments, given)[Len(arguments)] = Wanted
<1>1. PICK T : RunOf(T, arguments, given) /\ T[Len(arguments)] = Wanted
  BY WantRuns
<1>2. PICK W : W = WantOf(arguments, given)
  OBVIOUS
<1>3. RunOf(W, arguments, given)
  BY <1>1, <1>2 DEF WantOf
<1> DEFINE n == Len(arguments)
           G == {k \in 0 .. n : T[k] = W[k]}
<1>4. n \in Nat
  BY LenProperties
<1>5. 0 \in G
  BY <1>1, <1>3, <1>4 DEF RunOf
<1>6. \A k \in 1 .. n : k - 1 \in G => k \in G
  BY <1>1, <1>3, <1>4 DEF RunOf
<1>7. \A k \in 0 .. n : k \in G
  <2> HIDE DEF G, n
  <2> QED BY <1>4, <1>5, <1>6, RowInduction
<1>8. T[n] = W[n]
  BY <1>4, <1>7
<1> QED BY <1>1, <1>2, <1>3, <1>8

------------------------------------------------------------------------------
(* The maps of the container and the chunks of its media.                *)

(* The container's maps agree with the chunks of its media. *)
StoredAs(f, n, row) ==
  IF f.started THEN f.tail = <<>> /\ \E i \in StartsIn(row) : row[i].name = n /\ row[i].id = f.id
  ELSE \A i \in StartsIn(row) : row[i].id # f.id
Agrees(c, row) ==
  /\ WellFormed(row)
  /\ \A n \in DOMAIN c.files :
       /\ c.files[n].stored = Collected(row, c.files[n].id) /\ c.files[n].id \in DOMAIN c.ids
       /\ StoredAs(c.files[n], n, row)
  /\ \A i \in StartsIn(row) : row[i].name \in DOMAIN c.files /\ c.files[row[i].name].started
  /\ \A n, p \in DOMAIN c.files : n # p => c.files[n].id # c.files[p].id

LEMMA AgreesId ==
  ASSUME NEW c, NEW row \in Seq(Chunk), Agrees(c, row), NEW i \in StartsIn(row)
  PROVE  /\ row[i].name \in DOMAIN c.files /\ c.files[row[i].name].started
         /\ c.files[row[i].name].id = row[i].id
<1> DEFINE n == row[i].name
<1>1. n \in DOMAIN c.files /\ c.files[n].started
  BY DEF Agrees
<1>2. PICK j \in StartsIn(row) : row[j].name = n /\ row[j].id = c.files[n].id
  BY <1>1 DEF Agrees, StoredAs
<1>3. i = j
  BY <1>2 DEF Agrees, WellFormed
<1> QED BY <1>1, <1>2, <1>3

LEMMA AgreesFiles ==
  ASSUME NEW c, NEW m, m.chunks \in Seq(Chunk), Agrees(c, m.chunks)
  PROVE  /\ DOMAIN FilesOn(m) = {n \in DOMAIN c.files : c.files[n].started}
         /\ \A n \in DOMAIN FilesOn(m) : FilesOn(m)[n] = c.files[n].stored
<1> DEFINE row == m.chunks
<1>1. WellFormed(row) /\ DOMAIN FilesOn(m) = NamesOn(row)
  BY FilesOnLemma DEF Agrees
<1>2. ASSUME NEW i \in StartsIn(row)
      PROVE  /\ row[i].name \in DOMAIN c.files /\ c.files[row[i].name].started
             /\ c.files[row[i].name].id = row[i].id
             /\ FilesOn(m)[row[i].name] = c.files[row[i].name].stored
  <2> DEFINE n == row[i].name
  <2>1. n \in DOMAIN c.files /\ c.files[n].started
    BY <1>2 DEF Agrees
  <2>2. c.files[n].id = row[i].id
    BY <1>2, AgreesId
  <2>4. FilesOn(m)[n] = Collected(row, row[i].id)
    BY <1>1, <1>2, FilesOnLemma
  <2>5. c.files[n].stored = Collected(row, c.files[n].id)
    BY <2>1 DEF Agrees
  <2> HIDE DEF n, row
  <2> QED BY <2>1, <2>2, <2>4, <2>5 DEF n
<1>3. ASSUME NEW n \in DOMAIN c.files, c.files[n].started PROVE n \in NamesOn(row)
  BY <1>3 DEF Agrees, StoredAs, NamesOn
<1>4. \A n \in NamesOn(row) : \E i \in StartsIn(row) : row[i].name = n
  BY DEF NamesOn
<1> HIDE DEF row
<1> QED BY <1>1, <1>2, <1>3, <1>4 DEF row

(* A file without a start chunk has no chunk at all. *)
LEMMA UnstartedEmpty ==
  ASSUME NEW row \in Seq(Chunk), WellFormed(row), NEW id, \A i \in StartsIn(row) : row[i].id # id
  PROVE  (\A k \in 1 .. Len(row) : ~Adds(row[k], id)) /\ Collected(row, id) = <<>>
<1>1. ASSUME NEW k \in 1 .. Len(row) PROVE ~Adds(row[k], id)
  BY RowChunks DEF WellFormed, Adds
<1> QED BY <1>1, CollectedNone

LEMMA FileTypes ==
  ASSUME NEW c \in ContainerT
  PROVE  /\ c.files \in FileMaps /\ c.ids \in IdMaps /\ c.last \in StatusT
         /\ c.located \in BOOLEAN /\ c.populated \in BOOLEAN
         /\ DOMAIN c.files \subseteq Names
         /\ \A n \in DOMAIN c.files :
              /\ c.files[n] \in FileT /\ c.files[n].id \in Nat /\ c.files[n].started \in BOOLEAN
              /\ c.files[n].stored \in Content /\ c.files[n].tail \in Content
              /\ c.files[n].moved \in BOOLEAN
<1>1. PICK f : f = c.files
  OBVIOUS
<1>2. f \in FileMaps
  BY <1>1 DEF ContainerT
<1>3. f \in [DOMAIN f -> FileT] /\ DOMAIN f \subseteq Names
  BY <1>2, FileMapsAre
<1>4. \A n \in DOMAIN f : f[n] \in FileT
  BY <1>3
<1>5. \A g \in FileT : /\ g.id \in Nat /\ g.started \in BOOLEAN /\ g.stored \in Content
                       /\ g.tail \in Content /\ g.moved \in BOOLEAN
  BY DEF FileT
<1>6. /\ c.ids \in IdMaps /\ c.last \in StatusT
      /\ c.located \in BOOLEAN /\ c.populated \in BOOLEAN
  BY DEF ContainerT
<1> QED BY <1>1, <1>2, <1>3, <1>4, <1>5, <1>6

------------------------------------------------------------------------------
(* Erasing a file. *)
Erased(row, id) ==
  [i \in DOMAIN row |-> IF row[i].type \in {"start", "data"} /\ row[i].id = id THEN FillChunk ELSE row[i]]

LEMMA ErasedLemma ==
  ASSUME NEW row \in Seq(Chunk), NEW id
  PROVE  LET q == Erased(row, id)
         IN  /\ q \in Seq(Chunk) /\ Len(q) = Len(row)
             /\ StartsIn(q) = {i \in StartsIn(row) : row[i].id # id}
             /\ \A i \in StartsIn(q) : q[i] = row[i]
             /\ \A k \in DOMAIN q : q[k].type = "data" => q[k] = row[k] /\ row[k].id # id
             /\ \A p : p # id => Collected(q, p) = Collected(row, p)
             /\ WellFormed(row) => WellFormed(q)
<1>0. PICK q : q = Erased(row, id)
  OBVIOUS
<1>1. DOMAIN row = 1 .. Len(row) /\ Len(row) \in Nat /\ \A i \in DOMAIN row : row[i] \in Chunk
  BY RowChunks
<1>2. FillChunk \in Chunk /\ FillChunk.type = "fill"
  BY DEF Chunk, FillChunk
<1>3. q \in [1 .. Len(row) -> Chunk]
  BY <1>0, <1>1, <1>2 DEF Erased
<1>4. q \in Seq(Chunk) /\ Len(q) = Len(row) /\ DOMAIN q = DOMAIN row
  <2> QED BY <1>1, <1>3
<1>5. \A i \in DOMAIN row : q[i] = IF row[i].type \in {"start", "data"} /\ row[i].id = id THEN FillChunk ELSE row[i]
  BY <1>0 DEF Erased
<1>6. StartsIn(q) = {i \in StartsIn(row) : row[i].id # id}
  BY <1>2, <1>4, <1>5 DEF StartsIn
<1>7. \A i \in StartsIn(q) : q[i] = row[i]
  BY <1>4, <1>5, <1>6 DEF StartsIn
<1>8. \A k \in DOMAIN q : q[k].type = "data" => q[k] = row[k] /\ row[k].id # id
  BY <1>2, <1>4, <1>5
<1>9. ASSUME NEW p, p # id PROVE Collected(q, p) = Collected(row, p)
  <2>1. \A k \in 1 .. Len(q) : q[k] = row[k] \/ (~Adds(q[k], p) /\ ~Adds(row[k], p))
    BY <1>1, <1>2, <1>4, <1>5, <1>9 DEF Adds
  <2> QED BY <1>4, <2>1, CollectedSame
<1>10. ASSUME WellFormed(row) PROVE WellFormed(q)
  <2>1. \A i, j \in StartsIn(q) : i # j => q[i].id # q[j].id /\ q[i].name # q[j].name
    BY <1>6, <1>7, <1>10 DEF WellFormed
  <2>2. ASSUME NEW j \in DOMAIN q, q[j].type = "data"
        PROVE  \E i \in StartsIn(q) : i < j /\ q[i].id = q[j].id
    <3>1. q[j] = row[j] /\ row[j].id # id /\ j \in DOMAIN row
      BY <1>4, <1>8, <2>2
    <3>2. PICK i \in StartsIn(row) : i < j /\ row[i].id = row[j].id
      BY <1>10, <2>2, <3>1 DEF WellFormed
    <3>3. i \in StartsIn(q) /\ q[i] = row[i]
      BY <1>6, <1>7, <3>1, <3>2
    <3> QED BY <3>1, <3>2, <3>3
  <2> QED BY <2>1, <2>2 DEF WellFormed
<1> QED BY <1>0, <1>4, <1>6, <1>7, <1>8, <1>9, <1>10

LEMMA ErasedAgrees ==
  ASSUME NEW c \in ContainerT, NEW row \in Seq(Chunk), Agrees(c, row), NEW n \in DOMAIN c.files,
         NEW d, d.files = Without(c.files, n), d.ids = c.ids
  PROVE  Agrees(d, Erased(row, c.files[n].id))
<1>1. PICK f, g, q, id : f = c.files /\ g = d.files /\ id = f[n].id /\ q = Erased(row, id) /\ n \in DOMAIN f
  OBVIOUS
<1>2. DOMAIN g = DOMAIN f \ {n} /\ \A p \in DOMAIN g : g[p] = f[p]
  <2>1. g = Without(f, n)
    BY <1>1
  <2> QED BY <2>1, WithoutLemma
<1>3. /\ q \in Seq(Chunk) /\ StartsIn(q) = {i \in StartsIn(row) : row[i].id # id}
      /\ \A i \in StartsIn(q) : q[i] = row[i]
      /\ \A p : p # id => Collected(q, p) = Collected(row, p)
      /\ WellFormed(q)
  BY <1>1, ErasedLemma DEF Agrees
<1>4. \A p \in DOMAIN g : g[p].id # id
  BY <1>1, <1>2 DEF Agrees
<1>5. ASSUME NEW p \in DOMAIN g
      PROVE  g[p].stored = Collected(q, g[p].id) /\ g[p].id \in DOMAIN d.ids /\ StoredAs(g[p], p, q)
  <2>1. p \in DOMAIN f /\ g[p] = f[p] /\ f[p].id # id
    BY <1>2, <1>4, <1>5
  <2>2. f[p].stored = Collected(row, f[p].id) /\ f[p].id \in DOMAIN c.ids /\ StoredAs(f[p], p, row)
    BY <1>1, <2>1 DEF Agrees
  <2>3. StoredAs(f[p], p, q)
    <3>1. CASE f[p].started
      <4>1. PICK i \in StartsIn(row) : row[i].name = p /\ row[i].id = f[p].id
        BY <2>2, <3>1 DEF StoredAs
      <4>2. i \in StartsIn(q) /\ q[i] = row[i]
        BY <1>3, <2>1, <4>1
      <4> QED BY <2>2, <3>1, <4>1, <4>2 DEF StoredAs
    <3>2. CASE ~f[p].started
      BY <1>3, <2>2, <3>2 DEF StoredAs
    <3> QED BY <3>1, <3>2
  <2> QED BY <1>3, <2>1, <2>2, <2>3
<1>6. ASSUME NEW i \in StartsIn(q) PROVE q[i].name \in DOMAIN g /\ g[q[i].name].started
  <2>1. i \in StartsIn(row) /\ row[i].id # id /\ q[i] = row[i]
    BY <1>3, <1>6
  <2>2. row[i].name \in DOMAIN f /\ f[row[i].name].started
    BY <1>1, <2>1 DEF Agrees
  <2>3. row[i].name # n
    <3>1. f[row[i].name].id = row[i].id
      BY <1>1, <2>1, AgreesId
    <3> QED BY <1>1, <2>1, <3>1
  <2> QED BY <1>2, <2>1, <2>2, <2>3
<1>7. \A p, s \in DOMAIN g : p # s => g[p].id # g[s].id
  BY <1>1, <1>2 DEF Agrees
<1> QED BY <1>1, <1>3, <1>5, <1>6, <1>7 DEF Agrees

LEMMA NewFileAgrees ==
  ASSUME NEW c \in ContainerT, c.populated, NEW m, m.chunks \in Seq(Chunk), Agrees(c, m.chunks),
         NEW name \in Names, name \notin DOMAIN c.files
  PROVE  /\ NewVirtualFile(c, m, name) \in ContainerT /\ NewVirtualFile(c, m, name).populated
         /\ Agrees(NewVirtualFile(c, m, name), m.chunks)
         /\ DOMAIN NewVirtualFile(c, m, name).files = DOMAIN c.files \cup {name}
         /\ \A n \in DOMAIN c.files : NewVirtualFile(c, m, name).files[n] = c.files[n]
         /\ ~NewVirtualFile(c, m, name).files[name].started
         /\ NewVirtualFile(c, m, name).files[name].tail = <<>>
<1>1. Directory(c, m) = c
  BY DEF Directory
<1>2. PICK e : e = NewVirtualFile(c, m, name)
  OBVIOUS
<1>3. c.ids \in IdMaps /\ c.files \in FileMaps
  BY FileTypes
<1>4. PICK id \in Nat : id = UnusedIdentifier(c.ids) /\ id \notin DOMAIN c.ids
  BY <1>3, UnusedLemma
<1>o. PICK o, v : o = c.files /\ v = NewFile(id)
  OBVIOUS
<1>p. PICK f : f = Assigned(o, name, v)
  OBVIOUS
<1>k. PICK k : k = Assigned(c.ids, id, name)
  OBVIOUS
<1>5. f = Assigned(c.files, name, NewFile(id)) /\ k = Assigned(c.ids, id, name)
  BY <1>o, <1>p, <1>k
<1>6. f \in FileMaps /\ k \in IdMaps
  BY <1>3, <1>5, AssignedFile, AssignedId, NewFileType
<1>7. e = [c EXCEPT !.files = f, !.ids = k]
  BY <1>1, <1>2, <1>4, <1>5 DEF NewVirtualFile
<1>8. e \in ContainerT /\ e.files = f /\ e.ids = k /\ e.populated
  BY <1>6, <1>7 DEF ContainerT
<1>9. /\ DOMAIN f = DOMAIN c.files \cup {name} /\ f[name] = NewFile(id)
      /\ \A n \in DOMAIN c.files : f[n] = c.files[n]
      /\ DOMAIN k = DOMAIN c.ids \cup {id}
  <2>1. DOMAIN k = DOMAIN c.ids \cup {id}
    BY <1>k DEF Assigned
  <2>5. DOMAIN f = DOMAIN o \cup {name} /\ f[name] = v /\ \A n \in DOMAIN o : n # name => f[n] = o[n]
    BY <1>p DEF Assigned
  <2>2. DOMAIN f = DOMAIN c.files \cup {name} /\ f[name] = NewFile(id)
    BY <1>o, <2>5
  <2>3. ASSUME NEW n \in DOMAIN c.files PROVE f[n] = c.files[n]
    BY <1>o, <2>5, <2>3
  <2> QED BY <2>1, <2>2, <2>3
<1>10. f[name].id = id /\ ~f[name].started /\ f[name].stored = <<>> /\ f[name].tail = <<>>
  BY <1>9 DEF NewFile
<1>11. \A i \in StartsIn(m.chunks) : m.chunks[i].id # id
  <2> SUFFICES ASSUME NEW i \in StartsIn(m.chunks) PROVE m.chunks[i].id # id
    OBVIOUS
  <2>1. m.chunks[i].name \in DOMAIN c.files /\ c.files[m.chunks[i].name].id = m.chunks[i].id
    BY AgreesId
  <2> QED BY <1>4, <2>1 DEF Agrees
<1>12. Collected(m.chunks, id) = <<>>
  BY <1>11, UnstartedEmpty DEF Agrees
<1>13. ASSUME NEW n \in DOMAIN f
       PROVE  f[n].stored = Collected(m.chunks, f[n].id) /\ f[n].id \in DOMAIN k /\ StoredAs(f[n], n, m.chunks)
  <2>1. CASE n = name
    BY <1>9, <1>10, <1>11, <1>12, <2>1 DEF StoredAs
  <2>2. CASE n # name
    BY <1>9, <2>2 DEF Agrees
  <2> QED BY <2>1, <2>2
<1>14. \A i \in StartsIn(m.chunks) : m.chunks[i].name \in DOMAIN f /\ f[m.chunks[i].name].started
  BY <1>9 DEF Agrees
<1>15. \A n, p \in DOMAIN f : n # p => f[n].id # f[p].id
  <2>1. \A n \in DOMAIN c.files : f[n].id \in DOMAIN c.ids
    BY <1>9 DEF Agrees
  <2> QED BY <1>4, <1>9, <1>10, <2>1 DEF Agrees
<1>16. Agrees(e, m.chunks)
  BY <1>8, <1>13, <1>14, <1>15 DEF Agrees
<1> QED BY <1>2, <1>8, <1>9, <1>10, <1>16

(* What Agrees speaks of stays: only positions move, and the tails of      *)
(* files without a start chunk grow.                                       *)
Alike(d, c) ==
  /\ DOMAIN d.files = DOMAIN c.files /\ d.ids = c.ids
  /\ \A n \in DOMAIN c.files :
       /\ d.files[n].id = c.files[n].id /\ d.files[n].started = c.files[n].started
       /\ d.files[n].stored = c.files[n].stored
       /\ c.files[n].started => d.files[n].tail = c.files[n].tail

LEMMA AlikeAgrees ==
  ASSUME NEW c, NEW d, NEW row, Agrees(c, row), Alike(d, c)
  PROVE  Agrees(d, row)
<1>1. ASSUME NEW n \in DOMAIN d.files
      PROVE  /\ d.files[n].stored = Collected(row, d.files[n].id) /\ d.files[n].id \in DOMAIN d.ids
             /\ StoredAs(d.files[n], n, row)
  BY <1>1 DEF Agrees, Alike, StoredAs
<1>2. \A i \in StartsIn(row) : row[i].name \in DOMAIN d.files /\ d.files[row[i].name].started
  BY DEF Agrees, Alike
<1>3. \A n, p \in DOMAIN d.files : n # p => d.files[n].id # d.files[p].id
  BY DEF Agrees, Alike
<1>4. WellFormed(row)
  BY DEF Agrees
<1> QED BY <1>1, <1>2, <1>3, <1>4, Zenon DEF Agrees

(* One file gets another position, or another tail. *)
LEMMA FileMoved ==
  ASSUME NEW c \in ContainerT, NEW n \in DOMAIN c.files, NEW b \in BOOLEAN
  PROVE  \E f, g, e : /\ f = c.files /\ g = e.files /\ e = [c EXCEPT !.files[n].moved = b]
                      /\ e \in ContainerT /\ e.populated = c.populated /\ Alike(e, c)
                      /\ DOMAIN g = DOMAIN f /\ \A p \in DOMAIN f : g[p].stored = f[p].stored /\ g[p].tail = f[p].tail
<1>1. PICK f : f = c.files
  OBVIOUS
<1>2. f \in FileMaps /\ f \in [DOMAIN f -> FileT] /\ DOMAIN f \subseteq Names /\ n \in DOMAIN f
  BY <1>1, FileTypes, FileMapsAre
<1>3. PICK y : y = [f[n] EXCEPT !.moved = b]
  OBVIOUS
<1>4. f[n] \in FileT
  BY <1>2
<1>5. /\ y \in FileT /\ y.tail = f[n].tail /\ y.id = f[n].id /\ y.started = f[n].started
      /\ y.stored = f[n].stored
  BY <1>3, <1>4 DEF FileT
<1>6. PICK h : h = [f EXCEPT ![n] = y]
  OBVIOUS
<1>7. h \in [DOMAIN f -> FileT] /\ DOMAIN h = DOMAIN f /\ h[n] = y /\ \A p \in DOMAIN f : p # n => h[p] = f[p]
  BY <1>2, <1>5, <1>6
<1>8. h \in FileMaps
  BY <1>2, <1>7, FileMapsAre
<1>9. PICK e : e = [c EXCEPT !.files = h]
  OBVIOUS
<1>10. e \in ContainerT /\ e.populated = c.populated /\ e.files = h /\ e.ids = c.ids
  BY <1>8, <1>9 DEF ContainerT
<1>11. [c EXCEPT !.files[n].moved = b] = e
  BY <1>1, <1>3, <1>6, <1>9 DEF ContainerT
<1>12. Alike(e, c)
  BY <1>1, <1>5, <1>7, <1>10 DEF Alike
<1>13. \A p \in DOMAIN f : h[p].stored = f[p].stored /\ h[p].tail = f[p].tail
  BY <1>5, <1>7
<1> QED BY <1>1, <1>7, <1>10, <1>11, <1>12, <1>13

(* From file map f to g, and from container c to d, as only the tail of n changes. *)
TailSet(c, n, t, f, g, d) ==
  /\ f = c.files /\ g = d.files
  /\ d = [c EXCEPT !.files[n].tail = t, !.files[n].moved = TRUE]
  /\ d \in ContainerT /\ d.populated = c.populated /\ (~f[n].started => Alike(d, c))
  /\ DOMAIN g = DOMAIN f /\ \A p \in DOMAIN f : p # n => g[p] = f[p]
  /\ g[n].tail = t /\ g[n].started = f[n].started /\ g[n].stored = f[n].stored

LEMMA TailChanged ==
  ASSUME NEW c \in ContainerT, NEW n \in DOMAIN c.files, NEW t \in Content
  PROVE  \E f, g, d : TailSet(c, n, t, f, g, d)
<1>1. PICK f : f = c.files
  OBVIOUS
<1>2. f \in FileMaps /\ f \in [DOMAIN f -> FileT] /\ DOMAIN f \subseteq Names /\ n \in DOMAIN f
  BY <1>1, FileTypes, FileMapsAre
<1>3. PICK x : x = [f[n] EXCEPT !.tail = t, !.moved = TRUE]
  OBVIOUS
<1>4. f[n] \in FileT
  BY <1>2
<1>5. /\ x \in FileT /\ x.tail = t /\ x.id = f[n].id /\ x.started = f[n].started /\ x.stored = f[n].stored
  BY <1>3, <1>4 DEF FileT
<1>6. PICK g : g = [f EXCEPT ![n] = x]
  OBVIOUS
<1>7. g \in [DOMAIN f -> FileT] /\ DOMAIN g = DOMAIN f /\ g[n] = x /\ \A p \in DOMAIN f : p # n => g[p] = f[p]
  BY <1>2, <1>5, <1>6
<1>8. g \in FileMaps
  BY <1>2, <1>7, FileMapsAre
<1>9. PICK d : d = [c EXCEPT !.files = g]
  OBVIOUS
<1>10. d \in ContainerT /\ d.populated = c.populated /\ d.files = g /\ d.ids = c.ids
  BY <1>8, <1>9 DEF ContainerT
<1>11. [c EXCEPT !.files[n].tail = t, !.files[n].moved = TRUE] = d
  <2>1. [f EXCEPT ![n].tail = t, ![n].moved = TRUE] = g
    BY <1>2, <1>3, <1>6
  <2> QED BY <1>1, <1>9, <2>1 DEF ContainerT
<1>12. ~f[n].started => Alike(d, c)
  BY <1>1, <1>5, <1>7, <1>10 DEF Alike
<1>13. g[n].tail = t /\ g[n].started = f[n].started /\ g[n].stored = f[n].stored
  BY <1>5, <1>7
<1>14. d = [c EXCEPT !.files[n].tail = t, !.files[n].moved = TRUE]
  BY <1>11
<1>15. TailSet(c, n, t, f, g, d)
  BY <1>1, <1>7, <1>10, <1>12, <1>13, <1>14, Zenon DEF TailSet
<1> QED BY <1>15, Zenon

------------------------------------------------------------------------------
(* What a scan makes. *)
AllStored(files) == \A n \in DOMAIN files : files[n].started /\ files[n].tail = <<>>

LEMMA ScanStored ==
  ASSUME NEW s \in ScanT, NEW m, m.chunks \in Seq(Chunk), NEW i \in DOMAIN m.chunks,
         AllStored(s.container.files)
  PROVE  AllStored(ScanChunk(s, m, i, TRUE, FALSE).container.files)
<1> DEFINE Fine(x) == AllStored(x.container.files)
           ch == m.chunks[i]
<1>1. /\ ch.type \in {"start", "data", "fill", "header"}
      /\ ch.type = "start" => ch.id \in Nat /\ ch.name \in Names
  BY RowChunks
<1>2. s.container \in ContainerT
  BY DEF ScanT
<1>3. ASSUME NEW x PROVE Fine(Fails(s, x))
  <2>1. Fails(s, x).container = s.container
    BY DEF Fails, ScanT
  <2> QED BY <2>1
<1>4. ASSUME ch.type = "start" PROVE Fine(ScanStart(s, m, i))
  <2>1. PICK c : c = FoundFile(s.container, ch)
    OBVIOUS
  <2>2. c.files = Assigned(s.container.files, ch.name, Begun(ch.id))
    BY <1>1, <1>2, <1>4, <2>1, FoundFileLemma
  <2>3. AllStored(c.files)
    BY <2>2 DEF AllStored, Assigned, Begun
  <2>4. PICK x : x = [s EXCEPT !.container = c, !.heard = Assigned(@, ch.name, <<>>)]
    OBVIOUS
  <2>5. Fine(x)
    BY <2>3, <2>4 DEF ScanT
  <2>6. ScanStart(s, m, i) \in {Fails(s, Load(m, i, 2)), Fails(s, FilenameMismatch), x}
    BY <2>1, <2>4 DEF ScanStart
  <2> HIDE DEF Fine
  <2> QED BY <1>3, <2>5, <2>6
<1>5. ASSUME ch.type = "data" PROVE Fine(ScanData(s, m, i, TRUE, FALSE))
  <2> DEFINE name == s.container.ids[ch.id]
             c == [s.container EXCEPT !.files[name].stored = Append(@, ch.payload)]
             x == [container |-> c, status |-> NoStatus, heard |-> s.heard]
  <2>1. PICK f \in FileMaps : f = s.container.files
    BY <1>2 DEF ContainerT
  <2>2. f \in [DOMAIN f -> FileT]
    BY <2>1, FileMapsAre
  <2>3. PICK n : n = name
    OBVIOUS
  <2>4. PICK g : g = [f EXCEPT ![n].stored = Append(@, ch.payload)]
    OBVIOUS
  <2>5. AllStored(g)
    BY <2>1, <2>2, <2>4 DEF AllStored, FileT
  <2>6. c.files = g
    BY <1>2, <2>1, <2>3, <2>4 DEF ContainerT
  <2> HIDE DEF c
  <2>7. Fine(x)
    BY <2>5, <2>6
  <2>8. ScanData(s, m, i, TRUE, FALSE)
          \in {Fails(s, Load(m, i, 2)), Fails(s, StreamIdentifierMismatch), x}
    BY DEF ScanData, c
  <2> HIDE DEF Fine, x
  <2> QED BY <1>3, <2>7, <2>8
<1>6. Fine(s)
  OBVIOUS
<1> HIDE DEF Fine
<1>7. Fine(ScanChunk(s, m, i, TRUE, FALSE))
  BY <1>1, <1>3, <1>4, <1>5, <1>6 DEF ScanChunk
<1> QED BY <1>7 DEF Fine

LEMMA TraverseStored ==
  ASSUME NEW c \in ContainerT, c.located, c.files = NoEntries, NEW m, m.chunks \in Seq(Chunk)
  PROVE  AllStored(Traverse(c, m, TRUE, FALSE).container.files)
<1> DEFINE n == Len(m.chunks)
<1>1. PICK T : ScanRun(T, c, m, TRUE, FALSE)
  BY ScanRuns
<1>2. n \in Nat /\ DOMAIN m.chunks = 1 .. n
  BY LenProperties
<1> DEFINE G == {k \in 0 .. n : AllStored(T[k].container.files)}
<1>3. 0 \in G
  <2>1. T[0].container.files = NoEntries
    BY <1>1, ScanFromType DEF ScanRun
  <2> QED BY <1>2, <2>1, EmptyMaps DEF AllStored
<1>4. ASSUME NEW k \in 1 .. n, k - 1 \in G PROVE k \in G
  <2>1. T[k - 1] \in ScanT /\ T[k] = ScanStep(T[k - 1], m, k, TRUE, FALSE) /\ k \in DOMAIN m.chunks
    BY <1>1, <1>2 DEF ScanRun
  <2>2. AllStored(T[k - 1].container.files)
    BY <1>4
  <2>3. AllStored(T[k].container.files)
    BY <2>1, <2>2, ScanStored DEF ScanStep
  <2> QED BY <1>2, <2>3
<1>5. \A k \in 0 .. n : k \in G
  <2> HIDE DEF G, n
  <2> QED BY <1>2, <1>3, <1>4, RowInduction
<1>6. n \in G
  BY <1>2, <1>5
<1>7. T[n] = Traverse(c, m, TRUE, FALSE)
  BY <1>1 DEF ScanRun
<1>8. AllStored(T[n].container.files)
  BY <1>6
<1> QED BY <1>7, <1>8

LEMMA ScannedAgrees ==
  ASSUME NEW c \in ContainerT, c.located, Fresh(c), NEW m, m.chunks \in Seq(Chunk), WellFormed(m.chunks),
         ~Informs(Traverse(c, m, TRUE, FALSE).status)
  PROVE  /\ Agrees(Traverse(c, m, TRUE, FALSE).container, m.chunks)
         /\ AllStored(Traverse(c, m, TRUE, FALSE).container.files)
<1>1. PICK s : s = Traverse(c, m, TRUE, FALSE)
  OBVIOUS
<1>2. ScannedTo(s, m.chunks, Len(m.chunks), TRUE)
  BY <1>1, ScannedContainer
<1>3. PICK row, k, d : row = m.chunks /\ k = Len(row) /\ d = s.container
  OBVIOUS
<1>4. StartsTo(row, k) = StartsIn(row)
  BY <1>3, RowChunks DEF StartsTo
<1>5. /\ DOMAIN d.files = {row[i].name : i \in StartsIn(row)}
      /\ DOMAIN d.ids = {row[i].id : i \in StartsIn(row)}
      /\ \A i \in StartsIn(row) : d.files[row[i].name] = FileOf(row[i].id, So(row, k, row[i].id))
  BY <1>2, <1>3, <1>4 DEF ScannedTo
<1>6. \A i \in StartsIn(row) : So(row, k, row[i].id) = Collected(row, row[i].id)
  BY <1>3, CollectedPrefix
<1>7. ASSUME NEW n \in DOMAIN d.files
      PROVE  /\ d.files[n].stored = Collected(row, d.files[n].id) /\ d.files[n].id \in DOMAIN d.ids
             /\ StoredAs(d.files[n], n, row) /\ d.files[n].started /\ d.files[n].tail = <<>>
             /\ \E i \in StartsIn(row) : row[i].name = n /\ d.files[n].id = row[i].id
  <2>1. PICK i \in StartsIn(row) : row[i].name = n
    BY <1>5, <1>7
  <2>2. d.files[n] = FileOf(row[i].id, Collected(row, row[i].id))
    BY <1>5, <1>6, <2>1
  <2>3. /\ d.files[n].id = row[i].id /\ d.files[n].started /\ d.files[n].tail = <<>>
        /\ d.files[n].stored = Collected(row, row[i].id)
    BY <2>2 DEF FileOf
  <2> QED BY <1>5, <2>1, <2>3 DEF StoredAs
<1>8. \A i \in StartsIn(row) : row[i].name \in DOMAIN d.files /\ d.files[row[i].name].started
  BY <1>5, <1>7
<1>9. \A n, p \in DOMAIN d.files : n # p => d.files[n].id # d.files[p].id
  BY <1>3, <1>7 DEF WellFormed
<1>10. Agrees(d, row) /\ AllStored(d.files)
  BY <1>3, <1>7, <1>8, <1>9 DEF Agrees, AllStored
<1> QED BY <1>1, <1>3, <1>10

LEMMA EmptyAgrees ==
  ASSUME NEW c, Fresh(c)
  PROVE  Agrees(c, <<>>) /\ AllStored(c.files)
BY EmptyMaps DEF Agrees, Fresh, AllStored, WellFormed, StartsIn

------------------------------------------------------------------------------
(* Closing: the files are flushed one after the other.                   *)

(* Closing: a file is flushed, and then is as if it had been stored.       *)
FlushedBy(f, n) ==
  (IF f.started THEN <<>> ELSE <<Start(n, f.id)>>) \o [i \in DOMAIN f.tail |-> Data(f.id, f.tail[i])]
ToMedia(f) == [id |-> f.id, started |-> TRUE, stored |-> f.stored \o f.tail, tail |-> <<>>, moved |-> f.moved]

LEMMA FlushOfIs == \A n : FlushOf(n) = FlushedBy(container.files[n], n)
BY DEF FlushOf, FlushedBy

LEMMA DatasCollected ==
  ASSUME NEW id \in Nat, NEW t \in Content, NEW q, q = [i \in DOMAIN t |-> Data(id, t[i])]
  PROVE  /\ q \in Seq(Chunk) /\ Len(q) = Len(t) /\ Collected(q, id) = t
         /\ \A k \in 1 .. Len(q) : q[k] = Data(id, t[k])
<1> DEFINE T == [k \in 0 .. Len(t) |-> SubSeq(t, 1, k)]
<1>1. t \in Seq(Payloads) /\ Len(t) \in Nat /\ DOMAIN t = 1 .. Len(t)
      /\ \A k \in 1 .. Len(t) : t[k] \in Payloads
  BY LenProperties, ElementOfSeq DEF Content
<1>2. \A k \in 1 .. Len(t) : Data(id, t[k]) \in Chunk
  BY <1>1 DEF Chunk
<1>3. q \in [1 .. Len(t) -> Chunk]
  BY <1>1, <1>2
<1>4. q \in Seq(Chunk) /\ Len(q) = Len(t) /\ \A k \in 1 .. Len(q) : q[k] = Data(id, t[k])
  BY <1>1, <1>3
<1>5. T[0] = <<>>
  BY <1>1
<1>6. ASSUME NEW k \in 1 .. Len(q) PROVE T[k] = More(T[k - 1], q[k], id)
  <2>1. q[k].type = "data" /\ q[k].id = id /\ q[k].payload = t[k]
    BY <1>4 DEF Data
  <2>2. T[k] = SubSeq(t, 1, k) /\ T[k - 1] = SubSeq(t, 1, k - 1)
    BY <1>4
  <2>3. SubSeq(t, 1, k) = Append(SubSeq(t, 1, k - 1), t[k])
    BY <1>1, <1>4
  <2> HIDE DEF T
  <2> QED BY <2>1, <2>2, <2>3 DEF More, Adds
<1>7. T[Len(q)] = Collected(q, id)
  <2> HIDE DEF T
  <2> QED BY <1>4, <1>5, <1>6, CollectedIs
<1>8. T[Len(q)] = t
  <2>1. T[Len(q)] = SubSeq(t, 1, Len(t))
    BY <1>1, <1>4
  <2>2. SubSeq(t, 1, Len(t)) = t
    BY <1>1
  <2> QED BY <2>1, <2>2
<1> QED BY <1>4, <1>7, <1>8

LEMMA Joined ==
  ASSUME NEW r \in Seq(Chunk), NEW p \in Seq(Chunk), NEW q, q = r \o p
  PROVE  /\ q \in Seq(Chunk) /\ Len(r) \in Nat /\ Len(p) \in Nat /\ Len(q) = Len(r) + Len(p)
         /\ \A k \in 1 .. Len(r) : q[k] = r[k]
         /\ \A k \in Len(r) + 1 .. Len(q) : q[k] = p[k - Len(r)]
<1>1. Len(r) \in Nat /\ Len(p) \in Nat
  BY LenProperties
<1>2. q \in Seq(Chunk) /\ Len(q) = Len(r) + Len(p)
  BY ConcatProperties
<1>3. \A k \in 1 .. Len(r) : q[k] = r[k]
  BY <1>1, ConcatProperties
<1>4. \A k \in Len(r) + 1 .. Len(q) : q[k] = p[k - Len(r)]
  BY <1>1, <1>2, ConcatProperties
<1> QED BY <1>1, <1>2, <1>3, <1>4

(* A row that a file without a start chunk has been flushed behind. *)
Extends(q, row, f, n) ==
  /\ q \in Seq(Chunk) /\ Len(q) = Len(row) + 1 + Len(f.tail)
  /\ Len(row) \in Nat /\ Len(f.tail) \in Nat
  /\ \A k \in 1 .. Len(row) : q[k] = row[k]
  /\ q[Len(row) + 1] = Start(n, f.id)
  /\ \A k \in Len(row) + 2 .. Len(q) : q[k].type = "data" /\ q[k].id = f.id
  /\ Collected(q, f.id) = Collected(row, f.id) \o f.tail
  /\ \A p : p # f.id => Collected(q, p) = Collected(row, p)

LEMMA FlushedRow ==
  ASSUME NEW f \in FileT, ~f.started, NEW n \in Names, NEW row \in Seq(Chunk),
         NEW q, q = row \o FlushedBy(f, n)
  PROVE  Extends(q, row, f, n)
<1>1. PICK id \in Nat, t \in Content : id = f.id /\ t = f.tail
  BY DEF FileT
<1>2. PICK d : d = [i \in DOMAIN t |-> Data(id, t[i])]
  OBVIOUS
<1>3. d \in Seq(Chunk) /\ Len(d) = Len(t) /\ Collected(d, id) = t
      /\ \A k \in 1 .. Len(d) : d[k] = Data(id, t[k])
  BY <1>2, DatasCollected
<1>4. PICK s : s = <<Start(n, id)>>
  OBVIOUS
<1>5. s \in Seq(Chunk) /\ Len(s) = 1 /\ s[1] = Start(n, id)
  <2>1. Start(n, id) \in Chunk
    BY DEF Chunk
  <2> QED BY <1>4, <2>1
<1>6. PICK p : p = s \o d
  OBVIOUS
<1>7. Len(d) \in Nat /\ Len(row) \in Nat /\ Len(t) \in Nat
  BY <1>3, LenProperties DEF Content
<1>8. /\ p \in Seq(Chunk) /\ Len(p) = 1 + Len(d) /\ p[1] = Start(n, id)
      /\ \A k \in 2 .. Len(p) : p[k] = Data(id, t[k - 1])
  <2>1. /\ p \in Seq(Chunk) /\ Len(p) = Len(s) + Len(d)
        /\ \A k \in 1 .. Len(s) : p[k] = s[k]
        /\ \A k \in Len(s) + 1 .. Len(p) : p[k] = d[k - Len(s)]
    <3>1. s \in Seq(Chunk) /\ d \in Seq(Chunk)
      BY <1>3, <1>5
    <3> QED BY <1>6, <3>1, Joined
  <2>2. p[1] = Start(n, id)
    BY <1>5, <2>1
  <2>3. ASSUME NEW k \in 2 .. Len(p) PROVE p[k] = Data(id, t[k - 1])
    <3>1. p[k] = d[k - 1] /\ k - 1 \in 1 .. Len(d)
      BY <1>5, <1>7, <2>1
    <3> QED BY <1>3, <3>1
  <2> QED BY <1>5, <2>1, <2>2, <2>3
<1>9. q = row \o p
  BY <1>1, <1>2, <1>4, <1>6 DEF FlushedBy
<1>10. /\ q \in Seq(Chunk) /\ Len(q) = Len(row) + Len(p)
       /\ \A k \in 1 .. Len(row) : q[k] = row[k]
       /\ \A k \in Len(row) + 1 .. Len(q) : q[k] = p[k - Len(row)]
  <2>1. row \in Seq(Chunk) /\ p \in Seq(Chunk)
    BY <1>8
  <2>2. PICK r : r = row
    OBVIOUS
  <2>3. PICK z : z = q
    OBVIOUS
  <2>4. r \in Seq(Chunk) /\ z = r \o p
    BY <1>9, <2>1, <2>2, <2>3
  <2>5. z \in Seq(Chunk) /\ Len(z) = Len(r) + Len(p)
    BY <2>1, <2>4, Joined
  <2>6. \A k \in 1 .. Len(r) : z[k] = r[k]
    BY <2>1, <2>4, Joined
  <2>7. \A k \in Len(r) + 1 .. Len(z) : z[k] = p[k - Len(r)]
    BY <2>1, <2>4, Joined
  <2> QED BY <2>2, <2>3, <2>5, <2>6, <2>7
<1>11. Collected(s, id) = <<>> /\ \A x : Collected(s, x) = <<>>
  <2>1. \A x : \A k \in 1 .. Len(s) : ~Adds(s[k], x)
    BY <1>5 DEF Adds, Start
  <2> QED BY <1>5, <2>1, CollectedNone
<1>12. Collected(p, id) = t
  <2>1. Collected(p, id) = Collected(s, id) \o Collected(d, id)
    BY <1>3, <1>5, <1>6, CollectedConcat
  <2> QED BY <1>3, <1>11, <2>1 DEF Content
<1>13. Collected(q, id) = Collected(row, id) \o t
  BY <1>8, <1>9, <1>12, CollectedConcat
<1>14. ASSUME NEW x, x # id PROVE Collected(q, x) = Collected(row, x)
  <2>1. ASSUME NEW k \in 1 .. Len(p) PROVE ~Adds(p[k], x)
    <3>1. CASE k = 1
      BY <1>8, <3>1 DEF Adds, Start
    <3>2. CASE k # 1
      <4>1. k \in 2 .. Len(p)
        BY <1>7, <1>8, <3>2
      <4>2. p[k] = Data(id, t[k - 1])
        BY <1>8, <4>1
      <4> QED BY <1>14, <4>2 DEF Adds, Data
    <3> QED BY <3>1, <3>2
  <2>2. Collected(p, x) = <<>>
    BY <1>8, <2>1, CollectedNone
  <2>3. Collected(q, x) = Collected(row, x) \o <<>>
    <3>1. p \in Seq(Chunk)
      BY <1>8
    <3>2. Collected(row \o p, x) = Collected(row, x) \o Collected(p, x)
      BY <3>1, CollectedConcat
    <3> QED BY <1>9, <2>2, <3>2
  <2>4. Collected(row, x) \in Seq(Payloads)
    BY CollectedType DEF Content
  <2> QED BY <2>3, <2>4
<1>15. \A k \in Len(row) + 2 .. Len(q) : q[k].type = "data" /\ q[k].id = id
  <2> SUFFICES ASSUME NEW k \in Len(row) + 2 .. Len(q) PROVE q[k].type = "data" /\ q[k].id = id
    OBVIOUS
  <2>1. k \in Len(row) + 1 .. Len(q) /\ k - Len(row) \in 2 .. Len(p)
    BY <1>3, <1>7, <1>8, <1>10
  <2>2. q[k] = p[k - Len(row)]
    BY <1>10, <2>1
  <2>3. PICK j \in 2 .. Len(p) : j = k - Len(row)
    BY <2>1
  <2>4. p[j] = Data(id, t[j - 1])
    BY <1>8, <2>3
  <2> QED BY <2>2, <2>3, <2>4 DEF Data
<1>16. q[Len(row) + 1] = Start(n, id)
  BY <1>3, <1>7, <1>8, <1>10
<1>17. \A k \in 1 .. Len(row) : q[k] = row[k]
  BY <1>3, <1>7, <1>8, <1>10
<1>18. Len(q) = Len(row) + 1 + Len(t)
  BY <1>3, <1>7, <1>8, <1>10
<1> QED BY <1>1, <1>7, <1>10, <1>13, <1>14, <1>15, <1>16, <1>17, <1>18 DEF Extends

LEMMA FlushAgrees ==
  ASSUME NEW x, NEW row \in Seq(Chunk), Agrees(x, row), NEW n \in DOMAIN x.files, n \in Names,
         x.files[n] \in FileT, NEW y, y.ids = x.ids, DOMAIN y.files = DOMAIN x.files,
         y.files[n] = ToMedia(x.files[n]), \A p \in DOMAIN x.files : p # n => y.files[p] = x.files[p]
  PROVE  /\ row \o FlushedBy(x.files[n], n) \in Seq(Chunk)
         /\ Agrees(y, row \o FlushedBy(x.files[n], n))
<1>1. PICK f \in FileT : f = x.files[n]
  OBVIOUS
<1>2. PICK q : q = row \o FlushedBy(f, n)
  OBVIOUS
<1>3. f.id \in Nat /\ f.started \in BOOLEAN /\ f.stored \in Seq(Payloads) /\ f.tail \in Seq(Payloads)
  BY DEF FileT, Content
<1>4. PICK g : g = y.files[n]
  OBVIOUS
<1>5. g.id = f.id /\ g.started /\ g.stored = f.stored \o f.tail /\ g.tail = <<>>
  <2>1. g = ToMedia(f)
    BY <1>1, <1>4
  <2> QED BY <2>1 DEF ToMedia
<1>6. CASE f.started
  <2>1. f.tail = <<>>
    BY <1>1, <1>6 DEF Agrees, StoredAs
  <2>2. FlushedBy(f, n) = <<>>
    <3>1. PICK e : e = [i \in DOMAIN f.tail |-> Data(f.id, f.tail[i])]
      OBVIOUS
    <3>2. e = <<>>
      BY <2>1, <3>1
    <3> QED BY <1>6, <3>1, <3>2 DEF FlushedBy
  <2>3. q = row
    BY <1>2, <2>2
  <2>4. g.stored = f.stored
    BY <1>3, <1>5, <2>1
  <2>5. Alike(y, x)
    <3>1. \A p \in DOMAIN x.files :
            /\ y.files[p].id = x.files[p].id /\ y.files[p].started = x.files[p].started
            /\ y.files[p].stored = x.files[p].stored /\ y.files[p].tail = x.files[p].tail
      BY <1>1, <1>3, <1>4, <1>5, <1>6, <2>1, <2>4
    <3> QED BY <3>1 DEF Alike
  <2> QED BY <1>1, <1>2, <2>3, <2>5, AlikeAgrees
<1>7. CASE ~f.started
  <2>1. /\ q \in Seq(Chunk) /\ Len(q) = Len(row) + 1 + Len(f.tail)
        /\ Len(row) \in Nat /\ Len(f.tail) \in Nat
        /\ \A k \in 1 .. Len(row) : q[k] = row[k]
        /\ q[Len(row) + 1] = Start(n, f.id)
        /\ \A k \in Len(row) + 2 .. Len(q) : q[k].type = "data" /\ q[k].id = f.id
        /\ Collected(q, f.id) = Collected(row, f.id) \o f.tail
        /\ \A p : p # f.id => Collected(q, p) = Collected(row, p)
    <3>1. Extends(q, row, f, n)
      BY <1>2, <1>7, FlushedRow
    <3> QED BY <3>1 DEF Extends
  <2>a. PICK u \in Nat : u = Len(row)
    BY <2>1
  <2>b. PICK v \in Nat : v = Len(q) /\ v >= u + 1
    <3>1. PICK w \in Nat : w = Len(f.tail)
      BY <2>1
    <3>2. Len(q) = u + 1 + w
      BY <2>1, <2>a, <3>1
    <3> QED BY <3>2
  <2>c. PICK l \in Nat : l = u + 1
    OBVIOUS
  <2>2. l = u + 1 /\ u = Len(row) /\ v = Len(q) /\ v >= l
    BY <2>a, <2>b, <2>c
  <2>3. /\ DOMAIN q = 1 .. v /\ DOMAIN row = 1 .. u
        /\ q[l] = Start(n, f.id)
        /\ \A k \in 1 .. u : q[k] = row[k]
        /\ \A k \in u + 2 .. v : q[k].type = "data" /\ q[k].id = f.id
    <3>1. DOMAIN q = 1 .. v
      BY <2>1, <2>2, LenProperties
    <3>2. DOMAIN row = 1 .. u
      BY <2>2, LenProperties
    <3> QED BY <2>1, <2>2, <3>1, <3>2
  <2>4. q[l].type = "start" /\ q[l].name = n /\ q[l].id = f.id /\ l \in DOMAIN q
    BY <2>2, <2>3 DEF Start
  <2>5. StartsIn(q) = StartsIn(row) \cup {l} /\ l \notin StartsIn(row)
        /\ \A i \in StartsIn(row) : q[i] = row[i] /\ i < l
    <3>1. \A k \in DOMAIN q : k \in DOMAIN row \/ k = l \/ k \in u + 2 .. v
      BY <2>2, <2>3
    <3>2. \A k \in DOMAIN row : k \in DOMAIN q /\ q[k] = row[k] /\ k < l
      BY <2>2, <2>3
    <3> QED BY <2>2, <2>3, <2>4, <3>1, <3>2 DEF StartsIn
  <2>6. \A i \in StartsIn(row) : row[i].id # f.id /\ row[i].name # n
    <3>1. \A i \in StartsIn(row) : row[i].id # f.id
      BY <1>1, <1>7 DEF Agrees, StoredAs
    <3>2. \A i \in StartsIn(row) : x.files[row[i].name].started
      BY DEF Agrees
    <3> QED BY <1>1, <1>7, <3>1, <3>2
  <2>7. WellFormed(q)
    <3>1. \A i, j \in StartsIn(q) : i # j => q[i].id # q[j].id /\ q[i].name # q[j].name
      BY <2>4, <2>5, <2>6 DEF Agrees, WellFormed
    <3>2. ASSUME NEW j \in DOMAIN q, q[j].type = "data"
          PROVE  \E i \in StartsIn(q) : i < j /\ q[i].id = q[j].id
      <4>1. CASE j \in DOMAIN row
        <5>1. q[j] = row[j]
          BY <2>3, <4>1
        <5>2. PICK i \in StartsIn(row) : i < j /\ row[i].id = row[j].id
          BY <3>2, <4>1, <5>1 DEF Agrees, WellFormed
        <5> QED BY <2>5, <5>1, <5>2
      <4>2. CASE j \notin DOMAIN row
        <5>1. j # l
          BY <2>4, <3>2
        <5>2. j \in u + 2 .. v /\ l < j
          BY <2>2, <2>3, <3>2, <4>2, <5>1
        <5>3. q[j].id = f.id
          BY <2>3, <5>2
        <5> QED BY <2>4, <2>5, <5>2, <5>3
      <4> QED BY <4>1, <4>2
    <3> QED BY <3>1, <3>2 DEF WellFormed
  <2>8. ASSUME NEW p \in DOMAIN y.files
        PROVE  /\ y.files[p].stored = Collected(q, y.files[p].id) /\ y.files[p].id \in DOMAIN y.ids
               /\ StoredAs(y.files[p], p, q)
    <3>1. CASE p = n
      <4>1. f.stored = Collected(row, f.id) /\ f.id \in DOMAIN x.ids
        BY <1>1 DEF Agrees
      <4>2. StoredAs(g, n, q)
        BY <1>5, <2>4, <2>5 DEF StoredAs
      <4> QED BY <1>4, <1>5, <2>1, <3>1, <4>1, <4>2
    <3>2. CASE p # n
      <4>1. y.files[p] = x.files[p] /\ p \in DOMAIN x.files /\ x.files[p].id # f.id
        BY <1>1, <2>8, <3>2 DEF Agrees
      <4>2. /\ x.files[p].stored = Collected(row, x.files[p].id) /\ x.files[p].id \in DOMAIN x.ids
            /\ StoredAs(x.files[p], p, row)
        BY <4>1 DEF Agrees
      <4>3. StoredAs(x.files[p], p, q)
        <5>1. CASE x.files[p].started
          <6>1. PICK i \in StartsIn(row) : row[i].name = p /\ row[i].id = x.files[p].id
            BY <4>2, <5>1 DEF StoredAs
          <6> QED BY <2>5, <4>2, <5>1, <6>1 DEF StoredAs
        <5>2. CASE ~x.files[p].started
          BY <2>4, <2>5, <4>1, <4>2, <5>2 DEF StoredAs
        <5> QED BY <5>1, <5>2
      <4> QED BY <2>1, <4>1, <4>2, <4>3
    <3> QED BY <3>1, <3>2
  <2>9. \A i \in StartsIn(q) : q[i].name \in DOMAIN y.files /\ y.files[q[i].name].started
    <3>1. \A i \in StartsIn(row) : row[i].name \in DOMAIN y.files /\ y.files[row[i].name].started
      BY <2>6 DEF Agrees
    <3> QED BY <1>4, <1>5, <2>4, <2>5, <3>1
  <2>10. \A p, s \in DOMAIN y.files : p # s => y.files[p].id # y.files[s].id
    BY <1>1, <1>4, <1>5 DEF Agrees
  <2>11. Agrees(y, q)
    BY <2>7, <2>8, <2>9, <2>10 DEF Agrees
  <2> QED BY <1>1, <1>2, <2>1, <2>11
<1> QED BY <1>3, <1>6, <1>7

LEMMA OrderLemma ==
  /\ Len(NamesInOrder) \in Nat /\ DOMAIN NamesInOrder = 1 .. Len(NamesInOrder)
  /\ \A k \in 1 .. Len(NamesInOrder) : NamesInOrder[k] \in Names
  /\ \A i, k \in 1 .. Len(NamesInOrder) : NamesInOrder[i] = NamesInOrder[k] => i = k
  /\ \A n \in Names : \E k \in 1 .. Len(NamesInOrder) : NamesInOrder[k] = n
<1>1. Len(NamesInOrder) \in Nat /\ DOMAIN NamesInOrder = 1 .. Len(NamesInOrder)
  BY OpeningAssumption, LenProperties
<1>2. \A k \in 1 .. Len(NamesInOrder) : NamesInOrder[k] \in Names
  BY OpeningAssumption, ElementOfSeq
<1>3. \A i, k \in 1 .. Len(NamesInOrder) : NamesInOrder[i] = NamesInOrder[k] => i = k
  BY <1>1, OpeningAssumption DEF IsInjective
<1>4. \A n \in Names : \E k \in 1 .. Len(NamesInOrder) : NamesInOrder[k] = n
  BY <1>1 DEF Names, ToSet
<1> QED BY <1>1, <1>2, <1>3, <1>4

LEMMA FlushedType ==
  ASSUME NEW f \in FileT, NEW n \in Names, NEW row \in Seq(Chunk)
  PROVE  row \o FlushedBy(f, n) \in Seq(Chunk)
<1>1. PICK id \in Nat, t \in Content : id = f.id /\ t = f.tail
  BY DEF FileT
<1>2. PICK d : d = [i \in DOMAIN t |-> Data(id, t[i])]
  OBVIOUS
<1>3. d \in Seq(Chunk)
  BY <1>2, DatasCollected
<1>4. PICK s : s = IF f.started THEN <<>> ELSE <<Start(n, id)>>
  OBVIOUS
<1>5. s \in Seq(Chunk)
  <2>1. Start(n, id) \in Chunk
    BY DEF Chunk
  <2> QED BY <1>4, <2>1
<1>6. FlushedBy(f, n) = s \o d
  BY <1>1, <1>2, <1>4 DEF FlushedBy
<1>7. s \o d \in Seq(Chunk)
  BY <1>3, <1>5, ConcatProperties
<1> QED BY <1>6, <1>7, ConcatProperties

CloseRun(T, row) ==
  /\ T \in [0 .. Len(NamesInOrder) -> Seq(Chunk)]
  /\ T[0] = row /\ T[Len(NamesInOrder)] = FoldLeft(Flushed, row, NamesInOrder)
  /\ \A k \in 1 .. Len(NamesInOrder) : T[k] = Flushed(T[k - 1], NamesInOrder[k])

LEMMA CloseRuns ==
  ASSUME container \in ContainerT, NEW row \in Seq(Chunk)
  PROVE  \E T : CloseRun(T, row)
<1> DEFINE n == Len(NamesInOrder)
           X == Seq(Chunk)
           step == [p \in (1 .. n) \X X |-> Flushed(p[2], NamesInOrder[p[1]])]
           Good(g) == g = [s \in SUBSET DOMAIN NamesInOrder |->
                             IF s = {} THEN row ELSE Flushed(g[s \ {LastIn(s)}], NamesInOrder[LastIn(s)])]
           f == CHOOSE g : Good(g)
<1>1. n \in Nat /\ DOMAIN NamesInOrder = 1 .. n
  BY OrderLemma
<1>2. \A r \in X, name \in Names : Flushed(r, name) \in X
  <2> SUFFICES ASSUME NEW r \in Seq(Chunk), NEW name \in Names PROVE Flushed(r, name) \in Seq(Chunk)
    OBVIOUS
  <2>1. CASE name \in DOMAIN container.files
    <3>1. container.files[name] \in FileT
      BY <2>1, FileTypes
    <3>2. r \o FlushedBy(container.files[name], name) \in Seq(Chunk)
      BY <3>1, FlushedType
    <3> QED BY <2>1, <3>2, FlushOfIs DEF Flushed
  <2>2. CASE name \notin DOMAIN container.files
    BY <2>2 DEF Flushed
  <2> QED BY <2>1, <2>2
<1>3. step \in [(1 .. n) \X X -> X]
  BY <1>2, OrderLemma
<1>4. \A s \in SUBSET (1 .. n) : s # {} => LastIn(s) \in 1 .. n
  BY <1>1, LastInLemma
<1>5. f[DOMAIN NamesInOrder] = FoldLeft(Flushed, row, NamesInOrder)
  BY DEF FoldLeft, MapThenFoldSet, Max, LastIn
<1>6. PICK h : RowFold(h, n, X, row, step)
  <2> HIDE DEF step, n
  <2> QED BY <1>1, <1>3, RowFoldExists
<1>8. ASSUME NEW g, NEW s \in SUBSET (1 .. n), s # {}, g[s \ {LastIn(s)}] \in X
      PROVE  step[<<LastIn(s), g[s \ {LastIn(s)}]>>] = Flushed(g[s \ {LastIn(s)}], NamesInOrder[LastIn(s)])
  <2>1. LastIn(s) \in 1 .. n
    BY <1>4, <1>8
  <2> QED BY <1>8, <2>1
<1>9. Good(h)
  <2>1. \A s \in SUBSET (1 .. n) : s \ {LastIn(s)} \in SUBSET (1 .. n)
    OBVIOUS
  <2> HIDE DEF step
  <2> QED BY <1>1, <1>6, <1>8, <2>1 DEF RowFold
<1>10. Good(f)
  <2> HIDE DEF Good
  <2> QED BY <1>9
<1>11. RowUnfolds(f, n, X, row, step)
  <2>1. PICK g : g = f /\ Good(g)
    BY <1>10
  <2>2. g[{}] = row
    BY <2>1
  <2>3. ASSUME NEW s \in SUBSET (1 .. n), s # {}, g[s \ {LastIn(s)}] \in X
        PROVE  g[s] = step[<<LastIn(s), g[s \ {LastIn(s)}]>>]
    <3>1. g[s] = Flushed(g[s \ {LastIn(s)}], NamesInOrder[LastIn(s)])
      BY <1>1, <2>1, <2>3
    <3> HIDE DEF step
    <3> QED BY <1>8, <2>3, <3>1
  <2> HIDE DEF step, f
  <2> QED BY <2>1, <2>2, <2>3 DEF RowUnfolds
<1>12. PICK T : RowRun(T, n, X, row, step, f[1 .. n])
  <2> HIDE DEF step, f, n
  <2> QED BY <1>1, <1>3, <1>11, RowRunLemma
<1>13. /\ T \in [0 .. n -> X] /\ T[0] = row /\ T[n] = f[1 .. n]
       /\ \A k \in 1 .. n : T[k] = step[<<k, T[k - 1]>>]
  <2> HIDE DEF step, f, n
  <2> QED BY <1>12 DEF RowRun
<1>14. \A k \in 1 .. n : T[k] = Flushed(T[k - 1], NamesInOrder[k])
  <2> SUFFICES ASSUME NEW k \in 1 .. n PROVE T[k] = Flushed(T[k - 1], NamesInOrder[k])
    OBVIOUS
  <2>1. T[k - 1] \in X
    BY <1>1, <1>13
  <2> QED BY <1>13, <2>1
<1>15. T[n] = FoldLeft(Flushed, row, NamesInOrder)
  <2> HIDE DEF f, n
  <2> QED BY <1>1, <1>5, <1>13
<1> HIDE DEF f, step
<1> QED BY <1>13, <1>14, <1>15 DEF CloseRun

(* Of files that are all stored nothing is left to be flushed. *)
LEMMA CloseStored ==
  ASSUME container \in ContainerT, AllStored(container.files), NEW row \in Seq(Chunk)
  PROVE  FoldLeft(Flushed, row, NamesInOrder) = row
<1> DEFINE n == Len(NamesInOrder)
<1>1. PICK T : CloseRun(T, row)
  BY CloseRuns
<1>2. n \in Nat
  BY OrderLemma
<1> DEFINE G == {k \in 0 .. n : T[k] = row}
<1>3. 0 \in G
  BY <1>1, <1>2 DEF CloseRun
<1>4. ASSUME NEW k \in 1 .. n, k - 1 \in G PROVE k \in G
  <2>1. T[k] = Flushed(row, NamesInOrder[k])
    BY <1>1, <1>4 DEF CloseRun
  <2>2. PICK name : name = NamesInOrder[k]
    OBVIOUS
  <2>3. CASE name \in DOMAIN container.files
    <3>1. PICK f : f = container.files[name]
      OBVIOUS
    <3>2. f.started /\ f.tail = <<>>
      BY <2>3, <3>1 DEF AllStored
    <3>3. PICK e : e = [i \in DOMAIN f.tail |-> Data(f.id, f.tail[i])]
      OBVIOUS
    <3>4. e = <<>>
      BY <3>2, <3>3
    <3>5. FlushedBy(f, name) = <<>>
      BY <3>2, <3>3, <3>4 DEF FlushedBy
    <3>6. FlushOf(name) = <<>>
      BY <3>1, <3>5, FlushOfIs
    <3>7. row \o <<>> = row
      BY ConcatEmptySeq
    <3> QED BY <2>1, <2>2, <2>3, <3>6, <3>7 DEF Flushed
  <2>4. CASE name \notin DOMAIN container.files
    BY <2>1, <2>2, <2>4 DEF Flushed
  <2>5. T[k] = row
    BY <2>3, <2>4
  <2> QED BY <1>2, <2>5
<1>5. \A k \in 0 .. n : k \in G
  <2> HIDE DEF G, n
  <2> QED BY <1>2, <1>3, <1>4, RowInduction
<1>6. n \in G
  BY <1>2, <1>5
<1>7. T[n] = FoldLeft(Flushed, row, NamesInOrder)
  BY <1>1 DEF CloseRun
<1> QED BY <1>6, <1>7

(* When the first k names have been flushed. *)
FilesTo(files, k) ==
  [n \in DOMAIN files |-> IF \E i \in 1 .. k : NamesInOrder[i] = n THEN ToMedia(files[n]) ELSE files[n]]
ClosedTo(c, k) == [files |-> FilesTo(c.files, k), ids |-> c.ids]

LEMMA FilesToAt ==
  ASSUME NEW files, NEW k, NEW p \in DOMAIN files
  PROVE  /\ (\E i \in 1 .. k : NamesInOrder[i] = p) => FilesTo(files, k)[p] = ToMedia(files[p])
         /\ ~(\E i \in 1 .. k : NamesInOrder[i] = p) => FilesTo(files, k)[p] = files[p]
BY DEF FilesTo

LEMMA CloseAgrees ==
  ASSUME container \in ContainerT, NEW row \in Seq(Chunk), Agrees(container, row)
  PROVE  /\ FoldLeft(Flushed, row, NamesInOrder) \in Seq(Chunk)
         /\ Agrees(ClosedTo(container, Len(NamesInOrder)), FoldLeft(Flushed, row, NamesInOrder))
<1> DEFINE n == Len(NamesInOrder)
<1>1. PICK T : CloseRun(T, row)
  BY CloseRuns
<1>2. n \in Nat
  BY OrderLemma
<1>3. PICK c : c = container
  OBVIOUS
<1>4. c \in ContainerT /\ Agrees(c, row)
  BY <1>3
<1>5. \A k : ClosedTo(c, k).files = FilesTo(c.files, k) /\ ClosedTo(c, k).ids = c.ids
             /\ DOMAIN FilesTo(c.files, k) = DOMAIN c.files
  BY DEF ClosedTo, FilesTo
<1> DEFINE G == {k \in 0 .. n : T[k] \in Seq(Chunk) /\ Agrees(ClosedTo(c, k), T[k])}
<1>6. 0 \in G
  <2>1. T[0] = row
    BY <1>1 DEF CloseRun
  <2>2. \A p \in DOMAIN c.files : FilesTo(c.files, 0)[p] = c.files[p]
    BY DEF FilesTo
  <2>3. PICK x : x = ClosedTo(c, 0)
    OBVIOUS
  <2>4. Alike(x, c)
    BY <1>5, <2>2, <2>3 DEF Alike
  <2>5. Agrees(x, row)
    BY <1>4, <2>4, AlikeAgrees
  <2> QED BY <1>2, <2>1, <2>3, <2>5
<1>7. ASSUME NEW k \in 1 .. n, k - 1 \in G PROVE k \in G
  <2>1. PICK x, y, r : x = ClosedTo(c, k - 1) /\ y = ClosedTo(c, k) /\ r = T[k - 1]
    OBVIOUS
  <2>2. r \in Seq(Chunk) /\ Agrees(x, r)
    BY <1>7, <2>1
  <2>3. PICK name \in Names : name = NamesInOrder[k]
    BY OrderLemma
  <2>4. T[k] = Flushed(r, name)
    BY <1>1, <2>1, <2>3 DEF CloseRun
  <2>5. ASSUME NEW p \in DOMAIN c.files
        PROVE  /\ p = name => x.files[p] = c.files[p] /\ y.files[p] = ToMedia(c.files[p])
               /\ p # name => x.files[p] = y.files[p]
    <3>0. x.files = FilesTo(c.files, k - 1) /\ y.files = FilesTo(c.files, k)
      BY <1>5, <2>1
    <3>1. /\ (\E i \in 1 .. k - 1 : NamesInOrder[i] = p) => x.files[p] = ToMedia(c.files[p])
          /\ ~(\E i \in 1 .. k - 1 : NamesInOrder[i] = p) => x.files[p] = c.files[p]
      BY <3>0, FilesToAt
    <3>2. /\ (\E i \in 1 .. k : NamesInOrder[i] = p) => y.files[p] = ToMedia(c.files[p])
          /\ ~(\E i \in 1 .. k : NamesInOrder[i] = p) => y.files[p] = c.files[p]
      BY <3>0, FilesToAt
    <3>3. CASE p = name
      <4>1. ~ \E i \in 1 .. k - 1 : NamesInOrder[i] = p
        <5>1. SUFFICES ASSUME NEW i \in 1 .. k - 1, NamesInOrder[i] = p PROVE FALSE
          OBVIOUS
        <5>2. i \in 1 .. n /\ i # k
          BY <1>2
        <5> QED BY <2>3, <3>3, <5>1, <5>2, OrderLemma
      <4>2. k \in 1 .. k /\ NamesInOrder[k] = p
        BY <2>3, <3>3
      <4> QED BY <3>1, <3>2, <3>3, <4>1, <4>2
    <3>4. CASE p # name
      <4>1. (\E i \in 1 .. k : NamesInOrder[i] = p) <=> \E i \in 1 .. k - 1 : NamesInOrder[i] = p
        <5>1. ASSUME NEW i \in 1 .. k, NamesInOrder[i] = p PROVE i \in 1 .. k - 1
          <6>1. i # k
            BY <2>3, <3>4, <5>1
          <6> QED BY <6>1
        <5>2. \A i \in 1 .. k - 1 : i \in 1 .. k
          OBVIOUS
        <5> QED BY <5>1, <5>2
      <4> QED BY <3>1, <3>2, <3>4, <4>1
    <3> QED BY <3>3, <3>4
  <2>6. /\ DOMAIN x.files = DOMAIN c.files /\ DOMAIN y.files = DOMAIN c.files
        /\ x.ids = c.ids /\ y.ids = c.ids
    BY <1>5, <2>1
  <2>7. T[k] \in Seq(Chunk) /\ Agrees(y, T[k])
    <3>1. CASE name \in DOMAIN c.files
      <4>1. x.files[name] \in FileT /\ x.files[name] = c.files[name] /\ name \in DOMAIN x.files
        BY <1>4, <2>5, <2>6, <3>1, FileTypes
      <4>2. /\ r \o FlushedBy(x.files[name], name) \in Seq(Chunk)
            /\ Agrees(y, r \o FlushedBy(x.files[name], name))
        BY <2>2, <2>5, <2>6, <4>1, FlushAgrees
      <4>3. T[k] = r \o FlushedBy(x.files[name], name)
        BY <1>3, <2>4, <3>1, <4>1, FlushOfIs DEF Flushed
      <4> QED BY <4>2, <4>3
    <3>2. CASE name \notin DOMAIN c.files
      <4>1. T[k] = r
        BY <1>3, <2>4, <3>2 DEF Flushed
      <4>2. Alike(y, x)
        BY <2>5, <2>6, <3>2 DEF Alike
      <4> QED BY <2>2, <4>1, <4>2, AlikeAgrees
    <3> QED BY <3>1, <3>2
  <2> QED BY <1>2, <2>1, <2>7
<1>8. \A k \in 0 .. n : k \in G
  <2> HIDE DEF G, n
  <2> QED BY <1>2, <1>6, <1>7, RowInduction
<1>9. n \in G
  BY <1>2, <1>8
<1>10. T[n] = FoldLeft(Flushed, row, NamesInOrder)
  BY <1>1 DEF CloseRun
<1> QED BY <1>3, <1>9, <1>10

(* What a container that agrees with its media holds is on the media when  *)
(* it has been closed.                                                     *)
LEMMA ClosedFiles ==
  ASSUME container \in ContainerT, NEW row \in Seq(Chunk), Agrees(container, row),
         NEW m, m.chunks = FoldLeft(Flushed, row, NamesInOrder)
  PROVE  /\ m.chunks \in Seq(Chunk) /\ WellFormed(m.chunks)
         /\ DOMAIN FilesOn(m) = DOMAIN container.files
         /\ \A n \in DOMAIN container.files : FilesOn(m)[n] = Contents(container.files[n])
<1>1. PICK x : x = ClosedTo(container, Len(NamesInOrder))
  OBVIOUS
<1>2. m.chunks \in Seq(Chunk) /\ Agrees(x, m.chunks)
  BY <1>1, CloseAgrees
<1>3. DOMAIN x.files = DOMAIN container.files
  BY <1>1 DEF ClosedTo, FilesTo
<1>4. ASSUME NEW n \in DOMAIN container.files
      PROVE  x.files[n].started /\ x.files[n].stored = Contents(container.files[n])
  <2>1. n \in Names
    BY FileTypes
  <2>2. \E i \in 1 .. Len(NamesInOrder) : NamesInOrder[i] = n
    BY <2>1, OrderLemma
  <2>3. PICK f, g : f = container.files[n] /\ g = x.files[n]
    OBVIOUS
  <2>4. g = ToMedia(f)
    BY <1>1, <2>2, <2>3 DEF ClosedTo, FilesTo
  <2>5. g.started /\ g.stored = Contents(f)
    BY <2>4 DEF ToMedia, Contents
  <2> QED BY <2>3, <2>5
<1>5. /\ DOMAIN FilesOn(m) = {n \in DOMAIN x.files : x.files[n].started}
      /\ \A n \in DOMAIN FilesOn(m) : FilesOn(m)[n] = x.files[n].stored
  BY <1>2, AgreesFiles
<1>6. WellFormed(m.chunks)
  BY <1>2 DEF Agrees
<1> QED BY <1>2, <1>3, <1>4, <1>5, <1>6

------------------------------------------------------------------------------
(* The invariant of the tool: while it is at work, its container agrees    *)
(* with the media, the files no argument names are as they were, and the   *)
(* files and the file system are what the switches so far promise.       *)

(* The files that no argument names. *)
Others == IF "-I" \in ToSet(arguments) THEN {} ELSE DOMAIN FilesOn(given.media) \ ToSet(arguments)

Named    == ~Helps /\ ContainerAt # 0
Texts(f) == [n \in DOMAIN f |-> Contents(f[n])]
Want(k)  == WantOf(arguments, given)[k]
Met(k)   == Texts(container.files) = Want(k).files /\ disk = Want(k).disk

(* The next argument is a name where a switch has to be. *)
Doomed == argumentNumber <= Len(arguments) /\ arguments[argumentNumber] \in Names

ToolKept == arguments \in AnyArguments /\ given.media \in AnyMedia /\ given.disk \in DiskT

LEMMA GivenStays ==
  ASSUME arguments' = arguments, given' = given
  PROVE  /\ ToolKept' = ToolKept /\ Others' = Others /\ (FilesOn(given.media))' = FilesOn(given.media)
         /\ Helps' = Helps /\ ContainerAt' = ContainerAt /\ Named' = Named
         /\ \A k : Want(k)' = Want(k)
<1>1. ToolKept' = ToolKept /\ Others' = Others /\ (FilesOn(given.media))' = FilesOn(given.media)
  BY DEF ToolKept, Others
<1>2. Helps' = Helps /\ ContainerAt' = ContainerAt
  BY DEF Helps, ContainerAt
<1>3. \A k : Want(k)' = Want(k)
  BY DEF Want
<1> QED BY <1>1, <1>2, <1>3 DEF Named

LEMMA ArgumentsAre ==
  ASSUME arguments \in AnyArguments
  PROVE  /\ arguments \in Seq(Switches \cup Names \cup {ContainerName})
         /\ Len(arguments) \in Nat /\ DOMAIN arguments = 1 .. Len(arguments)
         /\ \A i \in DOMAIN arguments : arguments[i] \in Switches \cup Names \cup {ContainerName}
         /\ \A i, j \in DOMAIN arguments : arguments[i] = ContainerName /\ arguments[j] = ContainerName => i = j
         /\ \A i \in DOMAIN arguments : arguments[i] \in {"-r", "-e", "-i"} =>
              /\ i + 1 \in DOMAIN arguments => arguments[i + 1] \in Names \cup {ContainerName}
              /\ i + 2 \in DOMAIN arguments /\ arguments[i + 1] = ContainerName => arguments[i + 2] \in Names
         /\ \A i \in DOMAIN arguments : arguments[i] \in Names =>
              \E j \in DOMAIN arguments : j < i /\ arguments[j] = ContainerName
<1>1. arguments \in Seq(Switches \cup Names \cup {ContainerName})
  BY DEF AnyArguments
<1>2. Len(arguments) \in Nat /\ DOMAIN arguments = 1 .. Len(arguments)
  BY <1>1, LenProperties
<1>3. \A i \in DOMAIN arguments : arguments[i] \in Switches \cup Names \cup {ContainerName}
  BY <1>1, <1>2, ElementOfSeq
<1>4. /\ \A i, j \in DOMAIN arguments : arguments[i] = ContainerName /\ arguments[j] = ContainerName => i = j
      /\ \A i \in DOMAIN arguments : arguments[i] \in {"-r", "-e", "-i"} =>
              /\ i + 1 \in DOMAIN arguments => arguments[i + 1] \in Names \cup {ContainerName}
              /\ i + 2 \in DOMAIN arguments /\ arguments[i + 1] = ContainerName => arguments[i + 2] \in Names
  BY Zenon DEF AnyArguments
<1>5. \A i \in DOMAIN arguments : arguments[i] \in Names =>
        \E j \in DOMAIN arguments : j < i /\ arguments[j] = ContainerName
  BY Zenon DEF AnyArguments
<1> QED BY <1>1, <1>2, <1>3, <1>4, <1>5, Zenon

LEMMA ContainerAtIs ==
  ASSUME arguments \in AnyArguments, ContainerAt # 0
  PROVE  /\ ContainerAt \in DOMAIN arguments /\ arguments[ContainerAt] = ContainerName
         /\ \A i \in DOMAIN arguments : arguments[i] = ContainerName => i = ContainerAt
<1> DEFINE S == {i \in DOMAIN arguments : arguments[i] \notin Switches}
<1>1. S # {} /\ ContainerAt = Min(S)
  BY DEF ContainerAt
<1>2. DOMAIN arguments = 1 .. Len(arguments) /\ Len(arguments) \in Nat
  BY ArgumentsAre
<1>3. Min(S) \in S /\ \A i \in S : Min(S) <= i
  <2>1. S # {} /\ S \subseteq Nat
    BY <1>1, <1>2
  <2> HIDE DEF S
  <2>2. \E x \in S : \A y \in S : x <= y
    BY <2>1, LeastOf
  <2> QED BY <2>2, Zenon DEF Min
<1>4. PICK m \in DOMAIN arguments : m = ContainerAt /\ arguments[m] \notin Switches /\ \A i \in S : m <= i
  BY <1>1, <1>3
<1>5. arguments[m] = ContainerName
  <2> SUFFICES ASSUME arguments[m] # ContainerName PROVE FALSE
    OBVIOUS
  <2>1. arguments[m] \in Names
    BY <1>4, ArgumentsAre
  <2>2. PICK j \in DOMAIN arguments : j < m /\ arguments[j] = ContainerName
    BY <1>4, <2>1, ArgumentsAre
  <2>3. j \in S
    BY <2>2, IcAssumption
  <2>4. m <= j
    BY <1>4, <2>3
  <2> QED BY <1>2, <1>4, <2>2, <2>4
<1> QED BY <1>4, <1>5, ArgumentsAre

(* What an argument can be and what it cannot be at once. *)
LEMMA Disjoint ==
  /\ \A n \in Names : n \notin Switches /\ n # ContainerName
  /\ ContainerName \notin Switches
  /\ {"-l", "-I", "-X", "-r", "-e", "-i", "-x"} \subseteq Switches
BY IcAssumption DEF Switches

LEMMA ParameterIs ==
  ASSUME arguments \in AnyArguments, ContainerAt # 0, argumentNumber \in DOMAIN arguments,
         arguments[argumentNumber] \in {"-r", "-e", "-i"}, NextArgument <= Len(arguments)
  PROVE  /\ Parameter \in Names /\ Parameter \in ToSet(arguments) /\ argumentNumber + 2 \in 1 .. Len(arguments) + 1
         /\ \/ argumentNumber + 2 \in DOMAIN arguments /\ arguments[argumentNumber + 2] \in Names
            \/ /\ Parameter = NameIn(arguments, argumentNumber)
               /\ argumentNumber + 1 \in DOMAIN arguments /\ arguments[argumentNumber + 1] \in Names
<1>a. Len(arguments) \in Nat /\ DOMAIN arguments = 1 .. Len(arguments)
  BY ArgumentsAre
<1>b. PICK l \in Nat : l = Len(arguments)
  BY <1>a
<1>c. PICK i \in 1 .. l : i = argumentNumber
  BY <1>a, <1>b
<1>1. i = argumentNumber /\ l = Len(arguments) /\ i \in 1 .. l
  BY <1>b, <1>c
<1>2. DOMAIN arguments = 1 .. l /\ arguments[i] \in {"-r", "-e", "-i"} /\ i \in DOMAIN arguments
  BY <1>1, ArgumentsAre
<1>3. /\ i + 1 \in DOMAIN arguments => arguments[i + 1] \in Names \cup {ContainerName}
      /\ i + 2 \in DOMAIN arguments /\ arguments[i + 1] = ContainerName => arguments[i + 2] \in Names
  BY <1>2, ArgumentsAre
<1>4. ContainerAt \in DOMAIN arguments /\ arguments[ContainerAt] = ContainerName
      /\ \A j \in DOMAIN arguments : arguments[j] = ContainerName => j = ContainerAt
  BY ContainerAtIs
<1>5. CASE i + 1 = ContainerAt
  <2>1. NextArgument = i + 2
    BY <1>1, <1>5 DEF NextArgument
  <2>2. i + 2 \in DOMAIN arguments /\ arguments[i + 2] \in Names /\ i + 2 \in 1 .. l + 1
    BY <1>1, <1>2, <1>3, <1>4, <1>5, <2>1
  <2>3. Parameter = arguments[i + 2]
    BY <2>1 DEF Parameter
  <2> QED BY <1>1, <2>2, <2>3 DEF ToSet
<1>6. CASE i + 1 # ContainerAt
  <2>1. NextArgument = i + 1
    BY <1>1, <1>6 DEF NextArgument
  <2>2. i + 1 \in DOMAIN arguments /\ i + 2 \in 1 .. l + 1 /\ i < l
    BY <1>1, <1>2, <2>1
  <2>3. arguments[i + 1] \in Names
    BY <1>3, <1>4, <1>6, <2>2
  <2>4. Parameter = arguments[i + 1]
    BY <2>1 DEF Parameter
  <2>5. NameIn(arguments, i) = arguments[i + 1]
    BY <1>1, <2>2 DEF NameIn
  <2> QED BY <1>1, <2>2, <2>3, <2>4, <2>5 DEF ToSet
<1> QED BY <1>5, <1>6

------------------------------------------------------------------------------
LEMMA WantFacts ==
  ASSUME ToolKept
  PROVE  /\ Want(0) = [files |-> FilesOn(given.media), disk |-> given.disk]
         /\ \A k \in 0 .. Len(arguments) : Want(k) \in WantT
         /\ \A k \in 1 .. Len(arguments) :
              Want(k) = Promised(Want(k - 1), arguments[k], NameIn(arguments, k))
         /\ Want(Len(arguments)) = Wanted
<1>1. RunOf(WantOf(arguments, given), arguments, given) /\ WantOf(arguments, given)[Len(arguments)] = Wanted
  <2>1. /\ arguments \in Seq(Switches \cup Names \cup {ContainerName})
        /\ given.media.chunks \in Seq(Chunk) /\ WellFormed(given.media.chunks) /\ given.disk \in DiskT
    BY ArgumentsAre, AnyMediaIs DEF ToolKept
  <2> QED BY <2>1, WantLemma
<1>2. PICK W : W = WantOf(arguments, given)
  OBVIOUS
<1>3. \A k : Want(k) = W[k]
  BY <1>2 DEF Want
<1>4. /\ W \in [0 .. Len(arguments) -> WantT]
      /\ W[0] = [files |-> FilesOn(given.media), disk |-> given.disk]
      /\ \A k \in 1 .. Len(arguments) : W[k] = Promised(W[k - 1], arguments[k], NameIn(arguments, k))
  BY <1>1, <1>2 DEF RunOf
<1>5. \A k \in 0 .. Len(arguments) : Want(k) \in WantT
  BY <1>3, <1>4
<1>6. \A k \in 1 .. Len(arguments) : Want(k) = Promised(Want(k - 1), arguments[k], NameIn(arguments, k))
  BY <1>3, <1>4
<1> QED BY <1>1, <1>2, <1>3, <1>4, <1>5, <1>6

LEMMA PromisedIs ==
  ASSUME NEW s \in WantT, NEW n
  PROVE  /\ Promised(s, "-I", n).files = NoEntries /\ Promised(s, "-I", n).disk = s.disk
         /\ Promised(s, "-X", n).files = s.files
         /\ Promised(s, "-X", n).disk = [x \in Names |-> IF x \in DOMAIN s.files THEN Plain(s.files[x]) ELSE s.disk[x]]
         /\ Promised(s, "-r", n).files = Removed(s.files, {n}) /\ Promised(s, "-r", n).disk = s.disk
         /\ Promised(s, "-e", n).files = s.files
         /\ n \in DOMAIN s.files => Promised(s, "-e", n).disk = [s.disk EXCEPT ![n] = Plain(s.files[n])]
         /\ Promised(s, "-i", n).disk = s.disk
         /\ n \in Names => Promised(s, "-i", n).files = Assigned(s.files, n, s.disk[n].content)
<1>1. PICK f, d : f = s.files /\ d = s.disk /\ f \in TextMaps /\ d \in DiskT /\ s = [files |-> f, disk |-> d]
  BY DEF WantT
<1>2. DOMAIN d = Names
  BY <1>1 DEF DiskT
<1>3. Promised(s, "-I", n).files = NoEntries /\ Promised(s, "-I", n).disk = s.disk
  BY <1>1 DEF Promised
<1>4. /\ Promised(s, "-X", n).files = s.files
      /\ Promised(s, "-X", n).disk = [x \in Names |-> IF x \in DOMAIN s.files THEN Plain(s.files[x]) ELSE s.disk[x]]
  BY <1>1, <1>2 DEF Promised
<1>5. Promised(s, "-r", n).files = Removed(s.files, {n}) /\ Promised(s, "-r", n).disk = s.disk
  BY <1>1 DEF Promised
<1>6. /\ Promised(s, "-e", n).files = s.files
      /\ n \in DOMAIN s.files => Promised(s, "-e", n).disk = [s.disk EXCEPT ![n] = Plain(s.files[n])]
  BY <1>1 DEF Promised
<1>7. /\ Promised(s, "-i", n).disk = s.disk
      /\ n \in Names => Promised(s, "-i", n).files = Assigned(s.files, n, s.disk[n].content)
  BY <1>1, <1>2 DEF Promised
<1> QED BY <1>3, <1>4, <1>5, <1>6, <1>7

LEMMA WantStays ==
  ASSUME ToolKept, NEW k \in 1 .. Len(arguments), arguments[k] \in Names \cup {ContainerName, "-l"}
  PROVE  Want(k) = Want(k - 1)
<1>1. Want(k) = Promised(Want(k - 1), arguments[k], NameIn(arguments, k))
  BY WantFacts
<1>2. arguments[k] \notin {"-I", "-X", "-r", "-e", "-i"}
  BY Disjoint
<1>3. PICK s, w, n : s = Want(k - 1) /\ w = arguments[k] /\ n = NameIn(arguments, k)
  OBVIOUS
<1>4. w \notin {"-I", "-X", "-r", "-e", "-i"}
  BY <1>2, <1>3
<1>5. Promised(s, w, n) = s
  BY <1>4 DEF Promised
<1> QED BY <1>1, <1>3, <1>5

KeptIn(c) ==
  \A n \in Others :
    n \in DOMAIN c.files /\ c.files[n].started /\ c.files[n].stored = FilesOn(given.media)[n]

LEMMA KeptUntouched ==
  ASSUME NEW c, NEW m, m.chunks \in Seq(Chunk), Agrees(c, m.chunks), KeptIn(c)
  PROVE  \A n \in Others : n \in DOMAIN FilesOn(m) /\ FilesOn(m)[n] = FilesOn(given.media)[n]
<1>1. DOMAIN FilesOn(m) = {n \in DOMAIN c.files : c.files[n].started}
  BY AgreesFiles
<1>2. \A n \in DOMAIN FilesOn(m) : FilesOn(m)[n] = c.files[n].stored
  BY AgreesFiles
<1>3. ASSUME NEW n \in Others PROVE n \in DOMAIN FilesOn(m) /\ FilesOn(m)[n] = FilesOn(given.media)[n]
  <2>1. n \in DOMAIN c.files /\ c.files[n].started /\ c.files[n].stored = FilesOn(given.media)[n]
    BY <1>3 DEF KeptIn
  <2> QED BY <1>1, <1>2, <2>1
<1> QED BY <1>3

LEMMA UntouchedIs ==
  OthersAsTheyWere <=> \A n \in Others : n \in DOMAIN FilesOn(media) /\ FilesOn(media)[n] = FilesOn(given.media)[n]
BY DEF OthersAsTheyWere, Others

Working == {"switches", "exporting", "importing"}

ToolTyped ==
  /\ media \in Media /\ media.chunks \in Seq(Chunk) /\ container \in ContainerT /\ disk \in DiskT
  /\ argumentNumber \in Nat \ {0} /\ exitStatus \in {0, 1}
  /\ directory \in SUBSET Names /\ pending \in SUBSET Names

Starting ==
  control = "start" => /\ media = given.media /\ disk = given.disk
                       /\ argumentNumber = 1 /\ exitStatus = 0

Opened ==
  control = "opened" =>
    /\ Named /\ media.chunks = given.media.chunks /\ disk = given.disk
    /\ argumentNumber = 1 /\ exitStatus = 0
    /\ Fresh(container) /\ container.located /\ ~Informs(container.last)
    /\ container.populated => media.chunks = <<>>

(* The container could not be opened or its directory not be taken: the    *)
(* loop is left out, and close has nothing to flush.                       *)
Broken ==
  /\ control = "switches" /\ exitStatus = 1 /\ media.chunks = given.media.chunks
  /\ AllStored(container.files)

(* Before each switch all is as the switches up to it promise.             *)
Switching ==
  control = "switches" =>
    /\ directory = DOMAIN container.files /\ argumentNumber \in 1 .. Len(arguments) + 1
    /\ Doomed \/ Met(argumentNumber - 1)

Exporting ==
  control = "exporting" =>
    /\ argumentNumber \in DOMAIN arguments /\ arguments[argumentNumber] = "-X"
    /\ directory = DOMAIN container.files /\ pending \subseteq directory
    /\ Texts(container.files) = Want(argumentNumber - 1).files
    /\ \A n \in Names : disk[n] = IF n \in directory \ pending THEN Plain(Contents(container.files[n]))
                                  ELSE Want(argumentNumber - 1).disk[n]

Importing ==
  control = "importing" =>
    /\ argumentNumber \in DOMAIN arguments /\ arguments[argumentNumber] = "-i"
    /\ NextArgument <= Len(arguments) /\ Parameter \in DOMAIN container.files /\ ~Imported.started
    /\ directory = DOMAIN container.files \ {Parameter}
    /\ Texts(Without(container.files, Parameter)) = Without(Want(argumentNumber - 1).files, Parameter)
    /\ disk = Want(argumentNumber - 1).disk
    /\ Len(Imported.tail) <= Len(disk[Parameter].content)
    /\ Imported.tail = SubSeq(disk[Parameter].content, 1, Len(Imported.tail))

Sound ==
  /\ Agrees(container, media.chunks) /\ container.populated /\ KeptIn(container)
  /\ control = "importing" => exitStatus = 0
  /\ exitStatus = 0 => Switching /\ Exporting /\ Importing

AtWork == control \in Working => Named /\ (Broken \/ Sound)

DoneOK ==
  control = "closed" /\ exitStatus = 0 /\ ~Helps =>
    FilesOn(media) = Want(Len(arguments)).files /\ disk = Want(Len(arguments)).disk

ToolInv ==
  ToolKept /\ ToolTyped /\ Starting /\ Opened /\ AtWork /\ DoneOK /\ ToolSeesAll /\ OthersUntouched

------------------------------------------------------------------------------
(* What a step from one switch to another has to show.                     *)
LEMMA StepWorks ==
  ASSUME ToolKept, arguments' = arguments, given' = given, Named, ToolTyped',
         control' \in Working \cup {"crashed"},
         control' = "switches" /\ exitStatus' = 0 => argumentNumber' > 1,
         Agrees(container', media'.chunks), container'.populated, KeptIn(container'),
         control' = "importing" => exitStatus' = 0,
         exitStatus' = 0 => Switching' /\ Exporting' /\ Importing'
  PROVE  ToolInv'
<1>1. /\ ToolKept' /\ Others' = Others /\ (FilesOn(given.media))' = FilesOn(given.media)
      /\ Named'
  BY GivenStays
<1>2. Starting' /\ Opened' /\ DoneOK'
  BY DEF Starting, Opened, DoneOK, Working
<1>3. ToolSeesAll'
  BY DEF ToolSeesAll, ToolTyped
<1>4. OthersUntouched'
  <2>1. \A n \in Others : n \in DOMAIN FilesOn(media') /\ FilesOn(media')[n] = FilesOn(given.media)[n]
    BY KeptUntouched DEF ToolTyped
  <2>2. (\A n \in Others : n \in DOMAIN FilesOn(media) /\ FilesOn(media)[n] = FilesOn(given.media)[n])'
    BY <1>1, <2>1
  <2>3. (OthersAsTheyWere <=> \A n \in Others : n \in DOMAIN FilesOn(media) /\ FilesOn(media)[n] = FilesOn(given.media)[n])'
    BY UntouchedIs, PTL
  <2> QED BY <2>2, <2>3 DEF OthersUntouched
<1>5. (KeptIn(container))'
  BY <1>1 DEF KeptIn
<1>6. Sound'
  BY <1>5 DEF Sound
<1>7. AtWork'
  BY <1>1, <1>6 DEF AtWork
<1> QED BY <1>1, <1>2, <1>3, <1>4, <1>7 DEF ToolInv

LEMMA WorksAtSwitch ==
  ASSUME ToolInv, control \in Working, exitStatus = 0
  PROVE  Named /\ Sound /\ ToolTyped /\ ToolKept /\ Switching /\ Exporting /\ Importing
BY DEF ToolInv, AtWork, Broken, Sound

LEMMA AtSwitch ==
  ASSUME ToolInv, control = "switches", exitStatus = 0, argumentNumber <= Len(arguments),
         arguments[argumentNumber] \in Switches \cup {ContainerName}
  PROVE  /\ argumentNumber \in 1 .. Len(arguments) /\ argumentNumber \in DOMAIN arguments
         /\ directory = DOMAIN container.files /\ Met(argumentNumber - 1)
<1>1. Switching /\ ToolTyped /\ ToolKept
  BY WorksAtSwitch DEF Working
<1>2. Len(arguments) \in Nat /\ DOMAIN arguments = 1 .. Len(arguments)
  BY <1>1, ArgumentsAre DEF ToolKept
<1>3. argumentNumber \in 1 .. Len(arguments)
  BY <1>1, <1>2 DEF ToolTyped
<1>4. ~Doomed
  BY Disjoint DEF Doomed
<1> QED BY <1>1, <1>2, <1>3, <1>4 DEF Switching

LEMMA OneOn ==
  ASSUME ToolKept, arguments' = arguments, given' = given, argumentNumber \in 1 .. Len(arguments),
         argumentNumber' = argumentNumber + 1, directory' = DOMAIN container'.files,
         Texts(container'.files) = Want(argumentNumber).files, disk' = Want(argumentNumber).disk
  PROVE  Switching'
<1>1. Len(arguments) \in Nat
  BY ArgumentsAre DEF ToolKept
<1>2. argumentNumber' \in 1 .. Len(arguments) + 1 /\ argumentNumber' - 1 = argumentNumber
  BY <1>1
<1>3. \A k : Want(k)' = Want(k)
  BY GivenStays
<1>4. Met(argumentNumber - 1)'
  <2>1. Want(argumentNumber - 1)' = Want(argumentNumber)
    BY <1>2 DEF Want
  <2> QED BY <2>1 DEF Met
<1> QED BY <1>2, <1>4 DEF Switching

LEMMA TwoOn ==
  ASSUME ToolKept, Named, arguments' = arguments, given' = given, argumentNumber \in DOMAIN arguments,
         arguments[argumentNumber] \in {"-r", "-e", "-i"}, NextArgument <= Len(arguments),
         argumentNumber' = argumentNumber + 2, directory' = DOMAIN container'.files,
         Texts(container'.files)
           = Promised(Want(argumentNumber - 1), arguments[argumentNumber], Parameter).files,
         disk' = Promised(Want(argumentNumber - 1), arguments[argumentNumber], Parameter).disk
  PROVE  Switching'
<1>1. Len(arguments) \in Nat /\ DOMAIN arguments = 1 .. Len(arguments)
  BY ArgumentsAre DEF ToolKept
<1>2. /\ argumentNumber + 2 \in 1 .. Len(arguments) + 1
      /\ \/ argumentNumber + 2 \in DOMAIN arguments /\ arguments[argumentNumber + 2] \in Names
         \/ /\ Parameter = NameIn(arguments, argumentNumber)
            /\ argumentNumber + 1 \in DOMAIN arguments /\ arguments[argumentNumber + 1] \in Names
  BY ParameterIs DEF Named, ToolKept
<1>3. ASSUME argumentNumber + 2 \in DOMAIN arguments, arguments[argumentNumber + 2] \in Names
      PROVE  Doomed'
  BY <1>1, <1>3 DEF Doomed
<1>4. ASSUME Parameter = NameIn(arguments, argumentNumber),
             argumentNumber + 1 \in DOMAIN arguments, arguments[argumentNumber + 1] \in Names
      PROVE  Met(argumentNumber - 1)'
  <2>1. Want(argumentNumber) = Promised(Want(argumentNumber - 1), arguments[argumentNumber], Parameter)
    BY <1>1, <1>4, WantFacts
  <2>2. PICK k \in 1 .. Len(arguments) : k = argumentNumber + 1 /\ arguments[k] \in Names /\ k - 1 = argumentNumber
    BY <1>1, <1>4
  <2>3. Want(k) = Want(k - 1)
    BY <2>2, WantStays
  <2>4. Want(argumentNumber + 1) = Want(argumentNumber)
    BY <2>2, <2>3
  <2>5. Want(argumentNumber - 1)' = Want(argumentNumber + 1)
    <3>1. argumentNumber' - 1 = argumentNumber + 1
      BY <1>1
    <3> QED BY <3>1 DEF Want
  <2> QED BY <2>1, <2>4, <2>5 DEF Met
<1> QED BY <1>2, <1>3, <1>4 DEF Switching

------------------------------------------------------------------------------
(* The start: until the directory has been taken nothing is changed.     *)

LEMMA NothingTouched ==
  ASSUME arguments' = arguments, given' = given, media'.chunks = given.media.chunks
  PROVE  OthersUntouched'
<1>1. FilesOn(media') = FilesOn(given.media)
  BY FilesOnSame
<1>2. (FilesOn(media) = FilesOn(given.media))'
  BY <1>1
<1>3. Others' \subseteq DOMAIN FilesOn(given.media)
  BY DEF Others
<1>4. (\A n \in Others : n \in DOMAIN FilesOn(media) /\ FilesOn(media)[n] = FilesOn(given.media)[n])'
  BY <1>2, <1>3
<1>5. (OthersAsTheyWere <=> \A n \in Others : n \in DOMAIN FilesOn(media) /\ FilesOn(media)[n] = FilesOn(given.media)[n])'
  BY UntouchedIs, PTL
<1> QED BY <1>4, <1>5 DEF OthersUntouched

LEMMA ToolBegins ==
  ToolInit({m \in AnyMedia : m.torn # "payload"}, AnyArguments, [Names -> DiskFile]) => ToolInv
<1> SUFFICES ASSUME ToolInit({m \in AnyMedia : m.torn # "payload"}, AnyArguments, [Names -> DiskFile])
             PROVE  ToolInv
  OBVIOUS
<1>1. /\ media \in AnyMedia /\ container = Unopened /\ arguments \in AnyArguments /\ disk \in DiskT
      /\ argumentNumber = 1 /\ exitStatus = 0 /\ control = "start" /\ directory = {} /\ pending = {}
      /\ given = [media |-> media, disk |-> disk]
  BY DEF ToolInit, OpeningInit, DiskT
<1>2. ToolKept /\ given.media = media /\ given.disk = disk
  BY <1>1 DEF ToolKept
<1>3. media \in Media /\ media.chunks \in Seq(Chunk)
  BY <1>1, AnyMediaIs
<1>4. Unopened \in ContainerT
  BY EmptyMaps, StatusTypes DEF Unopened, ContainerT
<1>5. ToolTyped /\ Starting
  BY <1>1, <1>2, <1>3, <1>4 DEF ToolTyped, Starting
<1>6. Opened /\ AtWork /\ DoneOK /\ ToolSeesAll
  BY <1>1 DEF Opened, AtWork, DoneOK, ToolSeesAll, Working
<1>7. OthersUntouched
  BY <1>2 DEF OthersUntouched, OthersAsTheyWere
<1> QED BY <1>2, <1>5, <1>6, <1>7 DEF ToolInv

LEMMA StartHelpKeeps == ASSUME ToolInv, StartHelp PROVE ToolInv'
<1>1. /\ control' = "closed" /\ arguments' = arguments /\ given' = given /\ Helps /\ control = "start"
      /\ media' = media /\ container' = container /\ argumentNumber' = argumentNumber
      /\ exitStatus' = exitStatus /\ directory' = directory /\ pending' = pending /\ disk' = disk
  BY DEF StartHelp, ToolStep
<1>2. ToolTyped' /\ ToolKept'
  BY <1>1 DEF ToolInv, ToolTyped, ToolKept
<1>3. Helps'
  BY <1>1 DEF Helps
<1>4. OthersUntouched'
  BY <1>1, NothingTouched DEF ToolInv, Starting
<1> QED BY <1>1, <1>2, <1>3, <1>4 DEF ToolInv, Starting, Opened, AtWork, Working, DoneOK, ToolSeesAll

LEMMA StartUnnamedKeeps == ASSUME ToolInv, StartUnnamed PROVE ToolInv'
<1>1. /\ control' = "closed" /\ exitStatus' = 1 /\ arguments' = arguments /\ given' = given /\ control = "start"
      /\ media' = media /\ container' = container /\ argumentNumber' = argumentNumber
      /\ directory' = directory /\ pending' = pending /\ disk' = disk
  BY DEF StartUnnamed, ToolStep
<1>2. ToolTyped' /\ ToolKept'
  BY <1>1 DEF ToolInv, ToolTyped, ToolKept
<1>4. OthersUntouched'
  BY <1>1, NothingTouched DEF ToolInv, Starting
<1> QED BY <1>1, <1>2, <1>4 DEF ToolInv, Starting, Opened, AtWork, Working, DoneOK, ToolSeesAll

(* What the start of the tool leaves when something had to be said. *)
LEMMA BreaksOff ==
  ASSUME ToolKept, arguments' = arguments, given' = given, Named, ToolTyped',
         control' = "switches", exitStatus' = 1, media'.chunks = given.media.chunks,
         AllStored(container'.files)
  PROVE  ToolInv'
<1>1. ToolKept' /\ Named'
  BY GivenStays
<1>2. OthersUntouched'
  BY NothingTouched
<1>3. Broken'
  BY DEF Broken, AllStored
<1> QED BY <1>1, <1>2, <1>3 DEF ToolInv, Starting, Opened, AtWork, Working, DoneOK, ToolSeesAll

LEMMA OpenContainerKeeps == ASSUME ToolInv, OpenContainer PROVE ToolInv'
<1>1. PICK o : o = Open(media, TRUE, TRUE)
  OBVIOUS
<1>2. /\ control = "start" /\ Named
      /\ media' = o.media /\ container' = o.container
      /\ control' = (IF Informs(o.status) THEN "switches" ELSE "opened")
      /\ exitStatus' = (IF Informs(o.status) THEN 1 ELSE 0)
      /\ arguments' = arguments /\ given' = given
      /\ argumentNumber' = argumentNumber /\ directory' = directory /\ pending' = pending /\ disk' = disk
  BY <1>1 DEF OpenContainer, ToolStep, Refuses, Named
<1>3. media = given.media /\ disk = given.disk /\ argumentNumber = 1 /\ ToolKept /\ ToolTyped
  BY <1>2 DEF ToolInv, Starting
<1>4. /\ o.media \in AnyMedia /\ o.media.chunks = media.chunks
      /\ o.container \in ContainerT /\ Fresh(o.container)
      /\ o.container.last = o.status
      /\ o.container.located = ~Informs(o.status)
      /\ o.container.populated => media.chunks = <<>>
  BY <1>1, <1>3, OpenLemma DEF ToolKept
<1>5. ToolTyped'
  BY <1>2, <1>3, <1>4, AnyMediaIs DEF ToolTyped
<1>6. CASE Informs(o.status)
  <2>1. AllStored(container'.files)
    BY <1>2, <1>4, EmptyMaps DEF Fresh, AllStored
  <2> QED BY <1>2, <1>3, <1>4, <1>5, <1>6, <2>1, BreaksOff
<1>7. CASE ~Informs(o.status)
  <2>1. ToolKept' /\ Named'
    BY <1>2, <1>3, GivenStays
  <2>2. OthersUntouched'
    BY <1>2, <1>3, <1>4, NothingTouched
  <2>3. control' = "opened" /\ exitStatus' = 0
    BY <1>2, <1>7
  <2>4. Opened'
    BY <1>2, <1>3, <1>4, <1>7, <2>1, <2>3 DEF Opened, Fresh
  <2> QED BY <1>5, <2>1, <2>2, <2>3, <2>4 DEF ToolInv, Starting, AtWork, Working, DoneOK, ToolSeesAll
<1> QED BY <1>6, <1>7

LEMMA TakeDirectoryKeeps == ASSUME ToolInv, TakeDirectory PROVE ToolInv'
<1>1. PICK d : d = Directory(container, media)
  OBVIOUS
<1>2. /\ control = "opened" /\ container' = d /\ directory' = DOMAIN d.files
      /\ control' = "switches" /\ exitStatus' = (IF Informs(d.last) THEN 1 ELSE 0)
      /\ arguments' = arguments /\ given' = given
      /\ media' = media /\ argumentNumber' = argumentNumber /\ pending' = pending /\ disk' = disk
  BY <1>1 DEF TakeDirectory, ToolStep, Refuses
<1>3. /\ ToolKept /\ ToolTyped /\ Named
      /\ media.chunks = given.media.chunks /\ disk = given.disk /\ argumentNumber = 1
      /\ Fresh(container) /\ container.located /\ ~Informs(container.last)
      /\ container.populated => media.chunks = <<>>
  BY <1>2 DEF ToolInv, Opened
<1>4. PICK row : row = media.chunks
  OBVIOUS
<1>5. row \in Seq(Chunk) /\ WellFormed(row) /\ container \in ContainerT
  <2>1. WellFormed(given.media.chunks)
    BY <1>3, AnyMediaIs DEF ToolKept
  <2> QED BY <1>3, <1>4, <2>1 DEF ToolTyped
<1>6. PICK t : t = Traverse(container, media, TRUE, FALSE)
  OBVIOUS
<1>7. t \in ScanT /\ t.container.populated
  BY <1>4, <1>5, <1>6, TraverseType
<1>8. t.container \in ContainerT /\ t.status \in StatusT
  BY <1>7 DEF ScanT
<1>11. d \in ContainerT /\ AllStored(d.files) /\ d.populated /\ (~Informs(d.last) => Agrees(d, row))
  <2>1. CASE container.populated
    <3>1. d = container
      BY <1>1, <2>1 DEF Directory
    <3>2. Agrees(d, row) /\ AllStored(d.files)
      BY <1>3, <1>4, <2>1, <3>1, EmptyAgrees
    <3> QED BY <1>5, <2>1, <3>1, <3>2
  <2>2. CASE ~container.populated
    <3>1. d = [t.container EXCEPT !.last = t.status]
      BY <1>1, <1>6, <2>2 DEF Directory
    <3>2. /\ d \in ContainerT /\ d.files = t.container.files /\ d.ids = t.container.ids
          /\ d.populated = t.container.populated /\ d.last = t.status
      BY <1>8, <3>1, LastSet
    <3>3. AllStored(t.container.files)
      BY <1>3, <1>4, <1>5, <1>6, <2>2, TraverseStored DEF Fresh
    <3>4. ~Informs(t.status) => Agrees(t.container, row)
      BY <1>3, <1>4, <1>5, <1>6, <2>2, ScannedAgrees
    <3>5. Agrees(t.container, row) => Agrees(d, row)
      <4>1. Alike(d, t.container)
        BY <3>2 DEF Alike
      <4> QED BY <4>1, AlikeAgrees
    <3>6. AllStored(d.files)
      BY <3>2, <3>3
    <3> QED BY <1>7, <3>2, <3>4, <3>5, <3>6
  <2> QED BY <2>1, <2>2
<1>12. ToolTyped'
  <2>1. DOMAIN d.files \subseteq Names
    BY <1>11, FileTypes
  <2>2. exitStatus' \in {0, 1}
    BY <1>2
  <2> QED BY <1>2, <1>3, <1>11, <2>1, <2>2 DEF ToolTyped
<1>13. CASE Informs(d.last)
  BY <1>2, <1>3, <1>11, <1>12, <1>13, BreaksOff
<1>14. CASE ~Informs(d.last)
  <2>1. Agrees(d, row) /\ exitStatus' = 0
    BY <1>2, <1>11, <1>14
  <2>2. DOMAIN FilesOn(media) = DOMAIN d.files /\ \A n \in DOMAIN d.files : FilesOn(media)[n] = d.files[n].stored
    <3>1. DOMAIN FilesOn(media) = {n \in DOMAIN d.files : d.files[n].started}
      BY <1>4, <1>5, <2>1, AgreesFiles
    <3>2. \A n \in DOMAIN FilesOn(media) : FilesOn(media)[n] = d.files[n].stored
      BY <1>4, <1>5, <2>1, AgreesFiles
    <3>3. \A n \in DOMAIN d.files : d.files[n].started
      BY <1>11 DEF AllStored
    <3> QED BY <3>1, <3>2, <3>3
  <2>3. FilesOn(media) = FilesOn(given.media)
    BY <1>3, FilesOnSame
  <2>4. \A n \in DOMAIN d.files : Contents(d.files[n]) = d.files[n].stored
    <3>1. ASSUME NEW n \in DOMAIN d.files PROVE Contents(d.files[n]) = d.files[n].stored
      <4>1. d.files[n].tail = <<>> /\ d.files[n].stored \in Seq(Payloads)
        BY <1>11, <3>1, FileTypes DEF AllStored, Content
      <4> QED BY <4>1, ConcatEmptySeq DEF Contents
    <3> QED BY <3>1
  <2>5. Texts(d.files) = FilesOn(given.media)
    <3>1. FilesOn(media) = [n \in DOMAIN FilesOn(media) |-> FilesOn(media)[n]]
      BY <1>4, <1>5, FilesOnLemma
    <3>2. FilesOn(media) = [n \in DOMAIN d.files |-> Contents(d.files[n])]
      BY <2>2, <2>4, <3>1
    <3> QED BY <2>3, <3>2 DEF Texts
  <2>6. Want(0).files = FilesOn(given.media) /\ Want(0).disk = given.disk
    BY <1>3, WantFacts
  <2>7. ToolKept' /\ Named' /\ Others' = Others /\ (FilesOn(given.media))' = FilesOn(given.media)
    BY <1>2, <1>3, GivenStays
  <2>8. OthersUntouched'
    BY <1>2, <1>3, NothingTouched
  <2>9. (KeptIn(container))'
    <3>1. \A n \in Others : n \in DOMAIN FilesOn(given.media)
      BY DEF Others
    <3>2. \A n \in Others : n \in DOMAIN d.files /\ d.files[n].started /\ d.files[n].stored = FilesOn(given.media)[n]
      BY <1>11, <2>2, <2>3, <3>1 DEF AllStored
    <3> QED BY <1>2, <2>7, <3>2 DEF KeptIn
  <2>10. Switching'
    <3>1. Want(argumentNumber - 1)' = Want(0)
      BY <1>2, <1>3 DEF Want
    <3>2. Met(argumentNumber - 1)'
      BY <1>2, <1>3, <2>5, <2>6, <3>1 DEF Met
    <3>3. Len(arguments) \in Nat
      BY <1>3, ArgumentsAre DEF ToolKept
    <3>4. argumentNumber' \in 1 .. Len(arguments') + 1
      BY <1>2, <1>3, <3>3
    <3> QED BY <1>2, <3>2, <3>4 DEF Switching
  <2>11. Sound'
    <3>1. Agrees(container', media'.chunks) /\ container'.populated
      BY <1>2, <1>4, <1>11, <2>1
    <3> QED BY <1>2, <2>9, <2>10, <3>1 DEF Sound, Exporting, Importing
  <2>12. ToolSeesAll'
    <3>1. directory' = DOMAIN FilesOn(given.media)
      BY <1>2, <2>2, <2>3
    <3> QED BY <2>7, <3>1 DEF ToolSeesAll
  <2> QED BY <1>2, <1>12, <2>7, <2>8, <2>11, <2>12 DEF ToolInv, Starting, Opened, AtWork, DoneOK
<1> QED BY <1>13, <1>14

------------------------------------------------------------------------------
(* The switches.                                                         *)

(* Where a switch is, it is neither a name nor the container's. *)
LEMMA SwitchIs ==
  ASSUME ToolInv, NEW S, At(S), S \subseteq Switches
  PROVE  /\ ToolKept /\ ToolTyped /\ Named /\ Sound /\ Met(argumentNumber - 1)
         /\ control = "switches" /\ exitStatus = 0 /\ directory = DOMAIN container.files
         /\ argumentNumber \in 1 .. Len(arguments) /\ argumentNumber \in DOMAIN arguments
         /\ arguments[argumentNumber] \in S
<1>1. /\ control = "switches" /\ exitStatus = 0 /\ argumentNumber <= Len(arguments)
      /\ arguments[argumentNumber] \in S
  BY DEF At
<1>2. Named /\ Sound /\ ToolTyped /\ ToolKept
  BY <1>1, WorksAtSwitch DEF Working
<1>3. arguments[argumentNumber] \in Switches \cup {ContainerName}
  BY <1>1
<1>4. /\ argumentNumber \in 1 .. Len(arguments) /\ argumentNumber \in DOMAIN arguments
      /\ directory = DOMAIN container.files /\ Met(argumentNumber - 1)
  BY <1>1, <1>3, AtSwitch
<1> QED BY <1>1, <1>2, <1>4

LEMMA ContainerSound ==
  ASSUME Sound
  PROVE  Agrees(container, media.chunks) /\ container.populated /\ KeptIn(container)
BY DEF Sound

(* The switches that leave the container alone, and do what they promise. *)
LEMMA OneOnKeeps ==
  ASSUME ToolKept, ToolTyped, Named, Sound, argumentNumber \in 1 .. Len(arguments),
         arguments' = arguments, given' = given, control' = "switches",
         media' = media, container' = container, directory' = directory, directory = DOMAIN container.files,
         argumentNumber' = argumentNumber + 1, exitStatus' \in {0, 1}, pending' \in SUBSET Names,
         disk' \in DiskT,
         exitStatus' = 0 => /\ Texts(container.files) = Want(argumentNumber).files
                            /\ disk' = Want(argumentNumber).disk
  PROVE  ToolInv'
<1>1. Agrees(container', media'.chunks) /\ container'.populated /\ KeptIn(container')
  BY ContainerSound
<1>2. argumentNumber \in Nat
  BY DEF ToolTyped
<1>3. ToolTyped'
  BY <1>2 DEF ToolTyped
<1>4. exitStatus' = 0 => Switching'
  BY OneOn
<1>5. Exporting' /\ Importing'
  BY DEF Exporting, Importing
<1>6. argumentNumber' > 1
  BY <1>2, LenProperties
<1>7. control' \in Working \cup {"crashed"} /\ control' # "importing"
  BY DEF Working
<1> QED BY <1>1, <1>3, <1>4, <1>5, <1>6, <1>7, StepWorks

LEMMA SkipContainerKeeps == ASSUME ToolInv, SkipContainer PROVE ToolInv'
<1>1. /\ control = "switches" /\ exitStatus = 0 /\ argumentNumber = ContainerAt
      /\ argumentNumber' = argumentNumber + 1
      /\ arguments' = arguments /\ given' = given /\ media' = media /\ container' = container
      /\ exitStatus' = exitStatus /\ control' = control /\ directory' = directory
      /\ pending' = pending /\ disk' = disk
  BY DEF SkipContainer, ToolStep, AndGoesOn
<1>2. Named /\ Sound /\ ToolTyped /\ ToolKept
  BY <1>1, WorksAtSwitch DEF Working
<1>3. argumentNumber \in DOMAIN arguments /\ arguments[argumentNumber] = ContainerName
  BY <1>1, <1>2, ContainerAtIs DEF ToolKept, Named
<1>4. argumentNumber <= Len(arguments)
  BY <1>2, <1>3, ArgumentsAre DEF ToolKept
<1>5. /\ argumentNumber \in 1 .. Len(arguments)
      /\ directory = DOMAIN container.files /\ Met(argumentNumber - 1)
  BY <1>1, <1>3, <1>4, AtSwitch
<1>6. Want(argumentNumber) = Want(argumentNumber - 1)
  BY <1>2, <1>3, <1>5, WantStays
<1>7. Texts(container.files) = Want(argumentNumber).files /\ disk = Want(argumentNumber).disk
  BY <1>5, <1>6 DEF Met
<1>8. pending' \in SUBSET Names /\ disk' \in DiskT
  BY <1>1, <1>2 DEF ToolTyped
<1> QED BY <1>1, <1>2, <1>5, <1>7, <1>8, OneOnKeeps

LEMMA DoListKeeps == ASSUME ToolInv, DoList PROVE ToolInv'
<1>1. /\ At({"-l"}) /\ argumentNumber' = argumentNumber + 1
      /\ arguments' = arguments /\ given' = given /\ media' = media /\ container' = container
      /\ exitStatus' = exitStatus /\ control' = control /\ directory' = directory
      /\ pending' = pending /\ disk' = disk
  BY DEF DoList, ToolStep, AndGoesOn
<1>2. {"-l"} \subseteq Switches
  BY Disjoint
<1>3. /\ ToolKept /\ ToolTyped /\ Named /\ Sound /\ Met(argumentNumber - 1)
      /\ control = "switches" /\ exitStatus = 0 /\ directory = DOMAIN container.files
      /\ argumentNumber \in 1 .. Len(arguments)
      /\ arguments[argumentNumber] = "-l"
  BY <1>1, <1>2, SwitchIs
<1>4. Want(argumentNumber) = Want(argumentNumber - 1)
  BY <1>3, WantStays
<1>5. Texts(container.files) = Want(argumentNumber).files /\ disk = Want(argumentNumber).disk
  BY <1>3, <1>4 DEF Met
<1>6. pending' \in SUBSET Names /\ disk' \in DiskT
  BY <1>1, <1>3 DEF ToolTyped
<1> QED BY <1>1, <1>3, <1>5, <1>6, OneOnKeeps

LEMMA FirstOfIn ==
  ASSUME NEW S \in SUBSET Names, S # {}
  PROVE  FirstOf(S) \in S
<1> DEFINE P == {i \in DOMAIN NamesInOrder : NamesInOrder[i] \in S}
<1>1. P # {} /\ P \subseteq Nat
  BY OrderLemma
<1>2. Min(P) \in P
  <2> HIDE DEF P
  <2>1. \E x \in P : \A y \in P : x <= y
    BY <1>1, LeastOf
  <2> QED BY <2>1, Zenon DEF Min
<1> QED BY <1>2 DEF FirstOf

LEMMA MediaChunks ==
  ASSUME NEW m \in Media, NEW q \in Seq(Chunk)
  PROVE  [m EXCEPT !.chunks = q] \in Media /\ [m EXCEPT !.chunks = q].chunks = q
BY DEF Media

(* A file is erased: its chunks from the media, and its entry. *)
LEMMA ErasedBoth ==
  ASSUME container \in ContainerT, media \in Media, media.chunks \in Seq(Chunk),
         Agrees(container, media.chunks), NEW n \in DOMAIN container.files,
         NEW c, c = [container EXCEPT !.files = Without(@, n)],
         NEW m, m = [media EXCEPT !.chunks = EraseChunks(container.files[n].id)]
  PROVE  /\ c \in ContainerT /\ c.populated = container.populated
         /\ c.files = Without(container.files, n)
         /\ m \in Media /\ m.chunks \in Seq(Chunk) /\ Agrees(c, m.chunks)
         /\ n \notin Others /\ KeptIn(container) => KeptIn(c)
<1>1. PICK f : f = container.files
  OBVIOUS
<1>2. PICK g : g = Without(f, n)
  OBVIOUS
<1>3. f \in FileMaps /\ g \in FileMaps
  BY <1>1, <1>2, FileTypes, WithoutFile
<1>4. c = [container EXCEPT !.files = g]
  BY <1>1, <1>2
<1>5. c \in ContainerT /\ c.files = g /\ c.ids = container.ids /\ c.populated = container.populated
  BY <1>3, <1>4 DEF ContainerT
<1>6. PICK q : q = Erased(media.chunks, container.files[n].id)
  OBVIOUS
<1>7. EraseChunks(container.files[n].id) = q
  BY <1>6 DEF EraseChunks, Erased
<1>8. q \in Seq(Chunk)
  BY <1>6, ErasedLemma
<1>9. m \in Media /\ m.chunks = q
  BY <1>7, <1>8, MediaChunks
<1>10. Agrees(c, q)
  BY <1>1, <1>2, <1>5, <1>6, ErasedAgrees
<1>11. ASSUME n \notin Others, KeptIn(container) PROVE KeptIn(c)
  <2>1. \A p \in DOMAIN f \ {n} : p \in DOMAIN g /\ g[p] = f[p]
    BY <1>2, WithoutLemma
  <2>2. ASSUME NEW p \in Others
        PROVE  p \in DOMAIN c.files /\ c.files[p].started /\ c.files[p].stored = FilesOn(given.media)[p]
    <3>1. p \in DOMAIN f /\ f[p].started /\ f[p].stored = FilesOn(given.media)[p]
      BY <1>1, <1>11, <2>2 DEF KeptIn
    <3>2. p # n
      BY <1>11, <2>2
    <3> QED BY <1>5, <2>1, <3>1, <3>2
  <2> QED BY <2>2 DEF KeptIn
<1> QED BY <1>1, <1>2, <1>5, <1>8, <1>9, <1>10, <1>11

LEMMA DoInitializeKeeps == ASSUME ToolInv, DoInitialize PROVE ToolInv'
<1>1. /\ At({"-I"}) /\ argumentNumber' = argumentNumber + 1
      /\ arguments' = arguments /\ given' = given /\ control' = control /\ directory' = directory
      /\ pending' = pending /\ disk' = disk
      /\ \/ directory = {} /\ exitStatus' = 0 /\ media' = media /\ container' = container
         \/ directory # {} /\ exitStatus' = 1 /\ Erase(FirstOf(directory))
  BY DEF DoInitialize, ToolStep, AndGoesOn, Returns
<1>2. {"-I"} \subseteq Switches
  BY Disjoint
<1>3. /\ ToolKept /\ ToolTyped /\ Named /\ Sound /\ Met(argumentNumber - 1)
      /\ control = "switches" /\ exitStatus = 0 /\ directory = DOMAIN container.files
      /\ argumentNumber \in 1 .. Len(arguments) /\ argumentNumber \in DOMAIN arguments
      /\ arguments[argumentNumber] = "-I"
  BY <1>1, <1>2, SwitchIs
<1>4. pending' \in SUBSET Names /\ disk' \in DiskT
  BY <1>1, <1>3 DEF ToolTyped
<1>5. CASE directory = {} /\ exitStatus' = 0 /\ media' = media /\ container' = container
  <2>1. PICK s : s = Want(argumentNumber - 1)
    OBVIOUS
  <2>2. s \in WantT
    <3>1. argumentNumber - 1 \in 0 .. Len(arguments)
      BY <1>3, LenProperties
    <3> QED BY <1>3, <2>1, <3>1, WantFacts
  <2>3. Want(argumentNumber).files = NoEntries /\ Want(argumentNumber).disk = s.disk
    <3>1. \A k \in 1 .. Len(arguments) : Want(k) = Promised(Want(k - 1), arguments[k], NameIn(arguments, k))
      BY <1>3, WantFacts
    <3>2. PICK x : x = NameIn(arguments, argumentNumber)
      OBVIOUS
    <3>3. Want(argumentNumber) = Promised(s, "-I", x)
      BY <1>3, <2>1, <3>1, <3>2
    <3>4. Promised(s, "-I", x).files = NoEntries /\ Promised(s, "-I", x).disk = s.disk
      BY <2>2, PromisedIs
    <3> QED BY <3>3, <3>4
  <2>4. Texts(container.files) = NoEntries
    BY <1>3, <1>5 DEF Texts, NoEntries
  <2>5. disk = s.disk
    BY <1>3, <2>1 DEF Met
  <2> QED BY <1>1, <1>3, <1>4, <1>5, <2>3, <2>4, <2>5, OneOnKeeps
<1>6. CASE directory # {} /\ exitStatus' = 1 /\ Erase(FirstOf(directory))
  <2>1. PICK n : n = FirstOf(directory)
    OBVIOUS
  <2>2. n \in DOMAIN container.files
    <3>1. directory \in SUBSET Names
      BY <1>3 DEF ToolTyped
    <3> QED BY <1>3, <1>6, <2>1, <3>1, FirstOfIn
  <2>3. /\ media' = [media EXCEPT !.chunks = EraseChunks(container.files[n].id)]
        /\ container' = [container EXCEPT !.files = Without(@, n)]
    BY <1>6, <2>1 DEF Erase
  <2>4. /\ container \in ContainerT /\ media \in Media /\ media.chunks \in Seq(Chunk)
        /\ Agrees(container, media.chunks) /\ container.populated
    BY <1>3, ContainerSound DEF ToolTyped
  <2>5. container' \in ContainerT /\ container'.populated
    BY <2>2, <2>3, <2>4, ErasedBoth
  <2>6. media' \in Media /\ media'.chunks \in Seq(Chunk) /\ Agrees(container', media'.chunks)
    BY <2>2, <2>3, <2>4, ErasedBoth
  <2>7. KeptIn(container')
    BY <1>3 DEF KeptIn, Others, ToSet
  <2>8. ToolTyped'
    BY <1>1, <1>3, <1>6, <2>5, <2>6 DEF ToolTyped
  <2>9. control' \in Working \cup {"crashed"} /\ control' # "importing" /\ exitStatus' # 0
    BY <1>1, <1>3, <1>6 DEF Working
  <2> QED BY <1>1, <1>3, <2>5, <2>6, <2>7, <2>8, <2>9, StepWorks
<1> QED BY <1>1, <1>5, <1>6

(* Where a switch has its parameter. *)
LEMMA ParameterAt ==
  ASSUME ToolInv, NEW S, S \subseteq {"-r", "-e", "-i"}, WithParameter(S)
  PROVE  /\ ToolKept /\ ToolTyped /\ Named /\ Sound /\ Met(argumentNumber - 1)
         /\ control = "switches" /\ exitStatus = 0 /\ directory = DOMAIN container.files
         /\ argumentNumber \in 1 .. Len(arguments) /\ argumentNumber \in DOMAIN arguments
         /\ arguments[argumentNumber] \in S /\ NextArgument <= Len(arguments)
         /\ Parameter \in Names /\ Parameter \notin Others
         /\ Want(argumentNumber - 1) \in WantT
<1>1. At(S) /\ NextArgument <= Len(arguments)
  BY DEF WithParameter
<1>2. S \subseteq Switches
  BY Disjoint
<1>3. /\ ToolKept /\ ToolTyped /\ Named /\ Sound /\ Met(argumentNumber - 1)
      /\ control = "switches" /\ exitStatus = 0 /\ directory = DOMAIN container.files
      /\ argumentNumber \in 1 .. Len(arguments) /\ argumentNumber \in DOMAIN arguments
      /\ arguments[argumentNumber] \in S
  BY <1>1, <1>2, SwitchIs
<1>4. Parameter \in Names /\ Parameter \in ToSet(arguments)
  BY <1>1, <1>3, ParameterIs DEF Named, ToolKept
<1>5. Parameter \notin Others
  BY <1>4 DEF Others
<1>6. Want(argumentNumber - 1) \in WantT
  <2>1. argumentNumber - 1 \in 0 .. Len(arguments)
    BY <1>3, LenProperties
  <2> QED BY <1>3, <2>1, WantFacts
<1> QED BY <1>1, <1>3, <1>4, <1>5, <1>6

LEMMA WantNext ==
  ASSUME ToolKept, argumentNumber \in 1 .. Len(arguments)
  PROVE  \E x : Want(argumentNumber) = Promised(Want(argumentNumber - 1), arguments[argumentNumber], x)
<1>1. \A k \in 1 .. Len(arguments) : Want(k) = Promised(Want(k - 1), arguments[k], NameIn(arguments, k))
  BY WantFacts
<1> QED BY <1>1

LEMMA AlikeKept ==
  ASSUME NEW c, NEW d, Alike(d, c), KeptIn(c)
  PROVE  KeptIn(d)
<1>1. ASSUME NEW n \in Others
      PROVE  n \in DOMAIN d.files /\ d.files[n].started /\ d.files[n].stored = FilesOn(given.media)[n]
  <2>1. n \in DOMAIN c.files /\ c.files[n].started /\ c.files[n].stored = FilesOn(given.media)[n]
    BY <1>1 DEF KeptIn
  <2> QED BY <2>1 DEF Alike
<1> QED BY <1>1 DEF KeptIn

LEMMA AlikeSelf == \A c : Alike(c, c)
BY DEF Alike

(* Only the position of a file changes. *)
LEMMA MovedOnly ==
  ASSUME NEW c \in ContainerT, NEW n \in DOMAIN c.files, NEW b \in BOOLEAN,
         NEW e, e = [c EXCEPT !.files[n].moved = b]
  PROVE  /\ e \in ContainerT /\ e.populated = c.populated /\ Alike(e, c)
         /\ Texts(e.files) = Texts(c.files)
<1>1. PICK f, g, x : /\ f = c.files /\ g = x.files /\ x = [c EXCEPT !.files[n].moved = b]
                     /\ x \in ContainerT /\ x.populated = c.populated /\ Alike(x, c)
                     /\ DOMAIN g = DOMAIN f /\ \A p \in DOMAIN f : g[p].stored = f[p].stored /\ g[p].tail = f[p].tail
  BY FileMoved
<1>2. x = e
  BY <1>1
<1>3. \A p \in DOMAIN f : Contents(g[p]) = Contents(f[p])
  BY <1>1 DEF Contents
<1>4. Texts(g) = Texts(f)
  BY <1>1, <1>3 DEF Texts
<1> QED BY <1>1, <1>2, <1>4

LEMMA DiskChanged ==
  ASSUME NEW d \in DiskT, NEW n \in Names, NEW c \in Content
  PROVE  [d EXCEPT ![n] = Plain(c)] \in DiskT
<1>1. Plain(c) \in DiskFile
  BY DiskFileIs
<1> QED BY <1>1 DEF DiskT

LEMMA ContentsType ==
  ASSUME NEW f \in FileT
  PROVE  Contents(f) \in Content /\ Size(f) = Len(Contents(f)) /\ Size(f) \in Nat
<1>1. PICK s, t : s = f.stored /\ t = f.tail
  OBVIOUS
<1>2. s \in Seq(Payloads) /\ t \in Seq(Payloads)
  BY <1>1 DEF FileT, Content
<1>3. s \o t \in Seq(Payloads) /\ Len(s \o t) = Len(s) + Len(t) /\ Len(s) \in Nat /\ Len(t) \in Nat
  BY <1>2, ConcatProperties, LenProperties
<1>4. Contents(f) = s \o t /\ Size(f) = Len(s) + Len(t)
  BY <1>1 DEF Contents, Size
<1> QED BY <1>3, <1>4 DEF Content

Extracted(name) ==
  /\ container' \in ContainerT /\ container'.populated = container.populated
  /\ Alike(container', container) /\ Texts(container'.files) = Texts(container.files)
  /\ disk' \in DiskT /\ exitStatus' \in {0, 1}
  /\ control' \in {control, "crashed"} /\ (exitStatus' = 0 => control' = control)
  /\ exitStatus' = 0 => disk' = [disk EXCEPT ![name] = Plain(Contents(container.files[name]))]

LEMMA ExtractLemma ==
  ASSUME container \in ContainerT, disk \in DiskT, NEW name \in DOMAIN container.files, Extract(name)
  PROVE  Extracted(name)
<1>1. PICK f : f = container.files[name]
  OBVIOUS
<1>2. f \in FileT /\ name \in Names
  BY <1>1, FileTypes
<1>3. Contents(f) \in Content /\ Size(f) = Len(Contents(f)) /\ Size(f) \in Nat
  BY <1>2, ContentsType
<1>4. Alike(container, container)
  BY AlikeSelf
<1>5. CASE ExtractCrashes(name)
  BY <1>4, <1>5 DEF ExtractCrashes, Returns, Extracted
<1>6. CASE ExtractWhole(name)
  <2>1. /\ disk' = [disk EXCEPT ![name] = Plain(Contents(f))]
        /\ container' = [container EXCEPT !.files[name].moved = Size(f) > 0]
        /\ exitStatus' = 0 /\ control' = control
    BY <1>1, <1>6 DEF ExtractWhole, Returns
  <2>2. (Size(f) > 0) \in BOOLEAN
    BY <1>3
  <2>3. PICK b \in BOOLEAN : b = (Size(f) > 0)
    BY <2>2
  <2>4. container' = [container EXCEPT !.files[name].moved = b]
    BY <2>1, <2>3
  <2>5. /\ container' \in ContainerT /\ container'.populated = container.populated
        /\ Alike(container', container) /\ Texts(container'.files) = Texts(container.files)
    BY <2>4, MovedOnly
  <2>6. disk' \in DiskT
    BY <1>2, <1>3, <2>1, DiskChanged
  <2> QED BY <1>1, <2>1, <2>5, <2>6 DEF Extracted
<1>7. CASE ExtractNothing(name)
  <2>1. disk' = [disk EXCEPT ![name] = Plain(<<>>)] /\ exitStatus' = 1 /\ control' = control /\ container' = container
    BY <1>7 DEF ExtractNothing, Returns
  <2>2. <<>> \in Content
    BY EmptySeq DEF Content
  <2>3. disk' \in DiskT
    BY <1>2, <2>1, <2>2, DiskChanged
  <2> QED BY <1>4, <2>1, <2>3 DEF Extracted
<1>8. CASE ExtractShort(name)
  <2>1. PICK n \in 0 .. Size(f) - 1 : disk' = [disk EXCEPT ![name] = Plain(SubSeq(Contents(f), 1, n))]
    BY <1>1, <1>8 DEF ExtractShort
  <2>2. container' = [container EXCEPT !.files[name].moved = TRUE] /\ exitStatus' = 1 /\ control' = control
    BY <1>8 DEF ExtractShort, Returns
  <2>3. PICK c \in Seq(Payloads) : c = Contents(f)
    BY <1>3 DEF Content
  <2>4. SubSeq(c, 1, n) \in Content
    <3>1. \A i \in 1 .. n : i \in 1 .. Len(c)
      BY <1>3, <2>3
    <3>2. \A i \in 1 .. n : c[i] \in Payloads
      BY <3>1, ElementOfSeq
    <3> QED BY <3>2, <2>1, <1>3, <2>3, SubSeqProperties DEF Content
  <2>5. disk' \in DiskT
    BY <1>2, <2>1, <2>3, <2>4, DiskChanged
  <2>6. /\ container' \in ContainerT /\ container'.populated = container.populated
        /\ Alike(container', container) /\ Texts(container'.files) = Texts(container.files)
    BY <2>2, MovedOnly
  <2> QED BY <2>2, <2>5, <2>6 DEF Extracted
<1> QED BY <1>5, <1>6, <1>7, <1>8 DEF Extract

LEMMA ExtractedSound ==
  ASSUME Sound, NEW name, Extracted(name), media' = media
  PROVE  Agrees(container', media'.chunks) /\ container'.populated /\ KeptIn(container')
<1>1. Agrees(container, media.chunks) /\ container.populated /\ KeptIn(container)
  BY ContainerSound
<1>2. Alike(container', container) /\ container'.populated = container.populated
  BY DEF Extracted
<1>3. Agrees(container', media.chunks)
  BY <1>1, <1>2, AlikeAgrees
<1>4. KeptIn(container')
  BY <1>1, <1>2, AlikeKept
<1> QED BY <1>1, <1>2, <1>3, <1>4

LEMMA RemovedText ==
  ASSUME NEW f, NEW n
  PROVE  /\ Texts(Without(f, n)) = Removed(Texts(f), {n})
         /\ Removed(Texts(f), {n}) = Without(Texts(f), n)
         /\ n \notin DOMAIN f => Texts(f) = Removed(Texts(f), {n})
<1>1. DOMAIN Texts(f) = DOMAIN f /\ \A p \in DOMAIN f : Texts(f)[p] = Contents(f[p])
  BY DEF Texts
<1>2. PICK x : x = Texts(f)
  OBVIOUS
<1>3. Removed(x, {n}) = Without(x, n)
  BY DEF Removed, Without
<1>4. Removed(x, {n}) = [p \in DOMAIN f \ {n} |-> Contents(f[p])]
  BY <1>1, <1>2 DEF Removed
<1>5. PICK g : g = Without(f, n)
  OBVIOUS
<1>6. DOMAIN g = DOMAIN f \ {n} /\ \A p \in DOMAIN g : g[p] = f[p]
  BY <1>5, WithoutLemma
<1>7. Texts(g) = [p \in DOMAIN f \ {n} |-> Contents(f[p])]
  BY <1>6 DEF Texts
<1>8. n \notin DOMAIN f => x = [p \in DOMAIN f \ {n} |-> Contents(f[p])]
  <2> SUFFICES ASSUME n \notin DOMAIN f PROVE x = [p \in DOMAIN f \ {n} |-> Contents(f[p])]
    OBVIOUS
  <2>1. DOMAIN f = DOMAIN f \ {n}
    OBVIOUS
  <2> QED BY <1>2, <2>1 DEF Texts
<1> QED BY <1>2, <1>3, <1>4, <1>5, <1>7, <1>8

LEMMA DoRemoveKeeps == ASSUME ToolInv, DoRemove PROVE ToolInv'
<1>1. /\ WithParameter({"-r"}) /\ argumentNumber' = argumentNumber + 2
      /\ arguments' = arguments /\ given' = given /\ exitStatus' = exitStatus /\ control' = control
      /\ pending' = pending /\ disk' = disk
      /\ \/ Parameter \notin directory /\ media' = media /\ container' = container /\ directory' = directory
         \/ Parameter \in directory /\ Erase(Parameter) /\ directory' = directory \ {Parameter}
  BY DEF DoRemove, ToolStep, AndGoesOn
<1>2. PICK n : n = Parameter
  OBVIOUS
<1>3. /\ ToolKept /\ ToolTyped /\ Named /\ Sound /\ Met(argumentNumber - 1)
      /\ control = "switches" /\ exitStatus = 0 /\ directory = DOMAIN container.files
      /\ argumentNumber \in 1 .. Len(arguments) /\ argumentNumber \in DOMAIN arguments
      /\ arguments[argumentNumber] = "-r" /\ NextArgument <= Len(arguments)
      /\ Parameter \in Names /\ Parameter \notin Others
      /\ Want(argumentNumber - 1) \in WantT
  BY <1>1, ParameterAt
<1>4. PICK s, p : s = Want(argumentNumber - 1) /\ p = Promised(s, "-r", n)
  OBVIOUS
<1>5. p.files = Removed(s.files, {n}) /\ p.disk = s.disk
  BY <1>3, <1>4, PromisedIs
<1>6. s.files = Texts(container.files) /\ s.disk = disk
  BY <1>3, <1>4 DEF Met
<1>7. Agrees(container, media.chunks) /\ container.populated /\ KeptIn(container)
  BY <1>3, ContainerSound
<1>8. argumentNumber \in Nat /\ argumentNumber' > 1 /\ argumentNumber' \in Nat \ {0}
  BY <1>1, <1>3 DEF ToolTyped
<1>9. /\ Agrees(container', media'.chunks) /\ container'.populated /\ KeptIn(container')
      /\ container' \in ContainerT /\ media' \in Media /\ media'.chunks \in Seq(Chunk)
      /\ directory' = DOMAIN container'.files /\ Texts(container'.files) = p.files
  <2>1. CASE Parameter \notin directory /\ media' = media /\ container' = container /\ directory' = directory
    <3>1. Texts(container.files) = Removed(Texts(container.files), {n})
      BY <1>2, <1>3, <2>1, RemovedText
    <3> QED BY <1>3, <1>5, <1>6, <1>7, <2>1, <3>1 DEF ToolTyped
  <2>2. CASE Parameter \in directory /\ Erase(Parameter) /\ directory' = directory \ {Parameter}
    <3>1. /\ media' = [media EXCEPT !.chunks = EraseChunks(container.files[n].id)]
          /\ container' = [container EXCEPT !.files = Without(@, n)]
      BY <1>2, <2>2 DEF Erase
    <3>2. /\ container \in ContainerT /\ media \in Media /\ media.chunks \in Seq(Chunk) /\ n \in DOMAIN container.files
      BY <1>2, <1>3, <2>2 DEF ToolTyped
    <3>3. container' \in ContainerT /\ container'.populated /\ container'.files = Without(container.files, n)
      BY <1>7, <3>1, <3>2, ErasedBoth
    <3>4. media' \in Media /\ media'.chunks \in Seq(Chunk) /\ Agrees(container', media'.chunks)
      BY <1>7, <3>1, <3>2, ErasedBoth
    <3>5. KeptIn(container')
      BY <1>2, <1>3, <1>7, <3>1, <3>2, ErasedBoth
    <3>6. Texts(container'.files) = p.files
      BY <1>5, <1>6, <3>3, RemovedText
    <3>7. directory' = DOMAIN container'.files
      BY <1>2, <1>3, <2>2, <3>3, WithoutLemma
    <3> QED BY <3>3, <3>4, <3>5, <3>6, <3>7
  <2> QED BY <1>1, <2>1, <2>2
<1>10. ToolTyped'
  <2>1. directory' \in SUBSET Names
    BY <1>9, FileTypes
  <2> QED BY <1>1, <1>3, <1>8, <1>9, <2>1 DEF ToolTyped
<1>11. Switching'
  <2>1. /\ Texts(container'.files) = Promised(Want(argumentNumber - 1), arguments[argumentNumber], Parameter).files
        /\ disk' = Promised(Want(argumentNumber - 1), arguments[argumentNumber], Parameter).disk
    BY <1>1, <1>2, <1>3, <1>4, <1>5, <1>6, <1>9
  <2> QED BY <1>1, <1>3, <1>9, <2>1, TwoOn
<1>12. Exporting' /\ Importing'
  BY <1>1, <1>3 DEF Exporting, Importing
<1>13. control' \in Working \cup {"crashed"} /\ control' # "importing"
  BY <1>1, <1>3 DEF Working
<1> QED BY <1>1, <1>3, <1>8, <1>9, <1>10, <1>11, <1>12, <1>13, StepWorks

LEMMA DoExtractKeeps == ASSUME ToolInv, DoExtract PROVE ToolInv'
<1>1. /\ WithParameter({"-e"}) /\ argumentNumber' = argumentNumber + 2
      /\ arguments' = arguments /\ given' = given
      /\ media' = media /\ directory' = directory /\ pending' = pending
      /\ \/ /\ Parameter \notin directory /\ exitStatus' = 1
            /\ container' = container /\ control' = control /\ disk' = disk
         \/ Parameter \in directory /\ Extract(Parameter)
  BY DEF DoExtract, ToolStep, AndGoesOn, Returns
<1>2. PICK n : n = Parameter
  OBVIOUS
<1>3. /\ ToolKept /\ ToolTyped /\ Named /\ Sound /\ Met(argumentNumber - 1)
      /\ control = "switches" /\ exitStatus = 0 /\ directory = DOMAIN container.files
      /\ argumentNumber \in 1 .. Len(arguments) /\ argumentNumber \in DOMAIN arguments
      /\ arguments[argumentNumber] = "-e" /\ NextArgument <= Len(arguments)
      /\ Parameter \in Names /\ Parameter \notin Others
      /\ Want(argumentNumber - 1) \in WantT
  BY <1>1, ParameterAt
<1>4. PICK s, p : s = Want(argumentNumber - 1) /\ p = Promised(s, "-e", n)
  OBVIOUS
<1>5. p.files = s.files /\ (n \in DOMAIN s.files => p.disk = [s.disk EXCEPT ![n] = Plain(s.files[n])])
  BY <1>3, <1>4, PromisedIs
<1>6. s.files = Texts(container.files) /\ s.disk = disk
  BY <1>3, <1>4 DEF Met
<1>7. Agrees(container, media.chunks) /\ container.populated /\ KeptIn(container)
  BY <1>3, ContainerSound
<1>8. argumentNumber \in Nat /\ argumentNumber' > 1 /\ argumentNumber' \in Nat \ {0}
  BY <1>1, <1>3 DEF ToolTyped
<1>9. CASE /\ Parameter \notin directory /\ exitStatus' = 1
           /\ container' = container /\ control' = control /\ disk' = disk
  <2>1. ToolTyped'
    BY <1>1, <1>3, <1>8, <1>9 DEF ToolTyped
  <2>2. control' \in Working \cup {"crashed"} /\ control' # "importing" /\ exitStatus' # 0
    BY <1>3, <1>9 DEF Working
  <2> QED BY <1>1, <1>3, <1>7, <1>9, <2>1, <2>2, StepWorks
<1>10. CASE Parameter \in directory /\ Extract(Parameter)
  <2>1. container \in ContainerT /\ disk \in DiskT /\ n \in DOMAIN container.files
    BY <1>2, <1>3, <1>10 DEF ToolTyped
  <2>2. Extracted(n)
    BY <1>2, <1>10, <2>1, ExtractLemma
  <2>3. Agrees(container', media'.chunks) /\ container'.populated /\ KeptIn(container')
    BY <1>1, <1>3, <2>2, ExtractedSound
  <2>4. /\ container' \in ContainerT /\ Alike(container', container)
        /\ Texts(container'.files) = Texts(container.files)
        /\ disk' \in DiskT /\ exitStatus' \in {0, 1}
        /\ control' \in {"switches", "crashed"} /\ (exitStatus' = 0 => control' = "switches")
        /\ exitStatus' = 0 => disk' = [disk EXCEPT ![n] = Plain(Contents(container.files[n]))]
    BY <1>3, <2>2 DEF Extracted
  <2>5. ToolTyped'
    BY <1>1, <1>3, <1>8, <2>4 DEF ToolTyped
  <2>6. directory' = DOMAIN container'.files
    BY <1>1, <1>3, <2>4 DEF Alike
  <2>7. ASSUME exitStatus' = 0 PROVE Switching'
    <3>1. n \in DOMAIN s.files /\ s.files[n] = Contents(container.files[n])
      BY <1>6, <2>1 DEF Texts
    <3>2. disk' = p.disk /\ Texts(container'.files) = p.files
      BY <1>5, <1>6, <2>4, <2>7, <3>1
    <3>3. /\ Texts(container'.files) = Promised(Want(argumentNumber - 1), arguments[argumentNumber], Parameter).files
          /\ disk' = Promised(Want(argumentNumber - 1), arguments[argumentNumber], Parameter).disk
      BY <1>2, <1>3, <1>4, <3>2
    <3> QED BY <1>1, <1>3, <2>6, <3>3, TwoOn
  <2>8. Exporting' /\ Importing'
    BY <2>4 DEF Exporting, Importing
  <2>9. control' \in Working \cup {"crashed"} /\ control' # "importing"
    BY <2>4 DEF Working
  <2> QED BY <1>1, <1>3, <1>8, <2>3, <2>5, <2>7, <2>8, <2>9, StepWorks
<1> QED BY <1>1, <1>9, <1>10

(* A switch that fails before it does anything. *)
LEMMA FailsKeeps ==
  ASSUME ToolInv, control = "switches", exitStatus = 0, exitStatus' = 1, control' \in {"switches", "crashed"},
         arguments' = arguments, given' = given, media' = media, container' = container,
         pending' = pending, disk' = disk, argumentNumber' \in Nat \ {0}, directory' \in SUBSET Names
  PROVE  ToolInv'
<1>1. ToolKept /\ ToolTyped /\ Named /\ Sound
  BY WorksAtSwitch DEF Working
<1>2. Agrees(container, media.chunks) /\ container.populated /\ KeptIn(container)
  BY <1>1, ContainerSound
<1>3. ToolTyped'
  BY <1>1 DEF ToolTyped
<1>4. control' \in Working \cup {"crashed"} /\ control' # "importing" /\ exitStatus' # 0
  BY DEF Working
<1> QED BY <1>1, <1>2, <1>3, <1>4, StepWorks

LEMMA NumberIs == ASSUME ToolInv PROVE argumentNumber \in Nat \ {0} /\ directory \in SUBSET Names
BY DEF ToolInv, ToolTyped

LEMMA UnknownSwitchKeeps == ASSUME ToolInv, UnknownSwitch PROVE ToolInv'
<1>1. /\ control = "switches" /\ exitStatus = 0 /\ exitStatus' = 1 /\ control' = control
      /\ arguments' = arguments /\ given' = given /\ media' = media /\ container' = container
      /\ pending' = pending /\ disk' = disk /\ argumentNumber' = argumentNumber + 1 /\ directory' = directory
  BY DEF UnknownSwitch, WithParameter, At, ToolStep, AndGoesOn, Returns
<1>2. argumentNumber' \in Nat \ {0} /\ directory' \in SUBSET Names
  BY <1>1, NumberIs
<1> QED BY <1>1, <1>2, FailsKeeps

LEMMA MissingParameterKeeps == ASSUME ToolInv, MissingParameter PROVE ToolInv'
<1>1. /\ control = "switches" /\ exitStatus = 0 /\ exitStatus' = 1 /\ control' = "crashed"
      /\ arguments' = arguments /\ given' = given /\ media' = media /\ container' = container
      /\ pending' = pending /\ disk' = disk /\ argumentNumber' = argumentNumber /\ directory' = directory
  BY DEF MissingParameter, At, ToolStep, Returns
<1>2. argumentNumber' \in Nat \ {0} /\ directory' \in SUBSET Names
  BY <1>1, NumberIs
<1> QED BY <1>1, <1>2, FailsKeeps

LEMMA ImportRefusedKeeps == ASSUME ToolInv, ImportRefused PROVE ToolInv'
<1>1. /\ control = "switches" /\ exitStatus = 0 /\ exitStatus' = 1 /\ control' = control
      /\ arguments' = arguments /\ given' = given /\ media' = media /\ container' = container
      /\ pending' = pending /\ disk' = disk /\ argumentNumber' = argumentNumber + 2
      /\ directory' = DOMAIN container.files
  BY DEF ImportRefused, WithParameter, At, ToolStep, AndGoesOn, Returns
<1>2. argumentNumber' \in Nat \ {0}
  BY <1>1, NumberIs
<1>3. container \in ContainerT
  BY DEF ToolInv, ToolTyped
<1>4. directory' \in SUBSET Names
  BY <1>1, <1>3, FileTypes
<1> QED BY <1>1, <1>2, <1>4, FailsKeeps

LEMMA DoExportKeeps == ASSUME ToolInv, DoExport PROVE ToolInv'
<1>1. /\ At({"-X"}) /\ control' = "exporting" /\ pending' = directory
      /\ arguments' = arguments /\ given' = given /\ media' = media /\ container' = container
      /\ argumentNumber' = argumentNumber /\ exitStatus' = exitStatus /\ directory' = directory /\ disk' = disk
  BY DEF DoExport, ToolStep
<1>2. {"-X"} \subseteq Switches
  BY Disjoint
<1>3. /\ ToolKept /\ ToolTyped /\ Named /\ Sound /\ Met(argumentNumber - 1)
      /\ control = "switches" /\ exitStatus = 0 /\ directory = DOMAIN container.files
      /\ argumentNumber \in 1 .. Len(arguments) /\ argumentNumber \in DOMAIN arguments
      /\ arguments[argumentNumber] = "-X"
  BY <1>1, <1>2, SwitchIs
<1>4. Agrees(container', media'.chunks) /\ container'.populated /\ KeptIn(container')
  BY <1>1, <1>3, ContainerSound
<1>5. ToolTyped'
  BY <1>1, <1>3 DEF ToolTyped
<1>6. Exporting'
  <2>1. /\ Texts(container.files) = Want(argumentNumber - 1).files
        /\ disk = Want(argumentNumber - 1).disk
    BY <1>3 DEF Met
  <2>2. Want(argumentNumber - 1)' = Want(argumentNumber - 1)
    BY <1>1 DEF Want
  <2>3. \A n \in Names : disk'[n] = IF n \in directory' \ pending' THEN Plain(Contents(container'.files[n]))
                                    ELSE Want(argumentNumber - 1).disk[n]
    BY <1>1, <2>1
  <2> QED BY <1>1, <1>3, <2>1, <2>2, <2>3 DEF Exporting
<1>7. Switching' /\ Importing'
  BY <1>1 DEF Switching, Importing
<1>8. control' \in Working \cup {"crashed"} /\ control' # "importing" /\ control' # "switches"
  BY <1>1 DEF Working
<1> QED BY <1>1, <1>3, <1>4, <1>5, <1>6, <1>7, <1>8, StepWorks

LEMMA ExportingIs ==
  ASSUME ToolInv, control = "exporting"
  PROVE  /\ ToolKept /\ ToolTyped /\ Named /\ Sound
         /\ Agrees(container, media.chunks) /\ container.populated /\ KeptIn(container)
         /\ exitStatus = 0 => Exporting
<1>1. ToolKept /\ ToolTyped /\ Named /\ Sound
  BY DEF ToolInv, AtWork, Working, Broken
<1> QED BY <1>1, ContainerSound DEF Sound

LEMMA ExportNextKeeps == ASSUME ToolInv, ExportNext PROVE ToolInv'
<1>1. /\ control = "exporting" /\ pending # {} /\ exitStatus = 0
      /\ Extract(FirstOf(pending)) /\ pending' = pending \ {FirstOf(pending)}
      /\ arguments' = arguments /\ given' = given /\ media' = media
      /\ argumentNumber' = argumentNumber /\ directory' = directory
  BY DEF ExportNext, ToolStep
<1>2. /\ ToolKept /\ ToolTyped /\ Named /\ Sound /\ Exporting
  BY <1>1, ExportingIs
<1>3. /\ argumentNumber \in DOMAIN arguments /\ arguments[argumentNumber] = "-X"
      /\ directory = DOMAIN container.files /\ pending \subseteq directory
      /\ Texts(container.files) = Want(argumentNumber - 1).files
      /\ \A n \in Names : disk[n] = IF n \in directory \ pending THEN Plain(Contents(container.files[n]))
                                    ELSE Want(argumentNumber - 1).disk[n]
  BY <1>1, <1>2 DEF Exporting
<1>4. PICK k : k = FirstOf(pending)
  OBVIOUS
<1>5. k \in pending
  BY <1>1, <1>2, <1>4, FirstOfIn DEF ToolTyped
<1>6. container \in ContainerT /\ disk \in DiskT /\ k \in DOMAIN container.files
  BY <1>2, <1>3, <1>5 DEF ToolTyped
<1>7. Extracted(k)
  BY <1>1, <1>4, <1>6, ExtractLemma
<1>8. Agrees(container', media'.chunks) /\ container'.populated /\ KeptIn(container')
  BY <1>1, <1>2, <1>7, ExtractedSound
<1>9. /\ container' \in ContainerT /\ Alike(container', container)
      /\ Texts(container'.files) = Texts(container.files)
      /\ disk' \in DiskT /\ exitStatus' \in {0, 1}
      /\ control' \in {"exporting", "crashed"}
      /\ exitStatus' = 0 => disk' = [disk EXCEPT ![k] = Plain(Contents(container.files[k]))]
  BY <1>1, <1>7 DEF Extracted
<1>10. ToolTyped'
  BY <1>1, <1>2, <1>9 DEF ToolTyped
<1>11. DOMAIN container'.files = DOMAIN container.files
  BY <1>9 DEF Alike
<1>12. \A n \in DOMAIN container.files : Contents(container'.files[n]) = Contents(container.files[n])
  <2>1. \A n \in DOMAIN container.files : Texts(container.files)[n] = Contents(container.files[n])
    BY DEF Texts
  <2>2. \A n \in DOMAIN container'.files : Texts(container'.files)[n] = Contents(container'.files[n])
    BY DEF Texts
  <2> QED BY <1>9, <1>11, <2>1, <2>2
<1>13. ASSUME exitStatus' = 0 PROVE Exporting'
  <2>1. Want(argumentNumber - 1)' = Want(argumentNumber - 1)
    BY <1>1 DEF Want
  <2>2. ASSUME NEW n \in Names
        PROVE  disk'[n] = IF n \in directory' \ pending' THEN Plain(Contents(container'.files[n]))
                          ELSE Want(argumentNumber - 1).disk[n]
    <3>1. DOMAIN disk = Names
      BY <1>6 DEF DiskT
    <3>2. CASE n = k
      <4>1. disk'[n] = Plain(Contents(container.files[n]))
        BY <1>9, <1>13, <3>1, <3>2
      <4>2. n \in directory' \ pending' /\ Contents(container'.files[n]) = Contents(container.files[n])
        BY <1>1, <1>3, <1>4, <1>6, <1>12, <3>2
      <4> QED BY <4>1, <4>2
    <3>3. CASE n # k
      <4>1. disk'[n] = disk[n]
        BY <1>9, <1>13, <3>1, <3>3
      <4>2. n \in directory' \ pending' <=> n \in directory \ pending
        BY <1>1, <1>4, <3>3
      <4>3. n \in directory \ pending => Contents(container'.files[n]) = Contents(container.files[n])
        BY <1>3, <1>12
      <4> QED BY <1>3, <4>1, <4>2, <4>3
    <3> QED BY <3>2, <3>3
  <2>3. argumentNumber' \in DOMAIN arguments' /\ arguments'[argumentNumber'] = "-X"
        /\ directory' = DOMAIN container'.files /\ pending' \subseteq directory'
        /\ Texts(container'.files) = Want(argumentNumber - 1).files
    BY <1>1, <1>3, <1>9, <1>11
  <2> QED BY <2>1, <2>2, <2>3 DEF Exporting
<1>14. Switching' /\ Importing'
  BY <1>9 DEF Switching, Importing
<1>15. control' \in Working \cup {"crashed"} /\ control' # "importing" /\ control' # "switches"
  BY <1>9 DEF Working
<1> QED BY <1>1, <1>2, <1>8, <1>10, <1>13, <1>14, <1>15, StepWorks

LEMMA ExportEndsKeeps == ASSUME ToolInv, ExportEnds PROVE ToolInv'
<1>1. /\ control = "exporting" /\ (pending = {} \/ exitStatus # 0)
      /\ control' = "switches" /\ pending' = {} /\ argumentNumber' = argumentNumber + 1
      /\ arguments' = arguments /\ given' = given /\ media' = media /\ container' = container
      /\ exitStatus' = exitStatus /\ directory' = directory /\ disk' = disk
  BY DEF ExportEnds, ToolStep, AndGoesOn
<1>2. /\ ToolKept /\ ToolTyped /\ Named /\ (exitStatus = 0 => Exporting)
      /\ Agrees(container, media.chunks) /\ container.populated /\ KeptIn(container)
  BY <1>1, ExportingIs
<1>3. argumentNumber \in Nat \ {0}
  BY <1>2 DEF ToolTyped
<1>4. ToolTyped' /\ argumentNumber' > 1
  BY <1>1, <1>2, <1>3 DEF ToolTyped
<1>5. ASSUME exitStatus = 0 PROVE Switching'
  <2>1. /\ argumentNumber \in DOMAIN arguments /\ arguments[argumentNumber] = "-X"
        /\ directory = DOMAIN container.files
        /\ Texts(container.files) = Want(argumentNumber - 1).files
        /\ \A n \in Names : disk[n] = IF n \in directory THEN Plain(Contents(container.files[n]))
                                      ELSE Want(argumentNumber - 1).disk[n]
    BY <1>1, <1>2, <1>5 DEF Exporting
  <2>2. argumentNumber \in 1 .. Len(arguments)
    BY <1>2, <2>1, ArgumentsAre DEF ToolKept
  <2>3. PICK x : Want(argumentNumber) = Promised(Want(argumentNumber - 1), "-X", x)
    BY <1>2, <2>1, <2>2, WantNext
  <2>4. PICK s : s = Want(argumentNumber - 1)
    OBVIOUS
  <2>5. s \in WantT
    <3>1. argumentNumber - 1 \in 0 .. Len(arguments)
      BY <2>2, LenProperties
    <3> QED BY <1>2, <2>4, <3>1, WantFacts
  <2>6. /\ Promised(s, "-X", x).files = s.files
        /\ Promised(s, "-X", x).disk = [n \in Names |-> IF n \in DOMAIN s.files THEN Plain(s.files[n]) ELSE s.disk[n]]
    BY <2>5, PromisedIs
  <2>7. Texts(container.files) = Want(argumentNumber).files
    BY <2>1, <2>3, <2>4, <2>6
  <2>8. DOMAIN s.files = directory /\ \A n \in directory : s.files[n] = Contents(container.files[n])
    BY <2>1, <2>4 DEF Texts
  <2>9. disk = [n \in Names |-> IF n \in DOMAIN s.files THEN Plain(s.files[n]) ELSE s.disk[n]]
    <3>1. disk = [n \in Names |-> disk[n]]
      BY <1>2 DEF ToolTyped, DiskT
    <3> QED BY <2>1, <2>4, <2>8, <3>1
  <2>10. disk = Want(argumentNumber).disk
    BY <2>3, <2>4, <2>6, <2>9
  <2> QED BY <1>1, <1>2, <2>1, <2>2, <2>7, <2>10, OneOn
<1>6. Exporting' /\ Importing'
  BY <1>1 DEF Exporting, Importing
<1>7. control' \in Working \cup {"crashed"} /\ control' # "importing"
  BY <1>1 DEF Working
<1> QED BY <1>1, <1>2, <1>4, <1>5, <1>6, <1>7, StepWorks

LEMMA ParameterStays ==
  ASSUME arguments' = arguments, argumentNumber' = argumentNumber
  PROVE  NextArgument' = NextArgument /\ Parameter' = Parameter
<1>1. ContainerAt' = ContainerAt
  BY DEF ContainerAt
<1>2. NextArgument' = NextArgument
  BY <1>1 DEF NextArgument
<1> QED BY <1>2 DEF Parameter

(* What the import of n has come to, in the files f of the container. *)
ImportedTo(f, n, d) ==
  LET s == Want(argumentNumber - 1)
  IN  /\ n \in DOMAIN f /\ ~f[n].started /\ directory = DOMAIN f \ {n}
      /\ Texts(Without(f, n)) = Without(s.files, n) /\ d = s.disk
      /\ Len(f[n].tail) <= Len(d[n].content)
      /\ f[n].tail = SubSeq(d[n].content, 1, Len(f[n].tail))

LEMMA ImportingSame ==
  Importing <=>
    (control = "importing" =>
       /\ argumentNumber \in DOMAIN arguments /\ arguments[argumentNumber] = "-i"
       /\ NextArgument <= Len(arguments) /\ ImportedTo(container.files, Parameter, disk))
BY DEF Importing, ImportedTo, Imported

LEMMA ImportGoesOn ==
  ASSUME argumentNumber \in DOMAIN arguments, arguments[argumentNumber] = "-i", NextArgument <= Len(arguments),
         arguments' = arguments, given' = given, argumentNumber' = argumentNumber,
         NEW s, s = Want(argumentNumber - 1), NEW n, n = Parameter, NEW f, f = container'.files,
         n \in DOMAIN f, ~f[n].started, directory' = DOMAIN f \ {n},
         Texts(Without(f, n)) = Without(s.files, n), disk' = s.disk,
         Len(f[n].tail) <= Len(s.disk[n].content),
         f[n].tail = SubSeq(s.disk[n].content, 1, Len(f[n].tail))
  PROVE  Importing'
<1>1. NextArgument' = NextArgument /\ Parameter' = n
  BY ParameterStays
<1>2. Want(argumentNumber - 1)' = s
  BY DEF Want
<1>3. ImportedTo(container.files, Parameter, disk)'
  BY <1>1, <1>2 DEF ImportedTo
<1>4. (Importing <=>
        (control = "importing" =>
           /\ argumentNumber \in DOMAIN arguments /\ arguments[argumentNumber] = "-i"
           /\ NextArgument <= Len(arguments) /\ ImportedTo(container.files, Parameter, disk)))'
  BY ImportingSame, PTL
<1> QED BY <1>1, <1>3, <1>4

Grown(f, g, n) ==
  DOMAIN g = DOMAIN f \cup {n} /\ (\A p \in DOMAIN f : g[p] = f[p]) /\ ~g[n].started /\ g[n].tail = <<>>

LEMMA NewFileIs ==
  ASSUME NEW c \in ContainerT, c.populated, NEW m, m.chunks \in Seq(Chunk), Agrees(c, m.chunks),
         NEW n \in Names, n \notin DOMAIN c.files, NEW e, e = NewVirtualFile(c, m, n),
         NEW f, f = c.files, NEW g, g = e.files
  PROVE  Grown(f, g, n)
<1>1. DOMAIN NewVirtualFile(c, m, n).files = DOMAIN c.files \cup {n}
  BY NewFileAgrees
<1>2. \A p \in DOMAIN c.files : NewVirtualFile(c, m, n).files[p] = c.files[p]
  BY NewFileAgrees
<1>3. ~NewVirtualFile(c, m, n).files[n].started
  BY NewFileAgrees
<1>4. NewVirtualFile(c, m, n).files[n].tail = <<>>
  BY NewFileAgrees
<1>5. g = NewVirtualFile(c, m, n).files
  OBVIOUS
<1> QED BY <1>1, <1>2, <1>3, <1>4, <1>5 DEF Grown

LEMMA ImportBeginsKeeps == ASSUME ToolInv, ImportBegins PROVE ToolInv'
<1>1. PICK n : n = Parameter
  OBVIOUS
<1>2. PICK c : c = Emptied(n)
  OBVIOUS
<1>3. /\ WithParameter({"-i"})
      /\ media' = (IF n \in directory
                   THEN [media EXCEPT !.chunks = EraseChunks(container.files[n].id)] ELSE media)
      /\ container' = NewVirtualFile(c, media', n)
      /\ control' = "importing" /\ directory' = directory \ {n}
      /\ arguments' = arguments /\ given' = given /\ argumentNumber' = argumentNumber
      /\ exitStatus' = exitStatus /\ pending' = pending /\ disk' = disk
  BY <1>1, <1>2 DEF ImportBegins, ToolStep
<1>4. /\ ToolKept /\ ToolTyped /\ Named /\ Sound /\ Met(argumentNumber - 1)
      /\ control = "switches" /\ exitStatus = 0 /\ directory = DOMAIN container.files
      /\ argumentNumber \in 1 .. Len(arguments) /\ argumentNumber \in DOMAIN arguments
      /\ arguments[argumentNumber] = "-i" /\ NextArgument <= Len(arguments)
      /\ n \in Names /\ n \notin Others
      /\ Want(argumentNumber - 1) \in WantT
  BY <1>1, <1>3, ParameterAt
<1>5. Agrees(container, media.chunks) /\ container.populated /\ KeptIn(container)
  BY <1>4, ContainerSound
<1>6. PICK s : s = Want(argumentNumber - 1)
  OBVIOUS
<1>7. Texts(container.files) = s.files /\ disk = s.disk
  BY <1>4, <1>6 DEF Met
<1>8. container \in ContainerT /\ media \in Media /\ media.chunks \in Seq(Chunk)
  BY <1>4 DEF ToolTyped
<1>9. /\ c \in ContainerT /\ c.populated /\ media' \in Media /\ media'.chunks \in Seq(Chunk)
      /\ Agrees(c, media'.chunks) /\ KeptIn(c) /\ n \notin DOMAIN c.files
      /\ DOMAIN c.files = directory \ {n} /\ Texts(c.files) = Without(s.files, n)
  <2>1. CASE n \in directory
    <3>1. c = [container EXCEPT !.files = Without(@, n)]
      BY <1>2, <2>1 DEF Emptied
    <3>2. media' = [media EXCEPT !.chunks = EraseChunks(container.files[n].id)]
      BY <1>3, <2>1
    <3>3. n \in DOMAIN container.files
      BY <1>4, <2>1
    <3>4. c \in ContainerT /\ c.populated /\ c.files = Without(container.files, n)
      BY <1>5, <1>8, <3>1, <3>2, <3>3, ErasedBoth
    <3>5. media' \in Media /\ media'.chunks \in Seq(Chunk) /\ Agrees(c, media'.chunks)
      BY <1>5, <1>8, <3>1, <3>2, <3>3, ErasedBoth
    <3>6. KeptIn(c)
      BY <1>4, <1>5, <1>8, <3>1, <3>2, <3>3, ErasedBoth
    <3>7. DOMAIN c.files = directory \ {n}
      BY <1>4, <3>4, WithoutLemma
    <3>8. Texts(c.files) = Without(s.files, n)
      <4>1. PICK h : h = container.files
        OBVIOUS
      <4>2. Texts(Without(h, n)) = Removed(Texts(h), {n}) /\ Removed(Texts(h), {n}) = Without(Texts(h), n)
        BY RemovedText
      <4> QED BY <1>7, <3>4, <4>1, <4>2
    <3> QED BY <3>4, <3>5, <3>6, <3>7, <3>8
  <2>2. CASE n \notin directory
    <3>1. c = container /\ media' = media
      BY <1>2, <1>3, <2>2 DEF Emptied
    <3>2. Texts(c.files) = Without(s.files, n)
      BY <1>4, <1>7, <2>2, <3>1, RemovedText
    <3> QED BY <1>4, <1>5, <1>8, <2>2, <3>1, <3>2
  <2> QED BY <2>1, <2>2
<1>10. container' \in ContainerT /\ container'.populated
  BY <1>3, <1>4, <1>9, NewFileAgrees
<1>11. Agrees(container', media'.chunks)
  BY <1>3, <1>4, <1>9, NewFileAgrees
<1>12. PICK f, g : f = c.files /\ g = container'.files
  OBVIOUS
<1>m. PICK m : m = media'
  OBVIOUS
<1>e. container' = NewVirtualFile(c, m, n) /\ m.chunks \in Seq(Chunk) /\ Agrees(c, m.chunks)
  BY <1>3, <1>9, <1>m
<1>x. PICK e : e = container'
  OBVIOUS
<1>g. Grown(f, g, n)
  <2>1. e = NewVirtualFile(c, m, n) /\ g = e.files
    BY <1>12, <1>e, <1>x
  <2> QED BY <1>4, <1>9, <1>12, <1>e, <2>1, NewFileIs
<1>13. DOMAIN g = DOMAIN f \cup {n}
  BY <1>g DEF Grown
<1>14. \A p \in DOMAIN f : g[p] = f[p]
  BY <1>g DEF Grown
<1>15. ~g[n].started /\ g[n].tail = <<>>
  BY <1>g DEF Grown
<1>16. KeptIn(container')
  <2>1. ASSUME NEW p \in Others
        PROVE  p \in DOMAIN g /\ g[p].started /\ g[p].stored = FilesOn(given.media)[p]
    <3>1. p \in DOMAIN f /\ f[p].started /\ f[p].stored = FilesOn(given.media)[p]
      BY <1>9, <1>12, <2>1 DEF KeptIn
    <3> QED BY <1>13, <1>14, <3>1
  <2> QED BY <1>12, <2>1 DEF KeptIn
<1>17. ToolTyped'
  <2>1. directory' \in SUBSET Names
    BY <1>3, <1>4 DEF ToolTyped
  <2> QED BY <1>3, <1>4, <1>9, <1>10, <2>1 DEF ToolTyped
<1>18. Importing'
  <2>1. Without(g, n) = [p \in DOMAIN f |-> f[p]] /\ DOMAIN Without(g, n) = DOMAIN f
    BY <1>9, <1>12, <1>13, <1>14 DEF Without
  <2>2. Texts(Without(g, n)) = Texts(f)
    <3>1. PICK h : h = Without(g, n)
      OBVIOUS
    <3>2. DOMAIN h = DOMAIN f /\ \A p \in DOMAIN f : h[p] = f[p]
      BY <2>1, <3>1
    <3> QED BY <3>1, <3>2 DEF Texts
  <2>3. s.disk[n].content \in Seq(Payloads)
    BY <1>4, <1>7, DiskFileIs DEF ToolTyped, DiskT, Content
  <2>4. Len(g[n].tail) = 0 /\ Len(s.disk[n].content) \in Nat
    BY <1>15, <2>3, LenProperties
  <2>5. SubSeq(s.disk[n].content, 1, 0) = <<>>
    BY SubSeqEmpty
  <2>6. n \in DOMAIN g /\ directory' = DOMAIN g \ {n}
    BY <1>3, <1>9, <1>12, <1>13
  <2>7. Texts(Without(g, n)) = Without(s.files, n) /\ disk' = s.disk
    BY <1>3, <1>7, <1>9, <1>12, <2>2
  <2>8. Len(g[n].tail) <= Len(s.disk[n].content) /\ g[n].tail = SubSeq(s.disk[n].content, 1, Len(g[n].tail))
    BY <1>15, <2>4, <2>5
  <2> QED BY <1>1, <1>3, <1>4, <1>6, <1>12, <1>15, <2>6, <2>7, <2>8, ImportGoesOn
<1>19. Switching' /\ Exporting'
  BY <1>3 DEF Switching, Exporting
<1>20. control' \in Working \cup {"crashed"} /\ control' # "switches" /\ exitStatus' = 0
  BY <1>3, <1>4 DEF Working
<1> QED BY <1>3, <1>4, <1>10, <1>11, <1>16, <1>17, <1>18, <1>19, <1>20, StepWorks

LEMMA ImportingIs ==
  ASSUME ToolInv, control = "importing"
  PROVE  /\ ToolKept /\ ToolTyped /\ Named /\ Sound /\ exitStatus = 0
         /\ argumentNumber \in DOMAIN arguments /\ argumentNumber \in 1 .. Len(arguments)
         /\ arguments[argumentNumber] = "-i" /\ NextArgument <= Len(arguments)
         /\ ImportedTo(container.files, Parameter, disk)
         /\ Parameter \in Names /\ Parameter \notin Others
         /\ Want(argumentNumber - 1) \in WantT
<1>1. ToolKept /\ ToolTyped /\ Named /\ Sound
  BY DEF ToolInv, AtWork, Working, Broken
<1>2. exitStatus = 0 /\ Importing
  BY <1>1 DEF Sound
<1>3. /\ argumentNumber \in DOMAIN arguments /\ arguments[argumentNumber] = "-i"
      /\ NextArgument <= Len(arguments) /\ ImportedTo(container.files, Parameter, disk)
  BY <1>2, ImportingSame
<1>4. argumentNumber \in 1 .. Len(arguments)
  BY <1>1, <1>3, ArgumentsAre DEF ToolKept
<1>5. Parameter \in Names /\ Parameter \in ToSet(arguments)
  BY <1>1, <1>3, ParameterIs DEF Named, ToolKept
<1>6. Parameter \notin Others
  BY <1>5 DEF Others
<1>7. Want(argumentNumber - 1) \in WantT
  <2>1. argumentNumber - 1 \in 0 .. Len(arguments)
    BY <1>4, LenProperties
  <2> QED BY <1>1, <2>1, WantFacts
<1> QED BY <1>1, <1>2, <1>3, <1>4, <1>5, <1>6, <1>7

LEMMA OneMore ==
  ASSUME NEW s \in Content, NEW k \in Nat, k < Len(s)
  PROVE  /\ Append(SubSeq(s, 1, k), s[k + 1]) = SubSeq(s, 1, k + 1)
         /\ SubSeq(s, 1, k + 1) \in Content /\ Len(SubSeq(s, 1, k + 1)) = k + 1
<1>1. s \in Seq(Payloads) /\ Len(s) \in Nat /\ DOMAIN s = 1 .. Len(s)
      /\ \A i \in 1 .. Len(s) : s[i] \in Payloads
  BY LenProperties, ElementOfSeq DEF Content
<1>2. PICK j \in 1 .. Len(s) : j = k + 1 /\ j - 1 = k
  BY <1>1
<1>3. SubSeq(s, 1, j) = Append(SubSeq(s, 1, j - 1), s[j])
  BY <1>1
<1>4. SubSeq(s, 1, j) \in Seq(Payloads) /\ Len(SubSeq(s, 1, j)) = j
  BY <1>1, SubSeqProperties
<1> QED BY <1>2, <1>3, <1>4 DEF Content

LEMMA ImportWritesKeeps == ASSUME ToolInv, ImportWrites PROVE ToolInv'
<1>1. PICK n : n = Parameter
  OBVIOUS
<1>2. PICK f : f = container.files
  OBVIOUS
<1>3. control = "importing" /\ Len(f[n].tail) < Len(disk[n].content)
  BY <1>1, <1>2 DEF ImportWrites, Imported
<1>4. /\ ToolKept /\ ToolTyped /\ Named /\ Sound /\ exitStatus = 0
      /\ argumentNumber \in DOMAIN arguments /\ argumentNumber \in 1 .. Len(arguments)
      /\ arguments[argumentNumber] = "-i" /\ NextArgument <= Len(arguments)
      /\ ImportedTo(f, n, disk) /\ n \in Names /\ n \notin Others
  BY <1>1, <1>2, <1>3, ImportingIs
<1>5. PICK s : s = Want(argumentNumber - 1)
  OBVIOUS
<1>6. /\ n \in DOMAIN f /\ ~f[n].started /\ directory = DOMAIN f \ {n}
      /\ Texts(Without(f, n)) = Without(s.files, n) /\ disk = s.disk
      /\ f[n].tail = SubSeq(disk[n].content, 1, Len(f[n].tail))
  BY <1>4, <1>5 DEF ImportedTo
<1>7. container \in ContainerT /\ disk[n].content \in Content
  BY <1>4, DiskFileIs DEF ToolTyped, DiskT
<1>8. f[n].tail \in Content
  BY <1>2, <1>6, <1>7, FileTypes
<1>9. PICK k \in Nat : k = Len(f[n].tail)
  BY <1>8, LenProperties DEF Content
<1>10. PICK t : t = Append(f[n].tail, disk[n].content[k + 1])
  OBVIOUS
<1>11. t = SubSeq(disk[n].content, 1, k + 1) /\ t \in Content /\ Len(t) = k + 1
  <2>1. PICK c \in Content : c = disk[n].content
    BY <1>7
  <2>2. k < Len(c) /\ f[n].tail = SubSeq(c, 1, k)
    BY <1>3, <1>6, <1>9, <2>1
  <2>3. t = Append(SubSeq(c, 1, k), c[k + 1])
    BY <1>10, <2>1, <2>2
  <2>4. Append(SubSeq(c, 1, k), c[k + 1]) = SubSeq(c, 1, k + 1)
    BY <2>2, OneMore
  <2>5. SubSeq(c, 1, k + 1) \in Content /\ Len(SubSeq(c, 1, k + 1)) = k + 1
    BY <2>2, OneMore
  <2> QED BY <2>1, <2>3, <2>4, <2>5
<1>12. PICK x, g, d : TailSet(container, n, t, x, g, d)
  BY <1>2, <1>6, <1>7, <1>11, TailChanged
<1>13. container' = d
  <2>1. container' = [container EXCEPT !.files[n].tail = t, !.files[n].moved = TRUE]
    BY <1>1, <1>2, <1>9, <1>10 DEF ImportWrites
  <2>2. d = [container EXCEPT !.files[n].tail = t, !.files[n].moved = TRUE]
    BY <1>12 DEF TailSet
  <2> QED BY <2>1, <2>2, Zenon
<1>14. /\ x = f /\ g = d.files /\ d \in ContainerT /\ d.populated = container.populated
       /\ (~f[n].started => Alike(d, container))
       /\ DOMAIN g = DOMAIN f /\ (\A p \in DOMAIN f : p # n => g[p] = f[p])
       /\ g[n].tail = t /\ g[n].started = f[n].started /\ g[n].stored = f[n].stored
  <2>1. x = f
    BY <1>2, <1>12 DEF TailSet
  <2> QED BY <1>12, <2>1, Zenon DEF TailSet
<1>15. /\ media' = media /\ argumentNumber' = argumentNumber /\ exitStatus' = exitStatus /\ control' = control
       /\ directory' = directory /\ pending' = pending /\ disk' = disk
       /\ arguments' = arguments /\ given' = given
  BY DEF ImportWrites, ToolStep
<1>16. Agrees(container, media.chunks) /\ container.populated /\ KeptIn(container)
  BY <1>4, ContainerSound
<1>17. Alike(d, container)
  BY <1>6, <1>14
<1>18. Agrees(container', media'.chunks)
  BY <1>13, <1>15, <1>16, <1>17, AlikeAgrees
<1>19. KeptIn(container')
  BY <1>13, <1>16, <1>17, AlikeKept
<1>20. container' \in ContainerT /\ container'.populated
  BY <1>13, <1>14, <1>16
<1>21. ToolTyped'
  BY <1>4, <1>15, <1>20 DEF ToolTyped
<1>22. Importing'
  <2>1. Without(g, n) = Without(f, n)
    BY <1>14 DEF Without
  <2>2. Len(g[n].tail) <= Len(s.disk[n].content)
    <3>1. Len(disk[n].content) \in Nat
      BY <1>7, LenProperties DEF Content
    <3> QED BY <1>3, <1>6, <1>9, <1>11, <1>14, <3>1
  <2>3. g[n].tail = SubSeq(s.disk[n].content, 1, Len(g[n].tail))
    BY <1>6, <1>11, <1>14
  <2>4. /\ g = container'.files /\ n \in DOMAIN g /\ ~g[n].started /\ directory' = DOMAIN g \ {n}
        /\ Texts(Without(g, n)) = Without(s.files, n) /\ disk' = s.disk
    BY <1>6, <1>13, <1>14, <1>15, <2>1
  <2> QED BY <1>1, <1>4, <1>5, <1>15, <2>2, <2>3, <2>4, ImportGoesOn
<1>23. Switching' /\ Exporting'
  BY <1>3, <1>15 DEF Switching, Exporting
<1>24. control' \in Working \cup {"crashed"} /\ control' # "switches" /\ exitStatus' = 0
  BY <1>3, <1>4, <1>15 DEF Working
<1> QED BY <1>4, <1>15, <1>18, <1>19, <1>20, <1>21, <1>22, <1>23, <1>24, StepWorks

LEMMA ImportEndsKeeps == ASSUME ToolInv, ImportEnds PROVE ToolInv'
<1>1. PICK n : n = Parameter
  OBVIOUS
<1>2. PICK f : f = container.files
  OBVIOUS
<1>3. /\ control = "importing" /\ Len(f[n].tail) = Len(disk[n].content)
      /\ control' = "switches" /\ argumentNumber' = argumentNumber + 2 /\ directory' = DOMAIN f
      /\ media' = media /\ container' = container /\ exitStatus' = exitStatus
      /\ pending' = pending /\ disk' = disk /\ arguments' = arguments /\ given' = given
  BY <1>1, <1>2 DEF ImportEnds, Imported, ToolStep, AndGoesOn
<1>4. /\ ToolKept /\ ToolTyped /\ Named /\ Sound /\ exitStatus = 0
      /\ argumentNumber \in DOMAIN arguments /\ argumentNumber \in 1 .. Len(arguments)
      /\ arguments[argumentNumber] = "-i" /\ NextArgument <= Len(arguments)
      /\ ImportedTo(f, n, disk) /\ n \in Names /\ n \notin Others
      /\ Want(argumentNumber - 1) \in WantT
  BY <1>1, <1>2, <1>3, ImportingIs
<1>5. PICK s, p : s = Want(argumentNumber - 1) /\ p = Promised(s, "-i", n)
  OBVIOUS
<1>6. /\ n \in DOMAIN f /\ ~f[n].started /\ directory = DOMAIN f \ {n}
      /\ Texts(Without(f, n)) = Without(s.files, n) /\ disk = s.disk
      /\ f[n].tail = SubSeq(disk[n].content, 1, Len(f[n].tail))
  BY <1>4, <1>5 DEF ImportedTo
<1>7. container \in ContainerT /\ disk[n].content \in Content
  BY <1>4, DiskFileIs DEF ToolTyped, DiskT
<1>8. Agrees(container, media.chunks) /\ container.populated /\ KeptIn(container)
  BY <1>4, ContainerSound
<1>9. f[n].tail = disk[n].content
  <2>1. SubSeq(disk[n].content, 1, Len(disk[n].content)) = disk[n].content
    BY <1>7, SubSeqFull DEF Content
  <2> QED BY <1>3, <1>6, <2>1
<1>10. f[n].stored = <<>>
  <2>1. PICK id : id = f[n].id
    OBVIOUS
  <2>2. f[n].stored = Collected(media.chunks, id) /\ WellFormed(media.chunks)
    BY <1>2, <1>6, <1>8, <2>1 DEF Agrees
  <2>3. \A i \in StartsIn(media.chunks) : media.chunks[i].id # id
    BY <1>2, <1>6, <1>8, <2>1 DEF Agrees, StoredAs
  <2>4. media.chunks \in Seq(Chunk)
    BY <1>4 DEF ToolTyped
  <2> QED BY <2>2, <2>3, <2>4, UnstartedEmpty
<1>11. Contents(f[n]) = disk[n].content
  <2>1. f[n].tail \in Seq(Payloads)
    BY <1>7, <1>9 DEF Content
  <2> QED BY <1>9, <1>10, <2>1, ConcatEmptySeq DEF Contents
<1>12. p.files = Assigned(s.files, n, disk[n].content) /\ p.disk = disk
  BY <1>4, <1>5, <1>6, PromisedIs
<1>13. Texts(f) = p.files
  <2>1. PICK q, r : q = s.files /\ r = Without(f, n)
    OBVIOUS
  <2>2. Texts(r) = Without(q, n)
    BY <1>6, <2>1
  <2>3. DOMAIN r = DOMAIN f \ {n} /\ \A x \in DOMAIN f \ {n} : r[x] = f[x]
    BY <2>1, WithoutLemma
  <2>4. DOMAIN f \ {n} = DOMAIN q \ {n}
    <3>1. DOMAIN Texts(r) = DOMAIN f \ {n}
      BY <2>3 DEF Texts
    <3>2. DOMAIN Without(q, n) = DOMAIN q \ {n}
      BY WithoutLemma
    <3> QED BY <2>2, <3>1, <3>2
  <2>5. ASSUME NEW x \in DOMAIN f \ {n} PROVE Contents(f[x]) = q[x]
    <3>1. Texts(r)[x] = Contents(f[x])
      BY <2>3, <2>5 DEF Texts
    <3>2. Without(q, n)[x] = q[x]
      BY <2>4, <2>5, WithoutLemma
    <3> QED BY <2>2, <3>1, <3>2
  <2>6. PICK c : c = disk[n].content
    OBVIOUS
  <2>7. Texts(f) = Assigned(q, n, c)
    <3>1. Assigned(q, n, c) = [x \in DOMAIN q \cup {n} |-> IF x = n THEN c ELSE q[x]]
      BY DEF Assigned
    <3>2. DOMAIN q \cup {n} = DOMAIN f
      BY <1>6, <2>4
    <3>3. ASSUME NEW x \in DOMAIN f PROVE Contents(f[x]) = IF x = n THEN c ELSE q[x]
      <4>1. CASE x = n
        BY <1>11, <2>6, <4>1
      <4>2. CASE x # n
        BY <2>5, <3>3, <4>2
      <4> QED BY <4>1, <4>2
    <3> QED BY <3>1, <3>2, <3>3 DEF Texts
  <2> QED BY <1>12, <2>1, <2>6, <2>7
<1>14. argumentNumber \in Nat \ {0}
  BY <1>4 DEF ToolTyped
<1>15. ToolTyped' /\ argumentNumber' > 1
  <2>1. directory' \in SUBSET Names
    BY <1>2, <1>3, <1>7, FileTypes
  <2> QED BY <1>3, <1>4, <1>14, <2>1 DEF ToolTyped
<1>16. Switching'
  <2>1. /\ Texts(container'.files) = Promised(Want(argumentNumber - 1), arguments[argumentNumber], Parameter).files
        /\ disk' = Promised(Want(argumentNumber - 1), arguments[argumentNumber], Parameter).disk
    BY <1>1, <1>2, <1>3, <1>4, <1>5, <1>12, <1>13
  <2>2. directory' = DOMAIN container'.files
    BY <1>2, <1>3
  <2> QED BY <1>3, <1>4, <2>1, <2>2, TwoOn
<1>17. Exporting' /\ Importing'
  BY <1>3 DEF Exporting, Importing
<1>18. control' \in Working \cup {"crashed"} /\ control' # "importing"
  BY <1>3 DEF Working
<1> QED BY <1>3, <1>4, <1>8, <1>15, <1>16, <1>17, <1>18, StepWorks

------------------------------------------------------------------------------
(* The end, and all steps together.                                      *)

LEMMA CloseKeeps == ASSUME ToolInv, Close PROVE ToolInv'
<1>1. PICK q : q = FoldLeft(Flushed, media.chunks, NamesInOrder)
  OBVIOUS
<1>2. /\ control = "switches" /\ (exitStatus # 0 \/ argumentNumber > Len(arguments))
      /\ media' = [media EXCEPT !.chunks = q]
      /\ control' = "closed" /\ arguments' = arguments /\ given' = given
      /\ container' = container /\ argumentNumber' = argumentNumber /\ exitStatus' = exitStatus
      /\ directory' = directory /\ pending' = pending /\ disk' = disk
  BY <1>1 DEF Close, MayClose, ToolStep
<1>3. ToolKept /\ ToolTyped /\ Named /\ (Broken \/ Sound)
  BY <1>2 DEF ToolInv, AtWork, Working
<1>4. container \in ContainerT /\ media \in Media /\ media.chunks \in Seq(Chunk)
  BY <1>3 DEF ToolTyped
<1>5. ToolKept' /\ Others' = Others /\ (FilesOn(given.media))' = FilesOn(given.media)
  BY <1>2, <1>3, GivenStays
<1>6. Starting' /\ Opened' /\ AtWork' /\ ToolSeesAll'
  BY <1>2 DEF Starting, Opened, AtWork, Working, ToolSeesAll
<1>7. CASE Broken
  <2>1. exitStatus = 1 /\ media.chunks = given.media.chunks /\ AllStored(container.files)
    BY <1>7 DEF Broken
  <2>2. q = media.chunks
    BY <1>1, <1>4, <2>1, CloseStored
  <2>3. media' \in Media /\ media'.chunks = q
    BY <1>2, <1>4, <2>2, MediaChunks
  <2>4. OthersUntouched'
    BY <1>2, <2>1, <2>2, <2>3, NothingTouched
  <2>5. ToolTyped'
    BY <1>2, <1>3, <2>2, <2>3 DEF ToolTyped
  <2>6. DoneOK'
    BY <1>2, <2>1 DEF DoneOK
  <2> QED BY <1>5, <1>6, <2>4, <2>5, <2>6 DEF ToolInv
<1>8. CASE Sound
  <2>1. Agrees(container, media.chunks) /\ KeptIn(container)
    BY <1>8, ContainerSound
  <2>2. q \in Seq(Chunk)
    BY <1>1, <1>4, <2>1, CloseAgrees
  <2>3. media' \in Media /\ media'.chunks = q
    BY <1>2, <1>4, <2>2, MediaChunks
  <2>4. PICK m : m = media'
    OBVIOUS
  <2>5. m.chunks = FoldLeft(Flushed, media.chunks, NamesInOrder)
    BY <1>1, <2>3, <2>4
  <2>6. WellFormed(m.chunks) /\ m.chunks \in Seq(Chunk)
    BY <1>4, <2>1, <2>5, ClosedFiles
  <2>7. DOMAIN FilesOn(m) = DOMAIN container.files
    BY <1>4, <2>1, <2>5, ClosedFiles
  <2>8. \A n \in DOMAIN container.files : FilesOn(m)[n] = Contents(container.files[n])
    BY <1>4, <2>1, <2>5, ClosedFiles
  <2>9. ASSUME NEW n \in Others
        PROVE  n \in DOMAIN FilesOn(m) /\ FilesOn(m)[n] = FilesOn(given.media)[n]
    <3>1. n \in DOMAIN container.files /\ container.files[n].started
          /\ container.files[n].stored = FilesOn(given.media)[n]
      BY <2>1, <2>9 DEF KeptIn
    <3>2. container.files[n].tail = <<>>
      BY <2>1, <3>1 DEF Agrees, StoredAs
    <3>3. container.files[n].stored \in Seq(Payloads)
      BY <1>4, <3>1, FileTypes DEF Content
    <3>4. Contents(container.files[n]) = container.files[n].stored
      BY <3>2, <3>3, ConcatEmptySeq DEF Contents
    <3> QED BY <2>7, <2>8, <3>1, <3>4
  <2>10. OthersUntouched'
    <3>1. (\A n \in Others : n \in DOMAIN FilesOn(media) /\ FilesOn(media)[n] = FilesOn(given.media)[n])'
      BY <1>5, <2>4, <2>9
    <3>2. (OthersAsTheyWere <=> \A n \in Others : n \in DOMAIN FilesOn(media) /\ FilesOn(media)[n] = FilesOn(given.media)[n])'
      BY UntouchedIs, PTL
    <3> QED BY <3>1, <3>2 DEF OthersUntouched
  <2>11. ToolTyped'
    BY <1>2, <1>3, <2>2, <2>3 DEF ToolTyped
  <2>12. ASSUME exitStatus = 0
         PROVE  FilesOn(m) = Want(Len(arguments)).files /\ disk = Want(Len(arguments)).disk
    <3>1. Switching /\ argumentNumber > Len(arguments)
      BY <1>2, <1>8, <2>12 DEF Sound
    <3>2. Len(arguments) \in Nat
      BY <1>3, ArgumentsAre DEF ToolKept
    <3>3. argumentNumber - 1 = Len(arguments) /\ ~(argumentNumber <= Len(arguments))
      BY <1>2, <3>1, <3>2 DEF Switching
    <3>4. Met(argumentNumber - 1)
      BY <1>2, <3>1, <3>3 DEF Switching, Doomed
    <3>5. Texts(container.files) = Want(Len(arguments)).files /\ disk = Want(Len(arguments)).disk
      BY <3>3, <3>4 DEF Met
    <3>6. FilesOn(m) = Texts(container.files)
      <4>1. FilesOn(m) = [n \in NamesOn(m.chunks) |-> FilesOn(m)[n]] /\ DOMAIN FilesOn(m) = NamesOn(m.chunks)
        BY <2>6, FilesOnLemma
      <4>2. FilesOn(m) = [n \in DOMAIN container.files |-> FilesOn(m)[n]]
        BY <2>7, <4>1
      <4> QED BY <2>8, <4>2 DEF Texts
    <3> QED BY <3>5, <3>6
  <2>13. DoneOK'
    <3>1. Want(Len(arguments))' = Want(Len(arguments))
      BY <1>2 DEF Want
    <3> QED BY <1>2, <2>4, <2>12, <3>1 DEF DoneOK
  <2> QED BY <1>5, <1>6, <2>10, <2>11, <2>13 DEF ToolInv
<1> QED BY <1>3, <1>7, <1>8

LEMMA ToolStutters ==
  ASSUME ToolInv, UNCHANGED <<media, container, toolVars>>
  PROVE  ToolInv'
<1>1. /\ media' = media /\ container' = container /\ arguments' = arguments
      /\ argumentNumber' = argumentNumber /\ exitStatus' = exitStatus /\ control' = control
      /\ directory' = directory /\ pending' = pending /\ disk' = disk /\ given' = given
  BY DEF toolVars
<1>2. /\ ToolKept' = ToolKept /\ Others' = Others /\ (FilesOn(given.media))' = FilesOn(given.media)
      /\ Helps' = Helps /\ Named' = Named /\ \A k : Want(k)' = Want(k)
  BY <1>1, GivenStays
<1>3. NextArgument' = NextArgument /\ Parameter' = Parameter
  BY <1>1, ParameterStays
<1>4. ToolTyped' /\ Starting'
  BY <1>1 DEF ToolInv, ToolTyped, Starting
<1>5. Opened' = Opened
  BY <1>1, <1>2 DEF Opened
<1>6. Broken' = Broken
  BY <1>1 DEF Broken
<1>7. Want(argumentNumber - 1)' = Want(argumentNumber - 1) /\ Want(Len(arguments))' = Want(Len(arguments))
  BY <1>1 DEF Want
<1>8. Switching' = Switching
  BY <1>1, <1>7 DEF Switching, Doomed, Met
<1>9. Exporting' = Exporting
  BY <1>1, <1>7 DEF Exporting
<1>10. Importing' = Importing
  BY <1>1, <1>3, <1>7 DEF Importing, Imported
<1>11. KeptIn(container)' = KeptIn(container)
  BY <1>1, <1>2 DEF KeptIn
<1>12. Sound' = Sound
  BY <1>1, <1>8, <1>9, <1>10, <1>11 DEF Sound
<1>13. AtWork' = AtWork
  BY <1>1, <1>2, <1>6, <1>12 DEF AtWork
<1>14. DoneOK' = DoneOK
  BY <1>1, <1>2, <1>7 DEF DoneOK
<1>15. ToolSeesAll' = ToolSeesAll
  BY <1>1 DEF ToolSeesAll
<1>16. OthersUntouched' = OthersUntouched
  BY <1>1 DEF OthersUntouched, OthersAsTheyWere
<1> QED BY <1>2, <1>4, <1>5, <1>13, <1>14, <1>15, <1>16 DEF ToolInv

Scattered == control = "scattered"

LEMMA ScatteredStays ==
  Scattered /\ [ToolNext]_<<openingVars, toolVars>> => Scattered'
<1> SUFFICES ASSUME Scattered, [ToolNext]_<<openingVars, toolVars>> PROVE Scattered'
  OBVIOUS
<1>1. control = "scattered"
  BY DEF Scattered
<1>2. ~ToolNext \/ UNCHANGED control
  BY <1>1 DEF ToolNext, StartHelp, StartUnnamed, OpenContainer, TakeDirectory, SkipContainer, DoList,
       DoInitialize, DoRemove, DoExtract, DoExport, ExportNext, ExportEnds, ImportRefused, ImportBegins,
       ImportWrites, ImportSpins, ImportEnds, UnknownSwitch, MissingParameter, Close, CloseInHoles,
       MayClose, WithParameter, At
<1>3. UNCHANGED control
  BY <1>2 DEF toolVars
<1> QED BY <1>1, <1>3 DEF Scattered

(* Where the late chunks go into free space the proof ends. *)
LEMMA ToolSteps ==
  ToolInv /\ [ToolNext]_<<openingVars, toolVars>> => ToolInv' \/ Scattered'
<1> SUFFICES ASSUME ToolInv, [ToolNext]_<<openingVars, toolVars>> PROVE ToolInv' \/ Scattered'
  OBVIOUS
<1>1. CASE StartHelp \/ StartUnnamed \/ OpenContainer \/ TakeDirectory
  BY <1>1, StartHelpKeeps, StartUnnamedKeeps, OpenContainerKeeps, TakeDirectoryKeeps
<1>2. CASE SkipContainer \/ DoList \/ DoInitialize \/ DoRemove
  BY <1>2, SkipContainerKeeps, DoListKeeps, DoInitializeKeeps, DoRemoveKeeps
<1>3. CASE DoExtract \/ DoExport \/ ExportNext \/ ExportEnds
  BY <1>3, DoExtractKeeps, DoExportKeeps, ExportNextKeeps, ExportEndsKeeps
<1>4. CASE ImportRefused \/ ImportBegins \/ ImportWrites \/ ImportEnds
  BY <1>4, ImportRefusedKeeps, ImportBeginsKeeps, ImportWritesKeeps, ImportEndsKeeps
<1>5. CASE UnknownSwitch \/ MissingParameter \/ Close
  BY <1>5, UnknownSwitchKeeps, MissingParameterKeeps, CloseKeeps
<1>6. CASE ImportSpins \/ UNCHANGED <<openingVars, toolVars>>
  <2>1. UNCHANGED <<media, container, toolVars>>
    BY <1>6 DEF ImportSpins, openingVars, toolVars
  <2> QED BY <2>1, ToolStutters
<1>7. CASE CloseInHoles
  BY <1>7 DEF CloseInHoles, Scattered
<1> QED BY <1>1, <1>2, <1>3, <1>4, <1>5, <1>6, <1>7 DEF ToolNext

LEMMA ToolAlways == ToolSpec => [](ToolInv \/ Scattered)
BY ToolBegins, ToolSteps, ScatteredStays, PTL DEF ToolSpec

(* No switch is executed before the tool has seen every file: the checks   *)
(* main makes of the statuses of open and of the directory.                *)
THEOREM ToolSees == ToolSpec => []ToolSeesAll
<1>1. ToolInv \/ Scattered => ToolSeesAll
  BY DEF ToolInv, Scattered, ToolSeesAll
<1> QED BY <1>1, ToolAlways, PTL

(* Whatever fails, a file that no argument names stays as it was, without  *)
(* --initialize, until close puts a late chunk into free space, which the  *)
(* theorem leaves out: doRemove, doExtract, doExport, doImport, and a      *)
(* close that appends.                                                     *)
THEOREM OthersStay == ToolSpec => []OthersUntouched
<1>1. ToolInv \/ Scattered => OthersUntouched
  BY DEF ToolInv, Scattered, OthersUntouched
<1> QED BY <1>1, ToolAlways, PTL

(* An exit status of 0 after a close that put no chunk into free space     *)
(* means that every switch has done what the help text promises, for       *)
(* command lines of any length: main's loop, the functions of the switches *)
(* and close.                                                              *)
THEOREM ZeroMeansDone == ToolSpec => []ExitZeroMeansDone
<1>1. ToolInv => ExitZeroMeansDone
  <2> SUFFICES ASSUME ToolInv PROVE ExitZeroMeansDone
    OBVIOUS
  <2>1. ToolKept /\ DoneOK
    BY DEF ToolInv
  <2>2. Want(Len(arguments)) = Wanted
    BY <2>1, WantFacts
  <2> QED BY <2>1, <2>2 DEF DoneOK, ExitZeroMeansDone
<1>2. Scattered => ExitZeroMeansDone
  BY DEF Scattered, ExitZeroMeansDone
<1> QED BY <1>1, <1>2, ToolAlways, PTL
==============================================================================
