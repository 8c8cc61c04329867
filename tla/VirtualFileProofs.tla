--------------------------- MODULE VirtualFileProofs ---------------------------
(***************************************************************************)
(* A virtual file keeps its chunks in order and every byte in its place,   *)
(* for every capacity, tail, length and set of values, and whatever the    *)
(* media refuses; a flush leaves all of it on the media; and where the     *)
(* media works it is a ByteFile.                                           *)
(***************************************************************************)
EXTENDS VirtualFile, DataLemmas

------------------------------------------------------------------------------
(* The chunk map, as a function from offsets to sizes: its chunks tile the *)
(* bytes up to the end of the last.                                        *)
Tiles(f) ==
  /\ \A o \in DOMAIN f :
       /\ o \in Nat /\ f[o] \in Nat /\ f[o] > 0
       /\ o = 0 \/ \E p \in DOMAIN f : p + f[p] = o
       /\ \A p \in DOMAIN f : p < o => p + f[p] <= o
  /\ DOMAIN f # {} => \E z \in DOMAIN f : \A o \in DOMAIN f : o <= z

EndOf(f) == IF DOMAIN f = {} THEN 0 ELSE LET o == Max(DOMAIN f) IN o + f[o]
LastAt(f, p) == Max({o \in DOMAIN f : o <= p})

(* The largest of a set of naturals is the one that none exceeds. *)
LEMMA MaxLemma ==
  ASSUME NEW T, T \subseteq Nat, NEW z \in T, \A y \in T : y <= z
  PROVE  Max(T) = z
<1>1. \A x \in T : x \in Nat
  OBVIOUS
<1>2. z \in T /\ \A y \in T : z >= y
  BY <1>1
<1>3. Max(T) \in T /\ \A y \in T : Max(T) >= y
  BY <1>2, Zenon DEF Max
<1>4. Max(T) >= z /\ z >= Max(T) /\ Max(T) \in Nat /\ z \in Nat
  BY <1>1, <1>2, <1>3
<1> QED BY <1>4

(* The map ends where its last chunk does, and no chunk reaches beyond. *)
LEMMA EndLemma ==
  ASSUME NEW f, Tiles(f)
  PROVE  /\ EndOf(f) \in Nat
         /\ \A o \in DOMAIN f : o + f[o] <= EndOf(f) /\ o < EndOf(f)
         /\ \A z \in DOMAIN f : (\A o \in DOMAIN f : o <= z) => EndOf(f) = z + f[z]
<1>1. DOMAIN f \subseteq Nat /\ \A o \in DOMAIN f : o \in Nat /\ f[o] \in Nat /\ f[o] > 0
  BY DEF Tiles
<1>2. ASSUME NEW z \in DOMAIN f, \A o \in DOMAIN f : o <= z
      PROVE  EndOf(f) = z + f[z]
  <2>1. Max(DOMAIN f) = z
    BY <1>1, <1>2, MaxLemma
  <2> QED BY <2>1 DEF EndOf
<1>3. CASE DOMAIN f = {}
  BY <1>3 DEF EndOf
<1>4. CASE DOMAIN f # {}
  <2>1. PICK z \in DOMAIN f : \A o \in DOMAIN f : o <= z
    BY <1>4 DEF Tiles
  <2>2. EndOf(f) = z + f[z] /\ EndOf(f) \in Nat
    BY <1>1, <1>2, <2>1
  <2>3. ASSUME NEW o \in DOMAIN f PROVE o + f[o] <= EndOf(f)
    <3>1. CASE o = z
      BY <1>1, <2>2, <3>1
    <3>2. CASE o < z
      <4>1. o + f[o] <= z
        BY <3>2 DEF Tiles
      <4> QED BY <1>1, <2>2, <4>1
    <3> QED BY <1>1, <2>1, <3>1, <3>2
  <2>4. \A o \in DOMAIN f : o < EndOf(f)
    BY <1>1, <2>2, <2>3
  <2> QED BY <1>2, <2>2, <2>3, <2>4
<1> QED BY <1>3, <1>4

(* A position before the end is in the last chunk that starts there or     *)
(* before, and in no other: the upper_bound of virtual_file_impl.cpp.      *)
LEMMA LastAtLemma ==
  ASSUME NEW f, Tiles(f), NEW p \in Nat, p < EndOf(f)
  PROVE  /\ LastAt(f, p) \in DOMAIN f
         /\ LastAt(f, p) <= p /\ p < LastAt(f, p) + f[LastAt(f, p)]
<1>1. DOMAIN f \subseteq Nat /\ \A o \in DOMAIN f : o \in Nat /\ f[o] \in Nat /\ f[o] > 0
  BY DEF Tiles
<1>2. DOMAIN f # {}
  BY DEF EndOf
<1>3. 0 \in DOMAIN f
  <2>1. PICK x \in DOMAIN f : \A y \in DOMAIN f : x <= y
    BY <1>1, <1>2, LeastOf
  <2>2. ASSUME NEW q \in DOMAIN f, q + f[q] = x PROVE FALSE
    BY <1>1, <2>1, <2>2
  <2>3. x = 0
    BY <2>2 DEF Tiles
  <2> QED BY <2>3
<1> DEFINE T == {o \in DOMAIN f : o <= p}
<1>4. PICK o \in T : \A y \in T : o >= y
  <2>1. T \subseteq Nat /\ T # {} /\ \A x \in T : x <= p
    BY <1>1, <1>3
  <2> HIDE DEF T
  <2> QED BY <2>1, LargestOf
<1>5. LastAt(f, p) = o
  <2>1. T \subseteq Nat
    BY <1>1
  <2>2. \A y \in T : y <= o
    BY <1>1, <1>4
  <2>3. Max(T) = o
    <3> HIDE DEF T
    <3> QED BY <2>1, <2>2, MaxLemma
  <2> QED BY <2>3 DEF LastAt
<1>6. ASSUME o + f[o] <= p PROVE FALSE
  <2>1. PICK z \in DOMAIN f : \A x \in DOMAIN f : x <= z
    BY <1>2 DEF Tiles
  <2>2. EndOf(f) = z + f[z]
    BY <2>1, EndLemma
  <2>3. o < z
    <3>1. o # z
      BY <1>1, <1>6, <2>2
    <3> QED BY <1>1, <2>1, <3>1
  <2> DEFINE U == {x \in DOMAIN f : o < x}
  <2>4. PICK q \in U : \A y \in U : q <= y
    <3>1. U \subseteq Nat /\ U # {}
      BY <1>1, <2>3
    <3> HIDE DEF U
    <3> QED BY <3>1, LeastOf
  <2>5. p < q
    BY <1>1, <1>4, <2>4
  <2>6. PICK r \in DOMAIN f : r + f[r] = q
    <3>1. q # 0
      BY <1>1, <2>4
    <3> QED BY <2>4, <3>1 DEF Tiles
  <2>7. r < q
    BY <1>1, <2>4, <2>6
  <2>8. r <= o
    BY <1>1, <2>4, <2>7
  <2>9. CASE r = o
    BY <1>6, <2>5, <2>6, <2>9, <1>1
  <2>10. CASE r < o
    <3>1. r + f[r] <= o
      BY <2>10 DEF Tiles
    <3> QED BY <1>1, <2>4, <2>6, <3>1
  <2> QED BY <1>1, <2>8, <2>9, <2>10
<1>7. o \in DOMAIN f /\ o <= p /\ o \in Nat /\ f[o] \in Nat
  BY <1>1, <1>4
<1>8. p < o + f[o]
  BY <1>6, <1>7
<1> QED BY <1>5, <1>7, <1>8

LEMMA OnlyChunk ==
  ASSUME NEW f, Tiles(f), NEW p \in Nat, NEW o \in DOMAIN f, o <= p, p < o + f[o]
  PROVE  LastAt(f, p) = o
<1>1. DOMAIN f \subseteq Nat /\ \A x \in DOMAIN f : x \in Nat /\ f[x] \in Nat
  BY DEF Tiles
<1> DEFINE T == {x \in DOMAIN f : x <= p}
<1>2. T \subseteq Nat /\ o \in T
  BY <1>1
<1>3. ASSUME NEW y \in T PROVE y <= o
  <2>1. o < y => o + f[o] <= y
    BY <1>3 DEF Tiles
  <2> QED BY <1>1, <1>3, <2>1
<1>4. Max(T) = o
  <2> HIDE DEF T
  <2> QED BY <1>2, <1>3, MaxLemma
<1> QED BY <1>4 DEF LastAt

(* A chunk added at the end lengthens the map by its size. *)
LEMMA AddedLemma ==
  ASSUME NEW f, Tiles(f), NEW m \in Nat, m > 0, NEW g,
         g = [x \in DOMAIN f \cup {EndOf(f)} |-> IF x = EndOf(f) THEN m ELSE f[x]]
  PROVE  Tiles(g) /\ EndOf(g) = EndOf(f) + m /\ EndOf(f) \notin DOMAIN f
<1>1. /\ \A o \in DOMAIN f : o \in Nat /\ f[o] \in Nat /\ f[o] > 0
      /\ DOMAIN g = DOMAIN f \cup {EndOf(f)}
  BY DEF Tiles
<1>2. EndOf(f) \in Nat /\ \A o \in DOMAIN f : o + f[o] <= EndOf(f) /\ o < EndOf(f)
  BY EndLemma
<1>3. EndOf(f) \notin DOMAIN f
  BY <1>2
<1>4. g[EndOf(f)] = m /\ \A o \in DOMAIN f : g[o] = f[o]
  BY <1>3
<1>5. \A o \in DOMAIN g : o <= EndOf(f) /\ o \in Nat /\ g[o] \in Nat /\ g[o] > 0
  BY <1>1, <1>2, <1>4
<1>6. ASSUME NEW o \in DOMAIN g PROVE o = 0 \/ \E p \in DOMAIN g : p + g[p] = o
  <2>1. CASE o \in DOMAIN f
    <3>1. o = 0 \/ \E p \in DOMAIN f : p + f[p] = o
      BY <2>1 DEF Tiles
    <3> QED BY <1>1, <1>4, <3>1
  <2>2. CASE o = EndOf(f) /\ DOMAIN f = {}
    BY <2>2 DEF EndOf
  <2>3. CASE o = EndOf(f) /\ DOMAIN f # {}
    <3>1. PICK z \in DOMAIN f : \A x \in DOMAIN f : x <= z
      BY <2>3 DEF Tiles
    <3>2. z + f[z] = EndOf(f)
      BY <3>1, EndLemma
    <3> QED BY <1>1, <1>4, <2>3, <3>2
  <2> QED BY <1>1, <2>1, <2>2, <2>3
<1>7. ASSUME NEW o \in DOMAIN g, NEW p \in DOMAIN g, p < o PROVE p + g[p] <= o
  <2>1. p \in DOMAIN f
    BY <1>1, <1>2, <1>5, <1>7
  <2>2. CASE o \in DOMAIN f
    <3>1. p + f[p] <= o
      BY <1>7, <2>1, <2>2 DEF Tiles
    <3> QED BY <1>4, <2>1, <3>1
  <2>3. CASE o = EndOf(f)
    BY <1>2, <1>4, <2>1, <2>3
  <2> QED BY <1>1, <2>2, <2>3
<1>8. Tiles(g)
  BY <1>1, <1>5, <1>6, <1>7 DEF Tiles
<1>9. EndOf(g) = EndOf(f) + m
  <2>1. EndOf(f) \in DOMAIN g /\ \A o \in DOMAIN g : o <= EndOf(f)
    BY <1>1, <1>5
  <2> QED BY <1>4, <1>8, <2>1, EndLemma
<1> QED BY <1>3, <1>8, <1>9

(* A map cut at a position ends there. *)
LEMMA CutLemma ==
  ASSUME NEW f, Tiles(f), NEW p \in Nat, p <= EndOf(f), NEW g,
         g = [o \in {x \in DOMAIN f : x < p} |-> Smaller(f[o], p - o)]
  PROVE  Tiles(g) /\ EndOf(g) = p /\ \A o \in DOMAIN g : o \in DOMAIN f /\ g[o] <= f[o]
<1>1. \A o \in DOMAIN f : o \in Nat /\ f[o] \in Nat /\ f[o] > 0
  BY DEF Tiles
<1>2. DOMAIN g = {x \in DOMAIN f : x < p}
  OBVIOUS
<1>3. \A o \in DOMAIN g : g[o] = Smaller(f[o], p - o)
  OBVIOUS
<1>4. ASSUME NEW o \in DOMAIN g
      PROVE  /\ o \in DOMAIN f /\ o \in Nat /\ g[o] \in Nat /\ g[o] > 0 /\ o < p
             /\ g[o] <= f[o] /\ o + g[o] <= p /\ (o + f[o] <= p => g[o] = f[o])
  <2>1. o \in DOMAIN f /\ o < p /\ o \in Nat /\ f[o] \in Nat /\ f[o] > 0
    BY <1>1, <1>2
  <2>2. g[o] = IF f[o] < p - o THEN f[o] ELSE p - o
    BY <1>3 DEF Smaller
  <2> QED BY <2>1, <2>2
<1>5. ASSUME NEW o \in DOMAIN g PROVE o = 0 \/ \E q \in DOMAIN g : q + g[q] = o
  <2>1. o = 0 \/ \E q \in DOMAIN f : q + f[q] = o
    BY <1>4 DEF Tiles
  <2>2. ASSUME NEW q \in DOMAIN f, q + f[q] = o PROVE q \in DOMAIN g /\ q + g[q] = o
    <3>1. q \in DOMAIN g
      BY <1>1, <1>2, <1>4, <2>2
    <3>2. q + f[q] <= p
      BY <1>4, <2>2
    <3> QED BY <1>4, <2>2, <3>1, <3>2
  <2> QED BY <2>1, <2>2
<1>6. ASSUME NEW o \in DOMAIN g, NEW q \in DOMAIN g, q < o PROVE q + g[q] <= o
  <2>1. q + f[q] <= o
    BY <1>4, <1>6 DEF Tiles
  <2> QED BY <1>1, <1>4, <2>1
<1>7. CASE p = 0
  <2>1. DOMAIN g = {}
    BY <1>4, <1>7
  <2> QED BY <1>7, <2>1 DEF Tiles, EndOf
<1>8. CASE p > 0
  <2>1. PICK k \in Nat : k = p - 1 /\ k < EndOf(f)
    <3>1. p - 1 \in Nat /\ p - 1 < EndOf(f)
      BY <1>8, EndLemma
    <3> QED BY <3>1
  <2>2. PICK z \in DOMAIN f : z = LastAt(f, k) /\ z <= k /\ k < z + f[z]
    BY <2>1, LastAtLemma
  <2>3. z \in DOMAIN g
    BY <1>1, <1>2, <2>1, <2>2
  <2>4. ASSUME NEW o \in DOMAIN g PROVE o <= z
    <3>1. z < o => z + f[z] <= o
      BY <1>4, <2>2 DEF Tiles
    <3>2. o <= k
      BY <1>4, <2>1
    <3> QED BY <1>1, <1>4, <2>2, <3>1, <3>2
  <2>5. Tiles(g)
    BY <1>4, <1>5, <1>6, <2>3, <2>4 DEF Tiles
  <2>6. EndOf(g) = z + g[z]
    BY <2>3, <2>4, <2>5, EndLemma
  <2>7. z + g[z] = p
    <3>1. g[z] = IF f[z] < p - z THEN f[z] ELSE p - z
      BY <1>3, <2>3 DEF Smaller
    <3> QED BY <1>1, <1>4, <2>1, <2>2, <2>3, <3>1
  <2> QED BY <1>4, <2>5, <2>6, <2>7
<1> QED BY <1>7, <1>8

------------------------------------------------------------------------------
(* Rows of bytes that belong at consecutive offsets. *)
Byte == Int \X (Versions \cup {0})
InPlace(s, from) == \A i \in 1 .. Len(s) : s[i][1] = from + i - 1

LEMMA TakeLemma ==
  ASSUME NEW s \in Seq(Byte), NEW n \in 0 .. Len(s), NEW from \in Int
  PROVE  /\ Take(s, n) \in Seq(Byte) /\ Len(Take(s, n)) = n
         /\ InPlace(s, from) => InPlace(Take(s, n), from)
<1>1. n \in Nat /\ Len(s) \in Nat /\ n <= Len(s)
  BY LenProperties
<1>2. /\ Take(s, n) \in Seq(Byte) /\ Len(Take(s, n)) = n
      /\ \A i \in 1 .. n : Take(s, n)[i] = s[i]
  BY FrontLemma DEF Take
<1>3. \A i \in 1 .. n : i \in 1 .. Len(s)
  BY <1>1
<1> QED BY <1>2, <1>3 DEF InPlace

LEMMA DropLemma ==
  ASSUME NEW s \in Seq(Byte), NEW n \in 0 .. Len(s), NEW from \in Int
  PROVE  /\ Drop(s, n) \in Seq(Byte) /\ Len(Drop(s, n)) = Len(s) - n
         /\ InPlace(s, from) => InPlace(Drop(s, n), from + n)
<1>1. n \in Nat /\ Len(s) \in Nat /\ n <= Len(s)
  BY LenProperties
<1>2. /\ Drop(s, n) \in Seq(Byte) /\ Len(Drop(s, n)) = Len(s) - n
      /\ \A i \in 1 .. Len(s) - n : Drop(s, n)[i] = s[n + i]
  BY BackLemma DEF Drop
<1>3. \A i \in 1 .. Len(s) - n : n + i \in 1 .. Len(s) /\ from + (n + i) - 1 = from + n + i - 1
  BY <1>1
<1>4. ASSUME InPlace(s, from), NEW i \in 1 .. Len(s) - n PROVE Drop(s, n)[i][1] = from + n + i - 1
  <2>1. s[n + i][1] = from + (n + i) - 1
    BY <1>3, <1>4 DEF InPlace
  <2> QED BY <1>2, <1>3, <2>1
<1> QED BY <1>2, <1>4 DEF InPlace

LEMMA JoinLemma ==
  ASSUME NEW s \in Seq(Byte), NEW t \in Seq(Byte), NEW from \in Int
  PROVE  /\ s \o t \in Seq(Byte) /\ Len(s \o t) = Len(s) + Len(t)
         /\ InPlace(s, from) /\ InPlace(t, from + Len(s)) => InPlace(s \o t, from)
<1>1. Len(s) \in Nat /\ Len(t) \in Nat
  BY LenProperties
<1>2. PICK w : w = s \o t
  OBVIOUS
<1>3. /\ w \in Seq(Byte) /\ Len(w) = Len(s) + Len(t)
      /\ \A i \in 1 .. Len(s) + Len(t) : w[i] = IF i <= Len(s) THEN s[i] ELSE t[i - Len(s)]
  BY <1>2, ConcatProperties
<1>4. ASSUME InPlace(s, from), InPlace(t, from + Len(s)), NEW i \in 1 .. Len(s) + Len(t)
      PROVE  w[i][1] = from + i - 1
  <2>1. CASE i <= Len(s)
    BY <1>1, <1>3, <1>4, <2>1 DEF InPlace
  <2>2. CASE ~(i <= Len(s))
    <3>1. i - Len(s) \in 1 .. Len(t) /\ from + Len(s) + (i - Len(s)) - 1 = from + i - 1
      BY <1>1, <2>2
    <3>2. t[i - Len(s)][1] = from + Len(s) + (i - Len(s)) - 1
      BY <1>4, <3>1 DEF InPlace
    <3> QED BY <1>3, <2>2, <3>1, <3>2
  <2> QED BY <2>1, <2>2
<1> QED BY <1>2, <1>3, <1>4 DEF InPlace

(* Bytes written over some of a row. *)
LEMMA OverLemma ==
  ASSUME NEW s \in Seq(Byte), NEW k \in Nat, NEW d \in Seq(Byte), k + Len(d) <= Len(s),
         NEW from \in Int
  PROVE  /\ Over(s, k, d) \in Seq(Byte) /\ Len(Over(s, k, d)) = Len(s)
         /\ InPlace(s, from) /\ InPlace(d, from + k) => InPlace(Over(s, k, d), from)
<1>1. /\ Len(s) \in Nat /\ Len(d) \in Nat
      /\ k \in 0 .. Len(s) /\ k + Len(d) \in 0 .. Len(s)
  BY LenProperties
<1>2. PICK a, b : a = Take(s, k) /\ b = Drop(s, k + Len(d))
  OBVIOUS
<1>3. a \in Seq(Byte) /\ Len(a) = k /\ (InPlace(s, from) => InPlace(a, from))
  BY <1>1, <1>2, TakeLemma
<1>4. /\ b \in Seq(Byte) /\ Len(b) = Len(s) - (k + Len(d))
      /\ InPlace(s, from) => InPlace(b, from + (k + Len(d)))
  BY <1>1, <1>2, DropLemma
<1>5. PICK w : w = a \o d
  OBVIOUS
<1>6. /\ w \in Seq(Byte) /\ Len(w) = k + Len(d)
      /\ InPlace(a, from) /\ InPlace(d, from + k) => InPlace(w, from)
  BY <1>3, <1>5, JoinLemma
<1>7. /\ w \o b \in Seq(Byte) /\ Len(w \o b) = k + Len(d) + Len(b)
      /\ InPlace(w, from) /\ InPlace(b, from + (k + Len(d))) => InPlace(w \o b, from)
  BY <1>4, <1>6, JoinLemma
<1>8. Over(s, k, d) = w \o b
  BY <1>2, <1>5 DEF Over
<1>9. k + Len(d) + Len(b) = Len(s)
  BY <1>1, <1>4
<1> QED BY <1>3, <1>4, <1>6, <1>7, <1>8, <1>9

(* The bytes that a write or an append is given. *)
LEMMA DataLemma ==
  ASSUME NEW p \in Nat, NEW n \in Nat, NEW v \in Versions
  PROVE  Data(p, n, v) \in Seq(Byte) /\ Len(Data(p, n, v)) = n /\ InPlace(Data(p, n, v), p)
<1>1. Data(p, n, v) \in [1 .. n -> Byte]
  BY DEF Data, Byte
<1>2. Data(p, n, v) \in Seq(Byte) /\ Len(Data(p, n, v)) = n
  BY <1>1, RowLemma
<1>3. \A i \in 1 .. n : Data(p, n, v)[i][1] = p + i - 1
  BY DEF Data
<1> QED BY <1>2, <1>3 DEF InPlace

------------------------------------------------------------------------------
(* The invariant.                                                          *)

(* Bytes kept for the offsets from this one on, and those of the chunk at  *)
(* an offset.  A load that failed may have left anything in memory.        *)
Kept(s, from) == s \in Seq(Byte) /\ (LoadFails \/ InPlace(s, from))
Good(s, o) == Kept(s, o) /\ Len(s) = chunkMap[o]

Tiled    == Tiles(chunkMap)
StoredOK == DOMAIN stored = DOMAIN chunkMap /\ \A o \in DOMAIN chunkMap : Good(stored[o], o)

BufferOK ==
  /\ currentChunk \in DOMAIN chunkMap \cup {NoChunk}
  /\ chunkBufferFlushNeeded \in BOOLEAN
  /\ chunkBufferFlushNeeded = TRUE => currentChunk # NoChunk
  /\ currentChunk # NoChunk => Good(chunkBuffer, currentChunk)

Coherent ==
  LoadFails \/ chunkBufferFlushNeeded = TRUE \/ currentChunk = NoChunk \/ chunkBuffer = stored[currentChunk]

TailOK == started \in BOOLEAN /\ Kept(tailBuffer, CurrentStoredSize)

(* A read stays within the file; what a write has left goes where the      *)
(* position is, and what an append has left goes to the end.               *)
CallOK ==
  /\ DOMAIN call = {"op", "count", "data", "content", "from"}
  /\ call.op \in {"none", "read", "write", "append", "flush", "truncate"}
  /\ call.count \in Nat /\ call.data \in Seq(Byte)
  /\ currentPosition \in Nat /\ currentPosition <= Size
  /\ call.op = "read" => Len(call.data) <= call.count /\ currentPosition + ToRead <= Size
  /\ call.op = "write" => Kept(call.data, currentPosition)
  /\ call.op = "append" => Kept(call.data, Size)

(* A chunk that could not be loaded has been saved with no bytes, and the  *)
(* write never gets past it.                                               *)
Stuck ==
  /\ LoadFails /\ InChunks /\ currentPosition + Len(Rest) > ChunkEnd /\ currentPosition # Needed
  /\ currentChunk = NoChunk
  /\ DOMAIN stored = DOMAIN chunkMap /\ stored[Needed] = <<>>

Whole   == Tiled /\ StoredOK /\ BufferOK /\ Coherent /\ TailOK /\ CallOK
FileInv == Tiled /\ (StoredOK \/ Stuck) /\ BufferOK /\ Coherent /\ TailOK /\ CallOK

------------------------------------------------------------------------------
(* What the operators of the module return in such a state.                *)

LEMMA SizesLemma ==
  ASSUME Tiled, TailOK
  PROVE  /\ CurrentStoredSize = EndOf(chunkMap) /\ CurrentStoredSize \in Nat
         /\ Len(tailBuffer) \in Nat /\ Size = CurrentStoredSize + Len(tailBuffer) /\ Size \in Nat
<1>1. CurrentStoredSize = EndOf(chunkMap)
  BY DEF CurrentStoredSize, EndOf
<1>2. CurrentStoredSize \in Nat
  BY <1>1, EndLemma DEF Tiled
<1>3. Len(tailBuffer) \in Nat
  BY LenProperties DEF TailOK, Kept
<1> QED BY <1>1, <1>2, <1>3 DEF Size

(* The chunk that the position is in. *)
LEMMA NeededLemma ==
  ASSUME Tiled, BufferOK, TailOK, CallOK, currentPosition < CurrentStoredSize
  PROVE  /\ Needed \in DOMAIN chunkMap /\ Needed \in Nat /\ chunkMap[Needed] \in Nat
         /\ chunkMap[Needed] > 0 /\ ChunkEnd = Needed + chunkMap[Needed]
         /\ Needed <= currentPosition /\ currentPosition < ChunkEnd /\ ChunkEnd <= CurrentStoredSize
         /\ Loaded => currentChunk # NoChunk /\ currentChunk = Needed /\ Good(chunkBuffer, Needed)
<1>1. currentPosition \in Nat /\ currentPosition < EndOf(chunkMap)
  BY SizesLemma DEF CallOK
<1>2. Needed = LastAt(chunkMap, currentPosition)
  BY DEF Needed, ChunkAt, LastAt
<1>3. Needed \in DOMAIN chunkMap /\ Needed <= currentPosition /\ currentPosition < Needed + chunkMap[Needed]
  BY <1>1, <1>2, LastAtLemma DEF Tiled
<1>4. Needed \in Nat /\ chunkMap[Needed] \in Nat /\ chunkMap[Needed] > 0
  BY <1>3 DEF Tiled, Tiles
<1>5. Needed + chunkMap[Needed] <= CurrentStoredSize
  BY <1>3, EndLemma, SizesLemma DEF Tiled
<1>6. ASSUME Loaded PROVE currentChunk # NoChunk /\ currentChunk = Needed /\ Good(chunkBuffer, Needed)
  <2>1. /\ currentChunk # NoChunk /\ currentChunk <= currentPosition
        /\ currentPosition < currentChunk + chunkMap[currentChunk]
    BY <1>6 DEF Loaded
  <2>2. currentChunk \in DOMAIN chunkMap /\ Good(chunkBuffer, currentChunk)
    BY <2>1 DEF BufferOK
  <2>3. currentChunk = Needed
    BY <1>1, <1>2, <2>1, <2>2, OnlyChunk DEF Tiled
  <2> QED BY <2>1, <2>2, <2>3
<1> QED BY <1>3, <1>4, <1>5, <1>6 DEF ChunkEnd

(* What of it lies before the position, and what from there on. *)
LEMMA PartsLemma ==
  ASSUME Tiled, BufferOK, TailOK, CallOK, currentPosition < CurrentStoredSize
  PROVE  \E k \in Nat, m \in Nat :
           /\ k = currentPosition - Needed /\ m = ChunkEnd - currentPosition /\ m > 0
           /\ k + m = chunkMap[Needed] /\ currentPosition = Needed + k /\ ChunkEnd = currentPosition + m
           /\ currentPosition + m <= CurrentStoredSize
<1>1. PICK c \in Nat, q \in Nat, z \in Nat, e \in Nat, s \in Nat :
        /\ c = currentPosition /\ q = Needed /\ z = chunkMap[Needed] /\ e = ChunkEnd
        /\ s = CurrentStoredSize /\ e = q + z /\ q <= c /\ c < e /\ e <= s
  <2>1. ChunkEnd \in Nat
    BY NeededLemma
  <2> QED BY <2>1, NeededLemma, SizesLemma DEF CallOK
<1>2. e = q + z /\ q <= c /\ c < e /\ e <= s
  BY <1>1
<1>3. /\ c - q \in Nat /\ e - c \in Nat /\ e - c > 0 /\ (c - q) + (e - c) = z
      /\ c = q + (c - q) /\ e = c + (e - c)
  BY <1>2
<1> QED BY <1>1, <1>2, <1>3

(* The chunks with the loaded one saved. *)
LEMMA FlushedLemma ==
  ASSUME Tiled, StoredOK, BufferOK
  PROVE  DOMAIN Flushed = DOMAIN chunkMap /\ \A o \in DOMAIN chunkMap : Good(Flushed[o], o)
<1>1. CASE chunkBufferFlushNeeded = TRUE
  <2>1. currentChunk \in DOMAIN chunkMap /\ Good(chunkBuffer, currentChunk)
    BY <1>1 DEF BufferOK
  <2>2. Flushed = [stored EXCEPT ![currentChunk] = chunkBuffer]
    BY <1>1 DEF Flushed
  <2> QED BY <2>1, <2>2 DEF StoredOK
<1>2. CASE chunkBufferFlushNeeded # TRUE
  <2>1. Flushed = stored
    BY <1>2 DEF Flushed, BufferOK
  <2> QED BY <2>1 DEF StoredOK
<1> QED BY <1>1, <1>2

(* Whatever a step does that leaves the map alone. *)
LEMMA Frame ==
  ASSUME Tiled, BufferOK, Coherent, TailOK, UNCHANGED <<faults, chunkMap>>
  PROVE  /\ Tiled' /\ CurrentStoredSize' = CurrentStoredSize
         /\ (LoadFails' <=> LoadFails) /\ DOMAIN chunkMap' = DOMAIN chunkMap
         /\ \A s, o : (s \in Seq(Byte) /\ (LoadFails' \/ InPlace(s, o))) <=> Kept(s, o)
         /\ UNCHANGED stored /\ StoredOK => StoredOK'
         /\ UNCHANGED bufferVars => BufferOK'
         /\ UNCHANGED <<stored, bufferVars>> => Coherent'
         /\ NothingLoaded => BufferOK' /\ Coherent'
         /\ UNCHANGED <<started, tailBuffer>> => TailOK'
         /\ UNCHANGED tailBuffer => Size' = Size
<1>1. Tiled' /\ CurrentStoredSize' = CurrentStoredSize
  BY DEF Tiled, CurrentStoredSize
<1>2. LoadFails' <=> LoadFails
  BY DEF LoadFails
<1>3. \A s, o : (s \in Seq(Byte) /\ (LoadFails' \/ InPlace(s, o))) <=> Kept(s, o)
  BY <1>2 DEF Kept
<1>4. UNCHANGED stored /\ StoredOK => StoredOK'
  BY <1>2 DEF StoredOK, Good, Kept
<1>5. UNCHANGED bufferVars => BufferOK'
  BY <1>2 DEF bufferVars, BufferOK, Good, Kept
<1>6. UNCHANGED <<stored, bufferVars>> => Coherent'
  BY <1>2 DEF bufferVars, Coherent
<1>7. NothingLoaded => BufferOK' /\ Coherent'
  BY DEF NothingLoaded, BufferOK, Coherent
<1>8. UNCHANGED <<started, tailBuffer>> => TailOK'
  BY <1>1, <1>2 DEF TailOK, Kept
<1>9. UNCHANGED tailBuffer => Size' = Size
  BY <1>1 DEF Size
<1> QED BY <1>1, <1>2, <1>3, <1>4, <1>5, <1>6, <1>7, <1>8, <1>9

(* A call that is over. *)
LEMMA ReturnedLemma ==
  ASSUME call' = NoCall, currentPosition' \in Nat, currentPosition' <= Size'
  PROVE  CallOK'
<1>1. /\ NoCall.op = "none" /\ NoCall.count = 0 /\ NoCall.data = <<>>
      /\ DOMAIN NoCall = {"op", "count", "data", "content", "from"}
  BY DEF NoCall
<1>2. <<>> \in Seq(Byte)
  BY EmptySeq
<1> QED BY <1>1, <1>2 DEF CallOK

(* A chunk saved, perhaps after the loaded one. *)
LEMMA SavedLemma ==
  ASSUME Tiled, StoredOK, BufferOK, UNCHANGED <<faults, chunkMap>>,
         NEW o \in DOMAIN chunkMap, NEW t, Good(t, o),
         stored' \in {stored, Flushed, [stored EXCEPT ![o] = t], [Flushed EXCEPT ![o] = t]}
  PROVE  StoredOK'
<1>1. PICK s : /\ DOMAIN s = DOMAIN chunkMap /\ \A x \in DOMAIN chunkMap : Good(s[x], x)
               /\ stored' = s \/ stored' = [s EXCEPT ![o] = t]
  BY FlushedLemma DEF StoredOK
<1>2. DOMAIN stored' = DOMAIN chunkMap
  BY <1>1
<1>3. ASSUME NEW x \in DOMAIN chunkMap PROVE Good(stored'[x], x)
  BY <1>1
<1>4. LoadFails' <=> LoadFails
  BY DEF LoadFails
<1> QED BY <1>2, <1>3, <1>4 DEF StoredOK, Good, Kept

------------------------------------------------------------------------------
(* read                                                                    *)

LEMMA CopyOutLemma ==
  ASSUME Tiled, BufferOK, TailOK, CallOK, Reading, currentPosition < CurrentStoredSize,
         NEW payload, Good(payload, Needed), CopyOut(payload)
  PROVE  CallOK' /\ UNCHANGED <<faults, started, chunkMap, tailBuffer>>
<1>1. PICK k \in Nat, e \in Nat, r \in Nat :
        /\ k = currentPosition - Needed /\ e = ChunkEnd - currentPosition
        /\ r = ToRead /\ k + e = chunkMap[Needed]
        /\ currentPosition + e <= CurrentStoredSize
  <2>1. /\ currentPosition - Needed \in Nat /\ ChunkEnd - currentPosition \in Nat
        /\ currentPosition - Needed + (ChunkEnd - currentPosition) = chunkMap[Needed]
        /\ currentPosition + (ChunkEnd - currentPosition) <= CurrentStoredSize
    BY NeededLemma, SizesLemma DEF CallOK
  <2>2. ToRead \in Nat
    BY LenProperties DEF CallOK, ToRead, Reading
  <2> QED BY <2>1, <2>2
<1>2. PICK m \in Nat : m = Smaller(r, e) /\ m <= r /\ k + m <= Len(payload)
  <2>1. Smaller(r, e) \in Nat /\ Smaller(r, e) <= r /\ k + Smaller(r, e) <= Len(payload)
    BY <1>1 DEF Smaller, Good
  <2> QED BY <2>1
<1>3. PICK d : d = SubSeq(payload, k + 1, k + m) /\ d \in Seq(Byte) /\ Len(d) = m
  <2>1. payload \in Seq(Byte)
    BY DEF Good, Kept
  <2>2. /\ SubSeq(payload, k + 1, k + m) \in Seq(Byte)
        /\ Len(SubSeq(payload, k + 1, k + m)) = m
    BY <1>2, <2>1, PieceLemma
  <2> QED BY <2>2
<1>4. /\ call' = [call EXCEPT !.data = call.data \o d] /\ currentPosition' = currentPosition + m
      /\ UNCHANGED <<faults, started, chunkMap, tailBuffer>>
  BY <1>1, <1>2, <1>3 DEF CopyOut
<1>5. /\ call'.op = "read" /\ call'.count = call.count /\ call'.data = call.data \o d
      /\ DOMAIN call' = DOMAIN call
  BY <1>4 DEF CallOK, Reading
<1>6. call'.data \in Seq(Byte) /\ Len(call'.data) = Len(call.data) + m /\ Len(call.data) \in Nat
  BY <1>3, <1>5, ConcatProperties, LenProperties DEF CallOK
<1>7. Size' = Size /\ Size \in Nat
  BY <1>4, SizesLemma DEF Size, CurrentStoredSize
<1>8. /\ currentPosition' \in Nat /\ Len(call'.data) <= call'.count
      /\ currentPosition' + (call'.count - Len(call'.data)) <= Size' /\ currentPosition' <= Size'
  <2>1. PICK p \in Nat, z \in Nat, c \in Nat, l \in Nat :
          /\ p = currentPosition /\ z = Size /\ c = call.count /\ l = Len(call.data)
          /\ r = c - l /\ p + r <= z
    BY <1>1, <1>6, <1>7 DEF CallOK, ToRead, Reading
  <2>2. r = c - l /\ p + r <= z /\ m <= r
    BY <1>2, <2>1
  <2>3. p + m \in Nat /\ l + m <= c /\ p + m + (c - (l + m)) <= z /\ p + m <= z
    <3>1. p + m \in Nat /\ p + m <= z
      BY <2>2
    <3>2. l + m <= c
      BY <2>2
    <3>3. p + m + (c - (l + m)) = p + (c - l)
      OBVIOUS
    <3> QED BY <2>2, <3>1, <3>2, <3>3
  <2> QED BY <1>4, <1>5, <1>6, <1>7, <2>1, <2>3
<1> QED BY <1>4, <1>5, <1>6, <1>8 DEF CallOK, ToRead

LEMMA ReadStep ==
  ASSUME Whole, ReadLoaded \/ ReadThrough \/ ReadIntoBuffer \/ ReadTail
  PROVE  Whole'
<1> USE DEF Whole
<1>1. CASE ReadLoaded
  <2>1. CallOK' /\ UNCHANGED <<faults, started, chunkMap, tailBuffer, stored, bufferVars>>
    BY <1>1, NeededLemma, CopyOutLemma DEF ReadLoaded
  <2> QED BY <2>1, Frame
<1>2. CASE ReadThrough
  <2>1. Good(stored[Needed], Needed) /\ Needed \in DOMAIN chunkMap
    BY <1>2, NeededLemma DEF ReadThrough, StoredOK
  <2>2. CallOK' /\ UNCHANGED <<faults, started, chunkMap, tailBuffer>> /\ NothingLoaded /\ stored' = Flushed
    BY <1>2, <2>1, CopyOutLemma DEF ReadThrough
  <2>3. StoredOK'
    BY <2>1, <2>2, SavedLemma
  <2> QED BY <2>2, <2>3, Frame
<1>3. CASE ReadIntoBuffer
  <2>1. Good(stored[Needed], Needed) /\ Needed \in DOMAIN chunkMap
    BY <1>3, NeededLemma DEF ReadIntoBuffer, StoredOK
  <2>2. /\ CallOK' /\ UNCHANGED <<faults, started, chunkMap, tailBuffer>> /\ stored' = Flushed
        /\ currentChunk' = Needed /\ chunkBuffer' = stored[Needed] /\ chunkBufferFlushNeeded' = FALSE
    BY <1>3, <2>1, CopyOutLemma DEF ReadIntoBuffer
  <2>3. StoredOK'
    BY <2>1, <2>2, SavedLemma
  <2>4. LoadFails' <=> LoadFails
    BY <2>2 DEF LoadFails
  <2>5. BufferOK'
    BY <2>1, <2>2, <2>4 DEF BufferOK, Good, Kept
  <2>6. Coherent'
    <3>1. Flushed[Needed] = stored[Needed]
      <4>1. chunkBufferFlushNeeded = TRUE => currentChunk # Needed
        BY <1>3, NeededLemma DEF ReadIntoBuffer, Loaded, ChunkEnd, NoChunk
      <4> QED BY <2>1, <4>1 DEF Flushed, BufferOK, StoredOK
    <3> QED BY <2>2, <3>1 DEF Coherent
  <2> QED BY <2>2, <2>3, <2>5, <2>6, Frame
<1>4. CASE ReadTail
  <2>1. /\ call' = NoCall /\ currentPosition' = currentPosition + ToRead
        /\ UNCHANGED <<faults, started, chunkMap, stored, bufferVars, tailBuffer>>
    BY <1>4 DEF ReadTail, Return, mediaVars
  <2>2. /\ call.op = "read" /\ ToRead \in Nat
    BY <1>4, LenProperties DEF ReadTail, CallOK, ToRead
  <2>3. Size' = Size
    BY <2>1, Frame
  <2>4. currentPosition' \in Nat /\ currentPosition' <= Size'
    BY <2>1, <2>2, <2>3 DEF CallOK
  <2>5. CallOK'
    BY <2>1, <2>4, ReturnedLemma
  <2> QED BY <2>1, <2>5, Frame
<1> QED BY <1>1, <1>2, <1>3, <1>4

(* A call that returns and changes nothing. *)
LEMMA RefusedStep ==
  ASSUME Whole, NEW r, Return(r), UNCHANGED <<mediaVars, bufferVars, tailBuffer, currentPosition>>
  PROVE  Whole'
<1> USE DEF Whole
<1>1. /\ call' = NoCall
      /\ UNCHANGED <<faults, started, chunkMap, stored, bufferVars, tailBuffer, currentPosition>>
  BY DEF Return, mediaVars
<1>2. Size' = Size
  BY <1>1, Frame
<1>3. CallOK'
  BY <1>1, <1>2, ReturnedLemma DEF CallOK
<1> QED BY <1>1, <1>3, Frame

(* Chunks that cannot be saved or loaded. *)
LEMMA LoadFailsStep ==
  ASSUME Whole, currentPosition < CurrentStoredSize, LoadIntoBufferFails
  PROVE  Whole'
<1> USE DEF Whole
<1>1. /\ call' = NoCall /\ stored' = Flushed /\ currentChunk' = Needed
      /\ chunkBuffer' = [i \in 1 .. chunkMap[Needed] |-> Junk] /\ chunkBufferFlushNeeded' = FALSE
      /\ UNCHANGED <<faults, started, chunkMap, tailBuffer, currentPosition>>
  BY DEF LoadIntoBufferFails, Return
<1>2. Needed \in DOMAIN chunkMap /\ chunkMap[Needed] \in Nat
  BY NeededLemma
<1>3. Good(stored[Needed], Needed)
  BY <1>2 DEF StoredOK
<1>4. LoadFails /\ LoadFails'
  BY <1>1, <1>3 DEF LoadIntoBufferFails, Readable, Good, LoadFails
<1>5. StoredOK'
  BY <1>1, <1>2, <1>3, SavedLemma
<1>6. chunkBuffer' \in Seq(Byte) /\ Len(chunkBuffer') = chunkMap[Needed]
  <2>1. chunkBuffer' \in [1 .. chunkMap[Needed] -> Byte]
    BY <1>1 DEF Junk, Byte
  <2> QED BY <1>2, <2>1, RowLemma
<1>7. BufferOK' /\ Coherent'
  BY <1>1, <1>2, <1>4, <1>6 DEF BufferOK, Coherent, Good, Kept
<1>8. Size' = Size
  BY <1>1, Frame
<1>9. CallOK'
  BY <1>1, <1>8, ReturnedLemma DEF CallOK
<1> QED BY <1>1, <1>5, <1>7, <1>9, Frame

LEMMA DroppedStep ==
  ASSUME Whole, currentPosition < CurrentStoredSize, stored' \in {stored, Flushed}, NothingLoaded,
         Return(Failure), UNCHANGED <<faults, started, chunkMap, tailBuffer, currentPosition>>
  PROVE  Whole'
<1> USE DEF Whole
<1>1. Needed \in DOMAIN chunkMap /\ Good(stored[Needed], Needed)
  BY NeededLemma DEF StoredOK
<1>2. StoredOK'
  BY <1>1, SavedLemma
<1>3. Size' = Size
  BY Frame
<1>4. CallOK'
  BY <1>3, ReturnedLemma DEF CallOK, Return
<1> QED BY <1>2, <1>4, Frame

LEMMA ReadFailsStep ==
  ASSUME Whole, ReadFails
  PROVE  Whole'
<1>1. CASE EvictionFails
  BY <1>1, RefusedStep DEF EvictionFails
<1>2. CASE LoadIntoBufferFails
  BY <1>2, LoadFailsStep DEF ReadFails
<1>3. CASE /\ stored' = Flushed /\ NothingLoaded /\ Return(Failure)
           /\ UNCHANGED <<faults, started, chunkMap, tailBuffer, currentPosition>>
  BY <1>3, DroppedStep DEF ReadFails
<1> QED BY <1>1, <1>2, <1>3 DEF ReadFails

------------------------------------------------------------------------------
(* write                                                                   *)

LEMMA WroteLemma ==
  ASSUME Tiled, BufferOK, Coherent, TailOK, CallOK, call.op = "write",
         NEW n \in 0 .. Len(Rest), Wrote(n), currentPosition + n <= Size
  PROVE  /\ CallOK' /\ UNCHANGED <<faults, started, chunkMap, tailBuffer>>
         /\ call'.op = call.op /\ call'.data = Drop(call.data, n) /\ currentPosition' = currentPosition + n
<1>1. /\ call' = [call EXCEPT !.data = Drop(call.data, n)] /\ currentPosition' = currentPosition + n
      /\ UNCHANGED <<faults, started, chunkMap, tailBuffer>>
  BY DEF Wrote
<1>2. /\ call'.op = "write" /\ call'.count = call.count /\ call'.data = Drop(call.data, n)
      /\ DOMAIN call' = DOMAIN call
  BY <1>1 DEF CallOK
<1>3. /\ call.data \in Seq(Byte) /\ n \in Nat /\ currentPosition \in Int
      /\ LoadFails \/ InPlace(call.data, currentPosition)
  BY LenProperties DEF CallOK, Kept, Rest
<1>4. /\ call'.data \in Seq(Byte)
      /\ LoadFails \/ InPlace(call'.data, currentPosition')
  BY <1>1, <1>2, <1>3, DropLemma DEF Rest
<1>5. Size' = Size /\ (LoadFails' <=> LoadFails)
  BY <1>1, Frame
<1>6. currentPosition' \in Nat /\ currentPosition' <= Size'
  BY <1>1, <1>3, <1>5 DEF CallOK
<1> QED BY <1>1, <1>2, <1>4, <1>5, <1>6 DEF CallOK, Kept

LEMMA WritePastStep ==
  ASSUME Whole, WritePast
  PROVE  Whole'
<1> USE DEF Whole
<1>1. /\ call.op = "write" /\ currentPosition < CurrentStoredSize
      /\ currentPosition + Len(call.data) > ChunkEnd
  BY DEF WritePast, InChunks, Rest
<1>2. PICK k \in Nat, m \in Nat :
        /\ k = currentPosition - Needed /\ m = ChunkEnd - currentPosition
        /\ k + m = chunkMap[Needed] /\ currentPosition = Needed + k
        /\ m <= Len(call.data) /\ currentPosition + m <= Size /\ Needed \in Nat
  <2>1. Len(call.data) \in Nat /\ currentPosition \in Nat /\ Needed \in Nat
    BY <1>1, NeededLemma, LenProperties DEF CallOK
  <2>2. PICK k \in Nat, m \in Nat :
          /\ k = currentPosition - Needed /\ m = ChunkEnd - currentPosition
          /\ k + m = chunkMap[Needed] /\ currentPosition = Needed + k /\ ChunkEnd = currentPosition + m
          /\ currentPosition + m <= CurrentStoredSize
    BY <1>1, PartsLemma
  <2>3. m <= Len(call.data)
    BY <1>1, <2>1, <2>2
  <2>4. currentPosition + m <= Size
    BY <2>1, <2>2, SizesLemma
  <2> QED BY <2>1, <2>2, <2>3, <2>4
<1>3. Needed \in DOMAIN chunkMap /\ Good(stored[Needed], Needed) /\ (Loaded => Good(chunkBuffer, Needed))
  BY <1>1, NeededLemma DEF StoredOK
<1>4. PICK base, front, t :
        /\ base = (IF Loaded THEN chunkBuffer ELSE stored[Needed])
        /\ front = Take(base, k) /\ t = front \o Take(call.data, m)
        /\ stored' = [(IF Loaded THEN stored ELSE Flushed) EXCEPT ![Needed] = t]
        /\ NothingLoaded /\ Wrote(m)
  BY <1>2 DEF WritePast, Rest
<1>5. base \in Seq(Byte) /\ Len(base) = chunkMap[Needed] /\ (LoadFails \/ InPlace(base, Needed))
  BY <1>3, <1>4 DEF Good, Kept
<1>6. front \in Seq(Byte) /\ Len(front) = k /\ (LoadFails \/ InPlace(front, Needed))
  <2>1. k \in 0 .. Len(base) /\ Needed \in Int
    BY <1>2, <1>5
  <2>2. /\ Take(base, k) \in Seq(Byte) /\ Len(Take(base, k)) = k
        /\ InPlace(base, Needed) => InPlace(Take(base, k), Needed)
    BY <1>5, <2>1, TakeLemma
  <2> QED BY <1>4, <1>5, <2>2
<1>7. PICK d :
        /\ d = Take(call.data, m) /\ d \in Seq(Byte) /\ Len(d) = m
        /\ LoadFails \/ InPlace(d, Needed + k)
  <2>1. m \in 0 .. Len(call.data) /\ call.data \in Seq(Byte) /\ Needed + k \in Int
    BY <1>2, LenProperties DEF CallOK
  <2>2. LoadFails \/ InPlace(call.data, Needed + k)
    BY <1>1, <1>2 DEF CallOK, Kept
  <2> QED BY <2>1, <2>2, TakeLemma
<1>8. Good(t, Needed)
  <2>1. /\ front \o d \in Seq(Byte) /\ Len(front \o d) = Len(front) + Len(d)
        /\ InPlace(front, Needed) /\ InPlace(d, Needed + Len(front)) => InPlace(front \o d, Needed)
    <3>1. front \in Seq(Byte) /\ d \in Seq(Byte) /\ Needed \in Int
      BY <1>2, <1>6, <1>7
    <3> QED BY <3>1, JoinLemma
  <2> QED BY <1>2, <1>4, <1>6, <1>7, <2>1 DEF Good, Kept
<1>9. CallOK' /\ UNCHANGED <<faults, started, chunkMap, tailBuffer>>
  <2>1. m \in 0 .. Len(Rest)
    BY <1>2, LenProperties DEF CallOK, Rest
  <2> QED BY <1>1, <1>2, <1>4, <2>1, WroteLemma
<1>10. StoredOK'
  BY <1>3, <1>4, <1>8, <1>9, SavedLemma
<1> QED BY <1>4, <1>9, <1>10, Frame

LEMMA WriteIntoStep ==
  ASSUME Whole, WriteInto
  PROVE  Whole'
<1> USE DEF Whole
<1>1. /\ call.op = "write" /\ currentPosition < CurrentStoredSize
      /\ currentPosition + Len(call.data) <= ChunkEnd
  BY DEF WriteInto, InChunks, Rest
<1>2. /\ Needed \in DOMAIN chunkMap /\ Needed \in Nat /\ Good(stored[Needed], Needed)
      /\ Loaded => Good(chunkBuffer, Needed)
  BY <1>1, NeededLemma DEF StoredOK
<1>3. PICK k \in Nat, n \in Nat :
        /\ k = currentPosition - Needed /\ currentPosition = Needed + k /\ n = Len(call.data)
        /\ k + n <= chunkMap[Needed] /\ currentPosition + n <= Size
  <2>1. Len(call.data) \in Nat /\ currentPosition \in Nat
    BY LenProperties DEF CallOK
  <2>2. PICK k \in Nat, m \in Nat :
          /\ k = currentPosition - Needed
          /\ k + m = chunkMap[Needed] /\ currentPosition = Needed + k /\ ChunkEnd = currentPosition + m
          /\ currentPosition + m <= CurrentStoredSize
    BY <1>1, PartsLemma
  <2>3. Len(call.data) <= m
    BY <1>1, <2>1, <2>2
  <2>4. currentPosition + Len(call.data) <= Size
    BY <2>1, <2>2, <2>3, SizesLemma
  <2>5. k + Len(call.data) <= chunkMap[Needed]
    BY <2>1, <2>2, <2>3
  <2> QED BY <2>1, <2>2, <2>4, <2>5
<1>4. PICK base, t :
        /\ base = (IF Loaded THEN chunkBuffer ELSE stored[Needed]) /\ t = Over(base, k, call.data)
        /\ stored' = (IF Loaded THEN stored ELSE Flushed)
        /\ currentChunk' = Needed /\ chunkBuffer' = t /\ chunkBufferFlushNeeded' = TRUE /\ Wrote(n)
  BY <1>3 DEF WriteInto, Rest
<1>5. base \in Seq(Byte) /\ Len(base) = chunkMap[Needed] /\ (LoadFails \/ InPlace(base, Needed))
  BY <1>2, <1>4 DEF Good, Kept
<1>6. t \in Seq(Byte) /\ Len(t) = chunkMap[Needed] /\ (LoadFails \/ InPlace(t, Needed))
  <2>1. call.data \in Seq(Byte) /\ (LoadFails \/ InPlace(call.data, Needed + k))
    BY <1>1, <1>3 DEF CallOK, Kept
  <2> QED BY <1>2, <1>3, <1>4, <1>5, <2>1, OverLemma
<1>7. CallOK' /\ UNCHANGED <<faults, started, chunkMap, tailBuffer>>
  <2>1. n \in 0 .. Len(Rest)
    BY <1>3 DEF Rest
  <2> QED BY <1>1, <1>3, <1>4, <2>1, WroteLemma
<1>8. StoredOK'
  BY <1>2, <1>4, <1>7, SavedLemma
<1>9. BufferOK' /\ Coherent'
  <2>1. (LoadFails' <=> LoadFails)
    BY <1>7 DEF LoadFails
  <2>3. /\ currentChunk' \in DOMAIN chunkMap' /\ chunkBufferFlushNeeded' = TRUE
        /\ (t \in Seq(Byte) /\ (LoadFails' \/ InPlace(t, Needed)) /\ Len(t) = chunkMap'[Needed])
        /\ currentChunk' = Needed /\ chunkBuffer' = t /\ Needed # NoChunk
    BY <1>2, <1>4, <1>6, <1>7, <2>1 DEF NoChunk
  <2> QED BY <2>3 DEF BufferOK, Coherent, Good, Kept
<1> QED BY <1>7, <1>8, <1>9, Frame

LEMMA WriteFailsStep ==
  ASSUME Whole, WriteFails
  PROVE  Whole'
<1>1. currentPosition < CurrentStoredSize
  BY DEF WriteFails, InChunks
<1>2. CASE EvictionFails
  BY <1>2, RefusedStep DEF EvictionFails
<1>3. CASE LoadIntoBufferFails
  BY <1>1, <1>3, LoadFailsStep
<1>4. CASE /\ stored' = (IF Loaded THEN stored ELSE Flushed) /\ NothingLoaded /\ Return(Failure)
           /\ UNCHANGED <<faults, started, chunkMap, tailBuffer, currentPosition>>
  <2>1. stored' \in {stored, Flushed}
    BY <1>4
  <2> QED BY <1>1, <1>4, <2>1, DroppedStep
<1> QED BY <1>2, <1>3, <1>4 DEF WriteFails

(* What follows what the tail took of a write. *)
LEMMA GoOnLemma ==
  ASSUME CallOK, NEW data \in Seq(Byte), GoOnWith(data), started \in BOOLEAN,
         currentPosition' \in Nat, currentPosition' <= Size',
         data # <<>> => LoadFails' \/ InPlace(data, Size')
  PROVE  CallOK' /\ started' \in BOOLEAN
<1>1. CASE call' = NoCall
  BY <1>1, ReturnedLemma DEF GoOnWith
<1>2. CASE data # <<>> /\ call' = [call EXCEPT !.op = "append", !.data = data] /\ started' = TRUE
  <2>1. /\ call'.op = "append" /\ call'.data = data /\ call'.count = call.count
        /\ DOMAIN call' = DOMAIN call
    BY <1>2 DEF CallOK
  <2>2. call.count \in Nat /\ DOMAIN call = {"op", "count", "data", "content", "from"}
    BY DEF CallOK
  <2>3. Kept(call.data, Size)'
    BY <1>2, <2>1 DEF Kept
  <2> QED BY <1>2, <2>1, <2>2, <2>3 DEF CallOK
<1> QED BY <1>1, <1>2 DEF GoOnWith, Return

LEMMA WriteTailStep ==
  ASSUME Whole, WriteTail
  PROVE  Whole'
<1> USE DEF Whole
<1>1. /\ call.op = "write" /\ currentPosition >= CurrentStoredSize
      /\ UNCHANGED <<faults, chunkMap, stored, bufferVars>>
  BY DEF WriteTail
<1> DEFINE d == call.data
<1>2. PICK n \in Nat, l \in Nat, k \in Nat, z \in Nat :
        /\ d \in Seq(Byte) /\ n = Len(d) /\ l = Len(tailBuffer)
        /\ z = CurrentStoredSize /\ k = currentPosition - CurrentStoredSize
        /\ currentPosition = z + k /\ k <= l
        /\ LoadFails \/ InPlace(d, z + k)
  <2>1. /\ currentPosition \in Nat /\ CurrentStoredSize \in Nat /\ Len(tailBuffer) \in Nat
        /\ Len(call.data) \in Nat /\ call.data \in Seq(Byte)
        /\ currentPosition <= CurrentStoredSize + Len(tailBuffer)
    BY SizesLemma, LenProperties DEF CallOK
  <2>2. /\ currentPosition - CurrentStoredSize \in Nat
        /\ currentPosition = CurrentStoredSize + (currentPosition - CurrentStoredSize)
        /\ currentPosition - CurrentStoredSize <= Len(tailBuffer)
    BY <1>1, <2>1
  <2>3. LoadFails \/ InPlace(call.data, currentPosition)
    BY <1>1 DEF CallOK, Kept
  <2> QED BY <2>1, <2>2, <2>3
<1>3. tailBuffer \in Seq(Byte) /\ (LoadFails \/ InPlace(tailBuffer, z))
  BY <1>2 DEF TailOK, Kept
<1>4. /\ CurrentStoredSize' = z /\ (LoadFails' <=> LoadFails)
      /\ Tiled' /\ StoredOK' /\ BufferOK' /\ Coherent' /\ started \in BOOLEAN
  BY <1>1, <1>2, Frame DEF TailOK
<1>5. CASE tailBuffer' = <<>> /\ GoOnWith(call.data) /\ UNCHANGED currentPosition /\ k = 0
  <2>1. <<>> \in Seq(Byte) /\ Len(<<>>) = 0 /\ InPlace(<<>>, z)
    BY EmptySeq DEF InPlace
  <2>2. Size' = z
    BY <1>2, <1>4, <1>5, <2>1 DEF Size
  <2>3. currentPosition' \in Nat /\ currentPosition' <= Size' /\ (LoadFails' \/ InPlace(d, Size'))
    BY <1>2, <1>4, <1>5, <2>2
  <2>4. CallOK' /\ started' \in BOOLEAN
    BY <1>2, <1>4, <1>5, <2>3, GoOnLemma
  <2>5. TailOK'
    BY <1>4, <1>5, <2>1, <2>4 DEF TailOK, Kept
  <2> QED BY <1>4, <2>4, <2>5
<1>6. ASSUME NEW m \in Nat, m <= n, k + m <= l, m = n \/ k + m = l,
             tailBuffer' = Over(tailBuffer, k, Take(d, m)), currentPosition' = currentPosition + m,
             GoOnWith(Drop(d, m))
      PROVE  Whole'
  <2>1. PICK t : t = Take(d, m) /\ t \in Seq(Byte) /\ Len(t) = m /\ (InPlace(d, z + k) => InPlace(t, z + k))
    <3>1. m \in 0 .. Len(d) /\ z + k \in Int
      BY <1>2, <1>6
    <3> QED BY <1>2, <3>1, TakeLemma
  <2>2. PICK r : /\ r = Drop(d, m) /\ r \in Seq(Byte) /\ Len(r) = n - m
                 /\ InPlace(d, z + k) => InPlace(r, z + k + m)
    <3>1. m \in 0 .. Len(d) /\ z + k \in Int
      BY <1>2, <1>6
    <3> QED BY <1>2, <3>1, DropLemma
  <2>3. /\ tailBuffer' \in Seq(Byte) /\ Len(tailBuffer') = l
        /\ InPlace(tailBuffer, z) /\ InPlace(t, z + k) => InPlace(tailBuffer', z)
    <3>1. k + Len(t) <= Len(tailBuffer)
      BY <1>2, <1>6, <2>1
    <3> QED BY <1>2, <1>3, <1>6, <2>1, <3>1, OverLemma
  <2>4. Size' = z + l
    BY <1>4, <2>3 DEF Size
  <2>5. currentPosition' \in Nat /\ currentPosition' <= Size'
    BY <1>2, <1>6, <2>4
  <2>6. r # <<>> => LoadFails' \/ InPlace(r, Size')
    <3>1. r # <<>> => Len(r) # 0
      BY <2>2, EmptySeq
    <3>2. r # <<>> => z + k + m = z + l
      BY <1>2, <1>6, <2>2, <3>1
    <3> QED BY <1>2, <1>4, <2>2, <2>4, <3>2
  <2>7. CallOK' /\ started' \in BOOLEAN
    BY <1>4, <1>6, <2>2, <2>5, <2>6, GoOnLemma
  <2>8. TailOK'
    BY <1>2, <1>3, <1>4, <2>1, <2>3, <2>7 DEF TailOK, Kept
  <2> QED BY <1>4, <2>7, <2>8
<1>7. PICK m \in Nat : m = Smaller(n, l - k) /\ m <= n /\ k + m <= l /\ (m = n \/ k + m = l)
  <2>1. /\ Smaller(n, l - k) \in Nat /\ Smaller(n, l - k) <= n /\ k + Smaller(n, l - k) <= l
        /\ Smaller(n, l - k) = n \/ k + Smaller(n, l - k) = l
    BY <1>2 DEF Smaller
  <2> QED BY <2>1
<1>8. \/ tailBuffer' = <<>> /\ GoOnWith(call.data) /\ UNCHANGED currentPosition /\ k = 0
      \/ /\ tailBuffer' = Over(tailBuffer, k, Take(d, m)) /\ currentPosition' = currentPosition + m
         /\ GoOnWith(Drop(d, m))
  BY <1>2, <1>7 DEF WriteTail, Rest
<1> QED BY <1>5, <1>6, <1>7, <1>8

------------------------------------------------------------------------------
(* append, flush and truncate                                              *)

(* A chunk added at the end of the stored bytes. *)
LEMMA AddStep ==
  ASSUME Tiled, StoredOK, BufferOK, Coherent, UNCHANGED <<faults, bufferVars>>,
         NEW payload, Kept(payload, CurrentStoredSize), Len(payload) > 0,
         AddChunkLocation(CurrentStoredSize, payload)
  PROVE  /\ Tiled' /\ StoredOK' /\ BufferOK' /\ Coherent' /\ (LoadFails' <=> LoadFails)
         /\ CurrentStoredSize' = CurrentStoredSize + Len(payload)
<1>1. PICK z : z = CurrentStoredSize /\ z = EndOf(chunkMap)
  BY DEF CurrentStoredSize, EndOf
<1>2. /\ chunkMap' = [x \in DOMAIN chunkMap \cup {z} |-> IF x = z THEN Len(payload) ELSE chunkMap[x]]
      /\ stored' = [x \in DOMAIN stored \cup {z} |-> IF x = z THEN payload ELSE stored[x]]
  BY <1>1 DEF AddChunkLocation
<1>3. Len(payload) \in Nat
  BY LenProperties DEF Kept
<1>4. Tiles(chunkMap') /\ EndOf(chunkMap') = z + Len(payload) /\ z \notin DOMAIN chunkMap
  BY <1>1, <1>2, <1>3, AddedLemma DEF Tiled
<1>5. /\ DOMAIN chunkMap' = DOMAIN chunkMap \cup {z} /\ DOMAIN stored' = DOMAIN chunkMap'
      /\ chunkMap'[z] = Len(payload) /\ stored'[z] = payload
      /\ \A o \in DOMAIN chunkMap : chunkMap'[o] = chunkMap[o] /\ stored'[o] = stored[o]
  BY <1>2, <1>4 DEF StoredOK
<1>6. LoadFails' <=> LoadFails
  BY DEF LoadFails
<1>7. StoredOK'
  BY <1>1, <1>5, <1>6 DEF StoredOK, Good, Kept
<1>8. BufferOK' /\ Coherent'
  BY <1>5, <1>6 DEF bufferVars, BufferOK, Coherent, Good, Kept
<1>9. CurrentStoredSize' = EndOf(chunkMap')
  BY DEF CurrentStoredSize, EndOf
<1> QED BY <1>1, <1>4, <1>6, <1>7, <1>8, <1>9 DEF Tiled

LEMMA AppendChunkStep ==
  ASSUME Whole, NEW c \in Capacities, AppendChunk(c)
  PROVE  Whole'
<1> USE DEF Whole
<1> DEFINE d == call.data
<1>1. PICK n \in Nat, l \in Nat, z \in Nat :
        /\ d \in Seq(Byte) /\ n = Len(d) /\ l = Len(tailBuffer) /\ z = CurrentStoredSize
        /\ Size = z + l /\ (LoadFails \/ InPlace(d, z + l))
  <2>1. call.op = "append"
    BY DEF AppendChunk
  <2> QED BY <2>1, SizesLemma, LenProperties DEF CallOK, Kept
<1>2. c \in Nat /\ c > 0 /\ l + n > 0
  <2>1. c \in Nat /\ c > 0 /\ TailSize \in Nat /\ c < TailSize
    BY FileAssumption
  <2>2. TailSize - l <= n
    BY <1>1 DEF AppendChunk, TailWouldFill, Rest
  <2> QED BY <2>1, <2>2
<1>3. PICK m \in Nat, t \in Nat :
        /\ m = Smaller(c, l + n) /\ t = Smaller(m, l) /\ m > 0 /\ m <= l + n /\ t <= l /\ t <= m
        /\ m - t \in Nat /\ m - t <= n /\ (t = m \/ t = l)
  <2>1. PICK m \in Nat : m = Smaller(c, l + n) /\ m > 0 /\ m <= l + n
    BY <1>2 DEF Smaller
  <2>2. PICK t \in Nat : t = Smaller(m, l) /\ t <= l /\ t <= m /\ (t = m \/ t = l)
    <3>1. /\ Smaller(m, l) \in Nat /\ Smaller(m, l) <= l /\ Smaller(m, l) <= m
          /\ Smaller(m, l) = m \/ Smaller(m, l) = l
      BY DEF Smaller
    <3> QED BY <3>1
  <2>3. m - t \in Nat /\ m - t <= n
    BY <2>1, <2>2
  <2> QED BY <2>1, <2>2, <2>3
<1>4. PICK j, p :
        /\ j = tailBuffer \o d /\ p = Take(j, m)
        /\ AddChunkLocation(z, p) /\ tailBuffer' = Drop(tailBuffer, t)
        /\ call' = [call EXCEPT !.data = Drop(d, m - t)]
        /\ UNCHANGED <<faults, started, bufferVars, currentPosition>>
  BY <1>1, <1>3 DEF AppendChunk, Rest
<1>5. tailBuffer \in Seq(Byte) /\ (LoadFails \/ InPlace(tailBuffer, z)) /\ started \in BOOLEAN
  BY <1>1 DEF TailOK, Kept
<1>6. j \in Seq(Byte) /\ Len(j) = l + n /\ (LoadFails \/ InPlace(j, z))
  <2>1. /\ tailBuffer \o d \in Seq(Byte) /\ Len(tailBuffer \o d) = Len(tailBuffer) + Len(d)
        /\ InPlace(tailBuffer, z) /\ InPlace(d, z + Len(tailBuffer)) => InPlace(tailBuffer \o d, z)
    BY <1>1, <1>5, JoinLemma
  <2> QED BY <1>1, <1>4, <1>5, <2>1
<1>7. p \in Seq(Byte) /\ Len(p) = m /\ (LoadFails \/ InPlace(p, z))
  <2>1. m \in 0 .. Len(j) /\ z \in Int /\ j \in Seq(Byte)
    BY <1>3, <1>6
  <2>2. /\ Take(j, m) \in Seq(Byte) /\ Len(Take(j, m)) = m
        /\ InPlace(j, z) => InPlace(Take(j, m), z)
    BY <2>1, TakeLemma
  <2> QED BY <1>4, <1>6, <2>2
<1>8. /\ Tiled' /\ StoredOK' /\ BufferOK' /\ Coherent' /\ (LoadFails' <=> LoadFails)
      /\ CurrentStoredSize' = z + m
  BY <1>1, <1>3, <1>4, <1>7, AddStep DEF Kept
<1>9. /\ tailBuffer' \in Seq(Byte) /\ Len(tailBuffer') = l - t
      /\ InPlace(tailBuffer, z) => InPlace(tailBuffer', z + t)
  <2>1. t \in 0 .. Len(tailBuffer)
    BY <1>1, <1>3
  <2> QED BY <1>1, <1>4, <1>5, <2>1, DropLemma
<1>10. LoadFails \/ InPlace(tailBuffer', z + m)
  <2>1. CASE t = m
    BY <1>5, <1>9, <2>1
  <2>2. CASE t = l
    <3>1. Len(tailBuffer') = 0
      BY <1>9, <2>2
    <3> QED BY <3>1 DEF InPlace
  <2> QED BY <1>3, <2>1, <2>2
<1>11. TailOK'
  BY <1>4, <1>5, <1>8, <1>9, <1>10 DEF TailOK, Kept
<1>12. Size' = z + l + (m - t)
  <2>1. z + m + (l - t) = z + l + (m - t)
    OBVIOUS
  <2> QED BY <1>8, <1>9, <2>1 DEF Size
<1>13. PICK r : /\ r = Drop(d, m - t) /\ r \in Seq(Byte)
                /\ InPlace(d, z + l) => InPlace(r, z + l + (m - t))
  <2>1. m - t \in 0 .. Len(d) /\ z + l \in Int
    BY <1>1, <1>3
  <2> QED BY <1>1, <2>1, DropLemma
<1>14. CallOK'
  <2>1. /\ call'.op = "append" /\ call'.data = r /\ call'.count = call.count
        /\ DOMAIN call' = DOMAIN call
    BY <1>4, <1>13 DEF CallOK, AppendChunk
  <2>2. currentPosition' \in Nat /\ currentPosition' <= Size'
    <3>1. currentPosition \in Nat /\ currentPosition <= z + l
      BY <1>1 DEF CallOK
    <3> QED BY <1>3, <1>4, <1>12, <3>1
  <2>3. LoadFails' \/ InPlace(call'.data, Size')
    BY <1>1, <1>8, <1>12, <1>13, <2>1
  <2> QED BY <1>13, <2>1, <2>2, <2>3 DEF CallOK, Kept
<1> QED BY <1>8, <1>11, <1>14

LEMMA AppendRestStep ==
  ASSUME Whole, AppendRest
  PROVE  Whole'
<1> USE DEF Whole
<1>1. /\ call.op = "append" /\ tailBuffer' = tailBuffer \o call.data
      /\ currentPosition' = CurrentStoredSize + Len(tailBuffer') /\ call' = NoCall
      /\ UNCHANGED <<faults, started, chunkMap, stored, bufferVars>>
  BY DEF AppendRest, Rest, Return, mediaVars
<1>2. /\ tailBuffer' \in Seq(Byte) /\ (LoadFails \/ InPlace(tailBuffer', CurrentStoredSize))
  <2>1. /\ tailBuffer \in Seq(Byte) /\ call.data \in Seq(Byte) /\ CurrentStoredSize \in Int
        /\ LoadFails \/ InPlace(tailBuffer, CurrentStoredSize)
        /\ LoadFails \/ InPlace(call.data, CurrentStoredSize + Len(tailBuffer))
    BY <1>1, SizesLemma DEF CallOK, TailOK, Kept
  <2> QED BY <1>1, <2>1, JoinLemma
<1>3. CurrentStoredSize' = CurrentStoredSize /\ (LoadFails' <=> LoadFails)
  BY <1>1, Frame
<1>4. TailOK'
  BY <1>1, <1>2, <1>3 DEF TailOK, Kept
<1>5. Len(tailBuffer') \in Nat /\ CurrentStoredSize \in Nat
  BY <1>2, SizesLemma, LenProperties
<1>6. currentPosition' \in Nat /\ currentPosition' <= Size'
  BY <1>1, <1>3, <1>5 DEF Size
<1>7. CallOK'
  BY <1>1, <1>6, ReturnedLemma
<1> QED BY <1>1, <1>4, <1>7, Frame

LEMMA BeginFlushStep ==
  ASSUME Whole, NEW op \in {"flush", "truncate"}, BeginFlush(op)
  PROVE  Whole'
<1> USE DEF Whole
<1>1. /\ call' = [op |-> op, count |-> 0, data |-> <<>>, content |-> Content, from |-> currentPosition]
      /\ started' = TRUE /\ stored' = Flushed /\ chunkBufferFlushNeeded' = FALSE
      /\ UNCHANGED <<faults, chunkMap, currentChunk, chunkBuffer, tailBuffer, currentPosition>>
  BY DEF BeginFlush, Begin
<1>2. LoadFails' <=> LoadFails
  BY <1>1 DEF LoadFails
<1>3. DOMAIN stored' = DOMAIN chunkMap /\ \A o \in DOMAIN chunkMap : Good(stored'[o], o)
  BY <1>1, FlushedLemma
<1>4. StoredOK'
  BY <1>1, <1>2, <1>3 DEF StoredOK, Good, Kept
<1>5. BufferOK'
  BY <1>1, <1>2 DEF BufferOK, Good, Kept
<1>6. Coherent'
  <2>1. CASE LoadFails \/ currentChunk = NoChunk
    BY <1>1, <1>2, <2>1 DEF Coherent
  <2>2. CASE ~LoadFails /\ currentChunk # NoChunk
    <3>1. currentChunk \in DOMAIN stored
      BY <2>2 DEF BufferOK, StoredOK
    <3>2. Flushed[currentChunk] = chunkBuffer
      BY <2>2, <3>1 DEF Coherent, Flushed
    <3> QED BY <1>1, <3>2 DEF Coherent
  <2> QED BY <2>1, <2>2
<1>7. Tiled' /\ Size' = Size /\ CurrentStoredSize' = CurrentStoredSize
  BY <1>1, Frame
<1>8. TailOK'
  BY <1>1, <1>2, <1>7 DEF TailOK, Kept
<1>9. CallOK'
  <2>1. /\ call'.op = op /\ call'.count = 0 /\ call'.data = <<>>
        /\ DOMAIN call' = {"op", "count", "data", "content", "from"}
    BY <1>1
  <2>2. <<>> \in Seq(Byte)
    BY EmptySeq
  <2> QED BY <1>1, <1>7, <2>1, <2>2 DEF CallOK
<1> QED BY <1>4, <1>5, <1>6, <1>7, <1>8, <1>9

LEMMA FlushTailStep ==
  ASSUME Whole, NEW c \in Capacities, FlushTail(c)
  PROVE  Whole'
<1> USE DEF Whole
<1>1. PICK l \in Nat, z \in Nat :
        /\ l = Len(tailBuffer) /\ z = CurrentStoredSize /\ Size = z + l /\ l > 0
        /\ tailBuffer \in Seq(Byte) /\ (LoadFails \/ InPlace(tailBuffer, z))
  <2>1. tailBuffer \in Seq(Byte) /\ (LoadFails \/ InPlace(tailBuffer, CurrentStoredSize))
    BY DEF TailOK, Kept
  <2>2. Len(tailBuffer) # 0
    BY <2>1, EmptySeq DEF FlushTail
  <2> QED BY <2>1, <2>2, SizesLemma
<1>2. PICK m \in Nat : m = Smaller(c, l) /\ m > 0 /\ m <= l
  <2>1. c \in Nat /\ c > 0
    BY FileAssumption
  <2> QED BY <1>1, <2>1 DEF Smaller
<1>3. /\ AddChunkLocation(CurrentStoredSize, Take(tailBuffer, m)) /\ tailBuffer' = Drop(tailBuffer, m)
      /\ UNCHANGED <<faults, started, bufferVars, currentPosition, call>>
      /\ call.op \in {"flush", "truncate"}
  BY <1>1, <1>2 DEF FlushTail, Flushing
<1>4. m \in 0 .. Len(tailBuffer) /\ z \in Int
  BY <1>1, <1>2
<1>5. /\ Take(tailBuffer, m) \in Seq(Byte) /\ Len(Take(tailBuffer, m)) = m
      /\ InPlace(tailBuffer, z) => InPlace(Take(tailBuffer, m), z)
  BY <1>1, <1>4, TakeLemma
<1>6. /\ tailBuffer' \in Seq(Byte) /\ Len(tailBuffer') = l - m
      /\ InPlace(tailBuffer, z) => InPlace(tailBuffer', z + m)
  BY <1>1, <1>3, <1>4, DropLemma
<1>7. Kept(Take(tailBuffer, m), CurrentStoredSize) /\ Len(Take(tailBuffer, m)) > 0
  BY <1>1, <1>2, <1>5 DEF Kept
<1>8. /\ Tiled' /\ StoredOK' /\ BufferOK' /\ Coherent' /\ (LoadFails' <=> LoadFails)
      /\ CurrentStoredSize' = z + m
  BY <1>1, <1>3, <1>5, <1>7, AddStep
<1>9. TailOK'
  BY <1>1, <1>3, <1>6, <1>8 DEF TailOK, Kept
<1>10. Size' = Size
  BY <1>1, <1>6, <1>8 DEF Size
<1>11. CallOK'
  BY <1>3, <1>10 DEF CallOK
<1> QED BY <1>8, <1>9, <1>11

LEMMA TruncateStep ==
  ASSUME Whole, TruncateChunks
  PROVE  Whole'
<1> USE DEF Whole
<1>1. /\ tailBuffer = <<>> /\ NothingLoaded /\ call' = NoCall
      /\ UNCHANGED <<faults, started, tailBuffer, currentPosition>>
  BY DEF TruncateChunks, Return
<1>2. /\ chunkMap' = [o \in {x \in DOMAIN chunkMap : x < currentPosition} |->
                        Smaller(chunkMap[o], currentPosition - o)]
      /\ stored' = [o \in {x \in DOMAIN chunkMap : x < currentPosition} |->
                      Take(stored[o], Smaller(chunkMap[o], currentPosition - o))]
  BY DEF TruncateChunks
<1>3. currentPosition \in Nat /\ currentPosition <= EndOf(chunkMap)
  BY <1>1, SizesLemma DEF CallOK
<1>4. /\ Tiles(chunkMap') /\ EndOf(chunkMap') = currentPosition
      /\ \A o \in DOMAIN chunkMap' : o \in DOMAIN chunkMap /\ chunkMap'[o] <= chunkMap[o]
  BY <1>2, <1>3, CutLemma DEF Tiled
<1>5. /\ DOMAIN stored' = DOMAIN chunkMap'
      /\ \A o \in DOMAIN chunkMap' : stored'[o] = Take(stored[o], chunkMap'[o])
  BY <1>2
<1>6. LoadFails' <=> LoadFails
  BY <1>1 DEF LoadFails
<1>7. ASSUME NEW o \in DOMAIN chunkMap'
      PROVE  /\ stored'[o] \in Seq(Byte) /\ Len(stored'[o]) = chunkMap'[o]
             /\ LoadFails \/ InPlace(stored'[o], o)
  <2>1. /\ o \in DOMAIN chunkMap /\ o \in Int /\ stored[o] \in Seq(Byte) /\ Len(stored[o]) = chunkMap[o]
        /\ LoadFails \/ InPlace(stored[o], o)
    BY <1>4 DEF StoredOK, Good, Kept, Tiled, Tiles
  <2>2. chunkMap'[o] \in 0 .. Len(stored[o])
    BY <1>4, <2>1 DEF Tiles, Tiled
  <2>3. /\ Take(stored[o], chunkMap'[o]) \in Seq(Byte) /\ Len(Take(stored[o], chunkMap'[o])) = chunkMap'[o]
        /\ InPlace(stored[o], o) => InPlace(Take(stored[o], chunkMap'[o]), o)
    BY <2>1, <2>2, TakeLemma
  <2> QED BY <1>5, <2>1, <2>3
<1>8. StoredOK'
  BY <1>5, <1>6, <1>7 DEF StoredOK, Good, Kept
<1>9. BufferOK' /\ Coherent'
  BY <1>1 DEF NothingLoaded, BufferOK, Coherent
<1>10. Tiled' /\ CurrentStoredSize' = currentPosition
  BY <1>4 DEF Tiled, CurrentStoredSize, EndOf
<1>11. TailOK' /\ Size' = currentPosition
  <2>1. <<>> \in Seq(Byte) /\ Len(<<>>) = 0 /\ InPlace(<<>>, currentPosition)
    BY EmptySeq DEF InPlace
  <2> QED BY <1>1, <1>3, <1>10, <2>1 DEF TailOK, Kept, Size
<1>12. CallOK'
  BY <1>1, <1>3, <1>11, ReturnedLemma
<1> QED BY <1>8, <1>9, <1>10, <1>11, <1>12

------------------------------------------------------------------------------
(* Calls that begin, and what happens between them. *)

LEMMA BeginStep ==
  ASSUME Whole, NEW op \in {"read", "write", "append"}, NEW n \in Nat, NEW d, Begin(op, n, d),
         op = "read" => d = <<>> /\ currentPosition + n <= Size,
         op = "write" => Kept(d, currentPosition), op = "append" => Kept(d, Size),
         started' \in {started, TRUE},
         UNCHANGED <<faults, chunkMap, stored, bufferVars, tailBuffer, currentPosition>>
  PROVE  Whole'
<1> USE DEF Whole
<1>1. /\ call'.op = op /\ call'.count = n /\ call'.data = d
      /\ DOMAIN call' = {"op", "count", "data", "content", "from"}
  BY DEF Begin
<1>2. Size' = Size /\ CurrentStoredSize' = CurrentStoredSize /\ (LoadFails' <=> LoadFails)
  BY Frame
<1>3. <<>> \in Seq(Byte) /\ Len(<<>>) = 0
  BY EmptySeq
<1>4. CallOK'
  <2>1. d \in Seq(Byte) /\ currentPosition' \in Nat /\ currentPosition' <= Size'
    BY <1>2, <1>3 DEF CallOK, Kept
  <2>2. CASE op = "read"
    <3>1. Len(call'.data) = 0 /\ 0 <= n /\ currentPosition' + (n - 0) <= Size'
      BY <1>1, <1>2, <1>3, <2>2
    <3>2. Len(call'.data) <= call'.count /\ currentPosition' + (call'.count - Len(call'.data)) <= Size'
      BY <1>1, <3>1
    <3> QED BY <1>1, <2>1, <2>2, <3>2 DEF CallOK, ToRead
  <2>3. CASE op = "write" \/ op = "append"
    BY <1>1, <1>2, <2>1, <2>3 DEF CallOK, Kept
  <2> QED BY <2>2, <2>3
<1>5. TailOK'
  BY <1>2 DEF TailOK, Kept
<1> QED BY <1>4, <1>5, Frame

LEMMA BeginReadStep ==
  ASSUME Whole, NEW n \in 0 .. MaxCount, BeginRead(n)
  PROVE  Whole'
<1>1. PICK m \in Nat : m = Smaller(n, Size - currentPosition) /\ currentPosition + m <= Size
  <2>1. currentPosition \in Nat /\ Size \in Nat /\ currentPosition <= Size /\ n \in Nat
    BY SizesLemma DEF Whole, CallOK
  <2>2. PICK k \in Nat : k = Size - currentPosition
    <3>1. Size - currentPosition \in Nat
      BY <2>1
    <3> QED BY <3>1
  <2>3. Smaller(n, k) \in Nat /\ Smaller(n, k) <= k
    BY <2>1 DEF Smaller
  <2> QED BY <2>1, <2>2, <2>3
<1>2. Begin("read", m, <<>>) /\ UNCHANGED <<mediaVars, bufferVars, tailBuffer, currentPosition>>
  BY <1>1 DEF BeginRead
<1> QED BY <1>1, <1>2, BeginStep DEF mediaVars

LEMMA BeginWriteStep ==
  ASSUME Whole, NEW n \in 0 .. MaxCount, NEW v \in Versions, BeginWrite(n, v) \/ BeginAppend(n, v)
  PROVE  Whole'
<1>1. n \in Nat
  OBVIOUS
<1>2. CASE BeginWrite(n, v)
  <2>1. Begin("write", n, Data(currentPosition, n, v))
        /\ UNCHANGED <<faults, started, chunkMap, stored, bufferVars, tailBuffer, currentPosition>>
    BY <1>2 DEF BeginWrite, mediaVars
  <2>2. Kept(Data(currentPosition, n, v), currentPosition)
    BY <1>1, DataLemma DEF Whole, CallOK, Kept
  <2> QED BY <1>1, <2>1, <2>2, BeginStep
<1>3. CASE BeginAppend(n, v)
  <2>1. Begin("append", n, Data(Size, n, v)) /\ started' = TRUE
        /\ UNCHANGED <<faults, chunkMap, stored, bufferVars, tailBuffer, currentPosition>>
    BY <1>3 DEF BeginAppend
  <2>2. Size \in Nat
    BY SizesLemma DEF Whole
  <2>3. Kept(Data(Size, n, v), Size)
    BY <1>1, <2>2, DataLemma DEF Kept
  <2> QED BY <1>1, <2>1, <2>3, BeginStep
<1> QED BY <1>2, <1>3

LEMMA BetweenStep ==
  ASSUME Whole, (\E p \in 0 .. Size : SetPosition(p)) \/ RefusedAtOnce \/ Reopen
  PROVE  Whole'
<1> USE DEF Whole
<1>1. CASE (\E p \in 0 .. Size : SetPosition(p)) \/ RefusedAtOnce
  <2>1. Size \in Nat
    BY SizesLemma
  <2>2. /\ UNCHANGED <<faults, started, chunkMap, stored, bufferVars, tailBuffer, call>>
        /\ currentPosition' \in Nat /\ currentPosition' <= Size /\ call.op = "none"
    BY <1>1, <2>1 DEF SetPosition, RefusedAtOnce, Idle, mediaVars, CallOK
  <2>3. Size' = Size
    BY <2>2, Frame
  <2>4. CallOK'
    BY <2>2, <2>3 DEF CallOK
  <2> QED BY <2>2, <2>4, Frame
<1>2. CASE Reopen
  <2>1. /\ chunkMap' = [o \in DOMAIN stored |-> Len(stored[o])] /\ NothingLoaded
        /\ currentPosition' = 0 /\ tailBuffer = <<>> /\ call.op = "none"
        /\ UNCHANGED <<faults, started, stored, tailBuffer, call>>
    BY <1>2 DEF Reopen, Idle
  <2>2. /\ DOMAIN chunkMap' = DOMAIN chunkMap /\ DOMAIN stored' = DOMAIN chunkMap'
        /\ \A o \in DOMAIN chunkMap : chunkMap'[o] = chunkMap[o]
    BY <2>1 DEF StoredOK, Good
  <2>3. Tiles(chunkMap')
    BY <2>2, Zenon DEF Tiled, Tiles
  <2>4. StoredOK'
    <3>1. LoadFails' <=> LoadFails
      BY <2>1 DEF LoadFails
    <3> QED BY <2>1, <2>2, <3>1 DEF StoredOK, Good, Kept
  <2>5. BufferOK' /\ Coherent'
    BY <2>1 DEF NothingLoaded, BufferOK, Coherent
  <2>6. CurrentStoredSize' = EndOf(chunkMap') /\ EndOf(chunkMap') \in Nat
    BY <2>3, EndLemma DEF CurrentStoredSize, EndOf
  <2>7. TailOK' /\ Size' \in Nat
    <3>1. <<>> \in Seq(Byte) /\ Len(<<>>) = 0 /\ InPlace(<<>>, CurrentStoredSize')
      BY EmptySeq DEF InPlace
    <3> QED BY <2>1, <2>6, <3>1 DEF TailOK, Kept, Size
  <2>8. CallOK'
    BY <2>1, <2>7 DEF CallOK
  <2> QED BY <2>3, <2>4, <2>5, <2>7, <2>8 DEF Tiled
<1> QED BY <1>1, <1>2

------------------------------------------------------------------------------
(* The write that never ends.                                              *)

(* The chunk is saved with no bytes: the write is stuck in it. *)
LEMMA UnloadedStep ==
  ASSUME Whole, WritePastUnloaded
  PROVE  FileInv'
<1> USE DEF Whole
<1>1. /\ call.op = "write" /\ Rest # <<>> /\ currentPosition < CurrentStoredSize
      /\ currentPosition + Len(Rest) > ChunkEnd /\ currentPosition # Needed
      /\ stored' = [Flushed EXCEPT ![Needed] = <<>>] /\ NothingLoaded /\ Wrote(0)
  BY DEF WritePastUnloaded, InChunks
<1>2. Needed \in DOMAIN chunkMap /\ Good(stored[Needed], Needed)
  BY <1>1, NeededLemma DEF StoredOK
<1>3. LoadFails
  BY <1>2 DEF WritePastUnloaded, Readable, Good
<1>4. 0 \in 0 .. Len(Rest) /\ currentPosition + 0 = currentPosition /\ currentPosition <= Size
  BY LenProperties DEF CallOK, Rest
<1>5. /\ CallOK' /\ UNCHANGED <<faults, started, chunkMap, tailBuffer>>
      /\ call'.op = call.op /\ call'.data = Drop(call.data, 0) /\ currentPosition' = currentPosition
  BY <1>1, <1>4, WroteLemma
<1>6. call'.data = call.data
  BY <1>5, SubSeqFull DEF Drop, CallOK
<1>7. Needed' = Needed /\ ChunkEnd' = ChunkEnd /\ CurrentStoredSize' = CurrentStoredSize /\ LoadFails'
  BY <1>3, <1>5 DEF Needed, ChunkEnd, ChunkAt, CurrentStoredSize, LoadFails
<1>8. DOMAIN stored' = DOMAIN chunkMap' /\ stored'[Needed'] = <<>>
  BY <1>1, <1>2, <1>5, <1>7, FlushedLemma
<1>9. Stuck'
  BY <1>1, <1>5, <1>6, <1>7, <1>8 DEF Stuck, InChunks, Rest, NothingLoaded
<1> QED BY <1>1, <1>5, <1>9, Frame DEF FileInv

(* It goes round for good, and changes nothing. *)
LEMMA StuckStep ==
  ASSUME FileInv, Stuck, ~SaveFails, Next
  PROVE  FileInv'
<1> USE DEF FileInv
<1>1. /\ LoadFails /\ call.op = "write" /\ Rest # <<>> /\ currentPosition < CurrentStoredSize
      /\ currentPosition + Len(Rest) > ChunkEnd /\ currentPosition # Needed
      /\ currentChunk = NoChunk /\ DOMAIN stored = DOMAIN chunkMap /\ stored[Needed] = <<>>
  BY DEF Stuck, InChunks
<1>2. /\ Needed \in DOMAIN chunkMap /\ Needed \in Nat /\ chunkMap[Needed] \in Nat /\ chunkMap[Needed] > 0
      /\ ChunkEnd \in Nat /\ currentPosition \in Nat /\ CurrentStoredSize \in Nat /\ Len(Rest) \in Nat
  BY <1>1, NeededLemma, SizesLemma, LenProperties DEF CallOK, Rest
<1>3. ~Readable(Needed) /\ ~Loaded /\ ~Idle
  <2>1. Len(<<>>) = 0
    BY EmptySeq
  <2> QED BY <1>1, <1>2, <2>1 DEF Readable, Loaded, Idle
<1>4. ~(currentPosition - Needed = 0)
  BY <1>1, <1>2
<1>5. ~(currentPosition + Len(Rest) <= ChunkEnd) /\ ~(currentPosition >= CurrentStoredSize)
  BY <1>1, <1>2
<1>6. WritePastUnloaded
  <2>1. ~ReadLoaded /\ ~ReadThrough /\ ~ReadIntoBuffer /\ ~ReadFails /\ ~ReadTail
    BY <1>1 DEF ReadLoaded, ReadThrough, ReadIntoBuffer, ReadFails, ReadTail, Reading
  <2>2. ~WritePast /\ ~WriteInto
    BY <1>3, <1>4, <1>5 DEF WritePast, WriteInto
  <2>3. ~WriteFails /\ ~WriteTail /\ ~WriteEnds
    BY <1>1, <1>5 DEF WriteFails, EvictionFails, WriteTail, WriteEnds
  <2>4. \A c \in Capacities : ~AppendChunk(c) /\ ~FlushTail(c)
    BY <1>1 DEF AppendChunk, FlushTail, Flushing
  <2>5. /\ ~AppendFails /\ ~AppendRest /\ ~FlushEnds /\ ~FlushFails
        /\ ~TruncateChunks /\ ~TruncateNothing /\ ~TruncateFails /\ ~TruncateHalfDone
    BY <1>1 DEF AppendFails, AppendRest, FlushEnds, FlushFails, TruncateChunks, TruncateNothing,
                TruncateFails, TruncateHalfDone
  <2>6. Step => WritePastUnloaded
    BY <2>1, <2>2, <2>3, <2>4, <2>5 DEF Step
  <2>7. ~RefusedAtOnce /\ ~Reopen /\ \A p : ~SetPosition(p)
    BY <1>3 DEF RefusedAtOnce, Reopen, SetPosition
  <2>8. /\ \A n : ~BeginRead(n) /\ \A v : ~BeginWrite(n, v) /\ ~BeginAppend(n, v)
        /\ \A op : ~BeginFlush(op)
    BY <1>3 DEF BeginRead, BeginWrite, BeginAppend, BeginFlush, Begin
  <2> QED BY <2>6, <2>7, <2>8 DEF Next
<1>7. chunkBufferFlushNeeded = FALSE
  BY <1>1 DEF BufferOK
<1>8. stored' = [stored EXCEPT ![Needed] = <<>>] /\ NothingLoaded /\ Wrote(0)
  BY <1>6, <1>7 DEF WritePastUnloaded, Flushed
<1>9. 0 \in 0 .. Len(Rest) /\ currentPosition + 0 = currentPosition /\ currentPosition <= Size
  BY <1>2 DEF CallOK
<1>10. /\ CallOK' /\ UNCHANGED <<faults, started, chunkMap, tailBuffer>>
       /\ call'.op = call.op /\ call'.data = Drop(call.data, 0) /\ currentPosition' = currentPosition
  BY <1>1, <1>8, <1>9, WroteLemma
<1>11. call'.data = call.data
  BY <1>10, SubSeqFull DEF Drop, CallOK
<1>12. Needed' = Needed /\ ChunkEnd' = ChunkEnd /\ CurrentStoredSize' = CurrentStoredSize /\ LoadFails'
  BY <1>1, <1>10 DEF Needed, ChunkEnd, ChunkAt, CurrentStoredSize, LoadFails
<1>13. DOMAIN stored' = DOMAIN chunkMap' /\ stored'[Needed'] = <<>>
  BY <1>1, <1>2, <1>8, <1>10, <1>12
<1>14. Stuck'
  BY <1>1, <1>8, <1>10, <1>11, <1>12, <1>13 DEF Stuck, InChunks, Rest, NothingLoaded
<1> QED BY <1>8, <1>10, <1>14, Frame

------------------------------------------------------------------------------
LEMMA NextStep ==
  ASSUME FileInv, ~(LoadFails /\ SaveFails), Next, ~TruncateHalfDone
  PROVE  FileInv'
<1>1. CASE Stuck
  <2>1. ~SaveFails
    BY <1>1 DEF Stuck
  <2> QED BY <1>1, <2>1, StuckStep
<1>2. CASE ~Stuck
  <2>1. Whole
    BY <1>2 DEF FileInv, Whole
  <2>2. CASE WritePastUnloaded
    BY <2>1, <2>2, UnloadedStep
  <2>3. ASSUME ~WritePastUnloaded PROVE Whole'
    <3>1. CASE ReadLoaded \/ ReadThrough \/ ReadIntoBuffer \/ ReadTail
      BY <2>1, <3>1, ReadStep
    <3>2. CASE ReadFails
      BY <2>1, <3>2, ReadFailsStep
    <3>3. CASE WritePast \/ WriteInto
      BY <2>1, <3>3, WritePastStep, WriteIntoStep
    <3>4. CASE WriteFails \/ WriteTail
      BY <2>1, <3>4, WriteFailsStep, WriteTailStep
    <3>5. CASE \E c \in Capacities : AppendChunk(c) \/ FlushTail(c)
      BY <2>1, <3>5, AppendChunkStep, FlushTailStep
    <3>6. CASE AppendRest \/ TruncateChunks
      BY <2>1, <3>6, AppendRestStep, TruncateStep
    <3>7. CASE WriteEnds \/ AppendFails \/ FlushEnds \/ FlushFails \/ TruncateNothing \/ TruncateFails
      <4>1. /\ Return(<<>>) \/ Return(Failure)
            /\ UNCHANGED <<mediaVars, bufferVars, tailBuffer, currentPosition>>
        BY <3>7 DEF WriteEnds, AppendFails, FlushEnds, FlushFails, TruncateNothing, TruncateFails
      <4> QED BY <2>1, <4>1, RefusedStep
    <3>8. CASE \E n \in 0 .. MaxCount : BeginRead(n)
      BY <2>1, <3>8, BeginReadStep
    <3>9. CASE \E n \in 0 .. MaxCount, v \in Versions : BeginWrite(n, v) \/ BeginAppend(n, v)
      BY <2>1, <3>9, BeginWriteStep
    <3>10. CASE BeginFlush("flush") \/ BeginFlush("truncate")
      BY <2>1, <3>10, BeginFlushStep
    <3>11. CASE (\E p \in 0 .. Size : SetPosition(p)) \/ RefusedAtOnce \/ Reopen
      BY <2>1, <3>11, BetweenStep
    <3> QED BY <2>3, <3>1, <3>2, <3>3, <3>4, <3>5, <3>6, <3>7, <3>8, <3>9, <3>10, <3>11 DEF Next, Step
  <2> QED BY <2>2, <2>3 DEF FileInv, Whole
<1> QED BY <1>1, <1>2

(* The properties that VirtualFile states follow from the invariant. *)
LEMMA InvImplies ==
  ASSUME FileInv
  PROVE  TypeOK /\ ChunksTile /\ CacheCoherent /\ BytesInPlace
<1> USE DEF FileInv
<1>1. \A o \in DOMAIN chunkMap : o \in Nat /\ chunkMap[o] \in Nat
  BY DEF Tiled, Tiles
<1>2. DOMAIN stored = DOMAIN chunkMap
  BY DEF StoredOK, Stuck
<1>3. TypeOK
  BY <1>1, <1>2 DEF TypeOK, BufferOK, TailOK, CallOK
<1>4. ChunksTile
  BY DEF Tiled, Tiles, ChunksTile
<1>5. CacheCoherent
  BY DEF Coherent, CacheCoherent
<1>6. BytesInPlace
  <2>1. ASSUME ~LoadFails
        PROVE  /\ \A o \in DOMAIN stored : stored[o] \in Seq(Byte) /\ InPlace(stored[o], o)
               /\ currentChunk # NoChunk => chunkBuffer \in Seq(Byte) /\ InPlace(chunkBuffer, currentChunk)
               /\ tailBuffer \in Seq(Byte) /\ InPlace(tailBuffer, CurrentStoredSize)
    BY <2>1 DEF StoredOK, Stuck, BufferOK, TailOK, Good, Kept
  <2>2. \A s \in Seq(Byte) : DOMAIN s = 1 .. Len(s)
    BY LenProperties
  <2> QED BY <2>1, <2>2 DEF BytesInPlace, InPlace
<1> QED BY <1>3, <1>4, <1>5, <1>6

(* A truncate that stops half way: what the file does next is not followed. *)
HalfDone == Lost /\ LoadFails /\ TypeOK

LEMMA HalfDoneStep ==
  ASSUME FileInv, TruncateHalfDone
  PROVE  HalfDone'
<1>1. /\ LoadFails /\ call' = [call EXCEPT !.op = "lost"]
      /\ UNCHANGED <<faults, started, chunkBufferFlushNeeded, currentChunk, currentPosition>>
  BY DEF TruncateHalfDone, bufferVars
<1>2. PICK d \in DOMAIN chunkMap :
        LET gone == {o \in DOMAIN chunkMap : currentPosition <= o /\ o < d}
            left(o) == IF o < currentPosition THEN Smaller(chunkMap[o], currentPosition - o) ELSE chunkMap[o]
        IN  /\ chunkMap' = [o \in DOMAIN chunkMap \ gone |-> left(o)]
            /\ stored' = [o \in DOMAIN chunkMap \ gone |-> Take(stored[o], left(o))]
  BY DEF TruncateHalfDone
<1>3. call'.op = "lost"
  BY <1>1 DEF FileInv, CallOK
<1>4. /\ \A o \in DOMAIN chunkMap : o \in Nat /\ chunkMap[o] \in Nat
      /\ started \in BOOLEAN /\ chunkBufferFlushNeeded \in BOOLEAN /\ currentPosition \in Nat
      /\ chunkBufferFlushNeeded => currentChunk # NoChunk
  BY InvImplies DEF TypeOK
<1>5. \A o \in DOMAIN chunkMap' : o \in Nat /\ chunkMap'[o] \in Nat
  BY <1>2, <1>4 DEF Smaller
<1>6. DOMAIN stored' = DOMAIN chunkMap'
  BY <1>2
<1> QED BY <1>1, <1>3, <1>4, <1>5, <1>6 DEF HalfDone, Lost, LoadFails, TypeOK

LEMMA HalfDoneStays ==
  ASSUME HalfDone, [Next]_fileVars
  PROVE  HalfDone' /\ UNCHANGED fileVars
<1>1. call.op = "lost" /\ ~Idle
  BY DEF HalfDone, Lost, Idle
<1>2. /\ ~ReadLoaded /\ ~ReadThrough /\ ~ReadIntoBuffer /\ ~ReadFails /\ ~ReadTail
      /\ ~WritePast /\ ~WritePastUnloaded /\ ~WriteInto /\ ~WriteFails /\ ~WriteTail /\ ~WriteEnds
  BY <1>1 DEF ReadLoaded, ReadThrough, ReadIntoBuffer, ReadFails, ReadTail, Reading, InChunks,
              WritePast, WritePastUnloaded, WriteInto, WriteFails, WriteTail, WriteEnds
<1>3. /\ \A c \in Capacities : ~AppendChunk(c) /\ ~FlushTail(c)
      /\ ~AppendFails /\ ~AppendRest /\ ~FlushEnds /\ ~FlushFails
      /\ ~TruncateChunks /\ ~TruncateNothing /\ ~TruncateFails /\ ~TruncateHalfDone
  BY <1>1 DEF AppendChunk, FlushTail, Flushing, AppendFails, AppendRest, FlushEnds, FlushFails,
              TruncateChunks, TruncateNothing, TruncateFails, TruncateHalfDone
<1>4. /\ \A n : ~BeginRead(n) /\ \A v : ~BeginWrite(n, v) /\ ~BeginAppend(n, v)
      /\ \A op : ~BeginFlush(op)
      /\ ~RefusedAtOnce /\ ~Reopen /\ \A p : ~SetPosition(p)
  BY <1>1 DEF BeginRead, BeginWrite, BeginAppend, BeginFlush, Begin, RefusedAtOnce, Reopen, SetPosition
<1>5. ~Next
  BY <1>2, <1>3, <1>4 DEF Next, Step
<1>6. UNCHANGED fileVars
  BY <1>5
<1> QED BY <1>6 DEF fileVars, HalfDone, Lost, LoadFails, TypeOK

LEMMA InitStep ==
  ASSUME Init
  PROVE  FileInv
<1>1. /\ started = FALSE /\ chunkMap = <<>> /\ stored = <<>> /\ tailBuffer = <<>>
      /\ currentChunk = NoChunk /\ chunkBuffer = <<>> /\ chunkBufferFlushNeeded = FALSE
      /\ currentPosition = 0 /\ call = NoCall
  BY DEF Init
<1>2. <<>> \in Seq(Byte) /\ Len(<<>>) = 0 /\ DOMAIN <<>> = {}
  BY EmptySeq
<1>3. Tiled /\ CurrentStoredSize = 0
  BY <1>1, <1>2 DEF Tiled, Tiles, CurrentStoredSize
<1>4. StoredOK /\ BufferOK /\ Coherent
  BY <1>1, <1>2 DEF StoredOK, BufferOK, Coherent
<1>5. TailOK /\ Size = 0
  <2>1. started \in BOOLEAN /\ currentPosition = 0 /\ Len(tailBuffer) = 0 /\ tailBuffer \in Seq(Byte)
    BY <1>1, <1>2
  <2>2. InPlace(tailBuffer, CurrentStoredSize)
    BY <2>1 DEF InPlace
  <2>3. Size = 0
    BY <1>3, <2>1 DEF Size
  <2> QED BY <1>1, <2>1, <2>2, <2>3 DEF TailOK, Kept
<1>6. CallOK
  BY <1>1, <1>2, <1>5 DEF CallOK, NoCall
<1> QED BY <1>3, <1>4, <1>5, <1>6 DEF FileInv

LEMMA StutterStep ==
  ASSUME FileInv, UNCHANGED fileVars
  PROVE  FileInv'
<1>1. /\ UNCHANGED <<faults, started, chunkMap, stored, bufferVars, tailBuffer, currentPosition, call>>
  BY DEF fileVars, bufferVars
<1>2. /\ Tiled' /\ CurrentStoredSize' = CurrentStoredSize /\ (LoadFails' <=> LoadFails)
      /\ BufferOK' /\ Coherent' /\ TailOK' /\ Size' = Size /\ (StoredOK => StoredOK')
  BY <1>1, Frame DEF FileInv
<1>3. CallOK'
  BY <1>1, <1>2 DEF FileInv, CallOK, Kept, ToRead
<1>4. Stuck => Stuck'
  BY <1>1, <1>2 DEF Stuck, InChunks, Rest, ChunkEnd, Needed, ChunkAt, bufferVars
<1> QED BY <1>2, <1>3, <1>4 DEF FileInv

------------------------------------------------------------------------------
(* The media refuses loads or saves, but not both: a chunk saved with no   *)
(* bytes after a load that failed is left behind when a later save fails.  *)
OneRefused == \A f \in Faults : ~({"load", "save"} \subseteq f)

LEMMA FaultsStay ==
  ASSUME [Next]_fileVars
  PROVE  UNCHANGED faults
<1> USE DEF mediaVars, fileVars
<1>1. EvictionFails \/ LoadIntoBufferFails => UNCHANGED faults
  BY DEF EvictionFails, LoadIntoBufferFails
<1>2. ReadLoaded \/ ReadThrough \/ ReadIntoBuffer \/ ReadFails \/ ReadTail => UNCHANGED faults
  BY <1>1 DEF ReadLoaded, ReadThrough, ReadIntoBuffer, ReadFails, ReadTail, CopyOut
<1>3. WritePast \/ WritePastUnloaded \/ WriteInto \/ WriteFails \/ WriteTail \/ WriteEnds => UNCHANGED faults
  BY <1>1 DEF WritePast, WritePastUnloaded, WriteInto, WriteFails, WriteTail, WriteEnds, Wrote
<1>4. \A c \in Capacities : AppendChunk(c) \/ FlushTail(c) => UNCHANGED faults
  BY DEF AppendChunk, FlushTail
<1>5. AppendFails \/ AppendRest \/ FlushEnds \/ FlushFails \/ TruncateChunks \/ TruncateNothing
      \/ TruncateFails \/ TruncateHalfDone => UNCHANGED faults
  BY DEF AppendFails, AppendRest, FlushEnds, FlushFails, TruncateChunks, TruncateNothing, TruncateFails,
         TruncateHalfDone
<1>6. \A n, v : BeginRead(n) \/ BeginWrite(n, v) \/ BeginAppend(n, v) => UNCHANGED faults
  BY DEF BeginRead, BeginWrite, BeginAppend
<1>7. \A p : BeginFlush(p) \/ SetPosition(p) => UNCHANGED faults
  BY DEF BeginFlush, SetPosition
<1>8. RefusedAtOnce \/ Reopen => UNCHANGED faults
  BY DEF RefusedAtOnce, Reopen
<1> QED BY <1>2, <1>3, <1>4, <1>5, <1>6, <1>7, <1>8 DEF Next, Step

(* The invariant, where the media refuses one of the two. *)
LEMMA FileInvariant ==
  ASSUME OneRefused
  PROVE  Spec => [](FileInv \/ HalfDone)
<1> DEFINE Inv == (FileInv \/ HalfDone) /\ faults \in Faults
<1>1. Init => Inv
  BY InitStep DEF Init
<1>2. Inv /\ [Next]_fileVars => Inv'
  <2>1. ASSUME FileInv, faults \in Faults, Next PROVE FileInv' \/ HalfDone'
    <3>1. ~(LoadFails /\ SaveFails)
      BY <2>1 DEF OneRefused, LoadFails, SaveFails
    <3> QED BY <2>1, <3>1, NextStep, HalfDoneStep
  <2> QED BY <2>1, StutterStep, HalfDoneStays, FaultsStay
<1>3. Inv => FileInv \/ HalfDone
  OBVIOUS
<1> HIDE DEF Inv
<1> QED BY <1>1, <1>2, <1>3, PTL DEF Spec

LEMMA HalfDoneImplies == HalfDone => TypeOK /\ ChunksTile
  BY DEF HalfDone, ChunksTile

(* The rest needs no assumption: it says nothing of media that refuses     *)
(* loads.                                                                  *)
LEMMA WithoutLoadFaults == Spec => [](CacheCoherent /\ BytesInPlace)
<1> DEFINE Inv == LoadFails \/ FileInv
<1>1. Init => Inv
  BY InitStep
<1>2. Inv /\ [Next]_fileVars => Inv'
  <2>1. LoadFails /\ [Next]_fileVars => LoadFails'
    BY FaultsStay DEF LoadFails
  <2>2. ~LoadFails /\ FileInv /\ Next => FileInv'
    BY NextStep DEF TruncateHalfDone
  <2> QED BY <2>1, <2>2, StutterStep
<1>3. Inv => CacheCoherent /\ BytesInPlace
  <2>1. LoadFails => CacheCoherent /\ BytesInPlace
    BY DEF CacheCoherent, BytesInPlace
  <2> QED BY <2>1, InvImplies
<1> QED BY <1>1, <1>2, <1>3, PTL DEF Spec

(* The types of a virtual file: the loaded chunk is one of the map, what   *)
(* is to be flushed is loaded, and the media holds the chunks of the map.  *)
THEOREM FileTyped ==
  ASSUME OneRefused
  PROVE  Spec => []TypeOK
BY FileInvariant, InvImplies, HalfDoneImplies, PTL

(* The chunks tile the stored bytes, so that upper_bound and one step back *)
(* is the chunk a position is in, wherever virtual_file_impl.cpp looks.    *)
THEOREM ChunksAlwaysTile ==
  ASSUME OneRefused
  PROVE  Spec => []ChunksTile
BY FileInvariant, InvImplies, HalfDoneImplies, PTL

(* The loaded chunk is never stale, whatever the media refuses. *)
THEOREM CacheAlwaysCoherent == Spec => []CacheCoherent
BY WithoutLoadFaults, PTL

(* No loop of read, write, append, flush or truncate ever shifts a byte,   *)
(* whatever the media refuses.                                             *)
THEOREM BytesAlwaysInPlace == Spec => []BytesInPlace
BY WithoutLoadFaults, PTL

------------------------------------------------------------------------------
(* Rows of bytes, value by value.                                          *)

LEMMA Joined ==
  ASSUME NEW s \in Seq(Byte), NEW t \in Seq(Byte)
  PROVE  \E w \in Seq(Byte) :
           /\ w = s \o t /\ Len(w) = Len(s) + Len(t)
           /\ \A i \in 1 .. Len(s) + Len(t) : w[i] = IF i <= Len(s) THEN s[i] ELSE t[i - Len(s)]
<1>1. PICK w : w = s \o t
  OBVIOUS
<1>2. /\ w \in Seq(Byte) /\ Len(w) = Len(s) + Len(t)
      /\ \A i \in 1 .. Len(s) + Len(t) : w[i] = IF i <= Len(s) THEN s[i] ELSE t[i - Len(s)]
  BY <1>1, ConcatProperties
<1> QED BY <1>1, <1>2

LEMMA Taken ==
  ASSUME NEW s \in Seq(Byte), NEW n \in 0 .. Len(s)
  PROVE  \E w \in Seq(Byte) : w = Take(s, n) /\ Len(w) = n /\ \A i \in 1 .. n : w[i] = s[i]
<1>1. PICK w : w = SubSeq(s, 1, n)
  OBVIOUS
<1>2. w \in Seq(Byte) /\ Len(w) = n /\ \A i \in 1 .. n : w[i] = s[i]
  BY <1>1, FrontLemma
<1> QED BY <1>1, <1>2 DEF Take

LEMMA Dropped ==
  ASSUME NEW s \in Seq(Byte), NEW n \in 0 .. Len(s)
  PROVE  \E w \in Seq(Byte) :
           /\ w = Drop(s, n) /\ Len(w) = Len(s) - n
           /\ \A i \in 1 .. Len(s) - n : w[i] = s[n + i]
<1>1. PICK w : w = SubSeq(s, n + 1, Len(s))
  OBVIOUS
<1>2. w \in Seq(Byte) /\ Len(w) = Len(s) - n /\ \A i \in 1 .. Len(s) - n : w[i] = s[n + i]
  BY <1>1, BackLemma
<1> QED BY <1>1, <1>2 DEF Drop

LEMMA Pieced ==
  ASSUME NEW s \in Seq(Byte), NEW k \in Nat, NEW m \in Nat, k + m <= Len(s)
  PROVE  \E w \in Seq(Byte) :
           w = SubSeq(s, k + 1, k + m) /\ Len(w) = m /\ \A i \in 1 .. m : w[i] = s[k + i]
<1>1. /\ SubSeq(s, k + 1, k + m) \in Seq(Byte) /\ Len(SubSeq(s, k + 1, k + m)) = m
      /\ \A i \in 1 .. m : SubSeq(s, k + 1, k + m)[i] = s[k + i]
  BY PieceLemma
<1> QED BY <1>1

(* Drop(s, n) has nothing when n is the length or more. *)
LEMMA NothingLeft ==
  ASSUME NEW s \in Seq(Byte), NEW n \in Nat, Len(s) <= n
  PROVE  Drop(s, n) = <<>>
<1>1. PICK l \in Int, j \in Int : l = Len(s) /\ j = n + 1 /\ l < j
  BY LenProperties
<1>2. SubSeq(s, j, l) = <<>>
  BY <1>1, SubSeqEmpty
<1> QED BY <1>1, <1>2 DEF Drop

(* Bytes written over some of a row, or past its end. *)
LEMMA Spliced ==
  ASSUME NEW s \in Seq(Byte), NEW k \in Nat, NEW d \in Seq(Byte), k <= Len(s)
  PROVE  \E w \in Seq(Byte) :
           /\ w = Over(s, k, d)
           /\ Len(w) = IF k + Len(d) <= Len(s) THEN Len(s) ELSE k + Len(d)
           /\ \A i \in 1 .. Len(w) :
                w[i] = IF i <= k THEN s[i] ELSE IF i <= k + Len(d) THEN d[i - k] ELSE s[i]
<1>1. PICK l \in Nat, n \in Nat : l = Len(s) /\ n = Len(d) /\ k <= l
  BY LenProperties
<1>2. PICK a \in Seq(Byte) : a = Take(s, k) /\ Len(a) = k /\ \A i \in 1 .. k : a[i] = s[i]
  <2>1. k \in 0 .. Len(s)
    BY <1>1
  <2> QED BY <2>1, Taken
<1>3. PICK b \in Seq(Byte) :
        /\ b = Drop(s, k + n) /\ Len(b) = IF k + n <= l THEN l - (k + n) ELSE 0
        /\ \A i \in 1 .. Len(b) : b[i] = s[k + n + i]
  <2>1. CASE k + n <= l
    <3>1. k + n \in 0 .. Len(s)
      BY <1>1, <2>1
    <3>2. PICK b \in Seq(Byte) : /\ b = Drop(s, k + n) /\ Len(b) = Len(s) - (k + n)
                                 /\ \A i \in 1 .. Len(s) - (k + n) : b[i] = s[k + n + i]
      BY <3>1, Dropped
    <3> QED BY <1>1, <2>1, <3>2
  <2>2. CASE ~(k + n <= l)
    <3>1. k + n \in Nat /\ Len(s) <= k + n
      BY <1>1, <2>2
    <3>2. Drop(s, k + n) = <<>>
      BY <3>1, NothingLeft
    <3>3. PICK b : b = Drop(s, k + n) /\ b \in Seq(Byte) /\ Len(b) = 0
      BY <3>2, EmptySeq
    <3>4. \A i \in 1 .. Len(b) : b[i] = s[k + n + i]
      <4>1. 1 .. 0 = {}
        OBVIOUS
      <4> QED BY <3>3, <4>1
    <3> QED BY <2>2, <3>3, <3>4
  <2> QED BY <2>1, <2>2
<1>4. PICK c \in Seq(Byte) : /\ c = a \o d /\ Len(c) = Len(a) + Len(d)
                             /\ \A i \in 1 .. Len(a) + Len(d) :
                                  c[i] = IF i <= Len(a) THEN a[i] ELSE d[i - Len(a)]
  BY Joined
<1>5. PICK w \in Seq(Byte) : /\ w = c \o b /\ Len(w) = Len(c) + Len(b)
                             /\ \A i \in 1 .. Len(c) + Len(b) :
                                  w[i] = IF i <= Len(c) THEN c[i] ELSE b[i - Len(c)]
  BY Joined
<1>6. Over(s, k, d) = w
  BY <1>1, <1>2, <1>3, <1>4, <1>5 DEF Over
<1>7. Len(c) = k + n /\ Len(w) = IF k + n <= l THEN l ELSE k + n
  <2>1. Len(c) = k + n
    BY <1>1, <1>2, <1>4
  <2>2. Len(w) = k + n + Len(b)
    BY <1>5, <2>1
  <2>3. CASE k + n <= l
    <3>1. Len(b) = l - (k + n)
      BY <1>3, <2>3
    <3>2. k + n + (l - (k + n)) = l
      BY <1>1
    <3> QED BY <2>1, <2>2, <2>3, <3>1, <3>2
  <2>4. CASE ~(k + n <= l)
    <3>1. Len(b) = 0 /\ k + n + 0 = k + n
      BY <1>1, <1>3, <2>4
    <3> QED BY <2>1, <2>2, <2>4, <3>1
  <2> QED BY <2>3, <2>4
<1>8. ASSUME NEW i \in 1 .. Len(w)
      PROVE  w[i] = IF i <= k THEN s[i] ELSE IF i <= k + n THEN d[i - k] ELSE s[i]
  <2>1. CASE i <= k
    BY <1>1, <1>2, <1>4, <1>5, <1>7, <2>1
  <2>2. CASE ~(i <= k) /\ i <= k + n
    <3>1. i \in 1 .. Len(a) + Len(d) /\ ~(i <= Len(a)) /\ i <= Len(c)
      BY <1>1, <1>2, <1>7, <2>2
    <3>2. c[i] = d[i - Len(a)]
      BY <1>4, <3>1
    <3>3. w[i] = c[i]
      BY <1>5, <3>1
    <3> QED BY <1>1, <1>2, <2>2, <3>2, <3>3
  <2>3. CASE ~(i <= k + n)
    <3>1. i - (k + n) \in 1 .. Len(b) /\ k + n + (i - (k + n)) = i /\ ~(i <= k)
      BY <1>1, <1>3, <1>5, <1>7, <2>3
    <3>2. w[i] = b[i - (k + n)]
      BY <1>1, <1>3, <1>5, <1>7, <2>3
    <3> QED BY <1>3, <2>3, <3>1, <3>2
  <2> QED BY <1>1, <2>1, <2>2, <2>3
<1> QED BY <1>1, <1>5, <1>6, <1>7, <1>8

(* Bytes within the front of a row. *)
LEMMA SplicedFront ==
  ASSUME NEW s \in Seq(Byte), NEW t \in Seq(Byte), NEW k \in Nat, NEW d \in Seq(Byte),
         k + Len(d) <= Len(s)
  PROVE  Over(s \o t, k, d) = Over(s, k, d) \o t
<1>1. PICK l \in Nat, n \in Nat, m \in Nat : l = Len(s) /\ n = Len(d) /\ m = Len(t) /\ k + n <= l
  BY LenProperties
<1>2. PICK w \in Seq(Byte) : /\ w = s \o t /\ Len(w) = Len(s) + Len(t)
                             /\ \A i \in 1 .. Len(s) + Len(t) :
                                  w[i] = IF i <= Len(s) THEN s[i] ELSE t[i - Len(s)]
  BY Joined
<1>3. PICK a \in Seq(Byte) :
        /\ a = Over(s, k, d)
        /\ Len(a) = IF k + Len(d) <= Len(s) THEN Len(s) ELSE k + Len(d)
        /\ \A i \in 1 .. Len(a) :
             a[i] = IF i <= k THEN s[i] ELSE IF i <= k + Len(d) THEN d[i - k] ELSE s[i]
  <2>1. k <= Len(s)
    BY <1>1
  <2> QED BY <2>1, Spliced
<1>4. PICK b \in Seq(Byte) :
        /\ b = Over(w, k, d)
        /\ Len(b) = IF k + Len(d) <= Len(w) THEN Len(w) ELSE k + Len(d)
        /\ \A i \in 1 .. Len(b) :
             b[i] = IF i <= k THEN w[i] ELSE IF i <= k + Len(d) THEN d[i - k] ELSE w[i]
  <2>1. k <= Len(w)
    BY <1>1, <1>2
  <2> QED BY <2>1, Spliced
<1>5. PICK c \in Seq(Byte) : /\ c = a \o t /\ Len(c) = Len(a) + Len(t)
                             /\ \A i \in 1 .. Len(a) + Len(t) :
                                  c[i] = IF i <= Len(a) THEN a[i] ELSE t[i - Len(a)]
  BY Joined
<1>6. Len(w) = l + m /\ Len(a) = l /\ Len(b) = l + m /\ Len(c) = l + m
  BY <1>1, <1>2, <1>3, <1>4, <1>5
<1>7. ASSUME NEW i \in 1 .. l + m PROVE b[i] = c[i]
  <2>1. CASE i <= l
    BY <1>1, <1>2, <1>3, <1>4, <1>5, <1>6, <2>1
  <2>2. CASE ~(i <= l)
    <3>1. ~(i <= k) /\ ~(i <= k + n)
      BY <1>1, <2>2
    <3>2. b[i] = w[i]
      BY <1>1, <1>4, <1>6, <3>1
    <3>3. w[i] = t[i - l] /\ c[i] = t[i - l]
      BY <1>1, <1>2, <1>5, <1>6, <2>2
    <3> QED BY <3>2, <3>3
  <2> QED BY <2>1, <2>2
<1>8. b = c
  BY <1>6, <1>7, SeqEqual
<1> QED BY <1>2, <1>3, <1>4, <1>5, <1>8

(* Bytes in what follows it, or beyond. *)
LEMMA SplicedBack ==
  ASSUME NEW s \in Seq(Byte), NEW t \in Seq(Byte), NEW k \in Nat, NEW d \in Seq(Byte),
         k <= Len(t), NEW h \in Nat, h = Len(s) + k
  PROVE  Over(s \o t, h, d) = s \o Over(t, k, d)
<1>1. PICK l \in Nat, n \in Nat, m \in Nat : l = Len(s) /\ n = Len(d) /\ m = Len(t) /\ k <= m
  BY LenProperties
<1>2. PICK w \in Seq(Byte) : /\ w = s \o t /\ Len(w) = Len(s) + Len(t)
                             /\ \A i \in 1 .. Len(s) + Len(t) :
                                  w[i] = IF i <= Len(s) THEN s[i] ELSE t[i - Len(s)]
  BY Joined
<1>3. PICK a \in Seq(Byte) :
        /\ a = Over(t, k, d)
        /\ Len(a) = IF k + Len(d) <= Len(t) THEN Len(t) ELSE k + Len(d)
        /\ \A i \in 1 .. Len(a) :
             a[i] = IF i <= k THEN t[i] ELSE IF i <= k + Len(d) THEN d[i - k] ELSE t[i]
  BY Spliced
<1>4. h = l + k /\ h <= Len(w)
  BY <1>1, <1>2
<1>5. PICK b \in Seq(Byte) :
        /\ b = Over(w, h, d)
        /\ Len(b) = IF h + Len(d) <= Len(w) THEN Len(w) ELSE h + Len(d)
        /\ \A i \in 1 .. Len(b) :
             b[i] = IF i <= h THEN w[i] ELSE IF i <= h + Len(d) THEN d[i - h] ELSE w[i]
  BY <1>4, Spliced
<1>6. PICK c \in Seq(Byte) : /\ c = s \o a /\ Len(c) = Len(s) + Len(a)
                             /\ \A i \in 1 .. Len(s) + Len(a) :
                                  c[i] = IF i <= Len(s) THEN s[i] ELSE a[i - Len(s)]
  BY Joined
<1>7. PICK e \in Nat : e = Len(a) /\ e = IF k + n <= m THEN m ELSE k + n
  BY <1>1, <1>3
<1>8. Len(w) = l + m /\ Len(b) = l + e /\ Len(c) = l + e
  <2>1. Len(w) = l + m /\ Len(c) = l + e
    BY <1>1, <1>2, <1>6, <1>7
  <2>2. CASE k + n <= m
    <3>1. h + n <= l + m /\ e = m
      BY <1>1, <1>4, <1>7, <2>2
    <3> QED BY <1>1, <1>5, <2>1, <3>1
  <2>3. CASE ~(k + n <= m)
    <3>1. ~(h + n <= l + m) /\ h + n = l + e
      BY <1>1, <1>4, <1>7, <2>3
    <3> QED BY <1>1, <1>5, <2>1, <3>1
  <2> QED BY <2>1, <2>2, <2>3
<1>9. ASSUME NEW i \in 1 .. l + e PROVE b[i] = c[i]
  <2>1. CASE i <= l
    <3>1. i <= h /\ i \in 1 .. l + m
      BY <1>1, <1>4, <2>1
    <3>2. b[i] = w[i]
      BY <1>5, <1>8, <3>1
    <3>3. w[i] = s[i] /\ c[i] = s[i]
      BY <1>1, <1>2, <1>6, <1>7, <2>1, <3>1
    <3> QED BY <3>2, <3>3
  <2>2. CASE ~(i <= l)
    <3>1. PICK j \in Nat : j = i - l /\ j \in 1 .. e /\ i = l + j /\ i - h = j - k
      <4>1. i - l \in Nat /\ i - l \in 1 .. e /\ i = l + (i - l) /\ i - h = (i - l) - k
        BY <1>1, <1>4, <1>7, <2>2
      <4> QED BY <4>1
    <3>2. c[i] = a[j]
      BY <1>1, <1>6, <1>7, <2>2, <3>1
    <3>3. CASE j <= k
      <4>1. i <= h /\ i \in 1 .. l + m
        BY <1>1, <1>4, <3>1, <3>3
      <4>2. b[i] = w[i] /\ w[i] = t[j]
        BY <1>1, <1>2, <1>5, <1>8, <2>2, <3>1, <4>1
      <4> QED BY <1>3, <1>7, <3>1, <3>2, <3>3, <4>2
    <3>4. CASE ~(j <= k) /\ j <= k + n
      <4>1. ~(i <= h) /\ i <= h + n
        BY <1>1, <1>4, <3>1, <3>4
      <4>2. b[i] = d[j - k]
        BY <1>1, <1>5, <1>8, <3>1, <4>1
      <4> QED BY <1>1, <1>3, <1>7, <3>1, <3>2, <3>4, <4>2
    <3>5. CASE ~(j <= k) /\ ~(j <= k + n)
      <4>1. ~(i <= h) /\ ~(i <= h + n) /\ i \in 1 .. l + m
        BY <1>1, <1>4, <1>7, <3>1, <3>5
      <4>2. b[i] = w[i] /\ w[i] = t[j]
        BY <1>1, <1>2, <1>5, <1>8, <2>2, <3>1, <4>1
      <4> QED BY <1>1, <1>3, <1>7, <3>1, <3>2, <3>5, <4>2
    <3> QED BY <3>3, <3>4, <3>5
  <2> QED BY <2>1, <2>2
<1>10. b = c
  BY <1>8, <1>9, SeqEqual
<1> QED BY <1>1, <1>2, <1>3, <1>4, <1>5, <1>6, <1>10

(* A row is written over in two goes. *)
LEMMA SplicedTwice ==
  ASSUME NEW s \in Seq(Byte), NEW k \in Nat, NEW d \in Seq(Byte), NEW m \in Nat,
         k <= Len(s), m <= Len(d)
  PROVE  Over(Over(s, k, Take(d, m)), k + m, Drop(d, m)) = Over(s, k, d)
<1>1. PICK l \in Nat, n \in Nat : l = Len(s) /\ n = Len(d) /\ k <= l /\ m <= n
  BY LenProperties
<1>2. PICK f \in Seq(Byte) : f = Take(d, m) /\ Len(f) = m /\ \A i \in 1 .. m : f[i] = d[i]
  <2>1. m \in 0 .. Len(d)
    BY <1>1
  <2> QED BY <2>1, Taken
<1>3. PICK r \in Seq(Byte) : /\ r = Drop(d, m) /\ Len(r) = Len(d) - m
                             /\ \A i \in 1 .. Len(d) - m : r[i] = d[m + i]
  <2>1. m \in 0 .. Len(d)
    BY <1>1
  <2> QED BY <2>1, Dropped
<1>4. PICK a \in Seq(Byte) :
        /\ a = Over(s, k, f)
        /\ Len(a) = IF k + Len(f) <= Len(s) THEN Len(s) ELSE k + Len(f)
        /\ \A i \in 1 .. Len(a) :
             a[i] = IF i <= k THEN s[i] ELSE IF i <= k + Len(f) THEN f[i - k] ELSE s[i]
  BY Spliced
<1>5. PICK h \in Nat : h = k + m /\ h <= Len(a)
  <2>1. k + m <= Len(a)
    <3>1. CASE k + m <= l
      BY <1>1, <1>2, <1>4, <3>1
    <3>2. CASE ~(k + m <= l)
      BY <1>1, <1>2, <1>4, <3>2
    <3> QED BY <3>1, <3>2
  <2> QED BY <2>1
<1>6. PICK b \in Seq(Byte) :
        /\ b = Over(a, h, r)
        /\ Len(b) = IF h + Len(r) <= Len(a) THEN Len(a) ELSE h + Len(r)
        /\ \A i \in 1 .. Len(b) :
             b[i] = IF i <= h THEN a[i] ELSE IF i <= h + Len(r) THEN r[i - h] ELSE a[i]
  BY <1>5, Spliced
<1>7. PICK c \in Seq(Byte) :
        /\ c = Over(s, k, d)
        /\ Len(c) = IF k + Len(d) <= Len(s) THEN Len(s) ELSE k + Len(d)
        /\ \A i \in 1 .. Len(c) :
             c[i] = IF i <= k THEN s[i] ELSE IF i <= k + Len(d) THEN d[i - k] ELSE s[i]
  BY Spliced
<1>8. h + Len(r) = k + n /\ h <= k + n
  BY <1>1, <1>3, <1>5
<1>9. PICK e \in Nat : Len(b) = e /\ Len(c) = e /\ Len(a) <= e /\ (e = l \/ e = k + n) /\ l <= e
  <2>1. CASE k + n <= l
    <3>1. k + m <= l
      BY <1>1, <2>1
    <3>2. Len(a) = l
      BY <1>1, <1>2, <1>4, <3>1
    <3>3. Len(b) = l /\ Len(c) = l
      BY <1>1, <1>6, <1>7, <1>8, <2>1, <3>2
    <3> QED BY <3>2, <3>3
  <2>2. CASE ~(k + n <= l)
    <3>1. Len(c) = k + n
      BY <1>1, <1>7, <2>2
    <3>2. CASE k + m <= l
      <4>1. Len(a) = l
        BY <1>1, <1>2, <1>4, <3>2
      <4>2. Len(b) = k + n
        BY <1>6, <1>8, <2>2, <4>1
      <4> QED BY <1>1, <2>2, <3>1, <4>1, <4>2
    <3>3. CASE ~(k + m <= l)
      <4>1. Len(a) = k + m
        BY <1>1, <1>2, <1>4, <3>3
      <4>2. Len(b) = k + n
        <5>1. CASE k + n <= k + m
          BY <1>1, <1>6, <1>8, <4>1, <5>1
        <5>2. CASE ~(k + n <= k + m)
          BY <1>1, <1>6, <1>8, <4>1, <5>2
        <5> QED BY <5>1, <5>2
      <4> QED BY <1>1, <2>2, <3>1, <4>1, <4>2
    <3> QED BY <3>2, <3>3
  <2> QED BY <2>1, <2>2
<1>10. ASSUME NEW i \in 1 .. e PROVE b[i] = c[i]
  <2>1. CASE i <= h
    <3>1. i \in 1 .. Len(a) /\ i <= k + n
      BY <1>1, <1>5, <1>8, <2>1
    <3>2. b[i] = a[i]
      BY <1>6, <1>9, <2>1
    <3>3. CASE i <= k
      BY <1>4, <1>7, <1>9, <3>1, <3>2, <3>3
    <3>4. CASE ~(i <= k)
      <4>1. a[i] = f[i - k] /\ c[i] = d[i - k]
        BY <1>1, <1>2, <1>4, <1>5, <1>7, <1>9, <2>1, <3>1, <3>4
      <4>2. i - k \in 1 .. m
        BY <1>1, <1>5, <2>1, <3>4
      <4> QED BY <1>2, <3>2, <4>1, <4>2
    <3> QED BY <3>3, <3>4
  <2>2. CASE ~(i <= h) /\ i <= k + n
    <3>1. ~(i <= k)
      BY <1>1, <1>5, <2>2
    <3>2. c[i] = d[i - k]
      BY <1>1, <1>7, <1>9, <2>2, <3>1
    <3>3. b[i] = r[i - h]
      BY <1>6, <1>8, <1>9, <2>2
    <3>4. i - h \in 1 .. Len(d) - m /\ m + (i - h) = i - k
      BY <1>1, <1>5, <2>2
    <3> QED BY <1>3, <3>2, <3>3, <3>4
  <2>3. CASE ~(i <= k + n)
    <3>1. ~(i <= k) /\ ~(i <= h) /\ ~(i <= k + m)
      BY <1>1, <1>5, <1>8, <2>3
    <3>2. c[i] = s[i]
      BY <1>1, <1>7, <1>9, <2>3, <3>1
    <3>3. b[i] = a[i]
      BY <1>6, <1>8, <1>9, <2>3, <3>1
    <3>4. i \in 1 .. Len(a)
      <4>1. e = l /\ i <= l
        BY <1>1, <1>9, <2>3
      <4>2. l <= Len(a)
        <5>1. CASE k + m <= l
          BY <1>1, <1>2, <1>4, <5>1
        <5>2. CASE ~(k + m <= l)
          BY <1>1, <1>2, <1>4, <5>2
        <5> QED BY <5>1, <5>2
      <4> QED BY <1>1, <4>1, <4>2, LenProperties
    <3>5. a[i] = s[i]
      BY <1>1, <1>2, <1>4, <3>1, <3>4
    <3> QED BY <3>2, <3>3, <3>5
  <2> QED BY <1>1, <1>5, <2>1, <2>2, <2>3
<1>11. b = c
  BY <1>9, <1>10, SeqEqual
<1> QED BY <1>2, <1>3, <1>4, <1>5, <1>6, <1>7, <1>11

(* What is written up to the end of a row or past it replaces all of it    *)
(* from there on.                                                          *)
LEMMA SplicedRest ==
  ASSUME NEW s \in Seq(Byte), NEW k \in Nat, NEW d \in Seq(Byte), k <= Len(s), Len(s) <= k + Len(d)
  PROVE  Over(s, k, d) = Take(s, k) \o d
<1>1. k + Len(d) \in Nat /\ k \in 0 .. Len(s)
  BY LenProperties
<1>2. Drop(s, k + Len(d)) = <<>>
  BY <1>1, NothingLeft
<1>3. PICK a \in Seq(Byte) : a = Take(s, k)
  BY <1>1, Taken
<1>4. PICK c \in Seq(Byte) : c = a \o d
  BY Joined
<1>5. c \o <<>> = c
  BY ConcatEmptySeq
<1> QED BY <1>2, <1>3, <1>4, <1>5 DEF Over

LEMMA SplicedEnd ==
  ASSUME NEW s \in Seq(Byte), NEW d \in Seq(Byte)
  PROVE  Over(s, Len(s), d) = s \o d
<1>1. Len(s) \in Nat /\ Len(d) \in Nat /\ Len(s) <= Len(s) + Len(d)
  BY LenProperties
<1>2. Over(s, Len(s), d) = Take(s, Len(s)) \o d
  BY <1>1, SplicedRest
<1> QED BY <1>2, SubSeqFull DEF Take

LEMMA SplicedNone ==
  ASSUME NEW s \in Seq(Byte), NEW k \in Nat, k <= Len(s)
  PROVE  Over(s, k, <<>>) = s
<1>1. PICK l \in Nat, d \in Seq(Byte) : l = Len(s) /\ d = <<>> /\ Len(d) = 0
  BY EmptySeq, LenProperties
<1>2. PICK a \in Seq(Byte) :
        /\ a = Over(s, k, d)
        /\ Len(a) = IF k + Len(d) <= Len(s) THEN Len(s) ELSE k + Len(d)
        /\ \A i \in 1 .. Len(a) :
             a[i] = IF i <= k THEN s[i] ELSE IF i <= k + Len(d) THEN d[i - k] ELSE s[i]
  BY Spliced
<1>3. Len(a) = l /\ \A i \in 1 .. l : a[i] = s[i]
  BY <1>1, <1>2
<1>4. a = s
  BY <1>1, <1>3, SeqEqual
<1> QED BY <1>1, <1>2, <1>4

(* A row taken up to a position and what lies behind it. *)
LEMMA TakenDropped ==
  ASSUME NEW s \in Seq(Byte), NEW n \in 0 .. Len(s)
  PROVE  Take(s, n) \o Drop(s, n) = s
<1>1. PICK k \in Nat, l \in Nat : k = n /\ l = Len(s) /\ k <= l
  BY LenProperties
<1>2. PICK e \in Seq(Byte) : e = <<>> /\ Len(e) = 0
  BY EmptySeq
<1>3. PICK a \in Seq(Byte) : a = Take(s, n)
  BY Taken
<1>4. a \o <<>> = a
  BY ConcatEmptySeq
<1>5. k + 0 = k
  OBVIOUS
<1>6. Over(s, k, e) = a \o Drop(s, k)
  BY <1>1, <1>2, <1>3, <1>4, <1>5 DEF Over
<1> QED BY <1>1, <1>2, <1>3, <1>6, SplicedNone

------------------------------------------------------------------------------
(* The bytes that a map of chunks holds, one chunk behind the other.       *)

Row(f, g) == [i \in 1 .. EndOf(f) |-> g[LastAt(f, i - 1)][i - LastAt(f, i - 1)]]
Fills(f, g) == \A o \in DOMAIN f : g[o] \in Seq(Byte) /\ Len(g[o]) = f[o]

(* Every byte is one of a chunk. *)
LEMMA EveryByte ==
  ASSUME NEW f, Tiles(f), NEW i \in 1 .. EndOf(f)
  PROVE  \E o \in DOMAIN f, j \in Nat :
           /\ o \in Nat /\ f[o] \in Nat /\ j \in 1 .. f[o] /\ i = o + j
           /\ o = LastAt(f, i - 1) /\ j = i - LastAt(f, i - 1)
<1>1. PICK p \in Nat : p = i - 1 /\ p < EndOf(f) /\ i = p + 1
  <2>1. i - 1 \in Nat /\ i - 1 < EndOf(f) /\ i = (i - 1) + 1
    BY EndLemma
  <2> QED BY <2>1
<1>2. PICK o \in DOMAIN f : o = LastAt(f, p) /\ o <= p /\ p < o + f[o]
  BY <1>1, LastAtLemma
<1>3. o \in Nat /\ f[o] \in Nat
  BY DEF Tiles
<1>4. i - o \in Nat /\ i - o \in 1 .. f[o] /\ i = o + (i - o)
  BY <1>1, <1>2, <1>3
<1> QED BY <1>1, <1>2, <1>3, <1>4

LEMMA RowIs ==
  ASSUME NEW f, NEW g, Tiles(f), Fills(f, g)
  PROVE  /\ Row(f, g) \in Seq(Byte) /\ Len(Row(f, g)) = EndOf(f)
         /\ \A o \in DOMAIN f, j \in Nat :
              j \in 1 .. f[o] => o + j \in 1 .. EndOf(f) /\ Row(f, g)[o + j] = g[o][j]
<1>1. EndOf(f) \in Nat
  BY EndLemma
<1>2. ASSUME NEW i \in 1 .. EndOf(f) PROVE g[LastAt(f, i - 1)][i - LastAt(f, i - 1)] \in Byte
  <2>1. PICK o \in DOMAIN f, j \in Nat :
          /\ o \in Nat /\ f[o] \in Nat /\ j \in 1 .. f[o] /\ i = o + j
          /\ o = LastAt(f, i - 1) /\ j = i - LastAt(f, i - 1)
    BY EveryByte
  <2>2. g[o] \in Seq(Byte) /\ Len(g[o]) = f[o]
    BY <2>1 DEF Fills
  <2>3. g[o][j] \in Byte
    BY <2>1, <2>2, ElementOfSeq
  <2> QED BY <2>1, <2>3
<1>3. Row(f, g) \in [1 .. EndOf(f) -> Byte]
  BY <1>2 DEF Row
<1>4. Row(f, g) \in Seq(Byte) /\ Len(Row(f, g)) = EndOf(f)
  BY <1>1, <1>3, RowLemma
<1>5. ASSUME NEW o \in DOMAIN f, NEW j \in Nat, j \in 1 .. f[o]
      PROVE  o + j \in 1 .. EndOf(f) /\ Row(f, g)[o + j] = g[o][j]
  <2>1. o \in Nat /\ f[o] \in Nat /\ o + f[o] <= EndOf(f)
    BY EndLemma DEF Tiles
  <2>2. PICK i \in Nat, p \in Nat : i = o + j /\ p = i - 1 /\ o <= p /\ p < o + f[o] /\ i - o = j
    <3>1. o + j \in Nat /\ (o + j) - 1 \in Nat /\ o <= (o + j) - 1 /\ (o + j) - 1 < o + f[o]
          /\ (o + j) - o = j
      BY <1>5, <2>1
    <3> QED BY <3>1
  <2>3. LastAt(f, p) = o
    BY <2>2, OnlyChunk
  <2>4. i \in 1 .. EndOf(f)
    BY <1>1, <1>5, <2>1, <2>2
  <2>5. Row(f, g)[i] = g[LastAt(f, i - 1)][i - LastAt(f, i - 1)]
    BY <2>4 DEF Row
  <2> QED BY <2>2, <2>3, <2>4, <2>5
<1> QED BY <1>4, <1>5

(* A row with the bytes of each chunk in their places is that of the map. *)
LEMMA OnlyRow ==
  ASSUME NEW f, NEW g, Tiles(f), Fills(f, g), NEW w \in Seq(Byte), Len(w) = EndOf(f),
         \A o \in DOMAIN f, j \in Nat : j \in 1 .. f[o] => w[o + j] = g[o][j]
  PROVE  w = Row(f, g)
<1>1. PICK r \in Seq(Byte) : /\ r = Row(f, g) /\ Len(r) = EndOf(f)
                             /\ \A o \in DOMAIN f, j \in Nat : j \in 1 .. f[o] => r[o + j] = g[o][j]
  BY RowIs
<1>2. ASSUME NEW i \in 1 .. EndOf(f) PROVE w[i] = r[i]
  <2>1. PICK o \in DOMAIN f, j \in Nat : j \in 1 .. f[o] /\ i = o + j
    BY EveryByte
  <2> QED BY <1>1, <2>1
<1>3. w = r
  BY <1>1, <1>2, SeqEqual
<1> QED BY <1>1, <1>3

LEMMA SameRow ==
  ASSUME NEW f, NEW g, NEW h, Tiles(f), \A o \in DOMAIN f : g[o] = h[o]
  PROVE  Row(f, g) = Row(f, h)
<1>1. ASSUME NEW i \in 1 .. EndOf(f)
      PROVE  g[LastAt(f, i - 1)][i - LastAt(f, i - 1)] = h[LastAt(f, i - 1)][i - LastAt(f, i - 1)]
  <2>1. LastAt(f, i - 1) \in DOMAIN f
    BY EveryByte
  <2> QED BY <2>1
<1> QED BY <1>1, Zenon DEF Row

LEMMA LikeRow ==
  ASSUME NEW f, NEW g, NEW f2, NEW g2, Tiles(f), Tiles(f2), Fills(f, g), Fills(f2, g2),
         DOMAIN f2 = DOMAIN f, \A o \in DOMAIN f : f2[o] = f[o] /\ g2[o] = g[o]
  PROVE  Row(f2, g2) = Row(f, g)
<1>1. EndOf(f2) = EndOf(f)
  <2>1. CASE DOMAIN f = {}
    BY <2>1 DEF EndOf
  <2>2. CASE DOMAIN f # {}
    <3>1. PICK z \in DOMAIN f : \A o \in DOMAIN f : o <= z
      BY <2>2 DEF Tiles
    <3> QED BY <3>1, EndLemma
  <2> QED BY <2>1, <2>2
<1>2. PICK r \in Seq(Byte) : /\ r = Row(f, g) /\ Len(r) = EndOf(f)
                             /\ \A o \in DOMAIN f, j \in Nat : j \in 1 .. f[o] => r[o + j] = g[o][j]
  BY RowIs
<1>3. /\ Len(r) = EndOf(f2)
      /\ \A o \in DOMAIN f2, j \in Nat : j \in 1 .. f2[o] => r[o + j] = g2[o][j]
  BY <1>1, <1>2
<1>4. r = Row(f2, g2)
  BY <1>3, OnlyRow
<1> QED BY <1>2, <1>4

(* A chunk more: its bytes follow. *)
Longer(f, m) == [x \in DOMAIN f \cup {EndOf(f)} |-> IF x = EndOf(f) THEN m ELSE f[x]]

LEMMA RowAdded ==
  ASSUME NEW f, NEW g, Tiles(f), Fills(f, g), NEW p \in Seq(Byte), Len(p) > 0, NEW f2, NEW g2,
         f2 = Longer(f, Len(p)),
         g2[EndOf(f)] = p, \A o \in DOMAIN f : g2[o] = g[o]
  PROVE  Row(f2, g2) = Row(f, g) \o p
<1>1. PICK z \in Nat, m \in Nat : z = EndOf(f) /\ m = Len(p)
  BY EndLemma, LenProperties
<1>2. Tiles(f2) /\ EndOf(f2) = z + m /\ z \notin DOMAIN f
  BY <1>1, AddedLemma DEF Longer
<1>3. /\ DOMAIN f2 = DOMAIN f \cup {z} /\ f2[z] = m /\ \A o \in DOMAIN f : f2[o] = f[o]
  BY <1>1, <1>2 DEF Longer
<1>4. Fills(f2, g2)
  BY <1>1, <1>3 DEF Fills
<1>5. PICK r \in Seq(Byte) :
        /\ r = Row(f, g) /\ Len(r) = z
        /\ \A o \in DOMAIN f, j \in Nat :
             j \in 1 .. f[o] => o + j \in 1 .. z /\ r[o + j] = g[o][j]
  BY <1>1, RowIs
<1>6. PICK w \in Seq(Byte) : /\ w = r \o p /\ Len(w) = Len(r) + Len(p)
                             /\ \A i \in 1 .. Len(r) + Len(p) :
                                  w[i] = IF i <= Len(r) THEN r[i] ELSE p[i - Len(r)]
  BY Joined
<1>7. Len(w) = z + m
  BY <1>1, <1>5, <1>6
<1>8. ASSUME NEW o \in DOMAIN f2, NEW j \in Nat, j \in 1 .. f2[o] PROVE w[o + j] = g2[o][j]
  <2>1. CASE o \in DOMAIN f
    <3>1. o + j \in 1 .. z /\ r[o + j] = g[o][j]
      BY <1>3, <1>5, <1>8, <2>1
    <3>2. w[o + j] = r[o + j]
      BY <1>1, <1>5, <1>6, <3>1
    <3> QED BY <2>1, <3>1, <3>2
  <2>2. CASE o = z
    <3>1. j \in 1 .. m
      BY <1>3, <1>8, <2>2
    <3>2. PICK i \in Nat : i = z + j /\ i \in 1 .. z + m /\ ~(i <= z) /\ i - z = j
      <4>1. z + j \in Nat /\ z + j \in 1 .. z + m /\ ~(z + j <= z) /\ (z + j) - z = j
        BY <1>1, <3>1
      <4> QED BY <4>1
    <3>3. w[i] = p[i - z]
      BY <1>1, <1>5, <1>6, <3>2
    <3> QED BY <1>1, <2>2, <3>2, <3>3
  <2> QED BY <1>3, <2>1, <2>2
<1>9. w = Row(f2, g2)
  <2>1. PICK x, y : x = f2 /\ y = g2
    OBVIOUS
  <2>2. /\ Tiles(x) /\ Fills(x, y) /\ Len(w) = EndOf(x)
        /\ \A o \in DOMAIN x, j \in Nat : j \in 1 .. x[o] => w[o + j] = y[o][j]
    BY <1>2, <1>4, <1>7, <1>8, <2>1
  <2>3. w = Row(x, y)
    BY <2>2, OnlyRow
  <2> QED BY <2>1, <2>3
<1> QED BY <1>5, <1>6, <1>9

(* Bytes written over some of a chunk are over those of the row. *)
LEMMA RowSpliced ==
  ASSUME NEW f, NEW g, Tiles(f), Fills(f, g), NEW q \in DOMAIN f, NEW k \in Nat, NEW d \in Seq(Byte),
         k + Len(d) <= f[q], NEW h, h[q] = Over(g[q], k, d),
         \A o \in DOMAIN f : o # q => h[o] = g[o]
  PROVE  Row(f, h) = Over(Row(f, g), q + k, d)
<1>1. PICK n \in Nat, z \in Nat, e \in Nat :
        n = Len(d) /\ z = f[q] /\ e = EndOf(f) /\ q \in Nat /\ k + n <= z /\ q + z <= e
  BY EndLemma, LenProperties DEF Tiles
<1>2. g[q] \in Seq(Byte) /\ Len(g[q]) = z
  BY <1>1 DEF Fills
<1>3. PICK a \in Seq(Byte) :
        /\ a = Over(g[q], k, d)
        /\ Len(a) = IF k + Len(d) <= Len(g[q]) THEN Len(g[q]) ELSE k + Len(d)
        /\ \A i \in 1 .. Len(a) :
             a[i] = IF i <= k THEN g[q][i] ELSE IF i <= k + Len(d) THEN d[i - k] ELSE g[q][i]
  <2>1. k <= Len(g[q])
    BY <1>1, <1>2
  <2> QED BY <1>2, <2>1, Spliced
<1>4. Len(a) = z
  BY <1>1, <1>2, <1>3
<1>5. Fills(f, h)
  BY <1>1, <1>3, <1>4 DEF Fills
<1>6. PICK r \in Seq(Byte) :
        /\ r = Row(f, g) /\ Len(r) = e
        /\ \A o \in DOMAIN f, j \in Nat :
             j \in 1 .. f[o] => o + j \in 1 .. e /\ r[o + j] = g[o][j]
  BY <1>1, RowIs
<1>7. PICK b \in Nat : b = q + k /\ b + n <= e
  BY <1>1
<1>8. PICK w \in Seq(Byte) :
        /\ w = Over(r, b, d)
        /\ Len(w) = IF b + Len(d) <= Len(r) THEN Len(r) ELSE b + Len(d)
        /\ \A i \in 1 .. Len(w) :
             w[i] = IF i <= b THEN r[i] ELSE IF i <= b + Len(d) THEN d[i - b] ELSE r[i]
  <2>1. b <= Len(r)
    BY <1>1, <1>6, <1>7
  <2> QED BY <2>1, Spliced
<1>9. Len(w) = e
  BY <1>1, <1>6, <1>7, <1>8
<1>10. ASSUME NEW o \in DOMAIN f, NEW j \in Nat, j \in 1 .. f[o] PROVE w[o + j] = h[o][j]
  <2>1. PICK i \in Nat : i = o + j /\ i \in 1 .. e /\ r[i] = g[o][j] /\ o \in Nat
    BY <1>1, <1>6, <1>10 DEF Tiles
  <2>2. w[i] = IF i <= b THEN r[i] ELSE IF i <= b + n THEN d[i - b] ELSE r[i]
    BY <1>1, <1>8, <1>9, <2>1
  <2>3. CASE o = q
    <3>1. j \in 1 .. Len(a)
      BY <1>1, <1>4, <1>10, <2>3
    <3>2. a[j] = IF j <= k THEN g[q][j] ELSE IF j <= k + n THEN d[j - k] ELSE g[q][j]
      BY <1>1, <1>3, <3>1
    <3>3. (i <= b <=> j <= k) /\ (i <= b + n <=> j <= k + n) /\ i - b = j - k
      <4>1. i = q + j /\ b = q + k /\ q \in Nat
        BY <1>1, <1>7, <2>1, <2>3
      <4>2. PICK y \in Nat : y = q
        BY <4>1
      <4>3. i = y + j /\ b = y + k
        BY <4>1, <4>2
      <4> QED BY <4>3
    <3> QED BY <1>3, <2>1, <2>2, <2>3, <3>2, <3>3
  <2>4. CASE o # q
    <3>1. i <= b \/ ~(i <= b + n)
      <4>1. o < q => o + f[o] <= q
        BY DEF Tiles
      <4>2. q < o => q + f[q] <= o
        BY DEF Tiles
      <4>3. PICK x \in Nat : x = f[o] /\ j \in 1 .. x
        BY <1>10 DEF Tiles
      <4>4. CASE o < q
        <5>1. PICK y \in Nat, c \in Nat : y = o /\ c = q /\ y + x <= c /\ i = y + j /\ b = c + k
          BY <1>1, <1>7, <2>1, <4>1, <4>3, <4>4
        <5>2. i <= y + x
          BY <4>3, <5>1
        <5>3. y + x <= b
          <6>1. y + x <= c /\ b = c + k
            BY <5>1
          <6> QED BY <6>1
        <5> QED BY <5>2, <5>3
      <4>5. CASE q < o
        <5>1. PICK y \in Nat, c \in Nat : y = o /\ c = q /\ c + z <= y /\ i = y + j /\ b = c + k
          BY <1>1, <1>7, <2>1, <4>2, <4>5
        <5>2. i > y
          BY <4>3, <5>1
        <5>3. b + n <= y
          <6>1. k + n <= z
            BY <1>1
          <6>2. b = c + k /\ c + z <= y
            BY <5>1
          <6> QED BY <6>1, <6>2
        <5> QED BY <5>2, <5>3
      <4>6. o < q \/ q < o
        BY <1>1, <2>1, <2>4
      <4> QED BY <4>4, <4>5, <4>6
    <3>2. ~(i <= b + n) => ~(i <= b)
      OBVIOUS
    <3>3. w[i] = r[i]
      BY <2>2, <3>1, <3>2
    <3>4. h[o] = g[o]
      BY <2>4
    <3> QED BY <2>1, <3>3, <3>4
  <2> QED BY <2>3, <2>4
<1>11. w = Row(f, h)
  <2>1. Len(w) = EndOf(f)
    BY <1>1, <1>9
  <2> QED BY <1>5, <1>10, <2>1, OnlyRow
<1> QED BY <1>6, <1>7, <1>8, <1>11

(* A map cut at a position has the bytes before it. *)
Shorter(f, p) == [o \in {x \in DOMAIN f : x < p} |-> Smaller(f[o], p - o)]

LEMMA RowCut ==
  ASSUME NEW f, NEW g, Tiles(f), Fills(f, g), NEW p \in Nat, p <= EndOf(f), NEW f2, NEW g2,
         f2 = Shorter(f, p),
         \A o \in DOMAIN f2 : g2[o] = Take(g[o], f2[o])
  PROVE  Row(f2, g2) = Take(Row(f, g), p)
<1>1. /\ Tiles(f2) /\ EndOf(f2) = p /\ \A o \in DOMAIN f2 : o \in DOMAIN f /\ f2[o] <= f[o]
  BY CutLemma DEF Shorter
<1>2. PICK e \in Nat : e = EndOf(f) /\ p <= e
  BY EndLemma
<1>3. ASSUME NEW o \in DOMAIN f2
      PROVE  /\ g2[o] \in Seq(Byte) /\ Len(g2[o]) = f2[o] /\ o \in DOMAIN f /\ o \in Nat
             /\ f2[o] \in Nat /\ f[o] \in Nat /\ f2[o] <= f[o] /\ o + f2[o] <= p
             /\ \A j \in 1 .. f2[o] : g2[o][j] = g[o][j]
  <2>1. /\ o \in DOMAIN f /\ o \in Nat /\ f2[o] \in Nat /\ f[o] \in Nat /\ f2[o] <= f[o]
        /\ g[o] \in Seq(Byte) /\ Len(g[o]) = f[o]
    BY <1>1 DEF Tiles, Fills
  <2>2. f2[o] \in 0 .. Len(g[o])
    BY <2>1
  <2>3. o + f2[o] <= p
    BY <1>1, EndLemma
  <2>4. PICK w \in Seq(Byte) : w = Take(g[o], f2[o]) /\ Len(w) = f2[o] /\ \A j \in 1 .. f2[o] : w[j] = g[o][j]
    BY <2>1, <2>2, Taken
  <2> QED BY <2>1, <2>3, <2>4
<1>4. Fills(f2, g2)
  BY <1>3 DEF Fills
<1>5. PICK r \in Seq(Byte) :
        /\ r = Row(f, g) /\ Len(r) = e
        /\ \A o \in DOMAIN f, j \in Nat : j \in 1 .. f[o] => r[o + j] = g[o][j]
  BY <1>2, RowIs
<1>6. PICK w \in Seq(Byte) : w = Take(r, p) /\ Len(w) = p /\ \A i \in 1 .. p : w[i] = r[i]
  <2>1. p \in 0 .. Len(r)
    BY <1>2, <1>5
  <2> QED BY <2>1, Taken
<1>7. ASSUME NEW o \in DOMAIN f2, NEW j \in Nat, j \in 1 .. f2[o] PROVE w[o + j] = g2[o][j]
  <2>1. j \in 1 .. f[o] /\ o + j \in 1 .. p
    BY <1>3, <1>7
  <2> QED BY <1>3, <1>5, <1>6, <1>7, <2>1
<1>8. w = Row(f2, g2)
  BY <1>1, <1>4, <1>6, <1>7, OnlyRow
<1> QED BY <1>5, <1>6, <1>8

(* Bytes of a chunk are those of the row. *)
LEMMA RowPiece ==
  ASSUME NEW f, NEW g, Tiles(f), Fills(f, g), NEW q \in DOMAIN f, NEW k \in Nat, NEW m \in Nat,
         k + m <= f[q], NEW h \in Nat, h = q + k
  PROVE  SubSeq(Row(f, g), h + 1, h + m) = SubSeq(g[q], k + 1, k + m)
<1>1. PICK z \in Nat, e \in Nat, b \in Nat :
        z = f[q] /\ e = EndOf(f) /\ q \in Nat /\ k + m <= z /\ q + z <= e /\ b = q + k /\ b + m <= e
  <2>1. q + k \in Nat /\ q \in Nat /\ f[q] \in Nat /\ EndOf(f) \in Nat /\ q + f[q] <= EndOf(f)
    BY EndLemma DEF Tiles
  <2>2. q + k + m <= EndOf(f)
    BY <2>1
  <2> QED BY <2>1, <2>2
<1>2. g[q] \in Seq(Byte) /\ Len(g[q]) = z
  BY <1>1 DEF Fills
<1>3. PICK r \in Seq(Byte) :
        /\ r = Row(f, g) /\ Len(r) = e
        /\ \A o \in DOMAIN f, j \in Nat : j \in 1 .. f[o] => r[o + j] = g[o][j]
  BY <1>1, RowIs
<1>4. PICK s \in Seq(Byte) :
        s = SubSeq(g[q], k + 1, k + m) /\ Len(s) = m /\ \A i \in 1 .. m : s[i] = g[q][k + i]
  <2>1. k + m <= Len(g[q])
    BY <1>1, <1>2
  <2> QED BY <1>2, <2>1, Pieced
<1>5. PICK t \in Seq(Byte) :
        t = SubSeq(r, b + 1, b + m) /\ Len(t) = m /\ \A i \in 1 .. m : t[i] = r[b + i]
  <2>1. b + m <= Len(r)
    BY <1>1, <1>3
  <2> QED BY <2>1, Pieced
<1>6. ASSUME NEW i \in 1 .. m PROVE t[i] = s[i]
  <2>1. PICK j \in Nat : j = k + i /\ j \in 1 .. f[q] /\ q + j = b + i
    <3>1. PICK y \in Nat : y = q /\ b = y + k
      BY <1>1
    <3>2. k + i \in Nat /\ k + i \in 1 .. z /\ y + (k + i) = b + i
      <4>1. b = y + k /\ k + m <= z
        BY <1>1, <3>1
      <4> QED BY <4>1
    <3>3. PICK j \in Nat : j = k + i /\ j \in 1 .. z /\ y + j = b + i
      BY <3>2
    <3> QED BY <1>1, <3>1, <3>3
  <2>2. r[q + j] = g[q][j]
    BY <1>3, <2>1
  <2>3. t[i] = r[q + j] /\ s[i] = g[q][j]
    BY <1>4, <1>5, <2>1
  <2> QED BY <2>2, <2>3
<1>7. t = s
  BY <1>4, <1>5, <1>6, SeqEqual
<1> QED BY <1>1, <1>3, <1>4, <1>5, <1>7

------------------------------------------------------------------------------
(* The content of the file is the row of its chunks, each where its bytes  *)
(* are newest, and the tail.                                               *)

Held == [o \in DOMAIN chunkMap |-> Payload(o)]

LEMMA HeldLemma ==
  ASSUME Tiled, StoredOK, BufferOK
  PROVE  Fills(chunkMap, Held) /\ \A o \in DOMAIN chunkMap : Held[o] = Payload(o)
<1>1. \A o \in DOMAIN chunkMap : Held[o] = Payload(o)
  BY DEF Held
<1>2. ASSUME NEW o \in DOMAIN chunkMap PROVE Payload(o) \in Seq(Byte) /\ Len(Payload(o)) = chunkMap[o]
  <2>1. CASE o = currentChunk /\ chunkBufferFlushNeeded
    <3>1. Good(chunkBuffer, o) /\ Payload(o) = chunkBuffer
      BY <2>1 DEF BufferOK, Payload
    <3> QED BY <3>1 DEF Good, Kept
  <2>2. CASE ~(o = currentChunk /\ chunkBufferFlushNeeded)
    <3>1. Good(stored[o], o) /\ Payload(o) = stored[o]
      BY <2>2 DEF StoredOK, Payload
    <3> QED BY <3>1 DEF Good, Kept
  <2> QED BY <2>1, <2>2
<1> QED BY <1>1, <1>2 DEF Fills

ContentRows ==
  /\ Content = Row(chunkMap, Held) \o tailBuffer /\ Fills(chunkMap, Held)
  /\ Row(chunkMap, Held) \in Seq(Byte) /\ Len(Row(chunkMap, Held)) = CurrentStoredSize
  /\ Content \in Seq(Byte) /\ Len(Content) = Size

LEMMA ContentIs ==
  ASSUME Tiled, StoredOK, BufferOK, TailOK
  PROVE  ContentRows
<1>1. Fills(chunkMap, Held) /\ \A o \in DOMAIN chunkMap : Held[o] = Payload(o)
  BY HeldLemma
<1>2. CurrentStoredSize = EndOf(chunkMap) /\ Size = CurrentStoredSize + Len(tailBuffer)
  BY SizesLemma
<1>3. StoredBytes(Payload) = Row(chunkMap, Held)
  <2>1. ASSUME NEW i \in 1 .. EndOf(chunkMap)
        PROVE  (LET o == ChunkAt(i - 1) IN IF i - o <= Len(Payload(o)) THEN Payload(o)[i - o] ELSE Junk)
                 = Held[LastAt(chunkMap, i - 1)][i - LastAt(chunkMap, i - 1)]
    <3>1. PICK o \in DOMAIN chunkMap, j \in Nat :
            /\ o \in Nat /\ chunkMap[o] \in Nat /\ j \in 1 .. chunkMap[o]
            /\ o = LastAt(chunkMap, i - 1) /\ j = i - LastAt(chunkMap, i - 1)
      BY EveryByte DEF Tiled
    <3>2. ChunkAt(i - 1) = o
      BY <3>1 DEF ChunkAt, LastAt
    <3>3. Len(Payload(o)) = chunkMap[o] /\ Held[o] = Payload(o)
      BY <1>1 DEF Fills
    <3>4. i - o = j /\ j <= Len(Payload(o))
      BY <3>1, <3>3
    <3> QED BY <3>1, <3>2, <3>3, <3>4
  <2> QED BY <1>2, <2>1 DEF StoredBytes, Row
<1>4. Row(chunkMap, Held) \in Seq(Byte) /\ Len(Row(chunkMap, Held)) = EndOf(chunkMap)
  BY <1>1, RowIs DEF Tiled
<1>5. tailBuffer \in Seq(Byte)
  BY DEF TailOK, Kept
<1>6. PICK w \in Seq(Byte) : w = Row(chunkMap, Held) \o tailBuffer /\ Len(w) = Len(Row(chunkMap, Held)) + Len(tailBuffer)
  BY <1>4, <1>5, Joined
<1>7. Content = w
  BY <1>3, <1>6 DEF Content
<1> QED BY <1>1, <1>2, <1>4, <1>6, <1>7 DEF ContentRows

LEMMA ContentIsNext ==
  ASSUME Tiled', StoredOK', BufferOK', TailOK'
  PROVE  ContentRows'
BY ContentIs, PTL

LEMMA HeldNow ==
  ASSUME BufferOK, NEW o \in DOMAIN chunkMap
  PROVE  Held[o] = IF o = currentChunk /\ chunkBufferFlushNeeded = TRUE THEN chunkBuffer ELSE stored[o]
BY DEF Held, Payload, BufferOK

LEMMA HeldNext ==
  ASSUME BufferOK', NEW o \in DOMAIN chunkMap'
  PROVE  Held'[o] = IF o = currentChunk' /\ chunkBufferFlushNeeded' = TRUE THEN chunkBuffer' ELSE stored'[o]
BY DEF Held, Payload, BufferOK

LEMMA FlushedHeld ==
  ASSUME StoredOK, BufferOK, NEW o \in DOMAIN chunkMap
  PROVE  Flushed[o] = Held[o]
<1>1. Held[o] = IF o = currentChunk /\ chunkBufferFlushNeeded = TRUE THEN chunkBuffer ELSE stored[o]
  BY HeldNow
<1>2. CASE chunkBufferFlushNeeded = TRUE
  <2>1. Flushed = [stored EXCEPT ![currentChunk] = chunkBuffer] /\ o \in DOMAIN stored
    BY <1>2 DEF Flushed, StoredOK
  <2> QED BY <1>1, <1>2, <2>1
<1>3. CASE chunkBufferFlushNeeded # TRUE
  <2>1. Flushed = stored
    BY <1>3 DEF Flushed, BufferOK
  <2> QED BY <1>1, <1>3, <2>1
<1> QED BY <1>2, <1>3

(* The chunk the position is in, where read and write look for it. *)
LEMMA BaseHeld ==
  ASSUME Whole, ~LoadFails, currentPosition < CurrentStoredSize
  PROVE  /\ Needed \in DOMAIN chunkMap
         /\ Held[Needed] = (IF Loaded THEN chunkBuffer ELSE stored[Needed])
         /\ \A o \in DOMAIN chunkMap :
              o # Needed => Held[o] = (IF Loaded THEN stored ELSE Flushed)[o]
<1> USE DEF Whole
<1>1. Needed \in DOMAIN chunkMap /\ (Loaded => currentChunk # NoChunk /\ currentChunk = Needed)
  BY NeededLemma
<1>2. ~Loaded => currentChunk # Needed
  BY NeededLemma DEF Loaded, ChunkEnd, NoChunk
<1>3. \A o \in DOMAIN chunkMap :
        /\ Held[o] = IF o = currentChunk /\ chunkBufferFlushNeeded = TRUE THEN chunkBuffer ELSE stored[o]
        /\ Flushed[o] = Held[o]
  BY HeldNow, FlushedHeld
<1>4. CASE Loaded
  <2>1. chunkBufferFlushNeeded = TRUE \/ chunkBuffer = stored[Needed]
    BY <1>1, <1>4 DEF Coherent
  <2> QED BY <1>1, <1>3, <1>4, <2>1
<1>5. CASE ~Loaded
  BY <1>1, <1>2, <1>3, <1>5
<1> QED BY <1>4, <1>5

(* What a step does to the content. *)
LEMMA SameContent ==
  ASSUME Whole, Whole', UNCHANGED <<chunkMap, tailBuffer>>,
         \A o \in DOMAIN chunkMap : Held'[o] = Held[o]
  PROVE  Content' = Content
<1>1. ContentRows /\ ContentRows'
  BY ContentIs, ContentIsNext DEF Whole
<1>2. Row(chunkMap, Held') = Row(chunkMap, Held)
  BY SameRow DEF Whole, Tiled
<1> QED BY <1>1, <1>2 DEF ContentRows

LEMMA SplicedContent ==
  ASSUME Whole, Whole', UNCHANGED <<chunkMap, tailBuffer>>,
         NEW q \in DOMAIN chunkMap, NEW k \in Nat, NEW d \in Seq(Byte), k + Len(d) <= chunkMap[q],
         Held'[q] = Over(Held[q], k, d), \A o \in DOMAIN chunkMap : o # q => Held'[o] = Held[o]
  PROVE  Content' = Over(Content, q + k, d)
<1>1. ContentRows /\ ContentRows'
  BY ContentIs, ContentIsNext DEF Whole
<1>2. Row(chunkMap, Held') = Over(Row(chunkMap, Held), q + k, d)
  <2>1. Tiles(chunkMap) /\ Fills(chunkMap, Held)
    BY <1>1 DEF Whole, Tiled, ContentRows
  <2> QED BY <2>1, RowSpliced
<1>3. PICK r \in Seq(Byte), t \in Seq(Byte), b \in Nat :
        r = Row(chunkMap, Held) /\ t = tailBuffer /\ b = q + k /\ b + Len(d) <= Len(r)
  <2>1. Row(chunkMap, Held) \in Seq(Byte) /\ Len(Row(chunkMap, Held)) = CurrentStoredSize
    BY <1>1 DEF ContentRows
  <2>2. tailBuffer \in Seq(Byte)
    BY DEF Whole, TailOK, Kept
  <2>3. q \in Nat /\ chunkMap[q] \in Nat /\ q + chunkMap[q] <= CurrentStoredSize /\ CurrentStoredSize \in Nat
    <3>1. Tiles(chunkMap) /\ CurrentStoredSize = EndOf(chunkMap) /\ CurrentStoredSize \in Nat
      BY SizesLemma DEF Whole, Tiled
    <3>2. q + chunkMap[q] <= EndOf(chunkMap)
      BY <3>1, EndLemma
    <3> QED BY <3>1, <3>2 DEF Tiles
  <2>4. PICK x \in Nat, z \in Nat, n \in Nat, e \in Nat :
          x = q /\ z = chunkMap[q] /\ n = Len(d) /\ e = CurrentStoredSize /\ k + n <= z /\ x + z <= e
    BY <2>3, LenProperties
  <2>5. x + k \in Nat /\ x + k + n <= e
    BY <2>4
  <2> QED BY <2>1, <2>2, <2>4, <2>5
<1>4. Over(r \o t, b, d) = Over(r, b, d) \o t
  <2>1. b + Len(d) <= Len(r)
    BY <1>3
  <2> QED BY <2>1, SplicedFront
<1> QED BY <1>1, <1>2, <1>3, <1>4 DEF ContentRows

LEMMA AddedContent ==
  ASSUME Whole, Whole', UNCHANGED bufferVars, NEW p \in Seq(Byte), Len(p) > 0,
         AddChunkLocation(CurrentStoredSize, p)
  PROVE  Content' = (Row(chunkMap, Held) \o p) \o tailBuffer'
<1>1. ContentRows /\ ContentRows'
  BY ContentIs, ContentIsNext DEF Whole
<1>2. PICK z : z = CurrentStoredSize /\ z = EndOf(chunkMap)
  BY SizesLemma DEF Whole
<1>3. Tiles(chunkMap) /\ Fills(chunkMap, Held)
  BY <1>1 DEF Whole, Tiled, ContentRows
<1>4. /\ chunkMap' = [x \in DOMAIN chunkMap \cup {z} |-> IF x = z THEN Len(p) ELSE chunkMap[x]]
      /\ stored' = [x \in DOMAIN stored \cup {z} |-> IF x = z THEN p ELSE stored[x]]
  BY <1>2 DEF AddChunkLocation
<1>5. z \notin DOMAIN chunkMap
  <2>1. Len(p) \in Nat
    BY LenProperties
  <2> QED BY <1>2, <1>3, <2>1, AddedLemma
<1>6. Held'[z] = p /\ \A o \in DOMAIN chunkMap : Held'[o] = Held[o]
  <2>1. /\ DOMAIN chunkMap' = DOMAIN chunkMap \cup {z}
        /\ stored'[z] = p /\ \A o \in DOMAIN chunkMap : stored'[o] = stored[o]
    BY <1>4, <1>5 DEF Whole, StoredOK
  <2>2. \A o \in DOMAIN chunkMap' :
          Held'[o] = IF o = currentChunk' /\ chunkBufferFlushNeeded' = TRUE THEN chunkBuffer' ELSE stored'[o]
    BY HeldNext DEF Whole
  <2>3. \A o \in DOMAIN chunkMap :
          Held[o] = IF o = currentChunk /\ chunkBufferFlushNeeded = TRUE THEN chunkBuffer ELSE stored[o]
    BY HeldNow DEF Whole
  <2>4. chunkBufferFlushNeeded = TRUE => currentChunk # z
    BY <1>5 DEF Whole, BufferOK
  <2> QED BY <2>1, <2>2, <2>3, <2>4 DEF bufferVars
<1>7. Row(chunkMap', Held') = Row(chunkMap, Held) \o p
  <2>1. PICK f, g, f2, g2 : f = chunkMap /\ g = Held /\ f2 = chunkMap' /\ g2 = Held'
    OBVIOUS
  <2>2. /\ Tiles(f) /\ Fills(f, g)
        /\ f2 = Longer(f, Len(p))
        /\ g2[EndOf(f)] = p /\ \A o \in DOMAIN f : g2[o] = g[o]
    BY <1>2, <1>3, <1>4, <1>6, <2>1 DEF Longer
  <2>3. Row(f2, g2) = Row(f, g) \o p
    BY <2>2, RowAdded
  <2> QED BY <2>1, <2>3
<1> QED BY <1>1, <1>7 DEF ContentRows

LEMMA StillRow ==
  ASSUME Whole, Whole', UNCHANGED <<chunkMap, stored, bufferVars>>
  PROVE  Content' = Row(chunkMap, Held) \o tailBuffer'
<1>1. ASSUME NEW o \in DOMAIN chunkMap PROVE Held'[o] = Held[o]
  <2>1. o \in DOMAIN chunkMap' /\ UNCHANGED <<stored, currentChunk, chunkBuffer, chunkBufferFlushNeeded>>
    BY DEF bufferVars
  <2>2. Held[o] = IF o = currentChunk /\ chunkBufferFlushNeeded = TRUE THEN chunkBuffer ELSE stored[o]
    BY HeldNow DEF Whole
  <2>3. Held'[o] = IF o = currentChunk' /\ chunkBufferFlushNeeded' = TRUE THEN chunkBuffer' ELSE stored'[o]
    BY <2>1, HeldNext DEF Whole
  <2> QED BY <2>1, <2>2, <2>3
<1>2. Row(chunkMap, Held') = Row(chunkMap, Held)
  BY <1>1, SameRow DEF Whole, Tiled
<1>3. ContentRows'
  BY ContentIsNext DEF Whole
<1> QED BY <1>2, <1>3 DEF ContentRows

LEMMA StillContent ==
  ASSUME Whole, Whole', UNCHANGED <<chunkMap, tailBuffer, stored, bufferVars>>
  PROVE  Content' = Content
BY StillRow, ContentIs DEF Whole, ContentRows

(* The loaded chunk saved: the bytes are elsewhere, and the same. *)
LEMMA FlushedContent ==
  ASSUME Whole, Whole', UNCHANGED <<chunkMap, tailBuffer>>, stored' = Flushed,
         chunkBufferFlushNeeded' = FALSE
  PROVE  Content' = Content
<1>1. ASSUME NEW o \in DOMAIN chunkMap PROVE Held'[o] = Held[o]
  <2>1. Flushed[o] = Held[o]
    BY FlushedHeld DEF Whole
  <2>2. Held'[o] = IF o = currentChunk' /\ chunkBufferFlushNeeded' = TRUE THEN chunkBuffer' ELSE stored'[o]
    BY HeldNext DEF Whole
  <2> QED BY <2>1, <2>2
<1> QED BY <1>1, SameContent

LEMMA WritePastContent ==
  ASSUME Whole, Whole', ~LoadFails, WritePast
  PROVE  \E m \in Nat :
           /\ m <= Len(Rest) /\ currentPosition + m <= Size /\ Wrote(m)
           /\ Content' = Over(Content, currentPosition, Take(Rest, m))
<1>1. /\ call.op = "write" /\ currentPosition < CurrentStoredSize
      /\ currentPosition + Len(Rest) > ChunkEnd
  BY DEF WritePast, InChunks
<1>2. PICK q \in Nat, k \in Nat, m \in Nat :
        /\ q = Needed /\ k = currentPosition - q /\ m = ChunkEnd - currentPosition
        /\ k + m = chunkMap[q] /\ currentPosition = q + k
        /\ m <= Len(Rest) /\ currentPosition + m <= Size
  <2>1. Len(Rest) \in Nat /\ currentPosition \in Nat /\ Needed \in Nat
    BY <1>1, NeededLemma, LenProperties DEF Whole, CallOK, Rest
  <2>2. PICK k \in Nat, m \in Nat :
          /\ k = currentPosition - Needed /\ m = ChunkEnd - currentPosition
          /\ k + m = chunkMap[Needed] /\ currentPosition = Needed + k /\ ChunkEnd = currentPosition + m
          /\ currentPosition + m <= CurrentStoredSize
    BY <1>1, PartsLemma DEF Whole
  <2>3. m <= Len(Rest)
    BY <1>1, <2>1, <2>2
  <2>4. currentPosition + m <= Size
    BY <2>1, <2>2, SizesLemma DEF Whole
  <2> QED BY <2>1, <2>2, <2>3, <2>4
<1>3. PICK s : s = IF Loaded THEN stored ELSE Flushed
  OBVIOUS
<1>4. PICK base :
        /\ base = (IF Loaded THEN chunkBuffer ELSE stored[q])
        /\ q \in DOMAIN chunkMap /\ Held[q] = base /\ base \in Seq(Byte) /\ Len(base) = k + m
        /\ \A o \in DOMAIN chunkMap : o # q => Held[o] = s[o]
  <2>1. /\ q \in DOMAIN chunkMap /\ Held[q] = (IF Loaded THEN chunkBuffer ELSE stored[q])
        /\ \A o \in DOMAIN chunkMap : o # q => Held[o] = s[o]
    BY <1>1, <1>2, <1>3, BaseHeld
  <2>2. Fills(chunkMap, Held)
    BY HeldLemma DEF Whole
  <2> QED BY <1>2, <2>1, <2>2 DEF Fills
<1>5. PICK d \in Seq(Byte) : d = Take(Rest, m) /\ Len(d) = m
  <2>1. m \in 0 .. Len(Rest) /\ Rest \in Seq(Byte)
    BY <1>2, LenProperties DEF Whole, CallOK, Rest
  <2> QED BY <2>1, Taken
<1>6. /\ stored' = [s EXCEPT ![q] = Take(base, k) \o d]
      /\ NothingLoaded /\ Wrote(m) /\ UNCHANGED <<chunkMap, tailBuffer>>
  BY <1>2, <1>3, <1>4, <1>5 DEF WritePast, Wrote
<1>7. Over(base, k, d) = Take(base, k) \o d
  <2>1. k <= Len(base) /\ Len(base) <= k + Len(d)
    BY <1>4, <1>5
  <2> QED BY <1>4, <2>1, SplicedRest
<1>8. DOMAIN s = DOMAIN chunkMap
  BY <1>3, FlushedLemma DEF Whole, StoredOK
<1>9. ASSUME NEW o \in DOMAIN chunkMap
      PROVE  Held'[o] = IF o = q THEN Over(Held[q], k, d) ELSE Held[o]
  <2>1. o \in DOMAIN chunkMap' /\ chunkBufferFlushNeeded' = FALSE
    BY <1>6 DEF NothingLoaded
  <2>2. Held'[o] = stored'[o]
    BY <2>1, HeldNext DEF Whole
  <2>3. stored'[o] = IF o = q THEN Over(base, k, d) ELSE s[o]
    BY <1>6, <1>7, <1>8
  <2> QED BY <1>4, <2>2, <2>3
<1>10. Content' = Over(Content, q + k, d)
  <2>1. k + Len(d) <= chunkMap[q]
    BY <1>2, <1>5
  <2> QED BY <1>4, <1>6, <1>9, <2>1, SplicedContent
<1> QED BY <1>2, <1>5, <1>6, <1>10

LEMMA WriteIntoContent ==
  ASSUME Whole, Whole', ~LoadFails, WriteInto
  PROVE  \E m \in Nat :
           /\ m <= Len(Rest) /\ currentPosition + m <= Size /\ Wrote(m)
           /\ Content' = Over(Content, currentPosition, Take(Rest, m))
<1>1. /\ call.op = "write" /\ currentPosition < CurrentStoredSize
      /\ currentPosition + Len(Rest) <= ChunkEnd
  BY DEF WriteInto, InChunks
<1>2. PICK q \in Nat, k \in Nat, n \in Nat :
        /\ q = Needed /\ k = currentPosition - q /\ n = Len(Rest)
        /\ k + n <= chunkMap[q] /\ currentPosition = q + k /\ currentPosition + n <= Size
  <2>1. Len(Rest) \in Nat /\ currentPosition \in Nat /\ Needed \in Nat
    BY <1>1, NeededLemma, LenProperties DEF Whole, CallOK, Rest
  <2>2. PICK k \in Nat, m \in Nat :
          /\ k = currentPosition - Needed
          /\ k + m = chunkMap[Needed] /\ currentPosition = Needed + k /\ ChunkEnd = currentPosition + m
          /\ currentPosition + m <= CurrentStoredSize
    BY <1>1, PartsLemma DEF Whole
  <2>3. Len(Rest) <= m
    BY <1>1, <2>1, <2>2
  <2>4. currentPosition + Len(Rest) <= Size
    BY <2>1, <2>2, <2>3, SizesLemma DEF Whole
  <2>5. k + Len(Rest) <= chunkMap[Needed]
    BY <2>1, <2>2, <2>3
  <2> QED BY <2>1, <2>2, <2>4, <2>5
<1>3. PICK s : s = IF Loaded THEN stored ELSE Flushed
  OBVIOUS
<1>4. PICK base :
        /\ base = (IF Loaded THEN chunkBuffer ELSE stored[q])
        /\ q \in DOMAIN chunkMap /\ Held[q] = base
        /\ \A o \in DOMAIN chunkMap : o # q => Held[o] = s[o]
  BY <1>1, <1>2, <1>3, BaseHeld
<1>5. PICK d \in Seq(Byte) : d = Rest /\ Take(Rest, n) = d /\ Len(d) = n
  <2>1. Rest \in Seq(Byte)
    BY DEF Whole, CallOK, Rest
  <2> QED BY <1>2, <2>1, SubSeqFull DEF Take
<1>6. /\ stored' = s /\ currentChunk' = q /\ chunkBuffer' = Over(base, k, d)
      /\ chunkBufferFlushNeeded' = TRUE /\ Wrote(n) /\ UNCHANGED <<chunkMap, tailBuffer>>
  BY <1>2, <1>3, <1>4, <1>5 DEF WriteInto, Wrote
<1>7. ASSUME NEW o \in DOMAIN chunkMap
      PROVE  Held'[o] = IF o = q THEN Over(Held[q], k, d) ELSE Held[o]
  <2>1. o \in DOMAIN chunkMap'
    BY <1>6
  <2>2. Held'[o] = IF o = currentChunk' /\ chunkBufferFlushNeeded' = TRUE THEN chunkBuffer' ELSE stored'[o]
    BY <2>1, HeldNext DEF Whole
  <2> QED BY <1>4, <1>6, <2>2
<1>8. Content' = Over(Content, q + k, d)
  <2>1. k + Len(d) <= chunkMap[q]
    BY <1>2, <1>5
  <2> QED BY <1>4, <1>6, <1>7, <2>1, SplicedContent
<1> QED BY <1>2, <1>5, <1>6, <1>8

LEMMA Associated ==
  ASSUME NEW a \in Seq(Byte), NEW b \in Seq(Byte), NEW c \in Seq(Byte)
  PROVE  (a \o b) \o c = a \o (b \o c)
BY ConcatAssociative

(* Bytes moved from the front of the tail, and of what follows it, to the  *)
(* end of what comes before.                                               *)
SameJoined(a, t, r, m, k, h) ==
  ((a \o Take(t \o r, m)) \o Drop(t, k)) \o Drop(r, h) = (a \o t) \o r

LEMMA MovedOn ==
  ASSUME NEW a \in Seq(Byte), NEW t \in Seq(Byte), NEW r \in Seq(Byte), NEW m \in Nat,
         m <= Len(t) + Len(r), NEW k \in Nat, k = Smaller(m, Len(t)), NEW h, h = m - k
  PROVE  SameJoined(a, t, r, m, k, h)
<1> USE DEF SameJoined
<1>0. \A x, y, z \in Seq(Byte) : (x \o y) \o z = x \o (y \o z)
  BY Associated
<1>1. PICK l \in Nat, n \in Nat : l = Len(t) /\ n = Len(r) /\ m <= l + n
  BY LenProperties
<1>2. PICK j \in Seq(Byte) : /\ j = t \o r /\ Len(j) = Len(t) + Len(r)
                             /\ \A i \in 1 .. Len(t) + Len(r) :
                                  j[i] = IF i <= Len(t) THEN t[i] ELSE r[i - Len(t)]
  BY Joined
<1>3. PICK p \in Seq(Byte) : p = Take(j, m) /\ Len(p) = m /\ \A i \in 1 .. m : p[i] = j[i]
  <2>1. m \in 0 .. Len(j)
    BY <1>1, <1>2
  <2> QED BY <2>1, Taken
<1>4. PICK e \in Seq(Byte) : e = <<>> /\ \A s \in Seq(Byte) : s \o e = s
  BY EmptySeq, ConcatEmptySeq
<1>5. CASE m <= l
  <2>1. k = m /\ h = 0 /\ m \in 0 .. Len(t)
    BY <1>1, <1>5 DEF Smaller
  <2>2. PICK x \in Seq(Byte) : x = Take(t, m) /\ Len(x) = m /\ \A i \in 1 .. m : x[i] = t[i]
    BY <2>1, Taken
  <2>3. ASSUME NEW i \in 1 .. m PROVE p[i] = x[i]
    <3>1. i \in 1 .. l + n /\ i <= l
      BY <1>1, <1>5
    <3> QED BY <1>1, <1>2, <1>3, <2>2, <3>1
  <2>4. p = x
    BY <1>3, <2>2, <2>3, SeqEqual
  <2>5. Drop(r, h) = r
    <3>1. 0 + 1 = 1
      OBVIOUS
    <3> QED BY <2>1, <3>1, SubSeqFull DEF Drop
  <2>6. PICK y \in Seq(Byte) : /\ y = Drop(t, m) /\ Len(y) = Len(t) - m
                               /\ \A i \in 1 .. Len(t) - m : y[i] = t[m + i]
    BY <2>1, Dropped
  <2>7. (a \o x) \o y = a \o t
    <3>1. x \o y = t
      BY <2>1, <2>2, <2>6, TakenDropped
    <3>2. \A z \in Seq(Byte) : (a \o x) \o z = a \o (x \o z)
      BY <1>0
    <3> QED BY <3>1, <3>2
  <2> QED BY <1>2, <1>3, <2>1, <2>2, <2>4, <2>5, <2>6, <2>7
<1>6. CASE ~(m <= l)
  <2>1. k = l /\ l \in 0 .. Len(t)
    BY <1>1, <1>6 DEF Smaller
  <2>2. PICK c \in Nat : c = m - l /\ c \in 0 .. Len(r) /\ m = l + c
    <3>1. m - l \in Nat /\ m - l \in 0 .. Len(r) /\ m = l + (m - l)
      BY <1>1, <1>6
    <3> QED BY <3>1
  <2>3. PICK x \in Seq(Byte) : x = Take(r, c) /\ Len(x) = c /\ \A i \in 1 .. c : x[i] = r[i]
    BY <2>2, Taken
  <2>4. PICK w \in Seq(Byte) : /\ w = t \o x /\ Len(w) = Len(t) + Len(x)
                               /\ \A i \in 1 .. Len(t) + Len(x) :
                                    w[i] = IF i <= Len(t) THEN t[i] ELSE x[i - Len(t)]
    BY Joined
  <2>5. ASSUME NEW i \in 1 .. m PROVE p[i] = w[i]
    <3>1. i \in 1 .. Len(t) + Len(r) /\ i \in 1 .. Len(t) + Len(x)
      <4>1. Len(t) = l /\ Len(r) = n /\ Len(x) = c /\ m = l + c /\ m <= l + n
        BY <1>1, <2>2, <2>3
      <4> QED BY <4>1
    <3>2. CASE i <= l
      BY <1>1, <1>2, <1>3, <2>4, <3>1, <3>2
    <3>3. CASE ~(i <= l)
      <4>1. i - l \in 1 .. c
        BY <2>2, <3>3
      <4>2. p[i] = r[i - l] /\ w[i] = x[i - l]
        BY <1>1, <1>2, <1>3, <2>4, <3>1, <3>3
      <4> QED BY <2>3, <4>1, <4>2
    <3> QED BY <3>2, <3>3
  <2>6. p = w
    <3>1. Len(w) = m
      BY <1>1, <2>2, <2>3, <2>4
    <3> QED BY <1>3, <2>5, <3>1, SeqEqual
  <2>7. Drop(t, k) = <<>>
    BY <1>1, <2>1, NothingLeft
  <2>8. PICK y \in Seq(Byte) : y = Drop(r, c) /\ x \o y = r
    <3>1. PICK y \in Seq(Byte) : /\ y = Drop(r, c) /\ Len(y) = Len(r) - c
                                 /\ \A i \in 1 .. Len(r) - c : y[i] = r[c + i]
      BY <2>2, Dropped
    <3>2. Take(r, c) \o Drop(r, c) = r
      BY <2>2, TakenDropped
    <3> QED BY <2>3, <3>1, <3>2
  <2>9. (a \o w) \o y = (a \o t) \o r
    <3>1. w \o y = t \o r
      <4>1. \A z \in Seq(Byte) : (t \o x) \o z = t \o (x \o z)
        BY <1>0
      <4> QED BY <2>4, <2>8, <4>1
    <3>2. \A z \in Seq(Byte) : (a \o w) \o z = a \o (w \o z)
      BY <1>0
    <3>3. \A z \in Seq(Byte) : (a \o t) \o z = a \o (t \o z)
      BY <1>0
    <3> QED BY <3>1, <3>2, <3>3
  <2>10. a \o w \in Seq(Byte)
    BY ConcatProperties
  <2>11. Take(t \o r, m) = w
    BY <1>2, <1>3, <2>6
  <2>12. (a \o w) \o Drop(t, k) = a \o w
    BY <1>4, <2>7, <2>10
  <2>13. Drop(r, h) = y
    BY <2>1, <2>2, <2>8
  <2> QED BY <2>9, <2>11, <2>12, <2>13
<1> QED BY <1>5, <1>6

LEMMA TakenFront ==
  ASSUME NEW s \in Seq(Byte), NEW t \in Seq(Byte)
  PROVE  Take(s \o t, Len(s)) = s
<1>1. PICK l \in Nat, m \in Nat : l = Len(s) /\ m = Len(t)
  BY LenProperties
<1>2. PICK w \in Seq(Byte) : /\ w = s \o t /\ Len(w) = Len(s) + Len(t)
                             /\ \A i \in 1 .. Len(s) + Len(t) :
                                  w[i] = IF i <= Len(s) THEN s[i] ELSE t[i - Len(s)]
  BY Joined
<1>3. PICK a \in Seq(Byte) : a = Take(w, l) /\ Len(a) = l /\ \A i \in 1 .. l : a[i] = w[i]
  <2>1. l \in 0 .. Len(w)
    BY <1>1, <1>2
  <2> QED BY <2>1, Taken
<1>4. \A i \in 1 .. l : a[i] = s[i]
  BY <1>1, <1>2, <1>3
<1>5. a = s
  BY <1>1, <1>3, <1>4, SeqEqual
<1> QED BY <1>1, <1>2, <1>3, <1>5

(* A piece of the front of a row, and a piece that grows. *)
LEMMA FrontPiece ==
  ASSUME NEW s \in Seq(Byte), NEW t \in Seq(Byte), NEW k \in Nat, NEW m \in Nat, k + m <= Len(s)
  PROVE  SubSeq(s \o t, k + 1, k + m) = SubSeq(s, k + 1, k + m)
<1>1. PICK l \in Nat, n \in Nat : l = Len(s) /\ n = Len(t)
  BY LenProperties
<1>2. PICK w \in Seq(Byte) : /\ w = s \o t /\ Len(w) = Len(s) + Len(t)
                             /\ \A i \in 1 .. Len(s) + Len(t) :
                                  w[i] = IF i <= Len(s) THEN s[i] ELSE t[i - Len(s)]
  BY Joined
<1>3. PICK a \in Seq(Byte) : a = SubSeq(w, k + 1, k + m) /\ Len(a) = m /\ \A i \in 1 .. m : a[i] = w[k + i]
  <2>1. k + m <= Len(w)
    BY <1>1, <1>2
  <2> QED BY <2>1, Pieced
<1>4. PICK b \in Seq(Byte) : b = SubSeq(s, k + 1, k + m) /\ Len(b) = m /\ \A i \in 1 .. m : b[i] = s[k + i]
  BY Pieced
<1>5. ASSUME NEW i \in 1 .. m PROVE a[i] = b[i]
  <2>1. k + i \in 1 .. Len(s) + Len(t) /\ k + i <= Len(s)
    BY <1>1
  <2> QED BY <1>2, <1>3, <1>4, <2>1
<1>6. a = b
  BY <1>3, <1>4, <1>5, SeqEqual
<1> QED BY <1>2, <1>3, <1>4, <1>6

LEMMA BackPiece ==
  ASSUME NEW s \in Seq(Byte), NEW t \in Seq(Byte), NEW k \in Nat, NEW m \in Nat, k + m <= Len(t)
  PROVE  SubSeq(s \o t, Len(s) + k + 1, Len(s) + k + m) = SubSeq(t, k + 1, k + m)
<1>1. PICK l \in Nat, n \in Nat, h \in Nat : l = Len(s) /\ n = Len(t) /\ h = l + k
  BY LenProperties
<1>2. PICK w \in Seq(Byte) : /\ w = s \o t /\ Len(w) = Len(s) + Len(t)
                             /\ \A i \in 1 .. Len(s) + Len(t) :
                                  w[i] = IF i <= Len(s) THEN s[i] ELSE t[i - Len(s)]
  BY Joined
<1>3. PICK a \in Seq(Byte) : a = SubSeq(w, h + 1, h + m) /\ Len(a) = m /\ \A i \in 1 .. m : a[i] = w[h + i]
  <2>1. h + m <= Len(w)
    BY <1>1, <1>2
  <2> QED BY <2>1, Pieced
<1>4. PICK b \in Seq(Byte) : b = SubSeq(t, k + 1, k + m) /\ Len(b) = m /\ \A i \in 1 .. m : b[i] = t[k + i]
  <2>1. k + m <= Len(t)
    OBVIOUS
  <2> QED BY <2>1, Pieced
<1>5. ASSUME NEW i \in 1 .. m PROVE a[i] = b[i]
  <2>1. h + i \in 1 .. Len(s) + Len(t) /\ ~(h + i <= Len(s)) /\ (h + i) - Len(s) = k + i
    BY <1>1
  <2> QED BY <1>2, <1>3, <1>4, <2>1
<1>6. a = b
  BY <1>3, <1>4, <1>5, SeqEqual
<1> QED BY <1>1, <1>2, <1>3, <1>4, <1>6

LEMMA GrownPiece ==
  ASSUME NEW s \in Seq(Byte), NEW k \in Nat, NEW l \in Nat, NEW m \in Nat, k + l + m <= Len(s)
  PROVE  SubSeq(s, k + 1, k + l) \o SubSeq(s, k + l + 1, k + l + m) = SubSeq(s, k + 1, k + (l + m))
<1>1. PICK h \in Nat : h = k + l /\ h + m <= Len(s) /\ h <= Len(s) /\ k + (l + m) <= Len(s)
  <2>1. k + l \in Nat /\ k + l + m <= Len(s) /\ k + l <= Len(s) /\ k + (l + m) <= Len(s)
    BY LenProperties
  <2> QED BY <2>1
<1>2. PICK a \in Seq(Byte) : a = SubSeq(s, k + 1, k + l) /\ Len(a) = l /\ \A i \in 1 .. l : a[i] = s[k + i]
  <2>1. k + l <= Len(s)
    BY <1>1
  <2> QED BY <2>1, Pieced
<1>3. PICK b \in Seq(Byte) : b = SubSeq(s, h + 1, h + m) /\ Len(b) = m /\ \A i \in 1 .. m : b[i] = s[h + i]
  BY <1>1, Pieced
<1>4. PICK n \in Nat : n = l + m /\ k + n <= Len(s)
  BY <1>1
<1>5. PICK c \in Seq(Byte) : c = SubSeq(s, k + 1, k + n) /\ Len(c) = n /\ \A i \in 1 .. n : c[i] = s[k + i]
  <2>1. k + n <= Len(s)
    BY <1>4
  <2> QED BY <2>1, Pieced
<1>6. PICK w \in Seq(Byte) : /\ w = a \o b /\ Len(w) = Len(a) + Len(b)
                             /\ \A i \in 1 .. Len(a) + Len(b) :
                                  w[i] = IF i <= Len(a) THEN a[i] ELSE b[i - Len(a)]
  BY Joined
<1>7. ASSUME NEW i \in 1 .. n PROVE w[i] = c[i]
  <2>1. i \in 1 .. Len(a) + Len(b)
    BY <1>2, <1>3, <1>4
  <2>2. CASE i <= l
    BY <1>2, <1>5, <1>6, <2>1, <2>2
  <2>3. CASE ~(i <= l)
    <3>1. i - l \in 1 .. m /\ h + (i - l) = k + i
      BY <1>1, <1>4, <2>3
    <3>2. w[i] = b[i - l]
      BY <1>2, <1>6, <2>1, <2>3
    <3> QED BY <1>3, <1>5, <3>1, <3>2
  <2> QED BY <2>2, <2>3
<1>8. w = c
  <2>1. Len(w) = n
    BY <1>2, <1>3, <1>4, <1>6
  <2> QED BY <1>5, <1>7, <2>1, SeqEqual
<1> QED BY <1>1, <1>2, <1>3, <1>4, <1>5, <1>6, <1>8

------------------------------------------------------------------------------
(* What each action does to the content.                                   *)

TailFits == Len(tailBuffer) < TailSize

(* What the tail takes of a write, and what is left to append. *)
LEMMA WriteTailContent ==
  ASSUME Whole, Whole', TailFits, WriteTail
  PROVE  \E data \in Seq(Byte) :
           /\ GoOnWith(data)
           /\ Over(Content', currentPosition', data) = Over(Content, currentPosition, Rest)
           /\ currentPosition' + Len(data) = currentPosition + Len(Rest)
           /\ data # <<>> => currentPosition' = Size'
           /\ Len(tailBuffer') < TailSize
<1>1. /\ call.op = "write" /\ Rest # <<>> /\ currentPosition >= CurrentStoredSize
      /\ UNCHANGED <<faults, chunkMap, stored, bufferVars>>
  BY DEF WriteTail
<1>2. PICK d \in Seq(Byte), n \in Nat, l \in Nat, k \in Nat, z \in Nat :
        /\ d = Rest /\ n = Len(d) /\ l = Len(tailBuffer) /\ z = CurrentStoredSize
        /\ k = currentPosition - CurrentStoredSize /\ currentPosition = z + k /\ k <= l
  <2>1. /\ currentPosition \in Nat /\ CurrentStoredSize \in Nat /\ Len(tailBuffer) \in Nat
        /\ Len(Rest) \in Nat /\ Rest \in Seq(Byte)
        /\ currentPosition <= CurrentStoredSize + Len(tailBuffer)
    BY SizesLemma, LenProperties DEF Whole, CallOK, Rest
  <2>2. /\ currentPosition - CurrentStoredSize \in Nat
        /\ currentPosition = CurrentStoredSize + (currentPosition - CurrentStoredSize)
        /\ currentPosition - CurrentStoredSize <= Len(tailBuffer)
    BY <1>1, <2>1
  <2> QED BY <2>1, <2>2
<1>3. PICK r \in Seq(Byte), t \in Seq(Byte), s \in Seq(Byte) :
        /\ r = Row(chunkMap, Held) /\ t = tailBuffer /\ s = Content /\ s = r \o t
        /\ Len(r) = z /\ Len(t) = l /\ Len(s) = z + l
        /\ Content' = r \o tailBuffer'
  <2>1. ContentRows /\ Content' = Row(chunkMap, Held) \o tailBuffer'
    BY <1>1, ContentIs, StillRow DEF Whole
  <2>2. tailBuffer \in Seq(Byte) /\ Size = z + l
    BY <1>2, SizesLemma DEF Whole, TailOK, Kept
  <2> QED BY <1>2, <2>1, <2>2 DEF ContentRows
<1>4. CurrentStoredSize' = z
  BY <1>1, <1>2 DEF CurrentStoredSize
<1>5. CASE k = 0 /\ n >= TailSize /\ tailBuffer' = <<>> /\ GoOnWith(d) /\ UNCHANGED currentPosition
  <2>1. l < n /\ TailSize > 0 /\ TailSize \in Nat
    BY <1>2, <1>5, FileAssumption DEF TailFits
  <2>2. r \o <<>> = r /\ Len(<<>>) = 0
    BY ConcatEmptySeq, EmptySeq
  <2>3. Content' = r
    BY <1>3, <1>5, <2>2
  <2>4. currentPosition = z /\ currentPosition' = z /\ z + k = z
    BY <1>2, <1>5
  <2>5. Over(r, z, d) = r \o d
    BY <1>3, SplicedEnd
  <2>6. Over(s, z, d) = Take(s, z) \o d
    <3>1. z <= Len(s) /\ Len(s) <= z + Len(d)
      BY <1>2, <1>3, <2>1
    <3> QED BY <3>1, SplicedRest
  <2>7. Take(s, z) = r
    BY <1>3, TakenFront
  <2>8. Size' = z /\ Len(tailBuffer') < TailSize
    BY <1>4, <1>5, <2>1, <2>2 DEF Size
  <2> QED BY <1>2, <1>3, <1>5, <2>3, <2>4, <2>5, <2>6, <2>7, <2>8
<1>6. ASSUME NEW m \in Nat, m <= n, k + m <= l, m = n \/ k + m = l,
             tailBuffer' = Over(t, k, Take(d, m)), currentPosition' = currentPosition + m,
             GoOnWith(Drop(d, m))
      PROVE  \E data \in Seq(Byte) :
               /\ GoOnWith(data)
               /\ Over(Content', currentPosition', data) = Over(Content, currentPosition, Rest)
               /\ currentPosition' + Len(data) = currentPosition + Len(Rest)
               /\ data # <<>> => currentPosition' = Size'
               /\ Len(tailBuffer') < TailSize
  <2>1. PICK a \in Seq(Byte) : a = Take(d, m) /\ Len(a) = m /\ \A i \in 1 .. m : a[i] = d[i]
    <3>1. m \in 0 .. Len(d)
      BY <1>2, <1>6
    <3> QED BY <3>1, Taken
  <2>2. PICK b \in Seq(Byte) : /\ b = Drop(d, m) /\ Len(b) = Len(d) - m
                               /\ \A i \in 1 .. Len(d) - m : b[i] = d[m + i]
    <3>1. m \in 0 .. Len(d)
      BY <1>2, <1>6
    <3> QED BY <3>1, Dropped
  <2>3. PICK h \in Nat : h = z + k /\ h = currentPosition /\ h + m = currentPosition' /\ h <= Len(s)
    <3>1. z + k \in Nat /\ z + k <= z + l
      BY <1>2
    <3> QED BY <1>2, <1>3, <1>6, <3>1
  <2>4. Over(s, h, a) = Content'
    <3>1. k <= Len(t)
      BY <1>2, <1>3
    <3>2. h = Len(r) + k
      <4>1. Len(r) = z /\ h = z + k
        BY <1>3, <2>3
      <4> QED BY <4>1
    <3>3. Over(r \o t, h, a) = r \o Over(t, k, a)
      BY <3>1, <3>2, SplicedBack
    <3>4. Content' = r \o Over(t, k, a) /\ s = r \o t
      BY <1>3, <1>6, <2>1
    <3> QED BY <3>3, <3>4
  <2>5. Over(Over(s, h, Take(d, m)), h + m, Drop(d, m)) = Over(s, h, d)
    <3>1. m <= Len(d)
      BY <1>2, <1>6
    <3> QED BY <2>3, <3>1, SplicedTwice
  <2>6. h + m + Len(b) = h + Len(d)
    BY <1>2, <1>6, <2>2
  <2>7. PICK y \in Seq(Byte) : y = tailBuffer' /\ Len(y) = l
    <3>1. PICK y \in Seq(Byte) :
            /\ y = Over(t, k, a)
            /\ Len(y) = IF k + Len(a) <= Len(t) THEN Len(t) ELSE k + Len(a)
            /\ \A i \in 1 .. Len(y) :
                 y[i] = IF i <= k THEN t[i] ELSE IF i <= k + Len(a) THEN a[i - k] ELSE t[i]
      <4>1. k <= Len(t)
        BY <1>2, <1>3
      <4> QED BY <4>1, Spliced
    <3> QED BY <1>3, <1>6, <2>1, <3>1
  <2>8. b # <<>> => h + m = Size'
    <3>1. b # <<>> => Len(b) # 0
      BY EmptySeq
    <3>2. Len(b) # 0 => k + m = l
      BY <1>2, <1>6, <2>2
    <3>3. Size' = z + l
      BY <1>4, <2>7 DEF Size
    <3>4. k + m = l => z + k + m = z + l
      BY <1>2, <1>6
    <3> QED BY <2>3, <3>1, <3>2, <3>3, <3>4
  <2>9. Len(tailBuffer') < TailSize
    BY <1>2, <2>7 DEF TailFits
  <2> QED BY <1>2, <1>3, <1>6, <2>1, <2>2, <2>3, <2>4, <2>5, <2>6, <2>8, <2>9
<1>7. PICK m \in Nat : m = Smaller(n, l - k) /\ m <= n /\ k + m <= l /\ (m = n \/ k + m = l)
  <2>1. /\ Smaller(n, l - k) \in Nat /\ Smaller(n, l - k) <= n /\ k + Smaller(n, l - k) <= l
        /\ Smaller(n, l - k) = n \/ k + Smaller(n, l - k) = l
    BY <1>2 DEF Smaller
  <2> QED BY <2>1
<1>8. \/ k = 0 /\ n >= TailSize /\ tailBuffer' = <<>> /\ GoOnWith(d) /\ UNCHANGED currentPosition
      \/ /\ tailBuffer' = Over(t, k, Take(d, m)) /\ currentPosition' = currentPosition + m
         /\ GoOnWith(Drop(d, m))
  BY <1>2, <1>3, <1>7 DEF WriteTail
<1> QED BY <1>5, <1>6, <1>7, <1>8

(* A chunk made of the tail and of what is appended. *)
LEMMA AppendChunkContent ==
  ASSUME Whole, Whole', NEW c \in Capacities, AppendChunk(c)
  PROVE  \E data \in Seq(Byte) :
           /\ call' = [call EXCEPT !.data = data] /\ Content' \o data = Content \o Rest
           /\ Len(tailBuffer') <= Len(tailBuffer)
<1>1. PICK d \in Seq(Byte), t \in Seq(Byte), n \in Nat, l \in Nat :
        d = Rest /\ t = tailBuffer /\ n = Len(d) /\ l = Len(t)
  <2>1. Rest \in Seq(Byte) /\ tailBuffer \in Seq(Byte)
    BY DEF Whole, CallOK, Rest, TailOK, Kept
  <2> QED BY <2>1, LenProperties
<1>2. c \in Nat /\ c > 0 /\ l + n > 0
  <2>1. c \in Nat /\ c > 0 /\ TailSize \in Nat /\ c < TailSize
    BY FileAssumption
  <2>2. TailSize - l <= n
    BY <1>1 DEF AppendChunk, TailWouldFill
  <2> QED BY <2>1, <2>2
<1>3. PICK m \in Nat, k \in Nat :
        /\ m = Smaller(c, l + n) /\ k = Smaller(m, l) /\ m > 0 /\ m <= l + n /\ k <= l /\ k <= m
        /\ m - k \in Nat /\ m - k <= n
  <2>1. PICK m \in Nat : m = Smaller(c, l + n) /\ m > 0 /\ m <= l + n
    BY <1>2 DEF Smaller
  <2>2. PICK k \in Nat : k = Smaller(m, l) /\ k <= l /\ k <= m /\ (k = m \/ k = l)
    <3>1. /\ Smaller(m, l) \in Nat /\ Smaller(m, l) <= l /\ Smaller(m, l) <= m
          /\ Smaller(m, l) = m \/ Smaller(m, l) = l
      BY DEF Smaller
    <3> QED BY <3>1
  <2>3. m - k \in Nat /\ m - k <= n
    BY <2>1, <2>2
  <2> QED BY <2>1, <2>2, <2>3
<1>4. PICK j \in Seq(Byte) : j = t \o d /\ Len(j) = l + n
  <2>1. PICK j \in Seq(Byte) : /\ j = t \o d /\ Len(j) = Len(t) + Len(d)
                               /\ \A i \in 1 .. Len(t) + Len(d) :
                                    j[i] = IF i <= Len(t) THEN t[i] ELSE d[i - Len(t)]
    BY Joined
  <2> QED BY <1>1, <2>1
<1>5. PICK p \in Seq(Byte) : p = Take(j, m) /\ Len(p) = m /\ \A i \in 1 .. m : p[i] = j[i]
  <2>1. m \in 0 .. Len(j)
    BY <1>3, <1>4
  <2> QED BY <2>1, Taken
<1>6. /\ AddChunkLocation(CurrentStoredSize, p) /\ tailBuffer' = Drop(t, k)
      /\ call' = [call EXCEPT !.data = Drop(d, m - k)] /\ UNCHANGED bufferVars
  BY <1>1, <1>3, <1>4, <1>5 DEF AppendChunk, Rest
<1>7. Content' = (Row(chunkMap, Held) \o p) \o tailBuffer'
  <2>1. Len(p) > 0
    BY <1>3, <1>5
  <2> QED BY <1>6, <2>1, AddedContent
<1>8. PICK r \in Seq(Byte) : r = Row(chunkMap, Held) /\ Content = r \o t
  BY <1>1, ContentIs DEF Whole, ContentRows
<1>9. ((r \o Take(t \o d, m)) \o Drop(t, k)) \o Drop(d, m - k) = (r \o t) \o d
  <2>1. PICK h \in Nat : m <= Len(t) + Len(d) /\ k = Smaller(m, Len(t)) /\ h = m - k
    BY <1>1, <1>3
  <2>2. SameJoined(r, t, d, m, k, h)
    BY <2>1, MovedOn
  <2> QED BY <2>1, <2>2 DEF SameJoined
<1>10. PICK data \in Seq(Byte) : data = Drop(d, m - k)
  <2>1. m - k \in 0 .. Len(d)
    BY <1>1, <1>3
  <2>2. PICK b \in Seq(Byte) : /\ b = Drop(d, m - k) /\ Len(b) = Len(d) - (m - k)
                               /\ \A i \in 1 .. Len(d) - (m - k) : b[i] = d[(m - k) + i]
    BY <2>1, Dropped
  <2> QED BY <2>2
<1>11. Len(tailBuffer') <= Len(tailBuffer)
  <2>1. k \in 0 .. Len(t)
    BY <1>1, <1>3
  <2>2. PICK b \in Seq(Byte) : /\ b = Drop(t, k) /\ Len(b) = Len(t) - k
                               /\ \A i \in 1 .. Len(t) - k : b[i] = t[k + i]
    BY <2>1, Dropped
  <2> QED BY <1>1, <1>3, <1>6, <2>2
<1> QED BY <1>1, <1>4, <1>5, <1>6, <1>7, <1>8, <1>9, <1>10, <1>11

LEMMA FlushTailContent ==
  ASSUME Whole, Whole', NEW c \in Capacities, FlushTail(c)
  PROVE  Content' = Content /\ Len(tailBuffer') <= Len(tailBuffer)
<1>1. PICK t \in Seq(Byte), l \in Nat : t = tailBuffer /\ l = Len(t) /\ l > 0
  <2>1. tailBuffer \in Seq(Byte) /\ tailBuffer # <<>>
    BY DEF Whole, TailOK, Kept, FlushTail
  <2>2. Len(tailBuffer) \in Nat /\ Len(tailBuffer) # 0
    BY <2>1, EmptySeq, LenProperties
  <2> QED BY <2>1, <2>2
<1>2. PICK m \in Nat : m = Smaller(c, l) /\ m > 0 /\ m <= l
  <2>1. c \in Nat /\ c > 0
    BY FileAssumption
  <2> QED BY <1>1, <2>1 DEF Smaller
<1>3. PICK p \in Seq(Byte) : p = Take(t, m) /\ Len(p) = m /\ \A i \in 1 .. m : p[i] = t[i]
  <2>1. m \in 0 .. Len(t)
    BY <1>1, <1>2
  <2> QED BY <2>1, Taken
<1>4. PICK b \in Seq(Byte) : /\ b = Drop(t, m) /\ Len(b) = Len(t) - m
                             /\ \A i \in 1 .. Len(t) - m : b[i] = t[m + i]
  <2>1. m \in 0 .. Len(t)
    BY <1>1, <1>2
  <2> QED BY <2>1, Dropped
<1>5. AddChunkLocation(CurrentStoredSize, p) /\ tailBuffer' = b /\ UNCHANGED bufferVars
  BY <1>1, <1>2, <1>3, <1>4 DEF FlushTail
<1>6. Content' = (Row(chunkMap, Held) \o p) \o b
  <2>1. Len(p) > 0
    BY <1>2, <1>3
  <2> QED BY <1>5, <2>1, AddedContent
<1>7. PICK r \in Seq(Byte) : r = Row(chunkMap, Held) /\ Content = r \o t
  BY <1>1, ContentIs DEF Whole, ContentRows
<1>8. p \o b = t
  <2>1. m \in 0 .. Len(t)
    BY <1>1, <1>2
  <2> QED BY <1>3, <1>4, <2>1, TakenDropped
<1>9. \A z \in Seq(Byte) : (r \o p) \o z = r \o (p \o z)
  BY Associated
<1>10. Len(tailBuffer') <= Len(tailBuffer)
  BY <1>1, <1>2, <1>4, <1>5
<1> QED BY <1>6, <1>7, <1>8, <1>9, <1>10

LEMMA AppendRestContent ==
  ASSUME Whole, Whole', AppendRest
  PROVE  Content' = Content \o Rest /\ currentPosition' = Size' /\ Len(tailBuffer') < TailSize
<1>1. /\ tailBuffer' = tailBuffer \o Rest /\ UNCHANGED <<chunkMap, stored, bufferVars>>
      /\ currentPosition' = CurrentStoredSize + Len(tailBuffer') /\ ~TailWouldFill
  BY DEF AppendRest, mediaVars
<1>2. PICK d \in Seq(Byte), t \in Seq(Byte) : d = Rest /\ t = tailBuffer
  BY DEF Whole, CallOK, Rest, TailOK, Kept
<1>3. PICK r \in Seq(Byte) : r = Row(chunkMap, Held) /\ Content = r \o t /\ Content' = r \o (t \o d)
  BY <1>1, <1>2, ContentIs, StillRow DEF Whole, ContentRows
<1>4. \A z \in Seq(Byte) : (r \o t) \o z = r \o (t \o z)
  BY Associated
<1>5. currentPosition' = Size'
  BY <1>1 DEF Size, CurrentStoredSize
<1>6. Len(tailBuffer') < TailSize
  <2>1. PICK j \in Seq(Byte) : /\ j = t \o d /\ Len(j) = Len(t) + Len(d)
                               /\ \A i \in 1 .. Len(t) + Len(d) :
                                    j[i] = IF i <= Len(t) THEN t[i] ELSE d[i - Len(t)]
    BY Joined
  <2>2. ~(TailSize - Len(t) <= Len(d))
    BY <1>1, <1>2 DEF TailWouldFill
  <2>3. Len(t) \in Nat /\ Len(d) \in Nat /\ TailSize \in Nat
    BY LenProperties, FileAssumption
  <2>4. Len(j) < TailSize
    BY <2>1, <2>2, <2>3
  <2> QED BY <1>1, <1>2, <2>1, <2>4
<1> QED BY <1>2, <1>3, <1>4, <1>5, <1>6

(* Every chunk is on the media as it is in the file. *)
LEMMA AllStored ==
  ASSUME Whole, chunkBufferFlushNeeded = FALSE
  PROVE  \A o \in DOMAIN chunkMap : Held[o] = stored[o] /\ Len(stored[o]) = chunkMap[o]
<1>1. \A o \in DOMAIN chunkMap :
        Held[o] = IF o = currentChunk /\ chunkBufferFlushNeeded = TRUE THEN chunkBuffer ELSE stored[o]
  BY HeldNow DEF Whole
<1> QED BY <1>1 DEF Whole, StoredOK, Good

LEMMA TruncateContent ==
  ASSUME Whole, Whole', chunkBufferFlushNeeded = FALSE, TruncateChunks
  PROVE  Content' = Take(Content, currentPosition)
<1>1. /\ chunkMap' = Shorter(chunkMap, currentPosition)
      /\ stored' = [o \in {x \in DOMAIN chunkMap : x < currentPosition} |->
                      Take(stored[o], Smaller(chunkMap[o], currentPosition - o))]
      /\ NothingLoaded /\ tailBuffer = <<>> /\ tailBuffer' = <<>>
  BY DEF TruncateChunks, Shorter
<1>2. PICK f, g, f2, g2, p :
        /\ f = chunkMap /\ g = Held /\ f2 = chunkMap' /\ g2 = Held'
        /\ p \in Nat /\ p = currentPosition
  BY DEF Whole, CallOK
<1>3. \A o \in DOMAIN f : g[o] = stored[o]
  BY <1>2, AllStored
<1>4. /\ f2 = Shorter(f, p) /\ DOMAIN f2 = {x \in DOMAIN f : x < p}
      /\ \A o \in DOMAIN f2 : f2[o] = Smaller(f[o], p - o)
  BY <1>1, <1>2 DEF Shorter
<1>5. ASSUME NEW o \in DOMAIN f2 PROVE g2[o] = Take(g[o], f2[o])
  <2>1. o \in DOMAIN chunkMap' /\ chunkBufferFlushNeeded' = FALSE
    BY <1>1, <1>2, <1>5 DEF NothingLoaded
  <2>2. Held'[o] = IF o = currentChunk' /\ chunkBufferFlushNeeded' = TRUE THEN chunkBuffer' ELSE stored'[o]
    BY <2>1, HeldNext DEF Whole
  <2>3. o \in {x \in DOMAIN chunkMap : x < currentPosition}
    BY <1>2, <1>4, <1>5
  <2>4. stored'[o] = Take(stored[o], Smaller(chunkMap[o], currentPosition - o))
    BY <1>1, <2>3
  <2> QED BY <1>2, <1>3, <1>4, <1>5, <2>1, <2>2, <2>3, <2>4
<1>6. Tiles(f) /\ Fills(f, g) /\ p <= EndOf(f)
  <2>1. Size = EndOf(chunkMap) + 0 /\ EndOf(chunkMap) \in Nat
    BY <1>1, SizesLemma, EmptySeq DEF Whole
  <2>2. currentPosition <= Size
    BY DEF Whole, CallOK
  <2> QED BY <1>2, <2>1, <2>2, HeldLemma DEF Whole, Tiled
<1>7. Row(f2, g2) = Take(Row(f, g), p)
  <2>1. p \in Nat
    BY <1>2
  <2> QED BY <1>4, <1>5, <1>6, <2>1, RowCut
<1>8. Content = Row(f, g) \o <<>> /\ Content' = Row(f2, g2) \o <<>>
  BY <1>1, <1>2, ContentIs, ContentIsNext DEF Whole, ContentRows
<1>9. Row(f, g) \in Seq(Byte) /\ Row(f2, g2) \in Seq(Byte)
  BY <1>2, ContentIs, ContentIsNext DEF Whole, ContentRows
<1> QED BY <1>2, <1>7, <1>8, <1>9, ConcatEmptySeq

LEMMA ReopenContent ==
  ASSUME Whole, Whole', Reopen
  PROVE  Content' = Content
<1>1. /\ chunkMap' = [o \in DOMAIN stored |-> Len(stored[o])] /\ NothingLoaded
      /\ UNCHANGED <<stored, tailBuffer>> /\ chunkBufferFlushNeeded = FALSE
  BY DEF Reopen, Whole, BufferOK
<1>2. \A o \in DOMAIN chunkMap : Held[o] = stored[o] /\ Len(stored[o]) = chunkMap[o]
  BY <1>1, AllStored
<1>3. /\ DOMAIN chunkMap' = DOMAIN chunkMap
      /\ \A o \in DOMAIN chunkMap : chunkMap'[o] = chunkMap[o]
  BY <1>1, <1>2 DEF Whole, StoredOK
<1>4. ASSUME NEW o \in DOMAIN chunkMap PROVE Held'[o] = Held[o]
  <2>1. o \in DOMAIN chunkMap' /\ chunkBufferFlushNeeded' = FALSE
    BY <1>1, <1>3 DEF NothingLoaded
  <2>2. Held'[o] = IF o = currentChunk' /\ chunkBufferFlushNeeded' = TRUE THEN chunkBuffer' ELSE stored'[o]
    BY <2>1, HeldNext DEF Whole
  <2> QED BY <1>1, <1>2, <2>1, <2>2
<1>5. ContentRows /\ ContentRows'
  BY ContentIs, ContentIsNext DEF Whole
<1>6. Row(chunkMap', Held') = Row(chunkMap, Held)
  <2>1. PICK f, g, f2, g2 : f = chunkMap /\ g = Held /\ f2 = chunkMap' /\ g2 = Held'
    OBVIOUS
  <2>2. Tiles(f) /\ Tiles(f2) /\ Fills(f, g) /\ Fills(f2, g2)
    BY <1>5, <2>1 DEF Whole, Tiled, ContentRows
  <2>3. DOMAIN f2 = DOMAIN f /\ \A o \in DOMAIN f : f2[o] = f[o] /\ g2[o] = g[o]
    BY <1>3, <1>4, <2>1
  <2>4. Row(f2, g2) = Row(f, g)
    BY <2>2, <2>3, LikeRow
  <2> QED BY <2>1, <2>4
<1> QED BY <1>1, <1>5, <1>6 DEF ContentRows

------------------------------------------------------------------------------
(* A flush, whatever the media refuses.                                    *)

FlushSafe ==
  Flushing => /\ started = TRUE /\ chunkBufferFlushNeeded = FALSE
              /\ Content = call.content /\ currentPosition = call.from

(* The calls that are not a flush, or a truncation, do not become one. *)
LEMMA NotFlushing ==
  ASSUME CallOK, Next, Flushing'
  PROVE  \/ \E c \in Capacities : FlushTail(c)
         \/ BeginFlush("flush") \/ BeginFlush("truncate")
<1> USE DEF Flushing
<1>1. call' # NoCall
  BY DEF NoCall
<1>2. ~EvictionFails /\ ~LoadIntoBufferFails
  BY <1>1 DEF EvictionFails, LoadIntoBufferFails, Return
<1>3. ~ReadFails /\ ~WriteFails /\ ~ReadTail
  BY <1>1, <1>2 DEF ReadFails, WriteFails, ReadTail, Return
<1>4. ~(AppendFails \/ AppendRest \/ FlushEnds \/ FlushFails \/ TruncateChunks \/ TruncateNothing
        \/ TruncateFails \/ TruncateHalfDone \/ WriteEnds)
  <2>1. TruncateHalfDone => call'.op = "lost"
    BY DEF TruncateHalfDone, CallOK
  <2> QED BY <1>1, <2>1 DEF AppendFails, AppendRest, FlushEnds, FlushFails, TruncateChunks,
              TruncateNothing, TruncateFails, WriteEnds, Return
<1>5. ~(Idle /\ UNCHANGED call)
  BY DEF Idle
<1>6. ~RefusedAtOnce /\ ~Reopen /\ \A p : ~SetPosition(p)
  BY <1>5 DEF RefusedAtOnce, Reopen, SetPosition
<1>7. \A n, v : ~BeginRead(n) /\ ~BeginWrite(n, v) /\ ~BeginAppend(n, v)
  BY DEF BeginRead, BeginWrite, BeginAppend, Begin
<1>8. ASSUME NEW d, call' = [call EXCEPT !.data = d] PROVE call.op = call'.op
  BY <1>8 DEF CallOK
<1>9. ~(ReadLoaded \/ ReadThrough \/ ReadIntoBuffer)
  <2>1. \A p : ~(Reading /\ CopyOut(p))
    BY <1>8 DEF Reading, CopyOut
  <2> QED BY <2>1 DEF ReadLoaded, ReadThrough, ReadIntoBuffer
<1>10. ~(WritePast \/ WritePastUnloaded \/ WriteInto)
  <2>1. \A n : ~(call.op = "write" /\ Wrote(n))
    BY <1>8 DEF Wrote
  <2> QED BY <2>1 DEF WritePast, WritePastUnloaded, WriteInto, InChunks
<1>11. ~WriteTail
  <2>1. ASSUME NEW d, GoOnWith(d) PROVE FALSE
    BY <1>1, <2>1 DEF GoOnWith, Return, CallOK
  <2> QED BY <2>1 DEF WriteTail
<1>12. \A c : ~AppendChunk(c)
  BY <1>8 DEF AppendChunk
<1> QED BY <1>3, <1>4, <1>6, <1>7, <1>9, <1>10, <1>11, <1>12 DEF Next, Step

LEMMA FlushSafeStep ==
  ASSUME FileInv, FileInv', FlushSafe, Next
  PROVE  FlushSafe'
<1> SUFFICES ASSUME Flushing'
             PROVE  /\ started' = TRUE /\ chunkBufferFlushNeeded' = FALSE
                    /\ Content' = call'.content /\ currentPosition' = call'.from
  BY DEF FlushSafe
<1>1. Whole'
  BY DEF FileInv, Whole, Stuck, InChunks, Flushing
<1>2. CASE \E c \in Capacities : FlushTail(c)
  <2>1. PICK c \in Capacities : FlushTail(c)
    BY <1>2
  <2>2. Flushing /\ UNCHANGED <<started, bufferVars, currentPosition, call>>
    BY <2>1 DEF FlushTail
  <2>3. Whole
    BY <2>2 DEF FileInv, Whole, Stuck, InChunks, Flushing
  <2>4. Content' = Content
    BY <1>1, <2>1, <2>3, FlushTailContent
  <2> QED BY <2>2, <2>4 DEF FlushSafe, bufferVars
<1>3. ASSUME NEW op, BeginFlush(op)
      PROVE  /\ started' = TRUE /\ chunkBufferFlushNeeded' = FALSE
             /\ Content' = call'.content /\ currentPosition' = call'.from
  <2>1. /\ Idle /\ call' = [op |-> op, count |-> 0, data |-> <<>>, content |-> Content, from |-> currentPosition]
        /\ started' = TRUE /\ stored' = Flushed /\ chunkBufferFlushNeeded' = FALSE
        /\ UNCHANGED <<chunkMap, tailBuffer, currentPosition>>
    BY <1>3 DEF BeginFlush, Begin
  <2>2. Whole
    BY <2>1 DEF FileInv, Whole, Stuck, InChunks, Idle
  <2>3. Content' = Content
    BY <1>1, <2>1, <2>2, FlushedContent
  <2> QED BY <2>1, <2>3
<1> QED BY <1>2, <1>3, NotFlushing DEF FileInv

(* What the media holds when nothing is left in memory. *)
LEMMA AllOnMedia ==
  ASSUME Whole, chunkBufferFlushNeeded = FALSE, tailBuffer = <<>>
  PROVE  StoredBytes(LAMBDA o : stored[o]) = Content
<1>1. \A o \in DOMAIN chunkMap : Held[o] = stored[o] /\ Len(stored[o]) = chunkMap[o]
  BY AllStored
<1>2. CurrentStoredSize = EndOf(chunkMap) /\ Tiles(chunkMap)
  BY SizesLemma DEF Whole, Tiled
<1>3. StoredBytes(LAMBDA o : stored[o]) = Row(chunkMap, Held)
  <2>1. ASSUME NEW i \in 1 .. EndOf(chunkMap)
        PROVE  (LET o == ChunkAt(i - 1) IN IF i - o <= Len(stored[o]) THEN stored[o][i - o] ELSE Junk)
                 = Held[LastAt(chunkMap, i - 1)][i - LastAt(chunkMap, i - 1)]
    <3>1. PICK o \in DOMAIN chunkMap, j \in Nat :
            /\ o \in Nat /\ chunkMap[o] \in Nat /\ j \in 1 .. chunkMap[o]
            /\ o = LastAt(chunkMap, i - 1) /\ j = i - LastAt(chunkMap, i - 1)
      BY <1>2, EveryByte
    <3>2. ChunkAt(i - 1) = o
      BY <3>1 DEF ChunkAt, LastAt
    <3>3. i - o = j /\ j <= Len(stored[o]) /\ Held[o] = stored[o]
      BY <1>1, <3>1
    <3> QED BY <3>1, <3>2, <3>3
  <2> QED BY <1>2, <2>1 DEF StoredBytes, Row
<1>4. Content = Row(chunkMap, Held) \o <<>> /\ Row(chunkMap, Held) \in Seq(Byte)
  BY ContentIs DEF Whole, ContentRows
<1> QED BY <1>3, <1>4, ConcatEmptySeq

LEMMA FlushStep ==
  ASSUME FileInv, FlushSafe, Next, call.op = "flush", Idle', result' = <<>>
  PROVE  started' /\ StoredBytes(LAMBDA o : stored[o])' = call.content
<1>1. Whole /\ ~Idle
  BY DEF FileInv, Whole, Stuck, InChunks, Idle
<1>2. FlushEnds
  <2>1. ~FlushFails
    <3>1. Failure # <<>>
      BY DEF Failure
    <3> QED BY <3>1 DEF FlushFails, Return
  <2>2. \A c : ~FlushTail(c)
    BY DEF FlushTail, Idle
  <2>3. /\ ~(ReadLoaded \/ ReadThrough \/ ReadIntoBuffer \/ ReadFails \/ ReadTail)
        /\ ~(WritePast \/ WritePastUnloaded \/ WriteInto \/ WriteFails \/ WriteTail \/ WriteEnds)
    BY DEF ReadLoaded, ReadThrough, ReadIntoBuffer, ReadFails, ReadTail, Reading, InChunks,
           WritePast, WritePastUnloaded, WriteInto, WriteFails, WriteTail, WriteEnds
  <2>4. /\ ~(AppendFails \/ AppendRest \/ TruncateChunks \/ TruncateNothing \/ TruncateFails)
        /\ ~TruncateHalfDone /\ \A c : ~AppendChunk(c)
    BY DEF AppendFails, AppendRest, TruncateChunks, TruncateNothing, TruncateFails, TruncateHalfDone,
           AppendChunk
  <2>5. /\ \A n, v : ~BeginRead(n) /\ ~BeginWrite(n, v) /\ ~BeginAppend(n, v)
        /\ \A p : ~BeginFlush(p) /\ ~SetPosition(p)
        /\ ~RefusedAtOnce /\ ~Reopen
    BY <1>1 DEF BeginRead, BeginWrite, BeginAppend, BeginFlush, Begin, SetPosition, RefusedAtOnce, Reopen
  <2> QED BY <2>1, <2>2, <2>3, <2>4, <2>5 DEF Next, Step
<1>3. tailBuffer = <<>> /\ UNCHANGED <<started, chunkMap, stored>>
  BY <1>2 DEF FlushEnds, mediaVars
<1>4. started = TRUE /\ chunkBufferFlushNeeded = FALSE /\ Content = call.content
  BY DEF FlushSafe, Flushing
<1>5. StoredBytes(LAMBDA o : stored[o]) = call.content
  BY <1>1, <1>3, <1>4, AllOnMedia
<1>6. StoredBytes(LAMBDA o : stored[o])' = StoredBytes(LAMBDA o : stored[o])
  BY <1>3 DEF StoredBytes, CurrentStoredSize, ChunkAt
<1> QED BY <1>3, <1>4, <1>5, <1>6

LEMMA SameFile ==
  UNCHANGED fileVars => Content' = Content
BY DEF fileVars, Content, StoredBytes, Payload, CurrentStoredSize, ChunkAt

(* A flush that returns leaves on the media alone all the bytes that the   *)
(* file had when it was called, whatever the media refused before.         *)
THEOREM FlushAlwaysPersists ==
  ASSUME OneRefused
  PROVE  Spec => FlushPersists
<1>1. Init => FlushSafe
  BY DEF Init, FlushSafe, Flushing, NoCall
<1>2. /\ FileInv \/ HalfDone
      /\ (FileInv \/ HalfDone)'
      /\ FlushSafe /\ [Next]_fileVars
      => FlushSafe'
  <2>1. UNCHANGED fileVars /\ FlushSafe => FlushSafe'
    BY SameFile DEF fileVars, FlushSafe, Flushing
  <2>2. HalfDone' => FlushSafe'
    BY DEF HalfDone, Lost, FlushSafe, Flushing
  <2> QED BY <2>1, <2>2, FlushSafeStep, HalfDoneStays
<1>3. (FileInv \/ HalfDone) /\ FlushSafe /\ [Next]_fileVars
        => [call.op = "flush" /\ Idle' /\ result' = <<>>
             => started' /\ StoredBytes(LAMBDA o : stored[o])' = call.content]_fileVars
  BY FlushStep, HalfDoneStays
<1>4. Spec => [](FileInv \/ HalfDone)
  BY FileInvariant
<1> QED BY <1>1, <1>2, <1>3, <1>4, PTL DEF Spec, FlushPersists

------------------------------------------------------------------------------
(* A virtual file whose media works is a ByteFile.                         *)

(* The file that its user sees: a call acts when it returns. *)
FileContent  == IF Idle THEN Content ELSE call.content
FilePosition == IF Idle THEN currentPosition ELSE call.from

(* The steps of a ByteFile from content c and position p to d and q.       *)
Reads(c, p, d, q, r) ==
  \E n \in 0 .. MaxCount :
    LET m == Smaller(n, Len(c) - p)
    IN  r = SubSeq(c, p + 1, p + m) /\ q = p + m /\ d = c

Writes(c, p, d, q, r) ==
  \E n \in 0 .. MaxCount, v \in Versions :
    /\ p + n <= MaxFile
    /\ d = Take(c, p) \o Data(p, n, v) \o Drop(c, p + n)
    /\ q = p + n /\ r = <<>>

Appends(c, d, q, r) ==
  \E n \in 0 .. MaxCount, v \in Versions :
    Len(c) + n <= MaxFile /\ d = c \o Data(Len(c), n, v) /\ q = Len(d) /\ r = <<>>

Truncates(c, p, d, q, r) == d = Take(c, p) /\ q = p /\ r = <<>>

Seeks(c, d, q, r) == q \in 0 .. Len(c) /\ d = c /\ r = <<>>

Acts(c, p, d, q, r) ==
  \/ Reads(c, p, d, q, r) \/ Writes(c, p, d, q, r) \/ Appends(c, d, q, r)
  \/ Truncates(c, p, d, q, r) \/ Seeks(c, d, q, r)

Still == UNCHANGED <<FileContent, FilePosition, result>>
Maps  == Still \/ Acts(FileContent, FilePosition, FileContent', FilePosition', result')

(* What a write, or an append, that began with this call may end with: the *)
(* bytes w, and the position at e.                                         *)
Written(v)  == Over(call.content, call.from, Data(call.from, call.count, v))
Appended(v) == call.content \o Data(Len(call.content), call.count, v)

WriteEndsAs(w, e) ==
  /\ call.count \in 0 .. MaxCount /\ call.from + call.count <= MaxFile
  /\ e = call.from + call.count
  /\ \E v \in Versions : w = Written(v)

AppendEndsAs(w, e) ==
  /\ call.count \in 0 .. MaxCount /\ Len(call.content) + call.count <= MaxFile
  /\ e = Len(w)
  /\ \E v \in Versions : w = Appended(v)

(* What each call in progress has done, and has left to do.                *)
ReadKept ==
  call.op = "read" =>
    /\ call.content = Content /\ currentPosition = call.from + Len(call.data)
    /\ call.data = SubSeq(Content, call.from + 1, call.from + Len(call.data))
    /\ \E n \in 0 .. MaxCount : call.count = Smaller(n, Len(Content) - call.from)

WriteKept ==
  call.op = "write" =>
    WriteEndsAs(Over(Content, currentPosition, Rest), currentPosition + Len(Rest))

AppendKept ==
  call.op = "append" =>
    \/ WriteEndsAs(Content \o Rest, Size + Len(Rest))
    \/ AppendEndsAs(Content \o Rest, Size + Len(Rest))

FromKept ==
  ~Idle => /\ call.content \in Seq(Byte)
           /\ call.from \in Nat /\ call.from <= Len(call.content)

Promise == ReadKept /\ WriteKept /\ AppendKept /\ FromKept

(* A call begins. *)
LEMMA BeginsStill ==
  ASSUME Whole, Content' = Content, Idle, ~Idle', UNCHANGED <<currentPosition, result>>,
         call'.content = Content, call'.from = currentPosition
  PROVE  Still /\ FromKept'
<1>1. Content \in Seq(Byte) /\ Len(Content) = Size
  BY ContentIs DEF Whole, ContentRows
<1> QED BY <1>1 DEF Still, FileContent, FilePosition, FromKept, Whole, CallOK

(* A call goes on. *)
LEMMA GoesOnStill ==
  ASSUME Promise, ~Idle, ~Idle', call'.content = call.content, call'.from = call.from,
         UNCHANGED result
  PROVE  Still /\ FromKept'
BY DEF Still, FileContent, FilePosition, FromKept, Promise

(* A call returns. *)
LEMMA ReturnsKept ==
  ASSUME Idle'
  PROVE  Promise'
BY DEF Promise, ReadKept, WriteKept, AppendKept, FromKept, Idle

LEMMA WriteReturns ==
  ASSUME Promise, ~Idle, Idle', result' = <<>>, WriteEndsAs(Content', currentPosition')
  PROVE  Maps
<1>1. PICK v \in Versions :
        /\ call.count \in 0 .. MaxCount /\ call.from + call.count <= MaxFile
        /\ currentPosition' = call.from + call.count
        /\ Content' = Over(call.content, call.from, Data(call.from, call.count, v))
  BY DEF WriteEndsAs, Written
<1>2. Len(Data(call.from, call.count, v)) = call.count
  <2>1. call.from \in Nat /\ call.count \in Nat
    BY <1>1, FileAssumption DEF FromKept, Promise
  <2> QED BY <2>1, DataLemma
<1>3. Writes(call.content, call.from, Content', currentPosition', result')
  BY <1>1, <1>2 DEF Writes, Over
<1> QED BY <1>3 DEF Maps, Acts, FileContent, FilePosition

LEMMA AppendReturns ==
  ASSUME Promise, ~Idle, Idle', result' = <<>>, AppendEndsAs(Content', currentPosition')
  PROVE  Maps
<1>1. Appends(call.content, Content', currentPosition', result')
  BY DEF AppendEndsAs, Appended, Appends
<1> QED BY <1>1 DEF Maps, Acts, FileContent, FilePosition

------------------------------------------------------------------------------
(* read.                                                                   *)

LEMMA BeginReadMaps ==
  ASSUME Whole, Whole', NEW n \in 0 .. MaxCount, BeginRead(n)
  PROVE  Promise' /\ Maps
<1>1. /\ Idle /\ UNCHANGED <<mediaVars, bufferVars, tailBuffer, currentPosition, result>>
      /\ call' = [op |-> "read", count |-> Smaller(n, Size - currentPosition), data |-> <<>>,
                  content |-> Content, from |-> currentPosition]
  BY DEF BeginRead, Begin
<1>2. Content' = Content
  BY <1>1, StillContent DEF mediaVars
<1>3. Still /\ FromKept'
  BY <1>1, <1>2, BeginsStill DEF Idle
<1>4. ReadKept'
  <2>1. Content \in Seq(Byte) /\ Len(Content) = Size
    BY ContentIs DEF Whole, ContentRows
  <2>2. PICK p \in Nat : p = currentPosition
    BY DEF Whole, CallOK
  <2>3. SubSeq(Content, p + 1, p + 0) = <<>>
    <3>1. p + 1 > p + 0
      OBVIOUS
    <3> QED BY <2>1, <3>1, SubSeqEmpty
  <2>4. Len(<<>>) = 0 /\ p = p + 0
    OBVIOUS
  <2> QED BY <1>1, <1>2, <2>1, <2>2, <2>3, <2>4 DEF ReadKept
<1> QED BY <1>1, <1>3, <1>4 DEF Promise, Maps, WriteKept, AppendKept

(* The bytes copied are those of the file from the position on. *)
LEMMA CopyOutMaps ==
  ASSUME Whole, Content' = Content, Promise, Reading, currentPosition < CurrentStoredSize,
         CopyOut(Held[Needed])
  PROVE  Promise' /\ Maps
<1>1. PICK q \in Nat, k \in Nat, e \in Nat :
        /\ q = Needed /\ q \in DOMAIN chunkMap /\ k = currentPosition - q /\ e = ChunkEnd - currentPosition
        /\ k + e = chunkMap[q] /\ currentPosition = q + k /\ currentPosition + e <= Size
  <2>1. Needed \in Nat /\ Needed \in DOMAIN chunkMap
    BY NeededLemma DEF Whole
  <2>2. PICK k \in Nat, e \in Nat :
          /\ k = currentPosition - Needed /\ e = ChunkEnd - currentPosition
          /\ k + e = chunkMap[Needed] /\ currentPosition = Needed + k
          /\ currentPosition + e <= CurrentStoredSize
    BY PartsLemma DEF Whole
  <2>3. CurrentStoredSize <= Size
    BY SizesLemma DEF Whole
  <2>4. currentPosition + e <= Size
    BY <2>2, <2>3, SizesLemma DEF Whole, CallOK
  <2> QED BY <2>1, <2>2, <2>4
<1>2. PICK l \in Nat, r \in Nat, f \in Nat :
        /\ l = Len(call.data) /\ r = ToRead /\ f = call.from /\ currentPosition = f + l
  BY LenProperties DEF Promise, ReadKept, FromKept, Reading, ToRead, Whole, CallOK, Idle
<1>3. PICK m \in Nat : m = Smaller(r, e) /\ k + m <= chunkMap[q] /\ m <= e
  <2>1. Smaller(r, e) \in Nat /\ Smaller(r, e) <= e
    BY DEF Smaller
  <2>2. k + Smaller(r, e) <= chunkMap[q]
    BY <1>1, <2>1
  <2> QED BY <2>1, <2>2
<1>4. ContentRows
  BY ContentIs DEF Whole
<1>5. PICK h \in Nat : h = q + k /\ SubSeq(Row(chunkMap, Held), h + 1, h + m) = SubSeq(Held[q], k + 1, k + m)
  <2>1. Tiles(chunkMap) /\ Fills(chunkMap, Held)
    BY <1>4 DEF Whole, Tiled, ContentRows
  <2>2. q \in DOMAIN chunkMap /\ k + m <= chunkMap[q]
    BY <1>1, <1>3
  <2>3. PICK h \in Nat : h = q + k
    BY <1>1
  <2>4. SubSeq(Row(chunkMap, Held), h + 1, h + m) = SubSeq(Held[q], k + 1, k + m)
    BY <2>1, <2>2, <2>3, RowPiece
  <2> QED BY <2>3, <2>4
<1>6. SubSeq(Content, h + 1, h + m) = SubSeq(Row(chunkMap, Held), h + 1, h + m)
  <2>1. PICK w \in Seq(Byte) : w = Row(chunkMap, Held) /\ Len(w) = CurrentStoredSize
    BY <1>4 DEF ContentRows
  <2>2. PICK z \in Nat : z = CurrentStoredSize
    BY SizesLemma DEF Whole
  <2>3. h + e <= z
    BY <1>1, <1>5, <2>2, PartsLemma DEF Whole
  <2>4. h + m <= Len(w)
    BY <1>3, <2>1, <2>2, <2>3
  <2>5. SubSeq(w \o tailBuffer, h + 1, h + m) = SubSeq(w, h + 1, h + m)
    BY <2>1, <2>4, FrontPiece DEF Whole, TailOK, Kept
  <2> QED BY <1>4, <2>1, <2>5 DEF ContentRows
<1>7. PICK d : /\ d = SubSeq(Held[q], k + 1, k + m)
               /\ call' = [call EXCEPT !.data = call.data \o d]
               /\ currentPosition' = currentPosition + m /\ UNCHANGED result
  BY <1>1, <1>2, <1>3 DEF CopyOut
<1>8. /\ call'.op = "read" /\ call'.count = call.count /\ call'.content = call.content
      /\ call'.from = call.from /\ call'.data = call.data \o d
  BY <1>7 DEF Whole, CallOK, Reading
<1>9. /\ call.data \o d = SubSeq(Content, f + 1, f + (l + m)) /\ Len(call.data \o d) = l + m
  <2>1. PICK w \in Seq(Byte) : w = Content /\ f + l + m <= Len(w)
    <3>1. Content \in Seq(Byte) /\ Len(Content) = Size
      BY <1>4 DEF ContentRows
    <3>2. PICK z \in Nat : z = Size
      BY SizesLemma DEF Whole
    <3>3. f + l + e <= z
      BY <1>1, <1>2, <3>2
    <3>4. f + l + m <= z
      BY <1>3, <3>3
    <3> QED BY <3>1, <3>2, <3>4
  <2>2. SubSeq(w, f + 1, f + l) \o SubSeq(w, f + l + 1, f + l + m) = SubSeq(w, f + 1, f + (l + m))
    BY <2>1, GrownPiece
  <2>3. call.data = SubSeq(w, f + 1, f + l)
    BY <1>2, <2>1 DEF Promise, ReadKept, Reading
  <2>4. f + l = h
    BY <1>1, <1>2, <1>5
  <2>5. d = SubSeq(w, f + l + 1, f + l + m)
    BY <1>5, <1>6, <1>7, <2>1, <2>4
  <2>6. PICK j \in Nat : j = l + m
    OBVIOUS
  <2>7. f + j <= Len(w)
    BY <2>1, <2>6
  <2>8. Len(SubSeq(w, f + 1, f + j)) = j
    BY <2>7, PieceLemma
  <2> QED BY <2>1, <2>2, <2>3, <2>5, <2>6, <2>8
<1>10. currentPosition' = f + (l + m)
  BY <1>2, <1>7
<1>11. ReadKept'
  BY <1>2, <1>8, <1>9, <1>10 DEF Promise, ReadKept, Reading
<1>12. Still /\ FromKept'
  BY <1>7, <1>8, GoesOnStill DEF Idle, Reading
<1> QED BY <1>8, <1>11, <1>12 DEF Promise, Maps, WriteKept, AppendKept

LEMMA ReadChunkMaps ==
  ASSUME Whole, Whole', ~LoadFails, Promise, ReadLoaded \/ ReadThrough \/ ReadIntoBuffer
  PROVE  Promise' /\ Maps
<1>1. Reading /\ currentPosition < CurrentStoredSize
  BY DEF ReadLoaded, ReadThrough, ReadIntoBuffer
<1>2. Held[Needed] = IF Loaded THEN chunkBuffer ELSE stored[Needed]
  BY <1>1, BaseHeld
<1>3. CopyOut(Held[Needed])
  BY <1>2 DEF ReadLoaded, ReadThrough, ReadIntoBuffer
<1>4. UNCHANGED <<chunkMap, tailBuffer>>
  BY <1>3 DEF CopyOut
<1>5. Content' = Content
  <2>1. CASE ReadLoaded
    BY <1>4, <2>1, StillContent DEF ReadLoaded
  <2>2. CASE ReadThrough \/ ReadIntoBuffer
    <3>1. stored' = Flushed /\ chunkBufferFlushNeeded' = FALSE
      BY <2>2 DEF ReadThrough, ReadIntoBuffer, NothingLoaded
    <3> QED BY <1>4, <3>1, FlushedContent
  <2> QED BY <2>1, <2>2
<1> QED BY <1>1, <1>3, <1>5, CopyOutMaps

LEMMA ReadTailMaps ==
  ASSUME Whole, Whole', Promise, ReadTail
  PROVE  Promise' /\ Maps
<1>1. PICK r \in Nat, l \in Nat, f \in Nat, p \in Nat, z \in Nat :
        /\ r = ToRead /\ l = Len(call.data) /\ f = call.from /\ p = currentPosition
        /\ z = CurrentStoredSize /\ p = f + l /\ call.count = l + r
  <2>1. PICK r \in Nat, l \in Nat, c \in Nat : r = ToRead /\ l = Len(call.data) /\ c = call.count /\ r = c - l
    BY LenProperties DEF ReadTail, ToRead, Whole, CallOK
  <2>2. c = l + r
    BY <2>1
  <2>3. CurrentStoredSize \in Nat
    BY SizesLemma DEF Whole
  <2> QED BY <2>1, <2>2, <2>3 DEF ReadTail, Promise, ReadKept, FromKept, Whole, CallOK, Idle
<1>2. /\ call' = NoCall /\ currentPosition' = f + (l + r)
      /\ result' = call.data \o SubSeq(tailBuffer, p - z + 1, p - z + r)
      /\ UNCHANGED <<chunkMap, stored, bufferVars, tailBuffer>>
  <2>1. p = f + l
    BY <1>1
  <2>2. p + r = f + (l + r)
    BY <2>1
  <2> QED BY <1>1, <2>2 DEF ReadTail, Return, mediaVars
<1>3. Content' = Content
  BY <1>2, StillContent
<1>4. ContentRows
  BY ContentIs DEF Whole
<1>5. PICK w \in Seq(Byte) : w = Content /\ f + l + r <= Len(w)
  <2>1. PICK y \in Nat : y = Size
    BY SizesLemma DEF Whole
  <2>2. p + r <= y
    BY <1>1, <2>1 DEF Whole, CallOK, ReadTail
  <2> QED BY <1>1, <1>4, <2>1, <2>2 DEF ContentRows
<1>6. SubSeq(tailBuffer, p - z + 1, p - z + r) = SubSeq(w, f + l + 1, f + l + r)
  <2>1. tailBuffer \in Seq(Byte)
    BY DEF Whole, TailOK, Kept
  <2>2. CASE r = 0
    <3>1. p - z + 1 > p - z + r /\ f + l + 1 > f + l + r
      BY <2>2
    <3> QED BY <3>1, SubSeqEmpty
  <2>3. CASE r > 0
    <3>1. p >= z
      BY <1>1, <2>3 DEF ReadTail
    <3>2. PICK k \in Nat : k = p - z /\ p = z + k
      BY <3>1
    <3>3. PICK s \in Seq(Byte) : s = Row(chunkMap, Held) /\ Len(s) = z
      BY <1>1, <1>4 DEF ContentRows
    <3>4. k + r <= Len(tailBuffer)
      <4>1. PICK y \in Nat, t \in Nat : y = Size /\ t = Len(tailBuffer) /\ y = z + t
        BY <1>1, SizesLemma DEF Whole
      <4>2. p + r <= y
        BY <1>1, <4>1 DEF Whole, CallOK, ReadTail
      <4> QED BY <3>2, <4>1, <4>2
    <3>5. SubSeq(s \o tailBuffer, Len(s) + k + 1, Len(s) + k + r) = SubSeq(tailBuffer, k + 1, k + r)
      BY <2>1, <3>3, <3>4, BackPiece
    <3>6. w = s \o tailBuffer
      BY <1>4, <1>5, <3>3 DEF ContentRows
    <3>7. f + l = Len(s) + k
      BY <1>1, <3>2, <3>3
    <3> QED BY <3>2, <3>5, <3>6, <3>7
  <2> QED BY <2>2, <2>3
<1>7. result' = SubSeq(w, f + 1, f + (l + r))
  <2>1. SubSeq(w, f + 1, f + l) \o SubSeq(w, f + l + 1, f + l + r) = SubSeq(w, f + 1, f + (l + r))
    BY <1>5, GrownPiece
  <2>2. call.data = SubSeq(w, f + 1, f + l)
    BY <1>1, <1>5 DEF Promise, ReadKept, ReadTail
  <2> QED BY <1>2, <1>6, <2>1, <2>2
<1>8. PICK n \in 0 .. MaxCount : l + r = Smaller(n, Len(w) - f)
  BY <1>1, <1>5 DEF Promise, ReadKept, ReadTail
<1>9. Reads(w, f, Content', currentPosition', result')
  BY <1>2, <1>3, <1>5, <1>7, <1>8 DEF Reads
<1>10. FileContent = w /\ FilePosition = f
  BY <1>1, <1>5 DEF FileContent, FilePosition, Promise, ReadKept, ReadTail, Idle
<1>11. Idle'
  BY <1>2 DEF Idle, NoCall
<1> QED BY <1>9, <1>10, <1>11, ReturnsKept DEF Maps, Acts, FileContent, FilePosition

------------------------------------------------------------------------------
(* write and append.                                                       *)

LEMMA BeginWriteMaps ==
  ASSUME Whole, Whole', faults = {}, NEW n \in 0 .. MaxCount, NEW v \in Versions, BeginWrite(n, v)
  PROVE  Promise' /\ Maps
<1>1. /\ Idle /\ UNCHANGED <<mediaVars, bufferVars, tailBuffer, currentPosition, result>>
      /\ currentPosition + n <= MaxFile
      /\ call' = [op |-> "write", count |-> n, data |-> Data(currentPosition, n, v),
                  content |-> Content, from |-> currentPosition]
  BY DEF BeginWrite, Begin, Bound
<1>2. Content' = Content
  BY <1>1, StillContent DEF mediaVars
<1>3. Still /\ FromKept'
  BY <1>1, <1>2, BeginsStill DEF Idle
<1>4. Len(Data(currentPosition, n, v)) = n
  <2>1. currentPosition \in Nat /\ n \in Nat
    BY FileAssumption DEF Whole, CallOK
  <2> QED BY <2>1, DataLemma
<1>5. WriteEndsAs(Over(Content, currentPosition, Rest), currentPosition + Len(Rest))'
  BY <1>1, <1>2, <1>4 DEF WriteEndsAs, Written, Rest
<1> QED BY <1>1, <1>3, <1>5 DEF Promise, Maps, ReadKept, WriteKept, AppendKept

LEMMA BeginAppendMaps ==
  ASSUME Whole, Whole', faults = {}, NEW n \in 0 .. MaxCount, NEW v \in Versions, BeginAppend(n, v)
  PROVE  Promise' /\ Maps
<1>1. /\ Idle /\ UNCHANGED <<chunkMap, stored, bufferVars, tailBuffer, currentPosition, result>>
      /\ Size + n <= MaxFile
      /\ call' = [op |-> "append", count |-> n, data |-> Data(Size, n, v),
                  content |-> Content, from |-> currentPosition]
  BY DEF BeginAppend, Begin, Bound
<1>2. Content' = Content /\ Size' = Size
  BY <1>1, StillContent DEF Size, CurrentStoredSize
<1>3. Still /\ FromKept'
  BY <1>1, <1>2, BeginsStill DEF Idle
<1>4. /\ Content \in Seq(Byte) /\ Len(Content) = Size
  BY ContentIs DEF Whole, ContentRows
<1>5. Data(Size, n, v) \in Seq(Byte) /\ Len(Data(Size, n, v)) = n
  <2>1. Size \in Nat /\ n \in Nat
    BY SizesLemma, FileAssumption DEF Whole
  <2> QED BY <2>1, DataLemma
<1>6. Len(Content \o Data(Size, n, v)) = Size + n
  BY <1>4, <1>5, ConcatProperties
<1>7. AppendEndsAs(Content \o Rest, Size + Len(Rest))'
  BY <1>1, <1>2, <1>4, <1>5, <1>6 DEF AppendEndsAs, Appended, Rest
<1> QED BY <1>1, <1>3, <1>7 DEF Promise, Maps, ReadKept, WriteKept, AppendKept

LEMMA WriteChunkMaps ==
  ASSUME Whole, Whole', ~LoadFails, Promise, WritePast \/ WriteInto
  PROVE  Promise' /\ Maps
<1>1. call.op = "write"
  BY DEF WritePast, WriteInto, InChunks
<1>2. PICK m \in Nat :
        /\ m <= Len(Rest) /\ currentPosition + m <= Size /\ Wrote(m)
        /\ Content' = Over(Content, currentPosition, Take(Rest, m))
  BY WritePastContent, WriteIntoContent
<1>3. PICK p \in Nat, l \in Nat, w \in Seq(Byte), d \in Seq(Byte) :
        p = currentPosition /\ l = Len(d) /\ w = Content /\ d = Rest /\ p <= Len(w) /\ m <= l
  BY <1>2, ContentIs, LenProperties DEF Whole, CallOK, ContentRows, Rest
<1>4. Over(Over(w, p, Take(d, m)), p + m, Drop(d, m)) = Over(w, p, d)
  BY <1>3, SplicedTwice
<1>5. Len(Drop(d, m)) = l - m
  <2>1. m \in 0 .. Len(d)
    BY <1>3
  <2> QED BY <1>3, <2>1, Dropped
<1>6. /\ call'.op = "write" /\ call'.count = call.count /\ call'.content = call.content
      /\ call'.from = call.from /\ call'.data = Drop(d, m)
      /\ currentPosition' = p + m /\ result' = result
  BY <1>1, <1>2, <1>3 DEF Whole, CallOK, Wrote, Rest
<1>7. WriteEndsAs(Over(w, p, d), p + l)
  BY <1>1, <1>3 DEF Promise, WriteKept
<1>8. currentPosition' + Len(Rest') = p + l
  <2>1. (p + m) + (l - m) = p + l
    OBVIOUS
  <2> QED BY <1>5, <1>6, <2>1 DEF Rest
<1>9. Over(Content, currentPosition, Rest)' = Over(w, p, d)
  BY <1>2, <1>3, <1>4, <1>6 DEF Rest
<1>10. WriteEndsAs(Over(Content, currentPosition, Rest), currentPosition + Len(Rest))'
  BY <1>6, <1>7, <1>8, <1>9 DEF WriteEndsAs, Written
<1>11. Still /\ FromKept'
  BY <1>1, <1>6, GoesOnStill DEF Idle
<1> QED BY <1>6, <1>10, <1>11 DEF Promise, Maps, ReadKept, WriteKept, AppendKept

LEMMA WriteEndsMaps ==
  ASSUME Whole, Whole', Promise, WriteEnds
  PROVE  Promise' /\ Maps
<1>1. /\ call.op = "write" /\ Rest = <<>> /\ Idle' /\ result' = <<>>
      /\ UNCHANGED <<chunkMap, stored, bufferVars, tailBuffer, currentPosition>>
  BY DEF WriteEnds, Return, Idle, NoCall, mediaVars
<1>2. Content' = Content
  BY <1>1, StillContent
<1>3. PICK p \in Nat, w \in Seq(Byte) : p = currentPosition /\ w = Content /\ p <= Len(w)
  BY ContentIs DEF Whole, CallOK, ContentRows
<1>4. Over(w, p, <<>>) = w
  BY <1>3, SplicedNone
<1>5. p + Len(<<>>) = p
  OBVIOUS
<1>6. WriteEndsAs(Content', currentPosition')
  BY <1>1, <1>2, <1>3, <1>4, <1>5 DEF Promise, WriteKept
<1> QED BY <1>1, <1>6, WriteReturns, ReturnsKept DEF Idle

LEMMA WriteTailMaps ==
  ASSUME Whole, Whole', faults = {}, TailFits, Promise, WriteTail
  PROVE  Promise' /\ Maps /\ TailFits'
<1>1. call.op = "write"
  BY DEF WriteTail
<1>2. PICK data \in Seq(Byte) :
        /\ GoOnWith(data)
        /\ Over(Content', currentPosition', data) = Over(Content, currentPosition, Rest)
        /\ currentPosition' + Len(data) = currentPosition + Len(Rest)
        /\ data # <<>> => currentPosition' = Size'
        /\ Len(tailBuffer') < TailSize
  BY WriteTailContent
<1>3. WriteEndsAs(Over(Content', currentPosition', data), currentPosition' + Len(data))
  BY <1>1, <1>2 DEF Promise, WriteKept
<1>4. PICK p \in Nat, w \in Seq(Byte) :
        p = currentPosition' /\ w = Content' /\ p <= Len(w) /\ Len(w) = Size'
  BY ContentIsNext DEF Whole, CallOK, ContentRows
<1>5. CASE data = <<>>
  <2>1. Idle' /\ result' = <<>>
    BY <1>2, <1>5 DEF GoOnWith, Return, Idle, NoCall
  <2>2. Over(w, p, <<>>) = w
    BY <1>4, SplicedNone
  <2>3. p + Len(<<>>) = p
    OBVIOUS
  <2>4. WriteEndsAs(Content', currentPosition')
    BY <1>3, <1>4, <1>5, <2>2, <2>3
  <2>5. Promise' /\ Maps
    BY <1>1, <2>1, <2>4, WriteReturns, ReturnsKept DEF Idle
  <2> QED BY <1>2, <2>5 DEF TailFits
<1>6. CASE data # <<>>
  <2>1. call' = [call EXCEPT !.op = "append", !.data = data] /\ result' = result
    BY <1>2, <1>6 DEF GoOnWith, SaveFails
  <2>2. /\ call'.op = "append" /\ call'.count = call.count /\ call'.content = call.content
        /\ call'.from = call.from /\ call'.data = data
    BY <2>1 DEF Whole, CallOK
  <2>3. Over(w, Len(w), data) = w \o data
    BY <1>4, SplicedEnd
  <2>4. WriteEndsAs(Content' \o data, Size' + Len(data))
    BY <1>2, <1>3, <1>4, <1>6, <2>3
  <2>5. WriteEndsAs(Content \o Rest, Size + Len(Rest))'
    BY <2>2, <2>4 DEF WriteEndsAs, Written, Rest
  <2>6. Still /\ FromKept'
    BY <1>1, <2>1, <2>2, GoesOnStill DEF Idle
  <2> QED BY <1>2, <2>2, <2>5, <2>6 DEF Promise, Maps, TailFits, ReadKept, WriteKept, AppendKept
<1> QED BY <1>5, <1>6

LEMMA AppendChunkMaps ==
  ASSUME Whole, Whole', Promise, TailFits, NEW c \in Capacities, AppendChunk(c)
  PROVE  Promise' /\ Maps /\ TailFits'
<1>1. call.op = "append" /\ result' = result
  BY DEF AppendChunk
<1>2. PICK data \in Seq(Byte) :
        /\ call' = [call EXCEPT !.data = data] /\ Content' \o data = Content \o Rest
        /\ Len(tailBuffer') <= Len(tailBuffer)
  BY AppendChunkContent
<1>3. /\ call'.op = "append" /\ call'.count = call.count /\ call'.content = call.content
      /\ call'.from = call.from /\ call'.data = data
  BY <1>1, <1>2 DEF Whole, CallOK
<1>4. Size' + Len(data) = Size + Len(Rest)
  <2>1. /\ Content \in Seq(Byte) /\ Len(Content) = Size /\ Rest \in Seq(Byte)
        /\ Content' \in Seq(Byte) /\ Len(Content') = Size'
    BY ContentIs, ContentIsNext DEF Whole, ContentRows, CallOK, Rest
  <2>2. Len(Content \o Rest) = Size + Len(Rest)
    BY <2>1, ConcatProperties
  <2>3. Len(Content' \o data) = Size' + Len(data)
    BY <2>1, ConcatProperties
  <2> QED BY <1>2, <2>2, <2>3
<1>5. \/ WriteEndsAs(Content' \o data, Size' + Len(data))
      \/ AppendEndsAs(Content' \o data, Size' + Len(data))
  BY <1>1, <1>2, <1>4 DEF Promise, AppendKept
<1>6. AppendKept'
  BY <1>3, <1>5 DEF AppendKept, WriteEndsAs, Written, AppendEndsAs, Appended, Rest
<1>7. Still /\ FromKept'
  BY <1>1, <1>3, GoesOnStill DEF Idle
<1>8. TailFits'
  <2>1. Len(tailBuffer) \in Nat /\ Len(tailBuffer') \in Nat /\ TailSize \in Nat
    BY LenProperties, FileAssumption DEF Whole, TailOK, Kept
  <2> QED BY <1>2, <2>1 DEF TailFits
<1> QED BY <1>3, <1>6, <1>7, <1>8 DEF Promise, Maps, ReadKept, WriteKept

LEMMA AppendRestMaps ==
  ASSUME Whole, Whole', Promise, AppendRest
  PROVE  Promise' /\ Maps /\ TailFits'
<1>1. call.op = "append" /\ Idle' /\ result' = <<>>
  BY DEF AppendRest, Return, Idle, NoCall
<1>2. Content' = Content \o Rest /\ currentPosition' = Size' /\ TailFits'
  BY AppendRestContent DEF TailFits
<1>3. Size' = Size + Len(Rest)
  <2>1. /\ Content \in Seq(Byte) /\ Len(Content) = Size /\ Rest \in Seq(Byte)
        /\ Content' \in Seq(Byte) /\ Len(Content') = Size'
    BY ContentIs, ContentIsNext DEF Whole, ContentRows, CallOK, Rest
  <2>2. Len(Content \o Rest) = Size + Len(Rest)
    BY <2>1, ConcatProperties
  <2> QED BY <1>2, <2>1, <2>2
<1>4. \/ WriteEndsAs(Content', currentPosition')
      \/ AppendEndsAs(Content', currentPosition')
  BY <1>1, <1>2, <1>3 DEF Promise, AppendKept
<1> QED BY <1>1, <1>2, <1>4, WriteReturns, AppendReturns, ReturnsKept DEF Idle

------------------------------------------------------------------------------
(* flush, truncate, and what is done between calls.                        *)

LEMMA BeginFlushMaps ==
  ASSUME Whole, Whole', NEW op \in {"flush", "truncate"}, BeginFlush(op)
  PROVE  Promise' /\ Maps
<1>1. /\ Idle /\ UNCHANGED <<chunkMap, tailBuffer, currentPosition, result>>
      /\ stored' = Flushed /\ chunkBufferFlushNeeded' = FALSE
      /\ call' = [op |-> op, count |-> 0, data |-> <<>>, content |-> Content, from |-> currentPosition]
  BY DEF BeginFlush, Begin
<1>2. Content' = Content
  BY <1>1, FlushedContent
<1>3. Still /\ FromKept'
  BY <1>1, <1>2, BeginsStill DEF Idle
<1> QED BY <1>1, <1>3 DEF Promise, Maps, ReadKept, WriteKept, AppendKept

LEMMA FlushTailMaps ==
  ASSUME Whole, Whole', Promise, TailFits, NEW c \in Capacities, FlushTail(c)
  PROVE  Promise' /\ Maps /\ TailFits'
<1>1. call.op \in {"flush", "truncate"} /\ call' = call /\ result' = result
  BY DEF FlushTail, Flushing
<1>2. Still /\ FromKept'
  BY <1>1, GoesOnStill DEF Idle
<1>3. Len(tailBuffer') <= Len(tailBuffer)
  BY FlushTailContent
<1>4. TailFits'
  <2>1. Len(tailBuffer) \in Nat /\ Len(tailBuffer') \in Nat /\ TailSize \in Nat
    BY LenProperties, FileAssumption DEF Whole, TailOK, Kept
  <2> QED BY <1>3, <2>1 DEF TailFits
<1> QED BY <1>1, <1>2, <1>4 DEF Promise, Maps, ReadKept, WriteKept, AppendKept

LEMMA FlushEndsMaps ==
  ASSUME Whole, Whole', Promise, FlushSafe, FlushEnds
  PROVE  Promise' /\ Maps
<1>1. /\ call.op = "flush" /\ Idle' /\ result' = <<>>
      /\ UNCHANGED <<chunkMap, stored, bufferVars, tailBuffer, currentPosition>>
  BY DEF FlushEnds, Return, Idle, NoCall, mediaVars
<1>2. Content' = Content
  BY <1>1, StillContent
<1>3. Content = call.content /\ currentPosition = call.from
  BY <1>1 DEF FlushSafe, Flushing
<1>4. call.from \in 0 .. Len(call.content)
  BY <1>1, LenProperties DEF Promise, FromKept, Idle
<1>5. Seeks(call.content, Content', currentPosition', result')
  BY <1>1, <1>2, <1>3, <1>4 DEF Seeks
<1> QED BY <1>1, <1>5, ReturnsKept DEF Maps, Acts, FileContent, FilePosition, Idle

LEMMA TruncateMaps ==
  ASSUME Whole, Whole', Promise, FlushSafe, TruncateChunks
  PROVE  Promise' /\ Maps
<1>1. /\ call.op = "truncate" /\ Idle' /\ result' = <<>> /\ currentPosition' = currentPosition
  BY DEF TruncateChunks, Return, Idle, NoCall
<1>2. /\ Content = call.content /\ currentPosition = call.from /\ chunkBufferFlushNeeded = FALSE
  BY <1>1 DEF FlushSafe, Flushing
<1>3. Content' = Take(Content, currentPosition)
  BY <1>2, TruncateContent
<1>4. Truncates(call.content, call.from, Content', currentPosition', result')
  BY <1>1, <1>2, <1>3 DEF Truncates
<1> QED BY <1>1, <1>4, ReturnsKept DEF Maps, Acts, FileContent, FilePosition, Idle

LEMMA SetPositionMaps ==
  ASSUME Whole, Whole', NEW p \in 0 .. Size, SetPosition(p)
  PROVE  Promise' /\ Maps
<1>1. /\ Idle /\ Idle' /\ result' = <<>> /\ currentPosition' = p
      /\ UNCHANGED <<chunkMap, stored, bufferVars, tailBuffer>>
  BY DEF SetPosition, Idle, mediaVars
<1>2. Content' = Content /\ Len(Content) = Size
  BY <1>1, StillContent, ContentIs DEF Whole, ContentRows
<1>3. Seeks(Content, Content', currentPosition', result')
  BY <1>1, <1>2 DEF Seeks
<1> QED BY <1>1, <1>3, ReturnsKept DEF Maps, Acts, FileContent, FilePosition

LEMMA ReopenMaps ==
  ASSUME Whole, Whole', Reopen
  PROVE  Promise' /\ Maps
<1>1. Idle /\ Idle' /\ result' = <<>> /\ currentPosition' = 0
  BY DEF Reopen, Idle
<1>2. Content' = Content /\ Content \in Seq(Byte)
  BY ReopenContent, ContentIs DEF Whole, ContentRows
<1>3. 0 \in 0 .. Len(Content)
  BY <1>2, LenProperties
<1>4. Seeks(Content, Content', currentPosition', result')
  BY <1>1, <1>2, <1>3 DEF Seeks
<1> QED BY <1>1, <1>4, ReturnsKept DEF Maps, Acts, FileContent, FilePosition

(* Where nothing goes wrong every step is one of those above. *)
LEMMA NothingFails ==
  ASSUME Whole, faults = {}
  PROVE  /\ ~ReadFails /\ ~WriteFails /\ ~WritePastUnloaded /\ ~AppendFails
         /\ ~FlushFails /\ ~TruncateFails /\ ~TruncateHalfDone /\ ~TruncateNothing /\ ~RefusedAtOnce
<1>1. ~SaveFails /\ ~LoadFails /\ ~TruncatesEmpty
  BY DEF SaveFails, LoadFails, TruncatesEmpty
<1>2. ~EvictionFails
  BY <1>1 DEF EvictionFails
<1>3. currentPosition < CurrentStoredSize => Readable(Needed)
  BY NeededLemma DEF Whole, Readable, StoredOK, Good
<1>4. currentPosition < CurrentStoredSize => ~LoadIntoBufferFails
  BY <1>1, <1>3 DEF LoadIntoBufferFails
<1>5. ~ReadFails
  BY <1>1, <1>2, <1>3, <1>4 DEF ReadFails
<1>6. ~WriteFails /\ ~WritePastUnloaded
  BY <1>1, <1>2, <1>3, <1>4 DEF WriteFails, WritePastUnloaded, InChunks
<1>7. /\ ~AppendFails /\ ~FlushFails /\ ~TruncateFails /\ ~TruncateHalfDone /\ ~TruncateNothing
      /\ ~RefusedAtOnce
  BY <1>1 DEF AppendFails, FlushFails, TruncateFails, TruncateHalfDone, TruncateNothing, RefusedAtOnce
<1> QED BY <1>5, <1>6, <1>7

LEMMA TailStill ==
  ASSUME TailFits, UNCHANGED tailBuffer
  PROVE  TailFits'
BY DEF TailFits

LEMMA NextMaps ==
  ASSUME Whole, Whole', faults = {}, TailFits, Promise, FlushSafe, Next
  PROVE  Promise' /\ Maps /\ TailFits'
<1>1. ~LoadFails
  BY DEF LoadFails
<1>2. CASE ReadLoaded \/ ReadThrough \/ ReadIntoBuffer
  <2>1. UNCHANGED tailBuffer
    BY <1>2 DEF ReadLoaded, ReadThrough, ReadIntoBuffer, CopyOut
  <2> QED BY <1>1, <1>2, <2>1, ReadChunkMaps, TailStill
<1>3. CASE ReadTail
  <2>1. UNCHANGED tailBuffer
    BY <1>3 DEF ReadTail
  <2> QED BY <1>3, <2>1, ReadTailMaps, TailStill
<1>4. CASE WritePast \/ WriteInto
  <2>1. UNCHANGED tailBuffer
    BY <1>4 DEF WritePast, WriteInto, Wrote
  <2> QED BY <1>1, <1>4, <2>1, WriteChunkMaps, TailStill
<1>5. CASE WriteTail
  BY <1>5, WriteTailMaps
<1>6. CASE WriteEnds
  <2>1. UNCHANGED tailBuffer
    BY <1>6 DEF WriteEnds
  <2> QED BY <1>6, <2>1, WriteEndsMaps, TailStill
<1>7. CASE \E c \in Capacities : AppendChunk(c)
  BY <1>7, AppendChunkMaps
<1>8. CASE AppendRest
  BY <1>8, AppendRestMaps
<1>9. CASE \E c \in Capacities : FlushTail(c)
  BY <1>9, FlushTailMaps
<1>10. CASE FlushEnds
  <2>1. UNCHANGED tailBuffer
    BY <1>10 DEF FlushEnds
  <2> QED BY <1>10, <2>1, FlushEndsMaps, TailStill
<1>11. CASE TruncateChunks
  <2>1. UNCHANGED tailBuffer
    BY <1>11 DEF TruncateChunks
  <2> QED BY <1>11, <2>1, TruncateMaps, TailStill
<1>12. CASE \E n \in 0 .. MaxCount : BeginRead(n)
  <2>1. UNCHANGED tailBuffer
    BY <1>12 DEF BeginRead
  <2> QED BY <1>12, <2>1, BeginReadMaps, TailStill
<1>13. CASE \E n \in 0 .. MaxCount, v \in Versions : BeginWrite(n, v) \/ BeginAppend(n, v)
  <2>1. UNCHANGED tailBuffer
    BY <1>13 DEF BeginWrite, BeginAppend
  <2> QED BY <1>13, <2>1, BeginWriteMaps, BeginAppendMaps, TailStill
<1>14. CASE BeginFlush("flush") \/ BeginFlush("truncate")
  <2>1. UNCHANGED tailBuffer
    BY <1>14 DEF BeginFlush
  <2> QED BY <1>14, <2>1, BeginFlushMaps, TailStill
<1>15. CASE \E p \in 0 .. Size : SetPosition(p)
  <2>1. UNCHANGED tailBuffer
    BY <1>15 DEF SetPosition
  <2> QED BY <1>15, <2>1, SetPositionMaps, TailStill
<1>16. CASE Reopen
  <2>1. UNCHANGED tailBuffer
    BY <1>16 DEF Reopen
  <2> QED BY <1>16, <2>1, ReopenMaps, TailStill
<1> QED
  BY NothingFails, <1>2, <1>3, <1>4, <1>5, <1>6, <1>7, <1>8, <1>9, <1>10, <1>11, <1>12, <1>13,
     <1>14, <1>15, <1>16 DEF Next, Step

------------------------------------------------------------------------------
(* The theorem.                                                            *)

AbstractContent  == IF faults # {} THEN <<>> ELSE FileContent
AbstractPosition == IF faults # {} THEN 0 ELSE FilePosition
AbstractResult   == IF faults # {} THEN <<>> ELSE result

(* What holds where nothing goes wrong. *)
Faultless == faults = {} => FileInv /\ FlushSafe /\ TailFits /\ Promise

LEMMA FaultlessWhole ==
  ASSUME FileInv, faults = {}
  PROVE  Whole
BY DEF FileInv, Whole, Stuck, LoadFails

LEMMA FaultlessWholeNext ==
  ASSUME FileInv', faults' = {}
  PROVE  Whole'
BY DEF FileInv, Whole, Stuck, LoadFails

LEMMA FaultlessInit ==
  ASSUME Init
  PROVE  Faultless
<1>1. FileInv
  BY InitStep
<1>2. FlushSafe /\ Promise
  BY DEF Init, NoCall, FlushSafe, Flushing, Promise, ReadKept, WriteKept, AppendKept, FromKept, Idle
<1>3. TailFits
  <2>1. PICK c \in Capacities : c \in Nat /\ c < TailSize /\ TailSize \in Nat
    BY FileAssumption
  <2>2. 0 < TailSize
    BY <2>1
  <2> QED BY <2>2 DEF Init, TailFits
<1> QED BY <1>1, <1>2, <1>3 DEF Faultless

LEMMA FaultlessStep ==
  ASSUME Faultless, faults = {}, [Next]_fileVars
  PROVE  /\ faults' = {} /\ FileInv' /\ FlushSafe' /\ TailFits' /\ Promise'
         /\ Maps
<1>1. faults' = {}
  BY FaultsStay
<1>2. FileInv /\ FlushSafe /\ TailFits /\ Promise
  BY DEF Faultless
<1>3. CASE Next
  <2>1. ~(LoadFails /\ SaveFails)
    BY DEF LoadFails
  <2>2. FileInv'
    BY <1>2, <1>3, <2>1, NextStep DEF TruncateHalfDone, LoadFails
  <2>3. FlushSafe'
    BY <1>2, <1>3, <2>2, FlushSafeStep
  <2>4. Whole /\ Whole'
    BY <1>1, <1>2, <2>2, FaultlessWhole, FaultlessWholeNext
  <2>5. Promise' /\ Maps /\ TailFits'
    BY <1>2, <1>3, <2>4, NextMaps
  <2> QED BY <1>1, <2>2, <2>3, <2>5
<1>4. CASE UNCHANGED fileVars
  <2>1. Content' = Content /\ Size' = Size
    BY <1>4, SameFile DEF fileVars, Size, CurrentStoredSize
  <2>2. UNCHANGED <<started, chunkBufferFlushNeeded, currentPosition, call, tailBuffer, result>>
    BY <1>4 DEF fileVars
  <2>3. FileInv'
    BY <1>2, <1>4, StutterStep
  <2>4. FlushSafe' /\ TailFits'
    BY <1>2, <2>1, <2>2 DEF FlushSafe, Flushing, TailFits
  <2>5. Promise'
    BY <1>2, <2>1, <2>2 DEF Promise, ReadKept, WriteKept, AppendKept, FromKept, Idle, Rest,
       WriteEndsAs, Written, AppendEndsAs, Appended
  <2>6. Maps
    BY <2>1, <2>2 DEF Maps, Still, FileContent, FilePosition, Idle
  <2> QED BY <1>1, <2>3, <2>4, <2>5, <2>6
<1> QED BY <1>3, <1>4

(* What the user sees change is what a ByteFile does. *)
LEMMA ActsAsByteFile ==
  ASSUME faults = {}, faults' = {}, Promise, Promise', Maps
  PROVE  [Abstract!ByteFileNext]_<<AbstractContent, AbstractPosition, AbstractResult>>
<1>1. /\ AbstractContent = FileContent /\ AbstractContent' = FileContent'
      /\ AbstractPosition = FilePosition /\ AbstractPosition' = FilePosition'
      /\ AbstractResult = result /\ AbstractResult' = result'
  BY DEF AbstractContent, AbstractPosition, AbstractResult
<1>2. CASE Still
  BY <1>1, <1>2 DEF Still
<1>3. CASE Reads(FileContent, FilePosition, FileContent', FilePosition', result')
  <2>1. PICK n \in 0 .. MaxCount :
          LET m == Smaller(n, Len(FileContent) - FilePosition)
          IN  /\ result' = SubSeq(FileContent, FilePosition + 1, FilePosition + m)
              /\ FilePosition' = FilePosition + m /\ FileContent' = FileContent
    BY <1>3 DEF Reads
  <2>2. Abstract!ReadBytes(n)
    BY <2>1 DEF Abstract!ReadBytes, Abstract!Least, Smaller, FileContent, FilePosition
  <2> QED BY <2>2 DEF Abstract!ByteFileNext
<1>4. CASE Writes(FileContent, FilePosition, FileContent', FilePosition', result')
  <2>1. PICK n \in 0 .. MaxCount, v \in Versions :
          /\ FilePosition + n <= MaxFile
          /\ FileContent' = Take(FileContent, FilePosition) \o Data(FilePosition, n, v)
                            \o Drop(FileContent, FilePosition + n)
          /\ FilePosition' = FilePosition + n /\ result' = <<>>
    BY <1>4 DEF Writes
  <2>2. Abstract!WriteBytes(n, v)
    BY <2>1 DEF Abstract!WriteBytes, Abstract!Bytes, Take, Drop, Data, FileContent, FilePosition
  <2> QED BY <2>2 DEF Abstract!ByteFileNext
<1>5. CASE Appends(FileContent, FileContent', FilePosition', result')
  <2>1. PICK n \in 0 .. MaxCount, v \in Versions :
          /\ Len(FileContent) + n <= MaxFile
          /\ FileContent' = FileContent \o Data(Len(FileContent), n, v)
          /\ FilePosition' = Len(FileContent') /\ result' = <<>>
    BY <1>5 DEF Appends
  <2>2. Abstract!AppendBytes(n, v)
    BY <2>1 DEF Abstract!AppendBytes, Abstract!Bytes, Data, FileContent, FilePosition
  <2> QED BY <2>2 DEF Abstract!ByteFileNext
<1>6. CASE Truncates(FileContent, FilePosition, FileContent', FilePosition', result')
  <2>1. Abstract!TruncateBytes
    BY <1>6 DEF Abstract!TruncateBytes, Truncates, Take, FileContent, FilePosition
  <2> QED BY <2>1 DEF Abstract!ByteFileNext
<1>7. CASE Seeks(FileContent, FileContent', FilePosition', result')
  <2>1. Abstract!Seek(FilePosition')
    BY <1>7 DEF Abstract!Seek, Seeks, FileContent, FilePosition
  <2>2. Abstract!ByteFileNext
    BY <1>7, <2>1 DEF Abstract!ByteFileNext, Seeks, FileContent, FilePosition
  <2> QED BY <2>2
<1> QED BY <1>2, <1>3, <1>4, <1>5, <1>6, <1>7 DEF Maps, Acts

LEMMA StepIsByteFile ==
  ASSUME Faultless, [Next]_fileVars
  PROVE  /\ Faultless'
         /\ [Abstract!ByteFileNext]_<<AbstractContent, AbstractPosition, AbstractResult>>
<1>1. CASE faults = {}
  BY <1>1, FaultlessStep, ActsAsByteFile DEF Faultless
<1>2. CASE faults # {}
  <2>1. faults' = faults
    BY FaultsStay
  <2>2. UNCHANGED <<AbstractContent, AbstractPosition, AbstractResult>>
    BY <1>2, <2>1 DEF AbstractContent, AbstractPosition, AbstractResult
  <2> QED BY <1>2, <2>1, <2>2 DEF Faultless
<1> QED BY <1>1, <1>2

LEMMA InitIsByteFile ==
  ASSUME Init
  PROVE  Abstract!ByteFileInit
<1>1. Content = <<>>
  <2>1. CurrentStoredSize = 0
    BY DEF Init, CurrentStoredSize
  <2>2. StoredBytes(Payload) = <<>>
    BY <2>1 DEF StoredBytes
  <2> QED BY <2>2 DEF Init, Content
<1> QED BY <1>1 DEF Init, Idle, NoCall, Abstract!ByteFileInit

(* Where the media works and the file is not misused, a virtual file is a  *)
(* ByteFile: with each call taken to act when it returns, the chunks, the  *)
(* chunk buffer and the tail buffer are never seen.                        *)
THEOREM VirtualFileIsByteFile == Spec => IsByteFile
<1>1. Spec => Abstract!ByteFileInit
  BY InitIsByteFile DEF Spec
<1>2. Init => Faultless
  BY FaultlessInit
<1>3. Faultless /\ [Next]_fileVars => Faultless'
  BY StepIsByteFile
<1>4. Faultless /\ [Next]_fileVars => [Abstract!ByteFileNext]_(Abstract!byteFileVars)
  BY StepIsByteFile DEF Abstract!byteFileVars, AbstractContent, AbstractPosition, AbstractResult,
     FileContent, FilePosition
<1> QED
  BY <1>1, <1>2, <1>3, <1>4, PTL DEF Spec, IsByteFile, Abstract!ByteFileSpec
==============================================================================
