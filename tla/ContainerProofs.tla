---------------------------- MODULE ContainerProofs ----------------------------
(***************************************************************************)
(* Safety of Container for every set of names, contents and chunk sizes,   *)
(* and every history, on containers that do not truncate: whatever is      *)
(* created, written, cut, erased or renamed, and however often the         *)
(* container is closed and scanned.  The invariant ContainerInv is         *)
(* inductive, each property follows from it, and each step is a step of    *)
(* Archive or none.                                                        *)
(***************************************************************************)
EXTENDS Container, FreeMapLemmas, FiniteSetTheorems

(* Headers and areas: where they end, the units they take. *)
Area   == [at : Nat, units : ChunkUnits]
Header == [at : Nat, units : ChunkUnits, kind : {"fill", "start", "data"}, id : Nat,
           name : Names \cup {Nobody}, offset : Nat, data : Pieces \cup {NoPiece}]

End(c)       == c.at + c.units
Takes(c, u)  == c.at <= u /\ u < End(c)
Beside(c, b) == End(c) <= b.at \/ End(b) <= c.at
Clear(r, c)  == End(c) <= r.start \/ r.end <= c.at

(* A media of z units: every header lies on it, and none in another. *)
MediaOK(M, z) ==
  /\ M \subseteq Header
  /\ \A m \in M : HeaderUnits <= m.at /\ End(m) <= z
  /\ \A m, x \in M : m = x \/ Beside(m, x)

(* The regions of the free map lie on it. *)
MapOK(map, z) ==
  /\ WellFormed(map) /\ CoalescedRegions(map)
  /\ \A r \in map : ~r.reserved /\ HeaderUnits <= r.start /\ r.end <= z

(* The headers L are in use, the areas A are in use no longer and not yet  *)
(* in the map.  With the regions they lie apart and leave no hole; no      *)
(* header reaches over the start of a region or an area.                   *)
SpaceOK(M, z, map, L, A) ==
  /\ L \subseteq M
  /\ \A a \in A : /\ a.at \in Nat /\ a.units \in Nat \ {0} /\ HeaderUnits <= a.at /\ End(a) <= z
                  /\ \A b \in A : a = b \/ Beside(a, b)
                  /\ \A m \in L : Beside(a, m)
                  /\ \A m \in M : m.at < a.at => End(m) <= a.at
                  /\ \A r \in map : Clear(r, a)
  /\ \A r \in map : /\ \A m \in L : Clear(r, m)
                    /\ \A m \in M : m.at < r.start => End(m) <= r.start
  /\ \A u \in HeaderUnits .. z - 1 :
       (\E r \in map : In(u, r)) \/ (\E m \in L : Takes(m, u)) \/ (\E a \in A : Takes(a, u))

(* What the media shows: the chunks in use and fill chunks, except where   *)
(* an area or a region that waits to be flushed is; fill chunks all over   *)
(* the regions that do not wait.                                           *)
ShownOK(M, map, L, A) ==
  /\ \A m \in M : \/ m.kind = "fill" \/ m \in L
                  \/ \E r \in map : r.dirty /\ In(m.at, r)
                  \/ \E a \in A : Takes(a, m.at)
  /\ \A r \in map : ~r.dirty =>
       \A u \in r.start .. r.end - 1 : \E m \in M : m.kind = "fill" /\ Takes(m, u)

DiskOK(M, z, map, L, A) ==
  /\ z \in Nat /\ HeaderUnits <= z
  /\ MediaOK(M, z) /\ MapOK(map, z) /\ SpaceOK(M, z, map, L, A) /\ ShownOK(M, map, L, A)

------------------------------------------------------------------------------
(* The headers of a file. *)
StartOf(m, n, f) ==
  /\ m.kind = "start" /\ f.start # 0 /\ m.at = f.start /\ m.units = StartUnits
  /\ m.id = f.id /\ m.name = n
DataOf(m, f) ==
  /\ m.kind = "data" /\ m.id = f.id /\ m.offset \in DOMAIN f.chunks
  /\ m.at = f.chunks[m.offset].at /\ m.units = f.chunks[m.offset].units

(* The headers L are those of the files, and all of them. *)
Owned(fs, m) == \E n \in DOMAIN fs : StartOf(m, n, fs[n]) \/ DataOf(m, fs[n])
Backed(fs, L) ==
  /\ \A m \in L : Owned(fs, m)
  /\ \A n \in DOMAIN fs :
       /\ fs[n].start # 0 => \E m \in L : StartOf(m, n, fs[n])
       /\ \A o \in DOMAIN fs[n].chunks : \E m \in L : DataOf(m, fs[n]) /\ m.offset = o

Rows == UNION {[0 .. k - 1 -> Area] : k \in Nat}
File == [id : Nat, start : Nat, chunks : Rows, tail : {<<>>} \cup {<<p>> : p \in Pieces}]

FilesOK ==
  /\ DOMAIN files \subseteq Names
  /\ \A n \in DOMAIN files : files[n] \in File /\ files[n].id \in ids
  /\ ids \subseteq Nat /\ IsFiniteSet(ids)
  /\ IdentifiersDiffer /\ \A n \in DOMAIN files : InOrder(files[n])

(* What a scan will find: the start chunk of a file before its data, which *)
(* is in order and complete from the front.                                *)
Streams(M) ==
  LET starts == {m \in M : m.kind = "start"}
      datas  == {m \in M : m.kind = "data"}
  IN  /\ \A m \in starts : m.units = StartUnits /\ m.name \in Names
      /\ \A m, x \in starts : m.id = x.id \/ m.name = x.name => m = x
      /\ \A m \in datas : \E x \in starts : x.id = m.id /\ x.at < m.at
      /\ \A m, x \in datas : m.id = x.id => /\ m.offset = x.offset => m = x
                                            /\ m.offset < x.offset => m.at < x.at
      /\ \A m \in datas : \A o \in 0 .. m.offset - 1 : \E x \in datas : x.id = m.id /\ x.offset = o

Covered(M, z) == \A u \in HeaderUnits .. z - 1 : \E m \in M : Takes(m, u)

InUseInv ==
  InUse =>
    /\ length = size
    /\ \E L \in SUBSET media : DiskOK(media, size, freeMap, L, {}) /\ Backed(files, L)

ClosingInv ==
  phase = "closing" =>
    /\ \A m \in media : m.kind = "fill" \/ Owned(files, m)
    /\ Orderly => Buffered = {} /\ \A r \in freeMap : ~r.dirty

StoredInv ==
  phase \in {"closed", "opened", "scanning"} =>
    /\ length = size /\ size \in Nat
    /\ MediaOK(media, size) /\ Streams(media)
    /\ size = 0 => phase = "closed" /\ media = {}
    /\ size # 0 => HeaderUnits <= size
    /\ Orderly => Covered(media, size)

NothingKnown == scan = HeaderUnits /\ freeMap = {} /\ DOMAIN files = {} 

Scanned == {m \in media : m.at < scan}
ScanInv ==
  /\ phase = "opened" => NothingKnown
  /\ phase = "scanning" =>
       /\ scan <= size /\ \A r \in freeMap : ~r.dirty
       /\ \A n \in DOMAIN files : files[n].start # 0
       /\ \E L \in SUBSET Scanned : DiskOK(Scanned, scan, freeMap, L, {}) /\ Backed(files, L)

Phases == {"closed", "opened", "scanning", "ready", "closing", "failed"}

ContainerInv ==
  phase \in Phases /\ FilesOK /\ InUseInv /\ ClosingInv /\ StoredInv /\ ScanInv
------------------------------------------------------------------------------
(* A step that is taken for each member of a finite set, whichever comes   *)
(* first, has a result for each subset. *)
Taking(g, S, X, base, step) ==
  /\ g \in [SUBSET S -> X]
  /\ g = [s \in SUBSET S |->
            IF s = {} THEN base ELSE step[<<CHOOSE x \in s : TRUE, g[s \ {CHOOSE x \in s : TRUE}]>>]]

LEMMA TakingExists ==
  ASSUME NEW S, IsFiniteSet(S), NEW X, NEW base \in X, NEW step \in [S \X X -> X]
  PROVE  \E g : Taking(g, S, X, base, step)
<1> DEFINE next == [s \in SUBSET S |-> CHOOSE x \in s : TRUE]
<1>1. \A s \in SUBSET S : next[s] = CHOOSE x \in s : TRUE
  OBVIOUS
<1>2. \A s \in SUBSET S : s # {} => next[s] \in s
  OBVIOUS
<1> HIDE DEF next
<1>3. PICK g : Folding(g, S, X, base, step, next)
  BY <1>2, FoldExists
<1>4. g \in [SUBSET S -> X]
  BY <1>3, Zenon DEF Folding
<1>5. g = [s \in SUBSET S |-> IF s = {} THEN base ELSE step[<<next[s], g[s \ {next[s]}]>>]]
  BY <1>3, Zenon DEF Folding
<1>6. g = [s \in SUBSET S |->
            IF s = {} THEN base ELSE step[<<CHOOSE x \in s : TRUE, g[s \ {CHOOSE x \in s : TRUE}]>>]]
  BY <1>1, <1>5
<1> QED BY <1>4, <1>6, Zenon DEF Taking

------------------------------------------------------------------------------
(* What ContainerAssumption gives. *)
LEMMA SizesLemma ==
  /\ ChunkUnits \subseteq Nat \ {0} /\ \A c \in ChunkUnits : 1 <= c /\ c <= MaxUnits
  /\ MaxUnits \in ChunkUnits /\ StartUnits \in ChunkUnits
  /\ MaxUnits \in Nat /\ 1 <= MaxUnits /\ StartUnits \in Nat /\ 1 <= StartUnits
  /\ HeaderUnits \in Nat /\ 1 <= HeaderUnits
<1>1. PICK m \in ChunkUnits : \A c \in ChunkUnits : c <= m
  BY ContainerAssumption
<1>2. \A c \in ChunkUnits : m >= c
  BY <1>1, ContainerAssumption
<1>3. MaxUnits \in ChunkUnits /\ \A c \in ChunkUnits : MaxUnits >= c
  BY <1>2 DEF MaxUnits, Max
<1> QED BY <1>3, ContainerAssumption

LEMMA HeaderFacts ==
  ASSUME NEW m \in Header
  PROVE  /\ m.at \in Nat /\ m.units \in Nat /\ 1 <= m.units /\ m.units \in ChunkUnits
         /\ End(m) \in Nat /\ m.at < End(m) /\ \A u \in Nat : Takes(m, u) <=> u \in m.at .. End(m) - 1
<1>1. m.at \in Nat /\ m.units \in ChunkUnits
  BY DEF Header
<1>2. m.units \in Nat /\ 1 <= m.units
  BY <1>1, SizesLemma
<1> QED BY <1>1, <1>2 DEF End, Takes

(* The largest chunk that fits is a chunk, and fits. *)
LEMMA LargestLemma ==
  ASSUME NEW n \in Nat, 1 <= n
  PROVE  Largest(n) \in ChunkUnits /\ Largest(n) \in Nat /\ 1 <= Largest(n) /\ Largest(n) <= n
<1> DEFINE fits == {c \in ChunkUnits : c <= n}
<1>1. fits \subseteq Nat /\ fits # {} /\ \A c \in fits : c <= n
  BY ContainerAssumption
<1> HIDE DEF fits
<1>2. \E c \in fits : \A d \in fits : c >= d
  BY <1>1, LargestOf
<1>3. Max(fits) \in fits
  BY <1>2 DEF Max
<1>4. Largest(n) \in fits
  BY <1>3 DEF Largest, fits
<1> QED BY <1>4, SizesLemma DEF fits

(* The fill chunks that are written over a region lie in it and cover it. *)
FillsOver(F, s, e) ==
  /\ \A m \in F : m \in Header /\ m.kind = "fill" /\ s <= m.at /\ End(m) <= e
  /\ \A m, x \in F : m = x \/ Beside(m, x)
  /\ \A u \in s .. e - 1 : \E m \in F : Takes(m, u)

LEMMA FillLemma ==
  ASSUME NEW p \in Nat, NEW n \in ChunkUnits
  PROVE  LET m == At(Fill(n), p)
         IN  m \in Header /\ m.kind = "fill" /\ m.at = p /\ m.units = n
BY DEF At, Fill, Chunk, Header, NoPiece, Nobody

LEMMA FillsLemma ==
  ASSUME NEW s \in Nat, NEW e \in Nat, s <= e
  PROVE  FillsOver(Fills(s, e), s, e)
<1> DEFINE Rec(g, q) == [p \in q .. e |-> IF p = e THEN {}
                           ELSE {At(Fill(Largest(e - p)), p)} \cup g[p + Largest(e - p)]]
           Good(q) == \E g : g = Rec(g, q)
           Bad == {q \in 0 .. e : ~Good(q)}
<1>0. ASSUME NEW p \in Nat, p < e
      PROVE  /\ e - p \in Nat /\ Largest(e - p) \in ChunkUnits /\ Largest(e - p) \in Nat
             /\ p + Largest(e - p) \in p + 1 .. e
  <2>1. e - p \in Nat /\ 1 <= e - p
    BY <1>0
  <2>2. PICK n \in Nat : n = Largest(e - p) /\ 1 <= n /\ n <= e - p /\ n \in ChunkUnits
    BY <2>1, LargestLemma
  <2> QED BY <1>0, <2>1, <2>2
<1>1. Good(e)
  <2>1. [p \in e .. e |-> {}] = Rec([p \in e .. e |-> {}], e)
    OBVIOUS
  <2> QED BY <2>1
<1>2. ASSUME NEW q \in Nat, q < e, Good(q + 1) PROVE Good(q)
  <2>1. PICK h : h = Rec(h, q + 1)
    BY <1>2
  <2> DEFINE g == Rec(h, q)
  <2>2. \A p \in q + 1 .. e : g[p] = h[p]
    <3>1. \A p \in q + 1 .. e : Rec(h, q + 1)[p] = g[p]
      OBVIOUS
    <3> HIDE DEF Rec
    <3> QED BY <2>1, <3>1
  <2>3. \A p \in q .. e : p # e => p + Largest(e - p) \in q + 1 .. e
    BY <1>0
  <2>4. g = Rec(g, q)
    BY <2>2, <2>3
  <2> QED BY <2>4
<1> HIDE DEF Good
<1>3. Bad = {}
  <2>1. SUFFICES ASSUME Bad # {} PROVE FALSE
    OBVIOUS
  <2>2. Bad \subseteq Nat /\ \A q \in Bad : q <= e
    OBVIOUS
  <2>3. PICK b \in Bad : \A c \in Bad : b >= c
    BY <2>1, <2>2, LargestOf
  <2>4. b \in Nat /\ b < e
    BY <1>1
  <2>5. b + 1 \in 0 .. e /\ b + 1 \notin Bad
    BY <2>3, <2>4
  <2> QED BY <1>2, <2>4, <2>5
<1> DEFINE f == CHOOSE g : g = Rec(g, s)
<1>4. f = Rec(f, s)
  <2>1. Good(s)
    BY <1>3
  <2> QED BY <2>1 DEF Good
<1>5. f[s] = Fills(s, e)
  BY DEF Fills
<1> HIDE DEF f
<1> DEFINE Short == {p \in s .. e : ~FillsOver(f[p], p, e)}
<1>6. Short = {}
  <2>1. SUFFICES ASSUME Short # {} PROVE FALSE
    OBVIOUS
  <2>2. Short \subseteq Nat /\ \A q \in Short : q <= e
    OBVIOUS
  <2>3. PICK p \in Short : \A c \in Short : p >= c
    BY <2>1, <2>2, LargestOf
  <2>4. p \in Nat /\ s <= p /\ p < e
    <3>1. f[e] = {}
      BY <1>4
    <3>2. FillsOver(f[e], e, e)
      BY <3>1 DEF FillsOver
    <3> QED BY <3>2
  <2>5. PICK n \in ChunkUnits : n = Largest(e - p) /\ n \in Nat /\ p + n \in p + 1 .. e
    BY <1>0, <2>4
  <2>6. PICK t \in Nat : t = p + n /\ p < t /\ t <= e
    BY <2>4, <2>5
  <2>7. FillsOver(f[t], t, e)
    <3>1. t \notin Short /\ t \in s .. e
      BY <2>3, <2>4, <2>6
    <3> QED BY <3>1
  <2>8. PICK m \in Header : m = At(Fill(n), p) /\ m.kind = "fill" /\ m.at = p /\ m.units = n
    BY <2>4, FillLemma
  <2>9. f[p] = {m} \cup f[t]
    BY <1>4, <2>4, <2>5, <2>6, <2>8
  <2>10. End(m) = t
    BY <2>6, <2>8 DEF End
  <2>11. FillsOver(f[p], p, e)
    <3>1. \A x \in f[t] : x \in Header /\ x.kind = "fill" /\ p <= x.at /\ End(x) <= e /\ Beside(m, x) /\ Beside(x, m)
      <4> SUFFICES ASSUME NEW x \in f[t]
                   PROVE  x \in Header /\ x.kind = "fill" /\ p <= x.at /\ End(x) <= e /\ Beside(m, x) /\ Beside(x, m)
        OBVIOUS
      <4>1. x \in Header /\ x.kind = "fill" /\ t <= x.at /\ End(x) <= e
        BY <2>7 DEF FillsOver
      <4>2. x.at \in Nat
        BY <4>1, HeaderFacts
      <4> QED BY <2>4, <2>6, <2>10, <4>1, <4>2 DEF Beside
    <3>2. \A u \in p .. e - 1 : Takes(m, u) \/ u \in t .. e - 1
      BY <2>4, <2>6, <2>8, <2>10 DEF Takes
    <3> QED BY <2>4, <2>6, <2>7, <2>8, <2>9, <2>10, <3>1, <3>2 DEF FillsOver
  <2> QED BY <2>3, <2>11
<1> QED BY <1>5, <1>6
------------------------------------------------------------------------------
(* A chunk that is saved at the front of its reservation. *)

(* In the map, what it leaves of a region stays, and is dirty. *)
Rest(r, e) == IF e < r.end THEN {Entry(e, r.end, FALSE, TRUE)} ELSE {}

LEMMA RestLemma ==
  ASSUME NEW map, NEW z \in Nat, MapOK(map, z), NEW r \in map, NEW e \in Nat, r.start < e
  PROVE  /\ MapOK((map \ {r}) \cup Rest(r, e), z)
         /\ \A q \in Rest(r, e) : q.start = e /\ q.end = r.end /\ e < r.end /\ q.dirty /\ ~q.reserved
<1> DEFINE n == Entry(e, r.end, FALSE, TRUE)
<1>1. r \in Region /\ r.start \in Nat /\ r.end \in Nat /\ HeaderUnits <= r.start /\ r.end <= z
  BY DEF MapOK, WellFormed, Region
<1>2. n \in Region /\ n.start = e /\ n.end = r.end /\ n.reserved = FALSE /\ n.dirty = TRUE
  BY <1>1, EntryLemma
<1> HIDE DEF n
<1>3. Rest(r, e) = IF e < r.end THEN {n} ELSE {}
  BY DEF Rest, n
<1>4. \A q \in map \ {r} : /\ q \in Region /\ q.start \in Nat /\ q.end \in Nat /\ q.start < q.end
                           /\ (q.end <= r.start \/ r.end <= q.start)
                           /\ (r.end # q.start)
  BY DEF MapOK, WellFormed, NonEmpty, DisjointRegions, CoalescedRegions, Apart, Region
<1>5. MapOK(map \ {r}, z)
  BY DEF MapOK, WellFormed, NonEmpty, DisjointRegions, CoalescedRegions
<1>6. CASE e < r.end
  <2> DEFINE new == (map \ {r}) \cup {n}
  <2>1. WellFormed(new)
    BY <1>1, <1>2, <1>4, <1>5, <1>6 DEF MapOK, WellFormed, NonEmpty, DisjointRegions, Apart
  <2>2. CoalescedRegions(new)
    BY <1>1, <1>2, <1>4, <1>5, <1>6 DEF MapOK, CoalescedRegions
  <2>3. \A q \in new : ~q.reserved /\ HeaderUnits <= q.start /\ q.end <= z
    BY <1>1, <1>2, <1>5, <1>6, SizesLemma DEF MapOK
  <2> QED BY <1>2, <1>3, <1>6, <2>1, <2>2, <2>3 DEF MapOK
<1>7. CASE ~(e < r.end)
  BY <1>3, <1>5, <1>7
<1> QED BY <1>6, <1>7

(* A request starts at a region, or at the end of the media. *)
Served(map, z, from, minimum, desired, b, l) ==
  LET U == Usable(map, from, minimum)
  IN  /\ Allocation(map, z, from, minimum, desired) = [start |-> b, end |-> l] /\ from <= b /\ b < l
      /\ \/ U # {} /\ First(U) \in map /\ First(U).start = b /\ l <= First(U).end
         \/ U = {} /\ b = z

LEMMA AllocationLemma ==
  ASSUME NEW map, NEW z \in Nat, MapOK(map, z),
         NEW from \in Nat, from <= z, \A r \in map : ~(r.start < from /\ from < r.end),
         NEW minimum \in Nat, NEW desired \in Nat, 1 <= minimum, minimum <= desired
  PROVE  \E b \in Nat, l \in Nat : Served(map, z, from, minimum, desired, b, l)
<1> DEFINE U == Usable(map, from, minimum)
<1>0. \A q \in map : /\ q \in Region /\ q.start \in Nat /\ q.end \in Nat /\ q.start < q.end
  BY DEF MapOK, WellFormed, NonEmpty, Region
<1>1. CASE U # {}
  <2>1. U \subseteq Region
    BY <1>0 DEF Usable
  <2>2. PICK r : r = First(U)
    OBVIOUS
  <2>3. r \in map /\ r.end >= from + minimum
    BY <1>1, <2>1, <2>2, FirstLemma DEF Usable
  <2>4. PICK b \in Nat, k \in Nat : b = r.start /\ k = r.end /\ b < k /\ from + minimum <= k
    BY <1>0, <2>3
  <2>5. from <= b
    <3>1. ~(b < from /\ from < k)
      BY <2>3, <2>4
    <3> QED BY <2>4, <3>1
  <2>6. Higher(b, from) = b
    BY <2>5 DEF Higher
  <2>7. PICK l \in Nat : l = Lower(b + desired, k) /\ l <= k /\ b < l
    BY <2>4 DEF Lower
  <2>8. Allocation(map, z, from, minimum, desired) = [start |-> b, end |-> l]
    BY <1>1, <2>2, <2>4, <2>6, <2>7 DEF Allocation
  <2> QED BY <1>1, <2>2, <2>3, <2>4, <2>5, <2>7, <2>8 DEF Served
<1>2. CASE U = {}
  <2>1. PICK l \in Nat : l = z + desired /\ z < l
    OBVIOUS
  <2>2. Allocation(map, z, from, minimum, desired) = [start |-> z, end |-> l]
    BY <1>2, <2>1 DEF Allocation
  <2> QED BY <1>2, <2>1, <2>2 DEF Served
<1> QED BY <1>1, <1>2

LEMMA SavedMapLemma ==
  ASSUME NEW map, NEW z \in Nat, MapOK(map, z), NEW from, NEW minimum, NEW desired,
         NEW b \in Nat, NEW l \in Nat, Served(map, z, from, minimum, desired, b, l),
         NEW e \in Nat, b < e, e <= l
  PROVE  LET new == Released(Reserved(map, z, from, minimum, desired), Higher(z, e),
                             [key |-> b, start |-> e, units |-> l - e])
         IN  \/ \E r \in map : b = r.start /\ e <= r.end /\ new = (map \ {r}) \cup Rest(r, e)
             \/ b = z /\ new = map
<1> DEFINE U == Usable(map, from, minimum)
           m == Entry(b, l, TRUE, TRUE)
           h == [key |-> b, start |-> e, units |-> l - e]
<1>0. /\ \A q \in map : /\ q \in Region /\ q.start \in Nat /\ q.end \in Nat /\ q.start < q.end
                        /\ ~q.reserved /\ q.end <= z
      /\ \A p, q \in map : p = q \/ p.end <= q.start \/ q.end <= p.start
      /\ \A p, q \in map : p.end # q.start
  BY DEF MapOK, WellFormed, NonEmpty, DisjointRegions, CoalescedRegions, Apart, Region
<1>a. /\ b < l
      /\ \/ U # {} /\ First(U) \in map /\ First(U).start = b /\ l <= First(U).end
         \/ U = {} /\ b = z
  BY DEF Served
<1>e. Allocation(map, z, from, minimum, desired) = [start |-> b, end |-> l]
  BY DEF Served
<1>b. m \in Region /\ m.start = b /\ m.end = l /\ m.reserved = TRUE
  BY EntryLemma
<1>c. m \notin map
  BY <1>0, <1>b
<1>d. h.key = b /\ h.start = e /\ (h.units = 0 <=> e = l)
  OBVIOUS
<1> HIDE DEF m, h
<1>1. CASE U # {}
  <2>1. PICK r \in map : r = First(U) /\ r.start = b
    BY <1>1, <1>a
  <2>2. PICK k \in Nat : r.end = k /\ l <= k /\ k <= z
    BY <1>0, <1>1, <1>a, <2>1
  <2>3. \A p \in map : p = r \/ (p.start \in Nat /\ p.end \in Nat /\ p.start < p.end /\ p.end # k /\ p.start # k
                                 /\ (p.end < b \/ k < p.start))
    <3> SUFFICES ASSUME NEW p \in map, p # r
                 PROVE  p.start \in Nat /\ p.end \in Nat /\ p.start < p.end /\ p.end # k /\ p.start # k
                                 /\ (p.end < b \/ k < p.start)
      OBVIOUS
    <3>1. p.start \in Nat /\ p.end \in Nat /\ p.start < p.end /\ p.end # b /\ p.start # k /\ (p.end <= b \/ k <= p.start)
      BY <1>0, <2>1, <2>2
    <3> QED BY <1>a, <2>2, <3>1
  <2> DEFINE mid == (map \ {r}) \cup {m} \cup RightOf(r, l)
  <2>4. Reserved(map, z, from, minimum, desired) = mid
    <3>1. LeftOf(r, b) = {}
      <4>1. ~(b < b)
        OBVIOUS
      <4>2. LeftOf(r, b) = IF b < b THEN {Entry(b, b, FALSE, TRUE)} ELSE {}
        BY <2>1 DEF LeftOf
      <4> QED BY <4>1, <4>2
    <3>2. Reserved(map, z, from, minimum, desired) = (map \ {r}) \cup Cut(r, b, l)
      BY <1>1, <1>e, <2>1 DEF Reserved
    <3> QED BY <3>1, <3>2 DEF Cut, m
  <2>5. PICK q : /\ q = Entry(l, k, FALSE, TRUE) /\ q \in Region /\ q.start = l /\ q.end = k
                 /\ q.reserved = FALSE /\ q.dirty = TRUE
    <3>1. PICK q : q = Entry(l, k, FALSE, TRUE)
      OBVIOUS
    <3>2. q.start = l /\ q.end = k /\ q.reserved = FALSE /\ q.dirty = TRUE
      BY <3>1 DEF Entry
    <3>3. q \in Region
      BY <3>1 DEF Entry, Region
    <3> QED BY <3>1, <3>2, <3>3
  <2>6. RightOf(r, l) = IF l < k THEN {q} ELSE {}
    BY <2>2, <2>5 DEF RightOf
  <2>7. EntryOf(mid, h) = m
    <3>1. \A x \in map \ {r} : x.start # b
      BY <1>a, <2>2, <2>3
    <3>2. \A x \in mid : x.start = b => x = m
      <4>1. b # l
        BY <1>a
      <4>2. \A x \in RightOf(r, l) : x.start = l
        BY <2>5, <2>6
      <4> QED BY <3>1, <4>1, <4>2
    <3>3. m \in mid /\ m.start = b
      BY <1>b
    <3> QED BY <1>d, <3>2, <3>3 DEF EntryOf
  <2>8. mid \ {m} = (map \ {r}) \cup RightOf(r, l)
    <3>1. m \notin RightOf(r, l)
      BY <1>b, <2>5, <2>6
    <3> QED BY <1>c, <3>1
  <2>9. Higher(z, e) = z /\ e <= k
    BY <2>2 DEF Higher
  <2>10. Released(mid, z, h) = (map \ {r}) \cup Rest(r, e)
    <3>1. CASE e = l
      <4>1. Released(mid, z, h) = mid \ {m}
        BY <1>d, <2>7, <3>1 DEF Released
      <4>2. Rest(r, e) = RightOf(r, l)
        BY <3>1 DEF Rest, RightOf
      <4> QED BY <2>8, <4>1, <4>2
    <3>2. CASE e # l
      <4> DEFINE others == mid \ {m}
      <4>1. e < l /\ e < z /\ e < k
        BY <2>2, <3>2
      <4>2. PICK x : /\ x = Entry(e, l, FALSE, TRUE) /\ x \in Region /\ x.start = e /\ x.end = l
                     /\ x.reserved = FALSE /\ x.dirty = TRUE
        BY EntryLemma
      <4>3. Released(mid, z, h) = Coalesce(others, x)
        <5>1. ~(h.units = 0 \/ h.start >= z)
          BY <1>d, <4>1
        <5>2. Entry(h.start, m.end, FALSE, TRUE) = x
          BY <1>b, <1>d, <4>2
        <5> QED BY <2>7, <5>1, <5>2 DEF Released
      <4>4. Before(others, x) = {}
        <5>1. ASSUME NEW p \in others PROVE p.end # e
          <6>1. p \in map \ {r} \/ (p = q /\ l < k)
            BY <2>6, <2>8
          <6>2. CASE p = q
            <7>1. p.end = k
              BY <2>5, <6>2
            <7>2. k # e
              BY <4>1
            <7> QED BY <7>1, <7>2
          <6>3. CASE p \in map \ {r}
            BY <2>3, <4>1, <6>3
          <6> QED BY <6>1, <6>2, <6>3
        <5> QED BY <4>2, <5>1 DEF Before
      <4>5. After(others, x) = RightOf(r, l)
        <5>1. \A p \in map \ {r} : p.start # l
          BY <1>a, <2>2, <2>3
        <5>2. \A p \in RightOf(r, l) : p.start = l /\ ~p.reserved
          BY <2>5, <2>6
        <5> QED BY <2>8, <4>2, <5>1, <5>2 DEF After
      <4>6. JoinedStart(others, x) = e
        BY <4>2, <4>4 DEF JoinedStart
      <4>7. JoinedEnd(others, x) = k
        <5>1. CASE l < k
          <6>1. After(others, x) = {q}
            BY <2>6, <4>5, <5>1
          <6> QED BY <2>5, <6>1 DEF JoinedEnd
        <5>2. CASE ~(l < k)
          <6>1. After(others, x) = {} /\ l = k
            BY <2>2, <2>6, <4>5, <5>2
          <6> QED BY <4>2, <6>1 DEF JoinedEnd
        <5> QED BY <5>1, <5>2
      <4>8. Coalesce(others, x) = (others \ RightOf(r, l)) \cup {Entry(e, k, FALSE, TRUE)}
        <5>1. (x.dirty \/ \E p \in Before(others, x) \cup After(others, x) : p.dirty) = TRUE
          BY <4>2
        <5> QED BY <4>4, <4>5, <4>6, <4>7, <5>1 DEF Coalesce
      <4>9. others \ RightOf(r, l) = map \ {r}
        <5>1. RightOf(r, l) \cap (map \ {r}) = {}
          <6>1. \A p \in map \ {r} : p # q \/ ~(l < k)
            BY <2>3, <2>5
          <6> QED BY <2>6, <6>1
        <5> QED BY <2>8, <5>1
      <4>10. Rest(r, e) = {Entry(e, k, FALSE, TRUE)}
        BY <2>2, <4>1 DEF Rest
      <4> QED BY <4>3, <4>8, <4>9, <4>10
    <3> QED BY <3>1, <3>2
  <2> QED BY <2>1, <2>2, <2>4, <2>9, <2>10 DEF h
<1>2. CASE U = {}
  <2>1. b = z
    BY <1>2, <1>a
  <2>2. Reserved(map, z, from, minimum, desired) = map \cup {m}
    <3>1. \A q \in map : q.start # m.start
      BY <1>0, <1>b, <2>1
    <3>2. Reserved(map, z, from, minimum, desired) = Insert(map, m)
      BY <1>2, <1>e DEF Reserved, m
    <3> QED BY <3>1, <3>2 DEF Insert
  <2>3. EntryOf(map \cup {m}, h) = m
    <3>1. \A x \in map \cup {m} : x.start = b <=> x = m
      BY <1>0, <1>b, <2>1
    <3> QED BY <1>d, <3>1 DEF EntryOf
  <2>4. Higher(z, e) = e
    BY <2>1 DEF Higher
  <2>5. Released(map \cup {m}, e, h) = map
    <3>1. h.start >= e
      BY <1>d
    <3> QED BY <1>c, <2>3, <3>1 DEF Released
  <2> QED BY <2>1, <2>2, <2>4, <2>5 DEF h
<1> QED BY <1>1, <1>2

(* Where no chunk reaches in, those that are not written over stay as they *)
(* are. *)
LEMMA AroundLemma ==
  ASSUME NEW M \in SUBSET Header, NEW s \in Nat, NEW e, \A m \in M : m.at < s => End(m) <= s
  PROVE  Around(M, s, e) = {m \in M : m.at < s \/ e <= m.at}
<1> DEFINE K == {m \in M : m.at < s \/ e <= m.at}
<1>1. ASSUME NEW m \in K PROVE Spoilt(m, s) = m
  <2>1. m.at \in Nat /\ End(m) \in Nat
    BY HeaderFacts
  <2>2. ~Crosses(m, s)
    BY <2>1 DEF Crosses, End
  <2> QED BY <2>2 DEF Spoilt
<1>2. Around(M, s, e) = {Spoilt(m, s) : m \in K}
  BY DEF Around
<1> HIDE DEF K
<1>3. {Spoilt(m, s) : m \in K} = K
  BY <1>1
<1> QED BY <1>2, <1>3 DEF K

LEMMA WrittenLemma ==
  ASSUME NEW M \in SUBSET Header, NEW c \in Header, \A m \in M : m.at < c.at => End(m) <= c.at
  PROVE  Written(M, c) = {m \in M : m.at < c.at \/ End(c) <= m.at} \cup {c}
<1>1. c.at \in Nat /\ End(c) = c.at + c.units
  BY HeaderFacts DEF End
<1>2. Around(M, c.at, End(c)) = {m \in M : m.at < c.at \/ End(c) <= m.at}
  BY <1>1, AroundLemma
<1> QED BY <1>1, <1>2 DEF Written

(* The chunk takes the front of the region. *)
LEMMA PlaceLemma ==
  ASSUME NEW M, NEW z, NEW map, NEW L, DiskOK(M, z, map, L, {}),
         NEW r \in map, NEW c \in Header, c.at = r.start, End(c) <= r.end
  PROVE  DiskOK(Written(M, c), z, (map \ {r}) \cup Rest(r, End(c)), L \cup {c}, {})
<1> DEFINE K == {m \in M : m.at < c.at \/ End(c) <= m.at}
           new == (map \ {r}) \cup Rest(r, End(c))
<1>1. Written(M, c) = K \cup {c}
  <2>1. M \in SUBSET Header /\ \A m \in M : m.at < c.at => End(m) <= c.at
    BY DEF DiskOK, MediaOK, SpaceOK
  <2> QED BY <2>1, WrittenLemma
<1>2. PICK b \in Nat, e \in Nat, k \in Nat :
        b = c.at /\ e = End(c) /\ r.start = b /\ r.end = k /\ b < e /\ e <= k /\ HeaderUnits <= b /\ k <= z
  BY HeaderFacts DEF DiskOK, MapOK, WellFormed, Region
<1>3. z \in Nat /\ HeaderUnits <= z /\ M \subseteq Header /\ L \subseteq M
  BY DEF DiskOK, MediaOK, SpaceOK
<1>4. \A m \in M : m.at \in Nat /\ End(m) \in Nat /\ m.at < End(m) /\ HeaderUnits <= m.at /\ End(m) <= z
  BY <1>3, HeaderFacts DEF DiskOK, MediaOK
<1>5. \A m \in K : End(m) <= b \/ e <= m.at
  BY <1>2, <1>4 DEF DiskOK, SpaceOK
<1>6. L \subseteq K
  <2>1. \A m \in L : End(m) <= b \/ k <= m.at
    BY <1>2 DEF DiskOK, SpaceOK, Clear
  <2> QED BY <1>2, <1>3, <1>4, <2>1
<1>7. \A q \in map \ {r} : /\ q.start \in Nat /\ q.end \in Nat /\ q.start < q.end
                           /\ (q.end <= b \/ k <= q.start)
  BY <1>2 DEF DiskOK, MapOK, WellFormed, NonEmpty, DisjointRegions, Apart, Region
<1>8. /\ MapOK(new, z)
      /\ \A q \in Rest(r, e) : q.start = e /\ q.end = k /\ e < k /\ q.dirty
      /\ e < k => Rest(r, e) # {}
  <2>1. MapOK(map, z)
    BY DEF DiskOK
  <2>2. e < k => Rest(r, e) # {}
    BY <1>2 DEF Rest
  <2> QED BY <1>2, <1>3, <2>1, <2>2, RestLemma
<1>9. MediaOK(K \cup {c}, z)
  <2>1. \A m \in K : Beside(m, c) /\ Beside(c, m)
    BY <1>2, <1>5 DEF Beside
  <2>2. \A m, x \in K : m = x \/ Beside(m, x)
    BY DEF DiskOK, MediaOK
  <2>3. HeaderUnits <= c.at /\ End(c) <= z
    BY <1>2, <1>3, SizesLemma
  <2> QED BY <1>3, <1>4, <2>1, <2>2, <2>3 DEF MediaOK
<1> HIDE DEF K
<1>10. K \subseteq M
  BY DEF K
<1>11. ASSUME NEW q \in new
       PROVE  /\ \A m \in L \cup {c} : Clear(q, m)
              /\ \A m \in K \cup {c} : m.at < q.start => End(m) <= q.start
  <2>1. CASE q \in map \ {r}
    <3>1. /\ \A m \in L : Clear(q, m)
          /\ \A m \in K : m.at < q.start => End(m) <= q.start
      BY <1>10, <2>1 DEF DiskOK, SpaceOK
    <3>2. Clear(q, c) /\ (c.at < q.start => End(c) <= q.start)
      BY <1>2, <1>7, <2>1 DEF Clear
    <3> QED BY <3>1, <3>2
  <2>2. CASE q \in Rest(r, e)
    <3>1. q.start = e /\ q.end = k /\ e < k
      BY <1>8, <2>2
    <3>2. \A m \in L : Clear(q, m)
      <4>1. \A m \in L : End(m) <= b \/ k <= m.at
        BY <1>2 DEF DiskOK, SpaceOK, Clear
      <4>2. \A m \in L : End(m) \in Nat /\ m.at \in Nat
        BY <1>3, <1>4
      <4> QED BY <1>2, <3>1, <4>1, <4>2 DEF Clear
    <3>3. \A m \in K : m.at < e => End(m) <= e
      BY <1>2, <1>4, <1>5, <1>10
    <3>4. Clear(q, c) /\ End(c) <= q.start
      BY <1>2, <3>1 DEF Clear
    <3> QED BY <3>1, <3>2, <3>3, <3>4
  <2> QED BY <1>2, <2>1, <2>2
<1>12. ASSUME NEW u \in HeaderUnits .. z - 1
       PROVE  (\E q \in new : In(u, q)) \/ (\E m \in L \cup {c} : Takes(m, u))
  <2>1. (\E q \in map : In(u, q)) \/ (\E m \in L : Takes(m, u))
    BY DEF DiskOK, SpaceOK
  <2>2. u \in Nat
    BY <1>3, SizesLemma
  <2>3. In(u, r) => Takes(c, u) \/ \E q \in Rest(r, e) : In(u, q)
    BY <1>2, <1>8, <2>2 DEF In, Takes
  <2> QED BY <1>2, <2>1, <2>3
<1>13. SpaceOK(K \cup {c}, z, new, L \cup {c}, {})
  BY <1>6, <1>11, <1>12 DEF SpaceOK
<1>14. ASSUME NEW m \in K \cup {c}
       PROVE  m.kind = "fill" \/ m \in L \cup {c} \/ \E q \in new : q.dirty /\ In(m.at, q)
  <2>1. CASE m \in K
    <3>1. m.kind = "fill" \/ m \in L \/ \E q \in map : q.dirty /\ In(m.at, q)
      BY <1>10, <2>1 DEF DiskOK, ShownOK
    <3>2. In(m.at, r) => \E q \in Rest(r, e) : q.dirty /\ In(m.at, q)
      BY <1>2, <1>4, <1>5, <1>8, <1>10, <2>1 DEF In
    <3> QED BY <1>2, <3>1, <3>2
  <2> QED BY <2>1
<1>15. ASSUME NEW q \in new, ~q.dirty, NEW u \in q.start .. q.end - 1
       PROVE  \E m \in K \cup {c} : m.kind = "fill" /\ Takes(m, u)
  <2>1. q \in map \ {r}
    BY <1>2, <1>8, <1>15
  <2>2. PICK m \in M : m.kind = "fill" /\ Takes(m, u)
    BY <1>15, <2>1 DEF DiskOK, ShownOK
  <2>3. u \in Nat /\ q.start <= u /\ u < q.end
    BY <1>7, <2>1
  <2>4. m.at < q.start => End(m) <= q.start
    BY <2>1 DEF DiskOK, SpaceOK
  <2>5. q.start <= m.at /\ m.at < q.end
    BY <1>4, <1>7, <2>1, <2>2, <2>3, <2>4 DEF Takes
  <2>6. m.at < b \/ e <= m.at
    BY <1>2, <1>4, <1>7, <2>1, <2>5
  <2>7. m \in K
    BY <1>2, <2>6 DEF K
  <2> QED BY <2>2, <2>7
<1>16. ShownOK(K \cup {c}, new, L \cup {c}, {})
  BY <1>14, <1>15 DEF ShownOK
<1> QED BY <1>1, <1>3, <1>8, <1>9, <1>13, <1>16 DEF DiskOK

(* The chunk is put behind everything else. *)
LEMMA AppendLemma ==
  ASSUME NEW M, NEW z, NEW map, NEW L, DiskOK(M, z, map, L, {}),
         NEW c \in Header, c.at = z
  PROVE  /\ Written(M, c) = M \cup {c}
         /\ DiskOK(Written(M, c), End(c), map, L \cup {c}, {})
<1>1. PICK e \in Nat : e = End(c) /\ z < e
  BY HeaderFacts
<1>2. z \in Nat /\ HeaderUnits <= z /\ M \subseteq Header /\ L \subseteq M
  BY DEF DiskOK, MediaOK, SpaceOK
<1>3. \A m \in M : m.at \in Nat /\ End(m) \in Nat /\ m.at < End(m) /\ HeaderUnits <= m.at /\ End(m) <= z
  BY <1>2, HeaderFacts DEF DiskOK, MediaOK
<1>4. \A q \in map : q.start \in Nat /\ q.end \in Nat /\ q.end <= z /\ q.start < q.end
  BY DEF DiskOK, MapOK, WellFormed, NonEmpty, Region
<1>5. Written(M, c) = M \cup {c}
  <2>1. Written(M, c) = {m \in M : m.at < c.at \/ End(c) <= m.at} \cup {c}
    BY <1>2, <1>3, WrittenLemma
  <2>2. \A m \in M : m.at < c.at
    BY <1>2, <1>3
  <2> QED BY <2>1, <2>2
<1>6. MediaOK(M \cup {c}, e)
  <2>1. \A m \in M : Beside(m, c) /\ Beside(c, m) /\ End(m) <= e
    BY <1>1, <1>2, <1>3 DEF Beside
  <2>2. \A m, x \in M : m = x \/ Beside(m, x)
    BY DEF DiskOK, MediaOK
  <2> QED BY <1>1, <1>2, <1>3, <2>1, <2>2 DEF MediaOK
<1>7. MapOK(map, e)
  BY <1>1, <1>2, <1>4 DEF DiskOK, MapOK
<1>8. \A q \in map : Clear(q, c) /\ (c.at < q.start => End(c) <= q.start)
  BY <1>2, <1>4 DEF Clear
<1>9. ASSUME NEW u \in HeaderUnits .. e - 1
      PROVE  (\E q \in map : In(u, q)) \/ (\E m \in L \cup {c} : Takes(m, u))
  <2>1. CASE u \in HeaderUnits .. z - 1
    BY <2>1 DEF DiskOK, SpaceOK
  <2>2. CASE u \notin HeaderUnits .. z - 1
    BY <1>1, <1>2, <2>2, SizesLemma DEF Takes
  <2> QED BY <2>1, <2>2
<1>10. SpaceOK(M \cup {c}, e, map, L \cup {c}, {})
  BY <1>2, <1>8, <1>9 DEF DiskOK, SpaceOK
<1>11. ShownOK(M \cup {c}, map, L \cup {c}, {})
  BY DEF DiskOK, ShownOK
<1>12. HeaderUnits <= e
  BY <1>1, <1>2, SizesLemma
<1>13. DiskOK(M \cup {c}, e, map, L \cup {c}, {})
  BY <1>6, <1>7, <1>10, <1>11, <1>12 DEF DiskOK
<1> QED BY <1>1, <1>5, <1>13

------------------------------------------------------------------------------
(* Chunks that are given up. *)

AreaOf(m) == [at |-> m.at, units |-> m.units]

(* Their units are in no chunk any more, and in no region yet. *)
LEMMA GiveLemma ==
  ASSUME NEW M, NEW z, NEW map, NEW L, NEW A, DiskOK(M, z, map, L, A), NEW G \in SUBSET L
  PROVE  DiskOK(M, z, map, L \ G, A \cup {AreaOf(m) : m \in G})
<1> DEFINE B == {AreaOf(m) : m \in G}
<1>1. M \subseteq Header /\ L \subseteq M /\ G \subseteq M
  BY DEF DiskOK, MediaOK, SpaceOK
<1>2. ASSUME NEW a \in B
      PROVE \E m \in G : a.at = m.at /\ a.units = m.units /\ End(a) = End(m) /\ m \in Header
                         /\ (\A x : Beside(a, x) <=> Beside(m, x)) /\ (\A q : Clear(q, a) <=> Clear(q, m))
                         /\ (\A u : Takes(a, u) <=> Takes(m, u))
  <2>1. PICK m \in G : a = AreaOf(m)
    OBVIOUS
  <2>2. a.at = m.at /\ a.units = m.units
    BY <2>1 DEF AreaOf
  <2> QED BY <1>1, <2>2 DEF End, Beside, Clear, Takes
<1>3. \A m \in G : /\ AreaOf(m) \in B
                   /\ \A u : Takes(m, u) <=> Takes(AreaOf(m), u)
  <2>1. \A m : AreaOf(m).at = m.at /\ AreaOf(m).units = m.units
    BY DEF AreaOf
  <2> QED BY <2>1 DEF Takes, End
<1> HIDE DEF B
<1>4. \A m, x \in M : m = x \/ Beside(m, x)
  BY DEF DiskOK, MediaOK
<1>5. ASSUME NEW a \in A \cup B
      PROVE  /\ a.at \in Nat /\ a.units \in Nat \ {0} /\ HeaderUnits <= a.at /\ End(a) <= z
             /\ \A b \in A \cup B : a = b \/ Beside(a, b)
             /\ \A m \in L \ G : Beside(a, m)
             /\ \A m \in M : m.at < a.at => End(m) <= a.at
             /\ \A r \in map : Clear(r, a)
  <2>1. CASE a \in A
    <3>1. /\ a.at \in Nat /\ a.units \in Nat \ {0} /\ HeaderUnits <= a.at /\ End(a) <= z
          /\ \A b \in A : a = b \/ Beside(a, b)
          /\ \A m \in L : Beside(a, m)
          /\ \A m \in M : m.at < a.at => End(m) <= a.at
          /\ \A r \in map : Clear(r, a)
      BY <2>1 DEF DiskOK, SpaceOK
    <3>2. \A b \in B : Beside(a, b)
      <4> SUFFICES ASSUME NEW b \in B PROVE Beside(a, b)
        OBVIOUS
      <4>1. PICK m \in G : Beside(b, a) <=> Beside(m, a)
        BY <1>2
      <4> QED BY <3>1, <4>1 DEF Beside
    <3> QED BY <3>1, <3>2
  <2>2. CASE a \in B
    <3>1. PICK m \in G :
            /\ a.at = m.at /\ a.units = m.units /\ End(a) = End(m) /\ m \in Header
            /\ (\A x : Beside(a, x) <=> Beside(m, x)) /\ (\A q : Clear(q, a) <=> Clear(q, m))
            /\ a = AreaOf(m)
      <4>1. PICK m \in G : a = AreaOf(m)
        BY <2>2 DEF B
      <4>2. a.at = m.at /\ a.units = m.units
        BY <4>1 DEF AreaOf
      <4> QED BY <1>1, <4>1, <4>2 DEF End, Beside, Clear
    <3>2. a.at \in Nat /\ a.units \in Nat \ {0} /\ HeaderUnits <= a.at /\ End(a) <= z
      BY <1>1, <3>1, HeaderFacts DEF DiskOK, MediaOK
    <3>3. ASSUME NEW b \in A \cup B PROVE a = b \/ Beside(a, b)
      <4>1. CASE b \in A
        <5>1. Beside(b, m)
          BY <4>1 DEF DiskOK, SpaceOK
        <5>2. Beside(m, b)
          BY <5>1 DEF Beside
        <5> QED BY <3>1, <5>2
      <4>2. CASE b \in B
        <5>1. PICK x \in G : b = AreaOf(x) /\ x.at = b.at /\ End(x) = End(b)
          <6>1. PICK x \in G : b = AreaOf(x)
            BY <4>2 DEF B
          <6>2. b.at = x.at /\ b.units = x.units
            BY <6>1 DEF AreaOf
          <6> QED BY <6>1, <6>2 DEF End
        <5>2. m = x \/ Beside(m, x)
          BY <1>1, <1>4
        <5> QED BY <3>1, <5>1, <5>2 DEF Beside
      <4> QED BY <4>1, <4>2
    <3>4. ASSUME NEW x \in L \ G PROVE Beside(a, x)
      <4>1. m # x /\ m \in M /\ x \in M
        BY <1>1
      <4>2. Beside(m, x)
        BY <1>4, <4>1
      <4> QED BY <3>1, <4>2
    <3>5. \A x \in M : x.at < a.at => End(x) <= a.at
      <4> SUFFICES ASSUME NEW x \in M, x.at < a.at PROVE End(x) <= a.at
        OBVIOUS
      <4>1. m # x /\ m \in M
        BY <1>1, <3>1, <3>2, HeaderFacts
      <4>2. Beside(m, x)
        BY <1>4, <4>1
      <4> QED BY <1>1, <3>1, <4>2, HeaderFacts DEF Beside
    <3>6. \A r \in map : Clear(r, a)
      BY <3>1 DEF DiskOK, SpaceOK
    <3> QED BY <3>2, <3>3, <3>4, <3>5, <3>6
  <2> QED BY <2>1, <2>2
<1>6. ASSUME NEW u \in HeaderUnits .. z - 1
      PROVE  (\E r \in map : In(u, r)) \/ (\E m \in L \ G : Takes(m, u)) \/ (\E a \in A \cup B : Takes(a, u))
  <2>1. (\E r \in map : In(u, r)) \/ (\E m \in L : Takes(m, u)) \/ (\E a \in A : Takes(a, u))
    BY DEF DiskOK, SpaceOK
  <2> QED BY <1>3, <2>1
<1>7. SpaceOK(M, z, map, L \ G, A \cup B)
  <2>1. \A r \in map : /\ \A m \in L \ G : Clear(r, m)
                       /\ \A m \in M : m.at < r.start => End(m) <= r.start
    BY DEF DiskOK, SpaceOK
  <2> QED BY <1>1, <1>5, <1>6, <2>1 DEF SpaceOK
<1>8. ASSUME NEW m \in M
      PROVE  m.kind = "fill" \/ m \in L \ G \/ (\E r \in map : r.dirty /\ In(m.at, r))
               \/ \E a \in A \cup B : Takes(a, m.at)
  <2>1. m.kind = "fill" \/ m \in L \/ (\E r \in map : r.dirty /\ In(m.at, r)) \/ \E a \in A : Takes(a, m.at)
    BY DEF DiskOK, ShownOK
  <2>2. Takes(m, m.at)
    BY <1>1, HeaderFacts DEF Takes
  <2> QED BY <1>3, <2>1, <2>2
<1>9. ShownOK(M, map, L \ G, A \cup B)
  <2>1. \A r \in map : ~r.dirty =>
          \A u \in r.start .. r.end - 1 : \E m \in M : m.kind = "fill" /\ Takes(m, u)
    BY DEF DiskOK, ShownOK
  <2> QED BY <1>8, <2>1 DEF ShownOK
<1> QED BY <1>7, <1>9 DEF DiskOK, B

(* An area that goes into the map joins the regions that touch it.  It is  *)
(* dirty, or a scan has found fill chunks all over it. *)
LEMMA FreeOneLemma ==
  ASSUME NEW M, NEW z, NEW map, NEW L, NEW A, DiskOK(M, z, map, L, A),
         NEW a \in A, NEW dirty \in BOOLEAN,
         ~dirty => \A u \in a.at .. End(a) - 1 : \E m \in M : m.kind = "fill" /\ Takes(m, u)
  PROVE  DiskOK(M, z, NewFreeSpaceArea(map, a.at, a.units, dirty), L, A \ {a})
<1>1. /\ z \in Nat /\ HeaderUnits <= z /\ M \subseteq Header /\ L \subseteq M
      /\ \A m, x \in M : m = x \/ Beside(m, x)
  BY DEF DiskOK, MediaOK, SpaceOK
<1>2. PICK b \in Nat, e \in Nat : b = a.at /\ e = End(a) /\ b < e /\ HeaderUnits <= b /\ e <= z
  BY DEF DiskOK, SpaceOK, End
<1>a. PICK r : /\ r = Entry(b, e, FALSE, dirty)
               /\ r \in Region /\ r.start = b /\ r.end = e /\ r.reserved = FALSE /\ (r.dirty <=> dirty)
  <2>1. CASE dirty = TRUE
    BY <2>1, EntryLemma
  <2>2. CASE dirty = FALSE
    BY <2>2, EntryLemma
  <2> QED BY <2>1, <2>2
<1>3. r \in Region /\ r.start = b /\ r.end = e /\ r.reserved = FALSE /\ (r.dirty <=> dirty)
  BY <1>a
<1> DEFINE new == Coalesce(map, r)
<1>4. NewFreeSpaceArea(map, a.at, a.units, dirty) = new
  BY <1>2, <1>a DEF NewFreeSpaceArea, End
<1>5. \A m \in M : m.at \in Nat /\ End(m) \in Nat /\ m.at < End(m)
  BY <1>1, HeaderFacts
<1>6. \A q \in map : /\ q \in Region /\ q.start \in Nat /\ q.end \in Nat /\ q.start < q.end
                     /\ ~q.reserved /\ HeaderUnits <= q.start /\ q.end <= z
  BY DEF DiskOK, MapOK, WellFormed, NonEmpty, Region
<1>7. \A q \in map : Apart(q, r)
  BY <1>2, <1>3 DEF DiskOK, SpaceOK, Clear, Apart
<1>8. /\ WellFormed(map) /\ CoalescedRegions(map)
      /\ \A q \in map : ~q.reserved => q.end <= z
  BY <1>6 DEF DiskOK, MapOK
<1>9. /\ WellFormed(new) /\ CoalescedRegions(new)
      /\ \A u \in Nat : Covers(new, u) <=> In(u, r) \/ Covers(map, u)
      /\ \A q : q.reserved => (q \in new <=> q \in map)
      /\ \A q \in new : ~q.reserved => q.end <= z
  BY <1>1, <1>2, <1>3, <1>7, <1>8, CoalesceLemma
<1> HIDE DEF new
<1>10. \A q \in new : q \in Region /\ q.start \in Nat /\ q.end \in Nat /\ q.start < q.end /\ ~q.reserved /\ q.end <= z
  BY <1>6, <1>9 DEF WellFormed, NonEmpty, Region
(* A region that is new starts where r or a region did. *)
<1>11. ASSUME NEW q \in new, q \notin map
       PROVE  /\ r.dirty => q.dirty
              /\ \A u \in q.start .. q.end - 1 : In(u, r) \/ \E p \in map : In(u, p) /\ (p.dirty => q.dirty)
              /\ q.start = b \/ \E p \in map : q.start = p.start
              /\ q.start <= b /\ e <= q.end
  <2>1. /\ q.start <= r.start /\ r.end <= q.end /\ (r.dirty => q.dirty)
        /\ \A u \in q.start .. (q.end - 1) :
              \/ In(u, r)
              \/ \E p \in map : /\ In(u, p) /\ (p.dirty => q.dirty)
                               /\ q.start <= p.start /\ p.end <= q.end
    BY <1>2, <1>3, <1>8, <1>11, JoinedLemma DEF new
  <2>2. q.start \in q.start .. q.end - 1
    BY <1>10
  <2>3. In(q.start, r) \/ \E p \in map : In(q.start, p) /\ q.start <= p.start
    BY <2>1, <2>2
  <2>4. In(q.start, r) => q.start = b
    BY <1>2, <1>3, <1>10, <2>1 DEF In
  <2>5. \A p \in map : In(q.start, p) /\ q.start <= p.start => q.start = p.start
    BY <1>6, <1>10 DEF In
  <2> QED BY <1>3, <2>1, <2>3, <2>4, <2>5
<1>12. MapOK(new, z)
  <2>1. ASSUME NEW q \in new PROVE HeaderUnits <= q.start
    <3>1. CASE q \in map
      BY <1>6, <3>1
    <3>2. CASE q \notin map
      BY <1>2, <1>6, <1>11, <3>2
    <3> QED BY <3>1, <3>2
  <2> QED BY <1>9, <1>10, <2>1 DEF MapOK
(* What lies apart from r and from all regions lies apart from the new ones. *)
<1>13. ASSUME NEW x, x.at \in Nat, End(x) \in Nat, x.at < End(x), Beside(a, x), \A p \in map : Clear(p, x),
              NEW q \in new
       PROVE  Clear(q, x)
  <2>1. CASE q \in map
    BY <1>13, <2>1
  <2>2. CASE q \notin map
    <3>1. SUFFICES ASSUME q.start < End(x), x.at < q.end PROVE FALSE
      BY <1>10, <1>13 DEF Clear
    <3>2. PICK u \in Nat : u \in q.start .. q.end - 1 /\ x.at <= u /\ u < End(x)
      <4>1. CASE x.at <= q.start
        BY <1>10, <1>13, <3>1, <4>1
      <4>2. CASE q.start < x.at
        BY <1>10, <1>13, <3>1, <4>2
      <4> QED BY <1>10, <1>13, <4>1, <4>2
    <3>3. ~In(u, r)
      BY <1>2, <1>3, <1>13, <3>2 DEF In, Beside
    <3>4. \A p \in map : ~In(u, p)
      BY <1>6, <1>13, <3>2 DEF In, Clear
    <3> QED BY <1>11, <2>2, <3>2, <3>3, <3>4
  <2> QED BY <2>1, <2>2
<1>14. \A c \in A \ {a} : /\ c.at \in Nat /\ c.units \in Nat \ {0} /\ HeaderUnits <= c.at /\ End(c) <= z
                          /\ \A d \in A \ {a} : c = d \/ Beside(c, d)
                          /\ \A m \in L : Beside(c, m)
                          /\ \A m \in M : m.at < c.at => End(m) <= c.at
                          /\ \A q \in new : Clear(q, c)
  <2> SUFFICES ASSUME NEW c \in A \ {a}
               PROVE      /\ c.at \in Nat /\ c.units \in Nat \ {0} /\ HeaderUnits <= c.at /\ End(c) <= z
                          /\ \A d \in A \ {a} : c = d \/ Beside(c, d)
                          /\ \A m \in L : Beside(c, m)
                          /\ \A m \in M : m.at < c.at => End(m) <= c.at
                          /\ \A q \in new : Clear(q, c)
    OBVIOUS
  <2>1. /\ c.at \in Nat /\ c.units \in Nat \ {0} /\ HeaderUnits <= c.at /\ End(c) <= z
        /\ \A d \in A : c = d \/ Beside(c, d)
        /\ \A m \in L : Beside(c, m)
        /\ \A m \in M : m.at < c.at => End(m) <= c.at
        /\ \A p \in map : Clear(p, c)
        /\ Beside(a, c)
    BY DEF DiskOK, SpaceOK
  <2>2. End(c) \in Nat /\ c.at < End(c)
    BY <2>1 DEF End
  <2>3. \A q \in new : Clear(q, c)
    BY <1>13, <2>1, <2>2
  <2> QED BY <2>1, <2>3
<1>15. ASSUME NEW q \in new
       PROVE  /\ \A m \in L : Clear(q, m)
              /\ \A m \in M : m.at < q.start => End(m) <= q.start
  <2>1. \A m \in L : Beside(a, m) /\ \A p \in map : Clear(p, m)
    BY DEF DiskOK, SpaceOK
  <2>2. \A m \in L : Clear(q, m)
    BY <1>1, <1>5, <1>13, <2>1
  <2>3. \A m \in M : m.at < b => End(m) <= b
    BY <1>2 DEF DiskOK, SpaceOK
  <2>4. \A p \in map : \A m \in M : m.at < p.start => End(m) <= p.start
    BY DEF DiskOK, SpaceOK
  <2>5. \A m \in M : m.at < q.start => End(m) <= q.start
    BY <1>11, <2>3, <2>4
  <2> QED BY <2>2, <2>5
<1>16. ASSUME NEW u \in HeaderUnits .. z - 1
       PROVE  (\E q \in new : In(u, q)) \/ (\E m \in L : Takes(m, u)) \/ (\E c \in A \ {a} : Takes(c, u))
  <2>1. (\E q \in map : In(u, q)) \/ (\E m \in L : Takes(m, u)) \/ (\E c \in A : Takes(c, u))
    BY DEF DiskOK, SpaceOK
  <2>2. u \in Nat
    BY <1>1, SizesLemma
  <2>3. Takes(a, u) => In(u, r)
    BY <1>2, <1>3 DEF Takes, In
  <2>4. In(u, r) \/ Covers(map, u) => Covers(new, u)
    BY <1>9, <2>2
  <2> QED BY <2>1, <2>3, <2>4 DEF Covers
<1>17. SpaceOK(M, z, new, L, A \ {a})
  BY <1>1, <1>14, <1>15, <1>16 DEF SpaceOK
(* A unit of a region, or of r, is in a new region that is no cleaner. *)
<1>18. ASSUME NEW p, p \in map \/ p = r, NEW u \in Nat, In(u, p)
       PROVE  \E q \in new : In(u, q) /\ (p.dirty => q.dirty)
  <2>1. PICK q \in new : In(u, q)
    BY <1>9, <1>18 DEF Covers
  <2>2. CASE q \in map
    <3>1. p # r
      BY <1>2, <1>3, <1>6, <1>7, <1>18, <2>1, <2>2 DEF In, Apart
    <3>2. p = q
      <4>1. p = q \/ Apart(p, q)
        BY <1>18, <2>2, <3>1 DEF DiskOK, MapOK, WellFormed, DisjointRegions
      <4> QED BY <1>6, <1>18, <2>1, <2>2, <3>1, <4>1 DEF In, Apart
    <3> QED BY <2>1, <3>2
  <2>3. CASE q \notin map
    <3>1. CASE p = r
      BY <1>11, <2>1, <2>3, <3>1
    <3>2. CASE p \in map
      <4>1. u \in q.start .. q.end - 1
        BY <1>10, <2>1 DEF In
      <4>2. ~In(u, r)
        BY <1>2, <1>3, <1>6, <1>7, <1>18, <3>2 DEF In, Apart
      <4>3. PICK x \in map : In(u, x) /\ (x.dirty => q.dirty)
        BY <1>11, <2>3, <4>1, <4>2
      <4>4. x = p
        <5>1. p = x \/ Apart(p, x)
          BY <3>2 DEF DiskOK, MapOK, WellFormed, DisjointRegions
        <5> QED BY <1>6, <1>18, <3>2, <4>3, <5>1 DEF In, Apart
      <4> QED BY <2>1, <4>3, <4>4
    <3> QED BY <1>18, <3>1, <3>2
  <2> QED BY <2>2, <2>3
<1>19. ASSUME NEW m \in M
       PROVE  \/ m.kind = "fill" \/ m \in L
              \/ \E q \in new : q.dirty /\ In(m.at, q)
              \/ \E c \in A \ {a} : Takes(c, m.at)
  <2>1. \/ m.kind = "fill" \/ m \in L
        \/ \E q \in map : q.dirty /\ In(m.at, q)
        \/ \E c \in A : Takes(c, m.at)
    BY DEF DiskOK, ShownOK
  <2>2. (\E q \in map : q.dirty /\ In(m.at, q)) => \E q \in new : q.dirty /\ In(m.at, q)
    BY <1>5, <1>18
  <2>3. CASE Takes(a, m.at) /\ dirty
    <3>1. In(m.at, r)
      BY <1>2, <1>3, <2>3 DEF Takes, In
    <3> QED BY <1>3, <1>5, <1>18, <2>3, <3>1
  <2>4. CASE Takes(a, m.at) /\ ~dirty
    <3>1. m.at \in a.at .. End(a) - 1
      BY <1>2, <1>5, <2>4 DEF Takes
    <3>2. PICK x \in M : x.kind = "fill" /\ Takes(x, m.at)
      BY <2>4, <3>1
    <3>3. m = x
      BY <1>1, <1>5, <3>2 DEF Takes, Beside
    <3> QED BY <3>2, <3>3
  <2> QED BY <2>1, <2>2, <2>3, <2>4
<1>20. ASSUME NEW q \in new, ~q.dirty, NEW u \in q.start .. q.end - 1
       PROVE  \E m \in M : m.kind = "fill" /\ Takes(m, u)
  <2>0. \A p \in map : ~p.dirty => \A v \in p.start .. p.end - 1 : \E m \in M : m.kind = "fill" /\ Takes(m, v)
    BY DEF DiskOK, ShownOK
  <2>1. CASE q \in map
    BY <1>20, <2>0, <2>1
  <2>2. CASE q \notin map
    <3>1. CASE In(u, r)
      <4>1. u \in a.at .. End(a) - 1
        BY <1>2, <1>3, <1>10, <3>1 DEF In
      <4> QED BY <1>3, <1>11, <1>20, <2>2, <4>1
    <3>2. CASE ~In(u, r)
      <4>1. PICK p \in map : In(u, p) /\ ~p.dirty
        BY <1>11, <1>20, <2>2, <3>2
      <4>2. u \in p.start .. p.end - 1
        BY <1>6, <1>10, <4>1 DEF In
      <4> QED BY <2>0, <4>1, <4>2
    <3> QED BY <3>1, <3>2
  <2> QED BY <2>1, <2>2
<1>21. ShownOK(M, new, L, A \ {a})
  BY <1>19, <1>20 DEF ShownOK
<1> QED BY <1>4, <1>12, <1>17, <1>21 DEF DiskOK

(* A disk whose remembered size is its length. *)
DiskOf(M, z, map) == [media |-> M, length |-> z, size |-> z, freeMap |-> map]

LEMMA AreasFinite ==
  ASSUME NEW M, NEW z, NEW map, NEW L, NEW A, DiskOK(M, z, map, L, A)
  PROVE  IsFiniteSet(A) /\ IsFiniteSet(map)
<1>1. z \in Nat
  BY DEF DiskOK
<1>2. \A a \in A : a.at \in 0 .. z /\ \A b \in A : a = b \/ a.at # b.at
  <2> SUFFICES ASSUME NEW a \in A PROVE a.at \in 0 .. z /\ \A b \in A : a = b \/ a.at # b.at
    OBVIOUS
  <2>1. a.at \in Nat /\ End(a) \in Nat /\ a.at < End(a) /\ End(a) <= z
    BY DEF DiskOK, SpaceOK, End
  <2>2. \A b \in A : b.at \in Nat /\ End(b) \in Nat /\ b.at < End(b) /\ (a = b \/ Beside(a, b))
    BY DEF DiskOK, SpaceOK, End
  <2> QED BY <1>1, <2>1, <2>2 DEF Beside
<1>3. \A q \in map : q.start \in 0 .. z /\ \A p \in map : q = p \/ q.start # p.start
  <2> SUFFICES ASSUME NEW q \in map PROVE q.start \in 0 .. z /\ \A p \in map : q = p \/ q.start # p.start
    OBVIOUS
  <2>1. \A p \in map : p.start \in Nat /\ p.end \in Nat /\ p.start < p.end /\ p.end <= z /\ (q = p \/ Apart(q, p))
    BY DEF DiskOK, MapOK, WellFormed, NonEmpty, DisjointRegions, Region
  <2> QED BY <1>1, <2>1 DEF Apart
<1>4. IsFiniteSet(0 .. z)
  BY <1>1, FS_Interval
<1>5. [a \in A |-> a.at] \in Injection(A, 0 .. z)
  BY <1>2 DEF Injection, IsInjective
<1>6. [q \in map |-> q.start] \in Injection(map, 0 .. z)
  BY <1>3 DEF Injection, IsInjective
<1> QED BY <1>4, <1>5, <1>6, FS_Injection

LEMMA RegionsStayRegions ==
  ASSUME NEW map \in SUBSET Region, NEW s \in Nat, NEW n \in Nat, NEW dirty \in BOOLEAN
  PROVE  NewFreeSpaceArea(map, s, n, dirty) \in SUBSET Region
<1> DEFINE r == Entry(s, s + n, FALSE, dirty)
           near == Before(map, r) \cup After(map, r)
<1>1. s + n \in Nat
  OBVIOUS
<1>2. r \in Region
  BY <1>1, EntryLemma
<1>3. JoinedStart(map, r) \in Nat /\ JoinedEnd(map, r) \in Nat
  BY <1>2 DEF JoinedStart, JoinedEnd, Before, After, Region
<1>4. (r.dirty \/ \E q \in near : q.dirty) \in BOOLEAN
  OBVIOUS
<1> HIDE DEF r
<1>5. Entry(JoinedStart(map, r), JoinedEnd(map, r), FALSE, r.dirty \/ \E q \in near : q.dirty) \in Region
  BY <1>3, <1>4, EntryLemma
<1> QED BY <1>5 DEF NewFreeSpaceArea, Coalesce, r

(* What FoldSet makes of the areas that are given up. *)
FreeOne(map, c)    == NewFreeSpaceArea(map, c.at, c.units, TRUE)
FreedMap(map, areas) == FoldSet(LAMBDA c, m : NewFreeSpaceArea(m, c.at, c.units, TRUE), map, areas)

LEMMA FreedUnfolds ==
  ASSUME NEW S, IsFiniteSet(S), NEW base \in SUBSET Region,
         \A c \in S : c.at \in Nat /\ c.units \in Nat
  PROVE  \E g \in [SUBSET S -> SUBSET Region] :
           /\ g[{}] = base
           /\ \A s \in SUBSET S : s # {} => \E x \in s : g[s] = FreeOne(g[s \ {x}], x)
           /\ g[S] = FreedMap(base, S)
<1> DEFINE X == SUBSET Region
           step == [p \in S \X X |-> FreeOne(p[2], p[1])]
           Some(s) == CHOOSE x \in s : TRUE
           Good(g) == g = [s \in SUBSET S |->
                             IF s = {} THEN base
                             ELSE NewFreeSpaceArea(g[s \ {CHOOSE x \in s : TRUE}], (CHOOSE x \in s : TRUE).at,
                                                   (CHOOSE x \in s : TRUE).units, TRUE)]
<1>1. step \in [S \X X -> X]
  BY RegionsStayRegions DEF FreeOne
<1>2. PICK h : Taking(h, S, X, base, step)
  BY <1>1, TakingExists
<1>3. Good(h) /\ h \in [SUBSET S -> X]
  BY <1>2 DEF Taking, FreeOne
<1> DEFINE f == CHOOSE g : Good(g)
<1>4. Good(f)
  BY <1>3
<1>5. f[S] = FreedMap(base, S)
  BY DEF FreedMap, FoldSet, MapThenFoldSet
<1> HIDE DEF f
<1>6. f[{}] = base
  BY <1>4
<1>7. \A s \in SUBSET S : s # {} => Some(s) \in s /\ f[s] = FreeOne(f[s \ {Some(s)}], Some(s))
  BY <1>4 DEF FreeOne
<1>8. f \in [SUBSET S -> X]
  <2> DEFINE T == {s \in SUBSET S : f[s] \notin X}
  <2>1. T = {}
    <3>1. SUFFICES ASSUME T # {} PROVE FALSE
      OBVIOUS
    <3>2. PICK s \in T : \A x \in s : s \ {x} \notin T
      BY <3>1, SmallestSet
    <3>3. s # {}
      BY <1>6, <3>2
    <3>4. PICK x \in s : f[s] = FreeOne(f[s \ {x}], x)
      BY <1>7, <3>3
    <3>5. f[s \ {x}] \in X
      BY <3>2
    <3>6. x.at \in Nat /\ x.units \in Nat
      OBVIOUS
    <3>7. FreeOne(f[s \ {x}], x) \in X
      BY <3>5, <3>6, RegionsStayRegions DEF FreeOne
    <3> QED BY <3>2, <3>4, <3>7
  <2>2. f = [s \in SUBSET S |-> f[s]]
    BY <1>4
  <2> QED BY <2>1, <2>2
<1> QED BY <1>5, <1>6, <1>7, <1>8

(* All areas that are given up get into the map. *)
LEMMA FreedLemma ==
  ASSUME NEW M, NEW z, NEW map, NEW L, NEW A, DiskOK(M, z, map, L, A)
  PROVE  \E new : Freed(DiskOf(M, z, map), A) = DiskOf(M, z, new) /\ DiskOK(M, z, new, L, {})
<1>1. IsFiniteSet(A)
  BY AreasFinite
<1>2. map \in SUBSET Region /\ \A c \in A : c.at \in Nat /\ c.units \in Nat
  BY DEF DiskOK, MapOK, SpaceOK, WellFormed
<1>3. PICK g \in [SUBSET A -> SUBSET Region] :
           /\ g[{}] = map
           /\ \A s \in SUBSET A : s # {} => \E x \in s : g[s] = FreeOne(g[s \ {x}], x)
           /\ g[A] = FreedMap(map, A)
  BY <1>1, <1>2, FreedUnfolds
<1> DEFINE T == {s \in SUBSET A : ~DiskOK(M, z, g[s], L, A \ s)}
<1>4. T = {}
  <2>1. SUFFICES ASSUME T # {} PROVE FALSE
    OBVIOUS
  <2>2. PICK s \in T : \A x \in s : s \ {x} \notin T
    BY <1>1, <2>1, SmallestSet
  <2>3. s # {}
    <3>1. A \ {} = A
      OBVIOUS
    <3> QED BY <1>3, <2>2, <3>1
  <2>4. PICK x \in s : g[s] = FreeOne(g[s \ {x}], x)
    BY <1>3, <2>2, <2>3
  <2> DEFINE B == A \ (s \ {x})
  <2>5. DiskOK(M, z, g[s \ {x}], L, B) /\ x \in B /\ B \ {x} = A \ s
    BY <2>2
  <2> HIDE DEF B
  <2>6. DiskOK(M, z, g[s], L, B \ {x})
    <3>1. PICK h : h = g[s \ {x}] /\ DiskOK(M, z, h, L, B)
      BY <2>5
    <3>2. DiskOK(M, z, NewFreeSpaceArea(h, x.at, x.units, TRUE), L, B \ {x})
      BY <2>5, <3>1, FreeOneLemma
    <3> QED BY <2>4, <3>1, <3>2 DEF FreeOne
  <2> QED BY <2>2, <2>5, <2>6
<1>5. DiskOK(M, z, g[A], L, {})
  <2>1. A \in SUBSET A /\ A \ A = {}
    OBVIOUS
  <2> QED BY <1>4, <2>1
<1>6. Freed(DiskOf(M, z, map), A) = DiskOf(M, z, g[A])
  <2>1. ~Overlaps(DiskOf(M, z, map))
    BY DEF Overlaps, DiskOf, DiskOK, MapOK, WellFormed
  <2>2. ASSUME NEW r \in map, NEW c \in A PROVE Apart(r, Entry(c.at, c.at + c.units, FALSE, TRUE))
    <3>1. Clear(r, c)
      BY DEF DiskOK, SpaceOK
    <3>2. c.at + c.units \in Nat
      BY <1>2
    <3>3. /\ Entry(c.at, c.at + c.units, FALSE, TRUE).start = c.at
          /\ Entry(c.at, c.at + c.units, FALSE, TRUE).end = c.at + c.units
      BY <1>2, <3>2, EntryLemma
    <3> QED BY <3>1, <3>3 DEF Clear, End, Apart
  <2>3. Freed(DiskOf(M, z, map), A) = [DiskOf(M, z, map) EXCEPT !.freeMap = FreedMap(@, A)]
    BY <2>1, <2>2 DEF Freed, FreedMap, DiskOf
  <2> QED BY <1>3, <2>3 DEF DiskOf
<1> QED BY <1>5, <1>6

(* A chunk that is saved again in place, with as many units or fewer. *)
LeftBehind(m, c) ==
  IF c.units < m.units THEN {[at |-> m.at + c.units, units |-> m.units - c.units]} ELSE {}

LEMMA RewriteLemma ==
  ASSUME NEW M, NEW z, NEW map, NEW L, DiskOK(M, z, map, L, {}),
         NEW m \in L, NEW c \in Header, c.at = m.at, c.units <= m.units
  PROVE  /\ Written(M, c) = (M \ {m}) \cup {c}
         /\ DiskOK(Written(M, c), z, map, (L \ {m}) \cup {c}, LeftBehind(m, c))
<1>1. /\ z \in Nat /\ HeaderUnits <= z /\ M \subseteq Header /\ L \subseteq M /\ m \in M /\ m \in Header
      /\ \A x, y \in M : x = y \/ Beside(x, y)
  BY DEF DiskOK, MediaOK, SpaceOK
<1>2. PICK b \in Nat, e \in Nat, k \in Nat :
        /\ b = m.at /\ b = c.at /\ e = End(c) /\ k = End(m) /\ b < e /\ e <= k /\ k <= z /\ HeaderUnits <= b
        /\ e = b + c.units /\ k = b + m.units /\ c.units \in Nat /\ m.units \in Nat
  BY <1>1, HeaderFacts DEF DiskOK, MediaOK, End
<1>3. \A x \in M : x.at \in Nat /\ End(x) \in Nat /\ x.at < End(x) /\ HeaderUnits <= x.at /\ End(x) <= z
  BY <1>1, HeaderFacts DEF DiskOK, MediaOK
<1>4. \A x \in M \ {m} : End(x) <= b \/ k <= x.at
  BY <1>1, <1>2 DEF Beside
<1>5. Written(M, c) = (M \ {m}) \cup {c}
  <2>1. \A x \in M : x.at < c.at => End(x) <= c.at
    BY <1>2, <1>3, <1>4
  <2>2. Written(M, c) = {x \in M : x.at < c.at \/ End(c) <= x.at} \cup {c}
    BY <1>1, <2>1, WrittenLemma
  <2>3. \A x \in M : (x.at < c.at \/ End(c) <= x.at) <=> x # m
    BY <1>2, <1>3, <1>4
  <2> QED BY <2>2, <2>3
<1> DEFINE N == (M \ {m}) \cup {c}
           K == (L \ {m}) \cup {c}
<1>6. PICK A : /\ A = LeftBehind(m, c)
               /\ \A a \in A : a.at = e /\ End(a) = k /\ e < k /\ a.units \in Nat \ {0}
               /\ \A a, d \in A : a = d
               /\ e < k => A # {}
  <2>1. CASE e < k
    <3> DEFINE a == [at |-> m.at + c.units, units |-> m.units - c.units]
    <3>1. a.at = e /\ a.units = m.units - c.units
      BY <1>2
    <3>2. a.units \in Nat \ {0} /\ e + (m.units - c.units) = k
      BY <1>2, <2>1, <3>1
    <3>3. End(a) = k
      BY <3>1, <3>2 DEF End
    <3>4. c.units < m.units
      BY <1>2, <2>1
    <3> HIDE DEF a
    <3>5. LeftBehind(m, c) = {a}
      BY <3>4 DEF LeftBehind, a
    <3> QED BY <2>1, <3>1, <3>2, <3>3, <3>5
  <2>2. CASE ~(e < k)
    <3>1. ~(c.units < m.units)
      BY <1>2, <2>2
    <3>2. LeftBehind(m, c) = {}
      BY <3>1 DEF LeftBehind
    <3> QED BY <2>2, <3>2
  <2> QED BY <2>1, <2>2
<1>7. MediaOK(N, z)
  <2>1. \A x \in M \ {m} : Beside(x, c) /\ Beside(c, x)
    BY <1>2, <1>3, <1>4 DEF Beside
  <2>2. HeaderUnits <= c.at /\ End(c) <= z
    BY <1>1, <1>2
  <2> QED BY <1>1, <1>3, <2>1, <2>2 DEF MediaOK
<1>8. \A r \in map : /\ r.start \in Nat /\ r.end \in Nat /\ r.start < r.end
                     /\ (k <= r.start \/ r.end <= b)
                     /\ \A x \in L : Clear(r, x)
                     /\ \A x \in M : x.at < r.start => End(x) <= r.start
  BY <1>2 DEF DiskOK, MapOK, SpaceOK, WellFormed, NonEmpty, Region, Clear
<1>9. ASSUME NEW r \in map
      PROVE  /\ \A x \in K : Clear(r, x)
             /\ \A x \in N : x.at < r.start => End(x) <= r.start
             /\ \A a \in A : Clear(r, a)
  <2>1. Clear(r, c) /\ (c.at < r.start => End(c) <= r.start)
    BY <1>2, <1>8 DEF Clear
  <2>2. \A a \in A : Clear(r, a)
    BY <1>2, <1>6, <1>8 DEF Clear
  <2> QED BY <1>8, <2>1, <2>2
<1>10. ASSUME NEW a \in A
       PROVE  /\ a.at \in Nat /\ a.units \in Nat \ {0} /\ HeaderUnits <= a.at /\ End(a) <= z
              /\ \A d \in A : a = d \/ Beside(a, d)
              /\ \A x \in K : Beside(a, x)
              /\ \A x \in N : x.at < a.at => End(x) <= a.at
  <2>1. a.at = e /\ End(a) = k /\ e < k /\ a.units \in Nat \ {0}
    BY <1>6
  <2>2. \A x \in M \ {m} : Beside(a, x) /\ (x.at < a.at => End(x) <= a.at)
    BY <1>2, <1>3, <1>4, <2>1 DEF Beside
  <2>3. Beside(a, c) /\ End(c) <= a.at
    BY <1>2, <2>1 DEF Beside
  <2>4. HeaderUnits <= a.at /\ End(a) <= z
    BY <1>2, <2>1, SizesLemma
  <2> QED BY <1>1, <1>2, <1>6, <2>1, <2>2, <2>3, <2>4
<1>11. ASSUME NEW u \in HeaderUnits .. z - 1
       PROVE  (\E r \in map : In(u, r)) \/ (\E x \in K : Takes(x, u)) \/ (\E a \in A : Takes(a, u))
  <2>1. (\E r \in map : In(u, r)) \/ (\E x \in L : Takes(x, u))
    BY DEF DiskOK, SpaceOK
  <2>2. u \in Nat
    BY <1>1, SizesLemma
  <2>3. Takes(m, u) => Takes(c, u) \/ \E a \in A : Takes(a, u)
    BY <1>2, <1>6, <2>2 DEF Takes
  <2> QED BY <2>1, <2>3
<1>12. SpaceOK(N, z, map, K, A)
  BY <1>1, <1>9, <1>10, <1>11 DEF SpaceOK
<1>13. ASSUME NEW x \in N
       PROVE  x.kind = "fill" \/ x \in K \/ \E r \in map : r.dirty /\ In(x.at, r)
  BY DEF DiskOK, ShownOK
<1>14. ASSUME NEW r \in map, ~r.dirty, NEW u \in r.start .. r.end - 1
       PROVE  \E x \in N : x.kind = "fill" /\ Takes(x, u)
  <2>1. PICK x \in M : x.kind = "fill" /\ Takes(x, u)
    BY <1>14 DEF DiskOK, ShownOK
  <2>2. u \in Nat /\ r.start <= u /\ u < r.end
    BY <1>8
  <2>3. SUFFICES ASSUME x = m PROVE FALSE
    BY <2>1
  <2>4. b <= u /\ u < k
    BY <1>2, <2>1, <2>3 DEF Takes
  <2>5. k <= r.start \/ r.end <= b
    BY <1>8
  <2>6. r.start \in Nat /\ r.end \in Nat
    BY <1>8
  <2> QED BY <1>2, <2>2, <2>4, <2>5, <2>6
<1>15. ShownOK(N, map, K, A)
  BY <1>13, <1>14 DEF ShownOK
<1>16. MapOK(map, z)
  BY DEF DiskOK
<1> QED BY <1>1, <1>5, <1>6, <1>7, <1>12, <1>15, <1>16 DEF DiskOK

------------------------------------------------------------------------------
(* The free space that is flushed. *)

(* The headers after one region was flushed. *)
Wiped(N, r) == Around(N, r.start, r.end) \cup Fills(r.start, r.end)

(* One region: the headers in it make room for fill chunks all over it. *)
LEMMA FlushOneLemma ==
  ASSUME NEW M, NEW z, NEW map, NEW L, DiskOK(M, z, map, L, {}), NEW r \in map
  PROVE  LET N == Wiped(M, r)
         IN  /\ DiskOK(N, z, map, L, {})
             /\ \A m \in N : m.kind = "fill" \/ (m \in M /\ ~In(m.at, r))
             /\ \A u \in r.start .. r.end - 1 : \E m \in N : m.kind = "fill" /\ Takes(m, u)
             /\ \A q \in map \ {r} : \A u \in q.start .. q.end - 1 : \A m \in M : Takes(m, u) => m \in N
<1>1. /\ z \in Nat /\ HeaderUnits <= z /\ M \subseteq Header /\ L \subseteq M
      /\ \A x, y \in M : x = y \/ Beside(x, y)
  BY DEF DiskOK, MediaOK, SpaceOK
<1>2. PICK b \in Nat, k \in Nat : b = r.start /\ k = r.end /\ b < k /\ k <= z /\ HeaderUnits <= b
  BY DEF DiskOK, MapOK, WellFormed, NonEmpty, Region
<1>3. \A x \in M : x.at \in Nat /\ End(x) \in Nat /\ x.at < End(x) /\ HeaderUnits <= x.at /\ End(x) <= z
  BY <1>1, HeaderFacts DEF DiskOK, MediaOK
<1>4. PICK F : F = Fills(b, k) /\ FillsOver(F, b, k)
  BY <1>2, FillsLemma
<1> DEFINE K == {m \in M : m.at < b \/ k <= m.at}
<1>5. \A m \in K : m \in M /\ (End(m) <= b \/ k <= m.at)
  BY <1>2, <1>3 DEF DiskOK, SpaceOK
<1>6. \A m \in F : m \in Header /\ m.kind = "fill" /\ m.at \in Nat /\ End(m) \in Nat /\ b <= m.at /\ End(m) <= k
                   /\ m.at < End(m)
  BY <1>4, HeaderFacts DEF FillsOver
<1>7. L \subseteq K
  BY <1>1, <1>2, <1>3 DEF DiskOK, SpaceOK, Clear
<1>8. \A q \in map \ {r} : /\ q.start \in Nat /\ q.end \in Nat /\ q.start < q.end
                           /\ (q.end <= b \/ k <= q.start)
  BY <1>2 DEF DiskOK, MapOK, WellFormed, NonEmpty, DisjointRegions, Apart, Region
<1>9. MediaOK(K \cup F, z)
  <2>1. \A m \in K : \A x \in F : Beside(m, x) /\ Beside(x, m)
    BY <1>2, <1>3, <1>5, <1>6 DEF Beside
  <2>2. \A m, x \in F : m = x \/ Beside(m, x)
    BY <1>4 DEF FillsOver
  <2>3. \A m \in F : HeaderUnits <= m.at /\ End(m) <= z
    BY <1>1, <1>2, <1>6, SizesLemma
  <2>4. K \subseteq Header /\ F \subseteq Header
    BY <1>1, <1>5, <1>6
  <2>5. \A m \in K : HeaderUnits <= m.at /\ End(m) <= z
    BY <1>3, <1>5
  <2>6. \A m, x \in K : m = x \/ Beside(m, x)
    BY <1>1, <1>5
  <2> HIDE DEF K
  <2> QED BY <2>1, <2>2, <2>3, <2>4, <2>5, <2>6 DEF MediaOK
<1>10. ASSUME NEW q \in map
       PROVE  /\ \A m \in L : Clear(q, m)
              /\ \A m \in K \cup F : m.at < q.start => End(m) <= q.start
  <2>1. /\ \A m \in L : Clear(q, m)
        /\ \A m \in M : m.at < q.start => End(m) <= q.start
    BY DEF DiskOK, SpaceOK
  <2>2. \A m \in F : m.at < q.start => End(m) <= q.start
    <3>1. CASE q = r
      BY <1>2, <1>6, <3>1
    <3>2. CASE q # r
      BY <1>2, <1>6, <1>8, <3>2
    <3> QED BY <3>1, <3>2
  <2> QED BY <2>1, <2>2
<1>11. SpaceOK(K \cup F, z, map, L, {})
  <2>1. \A u \in HeaderUnits .. z - 1 : (\E q \in map : In(u, q)) \/ (\E m \in L : Takes(m, u))
    BY DEF DiskOK, SpaceOK
  <2> HIDE DEF K
  <2> QED BY <1>7, <1>10, <2>1 DEF SpaceOK
<1>12. \A m \in K \cup F : m.kind = "fill" \/ m \in L \/ \E q \in map : q.dirty /\ In(m.at, q)
  BY <1>6 DEF DiskOK, ShownOK
<1>13. \A u \in b .. k - 1 : \E m \in K \cup F : m.kind = "fill" /\ Takes(m, u)
  BY <1>4 DEF FillsOver
<1>14. ASSUME NEW q \in map \ {r}, NEW u \in q.start .. q.end - 1, NEW m \in M, Takes(m, u)
       PROVE  m \in K
  <2>1. m.at < q.start => End(m) <= q.start
    BY DEF DiskOK, SpaceOK
  <2>2. u \in Nat /\ q.start <= u /\ u < q.end
    BY <1>8
  <2>3. q.start <= m.at /\ m.at < q.end
    BY <1>3, <1>8, <1>14, <2>1, <2>2 DEF Takes
  <2> QED BY <1>2, <1>3, <1>8, <2>3
<1>15. ShownOK(K \cup F, map, L, {})
  <2>1. ASSUME NEW q \in map, ~q.dirty, NEW u \in q.start .. q.end - 1
        PROVE  \E m \in K \cup F : m.kind = "fill" /\ Takes(m, u)
    <3>1. CASE q = r
      BY <1>2, <1>13, <3>1
    <3>2. CASE q # r
      <4>1. PICK m \in M : m.kind = "fill" /\ Takes(m, u)
        BY <2>1 DEF DiskOK, ShownOK
      <4> QED BY <1>14, <3>2, <4>1
    <3> QED BY <3>1, <3>2
  <2> QED BY <1>12, <2>1 DEF ShownOK
<1>16. DiskOK(K \cup F, z, map, L, {})
  BY <1>9, <1>11, <1>15 DEF DiskOK
<1>17. \A m \in K \cup F : m.kind = "fill" \/ (m \in M /\ ~In(m.at, r))
  BY <1>2, <1>3, <1>6 DEF In
<1>18. \A q \in map \ {r} : \A u \in q.start .. q.end - 1 : \A m \in M : Takes(m, u) => m \in K \cup F
  BY <1>14
<1>19. Wiped(M, r) = K \cup F
  <2>1. \A m \in M : m.at < b => End(m) <= b
    BY <1>2 DEF DiskOK, SpaceOK
  <2>2. Around(M, b, k) = K
    BY <1>1, <2>1, AroundLemma
  <2> QED BY <1>2, <1>4, <2>2 DEF Wiped
<1> HIDE DEF K
<1> QED BY <1>2, <1>13, <1>16, <1>17, <1>18, <1>19

LEMMA FlushAreaLemma ==
  ASSUME ~SupportsTruncation, NEW N, NEW z \in Nat, NEW map, NEW r \in Region, r.end <= z
  PROVE  FlushArea(DiskOf(N, z, map), r) = DiskOf(Wiped(N, r), z, map)
<1> DEFINE d == DiskOf(N, z, map)
<1>1. d.media = N /\ d.length = z /\ d.size = z /\ d.freeMap = map
  BY DEF DiskOf
<1>2. Higher(z, r.end) = z
  BY DEF Higher, Region
<1>3. FlushArea(d, r) = [d EXCEPT !.length = z, !.size = z, !.media = Wiped(N, r)]
  BY <1>1, <1>2 DEF FlushArea, Wiped
<1>4. [d EXCEPT !.length = z, !.size = z, !.media = Wiped(N, r)] = DiskOf(Wiped(N, r), z, map)
  <2>1. [d EXCEPT !.length = z] = d
    BY DEF DiskOf
  <2>2. [d EXCEPT !.size = z] = d
    BY DEF DiskOf
  <2>3. [d EXCEPT !.media = Wiped(N, r)] = DiskOf(Wiped(N, r), z, map)
    BY DEF DiskOf
  <2> QED BY <2>1, <2>2, <2>3
<1> QED BY <1>3, <1>4

(* The headers there can be when some of the chunks have been spoilt. *)
Spoils(B) == B \cup {[m EXCEPT !.data = NoPiece] : m \in B}

LEMMA SpoilsLemma ==
  ASSUME NEW B, NEW N \in SUBSET Spoils(B), NEW s, NEW e
  PROVE  Around(N, s, e) \subseteq Spoils(B)
<1>1. ASSUME NEW m \in Spoils(B) PROVE [m EXCEPT !.data = NoPiece] \in Spoils(B)
  <2>1. CASE m \in B
    BY <2>1 DEF Spoils
  <2>2. CASE \E x \in B : m = [x EXCEPT !.data = NoPiece]
    <3>1. [m EXCEPT !.data = NoPiece] = m
      BY <2>2
    <3> QED BY <3>1
  <2> QED BY <2>1, <2>2 DEF Spoils
<1>2. \A m \in N : Spoilt(m, s) \in Spoils(B)
  BY <1>1 DEF Spoilt
<1> QED BY <1>2 DEF Around

(* The last of some regions is one of them. *)
LEMMA LastRegion ==
  ASSUME NEW s \in SUBSET Region, s # {}, NEW z \in Nat, \A r \in s : r.start <= z
  PROVE  Last(s) \in s
<1> DEFINE starts == {r.start : r \in s}
<1>1. starts \subseteq Nat /\ starts # {} /\ \A x \in starts : x <= z
  BY DEF Region
<1> HIDE DEF starts
<1>2. PICK x \in starts : \A y \in starts : x >= y
  BY <1>1, LargestOf
<1>3. \A y \in starts : y <= x
  BY <1>1, <1>2
<1>4. \E r \in s : \A q \in s : q.start <= r.start
  BY <1>2, <1>3 DEF starts
<1> QED BY <1>4 DEF Last

(* What MapThenFoldSet makes of the regions that are flushed. *)
FlushedDirty(d, regions) ==
  MapThenFoldSet(LAMBDA r, e : FlushArea(e, r), d, LAMBDA r : r, Last, regions)

FlushSteps(h, M, z, map, S) ==
  /\ h[{}] = M
  /\ \A s \in SUBSET S : s # {} => \E x \in s : h[s] = Wiped(h[s \ {x}], x)
  /\ DiskOf(h[S], z, map) = FlushedDirty(DiskOf(M, z, map), S)

LEMMA FlushUnfolds ==
  ASSUME ~SupportsTruncation, NEW M, NEW z \in Nat, NEW map,
         NEW S \in SUBSET Region, IsFiniteSet(S), \A r \in S : r.start <= z /\ r.end <= z
  PROVE  \E h : FlushSteps(h, M, z, map, S)
<1> DEFINE B == M \cup UNION {Fills(r.start, r.end) : r \in S}
           Y == SUBSET Spoils(B)
           X == {DiskOf(N, z, map) : N \in Y}
           base == DiskOf(M, z, map)
           step == [p \in S \X X |-> FlushArea(p[2], p[1])]
           next == [s \in SUBSET S |-> Last(s)]
           Good(g) == g = [s \in SUBSET S |->
                             IF s = {} THEN base ELSE FlushArea(g[s \ {Last(s)}], Last(s))]
<1>0. \A s \in SUBSET S : next[s] = Last(s) /\ (s # {} => Last(s) \in s)
  BY LastRegion
<1>1. ASSUME NEW N \in Y, NEW r \in S
      PROVE  FlushArea(DiskOf(N, z, map), r) = DiskOf(Wiped(N, r), z, map) /\ Wiped(N, r) \in Y
  <2>1. Around(N, r.start, r.end) \subseteq Spoils(B) /\ Fills(r.start, r.end) \subseteq Spoils(B)
    BY SpoilsLemma DEF Spoils
  <2>2. Wiped(N, r) \in Y
    BY <2>1 DEF Wiped
  <2> QED BY <2>2, FlushAreaLemma
<1>2. step \in [S \X X -> X]
  <2>1. \A r \in S : \A d \in X : FlushArea(d, r) \in X
    BY <1>1
  <2> HIDE DEF X
  <2> QED BY <2>1
<1>m. M \in Y
  BY DEF Spoils
<1>3. base \in X
  BY <1>m
<1>4. PICK k : Folding(k, S, X, base, step, next)
  <2> HIDE DEF X, base, step, next
  <2> QED BY <1>0, <1>2, <1>3, FoldExists
<1>5. Good(k)
  <2>1. k \in [SUBSET S -> X]
    BY <1>4, Zenon DEF Folding
  <2>2. k = [s \in SUBSET S |-> IF s = {} THEN base ELSE step[<<next[s], k[s \ {next[s]}]>>]]
    BY <1>4, Zenon DEF Folding
  <2>3. \A s \in SUBSET S : s # {} => step[<<next[s], k[s \ {next[s]}]>>] = FlushArea(k[s \ {Last(s)}], Last(s))
    <3> SUFFICES ASSUME NEW s \in SUBSET S, s # {}
                 PROVE  step[<<next[s], k[s \ {next[s]}]>>] = FlushArea(k[s \ {Last(s)}], Last(s))
      OBVIOUS
    <3>1. next[s] = Last(s) /\ Last(s) \in S
      BY <1>0
    <3>2. k[s \ {Last(s)}] \in X
      BY <2>1
    <3> HIDE DEF X, next
    <3> QED BY <3>1, <3>2
  <2> HIDE DEF X, step, base, next
  <2> QED BY <2>2, <2>3
<1> DEFINE f == CHOOSE g : Good(g)
<1>6. Good(f)
  BY <1>5
<1>7. f[S] = FlushedDirty(base, S)
  BY DEF FlushedDirty, MapThenFoldSet
<1> HIDE DEF f
<1>8. f[{}] = base
  BY <1>6
<1>9. \A s \in SUBSET S : s # {} => Last(s) \in s /\ f[s] = FlushArea(f[s \ {Last(s)}], Last(s))
  BY <1>0, <1>6
<1> DEFINE h == [s \in SUBSET S |-> f[s].media]
           T == {s \in SUBSET S : ~(\E N \in Y : f[s] = DiskOf(N, z, map))}
<1>10. T = {}
  <2>1. SUFFICES ASSUME T # {} PROVE FALSE
    OBVIOUS
  <2>2. PICK s \in T : \A x \in s : s \ {x} \notin T
    BY <2>1, SmallestSet
  <2>3. s \in SUBSET S /\ ~(\E N \in Y : f[s] = DiskOf(N, z, map))
    BY <2>2
  <2> HIDE DEF Y
  <2>4. s # {}
    BY <1>8, <1>m, <2>3
  <2>5. PICK x \in s : f[s] = FlushArea(f[s \ {x}], x)
    BY <1>9, <2>3, <2>4
  <2>6. PICK N \in Y : f[s \ {x}] = DiskOf(N, z, map)
    <3>1. s \ {x} \in SUBSET S /\ s \ {x} \notin T
      BY <2>2, <2>3
    <3> QED BY <3>1
  <2>7. f[s] = DiskOf(Wiped(N, x), z, map) /\ Wiped(N, x) \in Y
    <3>1. x \in S
      BY <2>3
    <3> QED BY <1>1, <2>5, <2>6, <3>1
  <2> QED BY <2>3, <2>7
<1>11. \A s \in SUBSET S : h[s] \in Y /\ f[s] = DiskOf(h[s], z, map)
  <2>1. \A N : DiskOf(N, z, map).media = N
    BY DEF DiskOf
  <2> QED BY <1>10, <2>1
<1>12. h[{}] = M
  BY <1>8 DEF DiskOf
<1> HIDE DEF h
<1>13. ASSUME NEW s \in SUBSET S, s # {} PROVE \E x \in s : h[s] = Wiped(h[s \ {x}], x)
  <2>1. PICK x \in s : f[s] = FlushArea(f[s \ {x}], x)
    BY <1>9, <1>13
  <2>2. s \ {x} \in SUBSET S
    OBVIOUS
  <2>3. FlushArea(DiskOf(h[s \ {x}], z, map), x) = DiskOf(Wiped(h[s \ {x}], x), z, map)
    BY <1>1, <1>11, <2>2
  <2>4. f[s] = DiskOf(h[s], z, map) /\ f[s \ {x}] = DiskOf(h[s \ {x}], z, map)
    BY <1>11, <2>2
  <2>5. DiskOf(h[s], z, map) = DiskOf(Wiped(h[s \ {x}], x), z, map)
    BY <2>1, <2>3, <2>4
  <2>6. \A N : DiskOf(N, z, map).media = N
    BY DEF DiskOf
  <2> QED BY <2>5, <2>6
<1>15. DiskOf(h[S], z, map) = FlushedDirty(base, S)
  BY <1>7, <1>11
<1> QED BY <1>12, <1>13, <1>15 DEF FlushSteps

(* Fill chunks all over the regions, they need no longer be flushed. *)
Cleaned(map) == {[q EXCEPT !.dirty = FALSE] : q \in map}

LEMMA CleanedLemma ==
  ASSUME NEW M, NEW z, NEW map, NEW L, DiskOK(M, z, map, L, {}),
         \A r \in map : \A u \in r.start .. r.end - 1 : \E m \in M : m.kind = "fill" /\ Takes(m, u),
         \A m \in M : m.kind = "fill" \/ m \in L
  PROVE  DiskOK(M, z, Cleaned(map), L, {}) /\ \A r \in Cleaned(map) : ~r.dirty
<1> DEFINE new == Cleaned(map)
<1>1. \A q \in map : /\ q \in Region /\ q.start \in Nat /\ q.end \in Nat /\ q.start < q.end
                     /\ ~q.reserved /\ HeaderUnits <= q.start /\ q.end <= z
  BY DEF DiskOK, MapOK, WellFormed, NonEmpty, Region
<1>2. ASSUME NEW p \in new
      PROVE  \E q \in map : /\ p = [q EXCEPT !.dirty = FALSE] /\ p \in Region
                            /\ p.start = q.start /\ p.end = q.end /\ p.reserved = q.reserved /\ p.dirty = FALSE
  <2>1. PICK q \in map : p = [q EXCEPT !.dirty = FALSE]
    BY DEF Cleaned
  <2>2. q \in Region
    BY <1>1
  <2>3. p \in Region /\ p.start = q.start /\ p.end = q.end /\ p.reserved = q.reserved /\ p.dirty = FALSE
    BY <2>1, <2>2 DEF Region
  <2> QED BY <2>1, <2>3
<1>3. ASSUME NEW q \in map PROVE \E p \in new : p.start = q.start /\ p.end = q.end
  <2>1. [q EXCEPT !.dirty = FALSE] \in new
    BY DEF Cleaned
  <2>2. q \in Region
    BY <1>1
  <2>3. [q EXCEPT !.dirty = FALSE].start = q.start /\ [q EXCEPT !.dirty = FALSE].end = q.end
    BY <2>2 DEF Region
  <2> QED BY <2>1, <2>3
<1> HIDE DEF new
<1>4. MapOK(new, z)
  <2>1. \A p, q \in map : p = q \/ Apart(p, q)
    BY DEF DiskOK, MapOK, WellFormed, DisjointRegions
  <2>2. \A p, q \in map : p.end # q.start
    BY <1>1 DEF DiskOK, MapOK, CoalescedRegions
  <2>3. ASSUME NEW p \in new, NEW q \in new PROVE (p = q \/ Apart(p, q)) /\ p.end # q.start
    <3>1. PICK x \in map : p = [x EXCEPT !.dirty = FALSE] /\ p.start = x.start /\ p.end = x.end
      BY <1>2
    <3>2. PICK y \in map : q = [y EXCEPT !.dirty = FALSE] /\ q.start = y.start /\ q.end = y.end
      BY <1>2
    <3>3. x = y \/ Apart(x, y)
      BY <2>1
    <3> QED BY <2>2, <3>1, <3>2, <3>3 DEF Apart
  <2>4. \A p \in new : /\ p \in Region /\ p.start < p.end /\ ~p.reserved /\ HeaderUnits <= p.start /\ p.end <= z
    BY <1>1, <1>2
  <2> QED BY <2>3, <2>4 DEF MapOK, WellFormed, NonEmpty, DisjointRegions, CoalescedRegions
<1>5. SpaceOK(M, z, new, L, {})
  <2>1. ASSUME NEW p \in new
        PROVE  (\A m \in L : Clear(p, m)) /\ (\A m \in M : m.at < p.start => End(m) <= p.start)
    <3>1. PICK q \in map : p.start = q.start /\ p.end = q.end
      BY <1>2
    <3> QED BY <3>1 DEF DiskOK, SpaceOK, Clear
  <2>2. ASSUME NEW u \in HeaderUnits .. z - 1
        PROVE  (\E p \in new : In(u, p)) \/ (\E m \in L : Takes(m, u))
    <3>1. (\E q \in map : In(u, q)) \/ (\E m \in L : Takes(m, u))
      BY DEF DiskOK, SpaceOK
    <3> QED BY <1>3, <3>1 DEF In
  <2>3. L \subseteq M
    BY DEF DiskOK, SpaceOK
  <2> QED BY <2>1, <2>2, <2>3 DEF SpaceOK
<1>6. ShownOK(M, new, L, {})
  <2>1. ASSUME NEW p \in new, NEW u \in p.start .. p.end - 1
        PROVE  \E m \in M : m.kind = "fill" /\ Takes(m, u)
    <3>1. PICK q \in map : p.start = q.start /\ p.end = q.end
      BY <1>2
    <3> QED BY <2>1, <3>1
  <2> QED BY <2>1 DEF ShownOK
<1>7. \A p \in new : ~p.dirty
  BY <1>2
<1> QED BY <1>4, <1>5, <1>6, <1>7 DEF DiskOK, new

LEMMA FlushLemma ==
  ASSUME ~SupportsTruncation, NEW M, NEW z, NEW map, NEW L, DiskOK(M, z, map, L, {})
  PROVE  \E N, new : /\ FlushFreeSpace(DiskOf(M, z, map)) = DiskOf(N, z, new)
                     /\ DiskOK(N, z, new, L, {}) /\ \A r \in new : ~r.dirty
<1> DEFINE S == {r \in map : r.dirty}
<1>1. z \in Nat /\ map \subseteq Region /\ \A r \in map : r.start <= z /\ r.end <= z
  BY DEF DiskOK, MapOK, WellFormed, NonEmpty, Region
<1>2. S \in SUBSET Region /\ IsFiniteSet(S) /\ \A r \in S : r.start <= z /\ r.end <= z
  <2>1. IsFiniteSet(map)
    BY AreasFinite
  <2> QED BY <1>1, <2>1, FS_Subset
<1>a. PICK h : FlushSteps(h, M, z, map, S)
  <2> HIDE DEF S
  <2> QED BY <1>1, <1>2, FlushUnfolds
<1>3. /\ h[{}] = M
      /\ \A s \in SUBSET S : s # {} => \E x \in s : h[s] = Wiped(h[s \ {x}], x)
      /\ DiskOf(h[S], z, map) = FlushedDirty(DiskOf(M, z, map), S)
  BY <1>a DEF FlushSteps
<1> DEFINE Fine(s) ==
             /\ DiskOK(h[s], z, map, L, {})
             /\ \A m \in h[s] : m.kind = "fill" \/ m \in L \/ \E r \in S \ s : In(m.at, r)
             /\ \A r \in s : \A u \in r.start .. r.end - 1 : \E m \in h[s] : m.kind = "fill" /\ Takes(m, u)
           T == {s \in SUBSET S : ~Fine(s)}
<1>4. Fine({})
  <2>1. \A m \in M : m.kind = "fill" \/ m \in L \/ \E r \in S : In(m.at, r)
    BY DEF DiskOK, ShownOK
  <2> QED BY <1>3, <2>1
<1>5. ASSUME NEW s \in SUBSET S, NEW x \in s, h[s] = Wiped(h[s \ {x}], x), Fine(s \ {x})
      PROVE  Fine(s)
  <2>1. PICK N : N = h[s \ {x}]
    OBVIOUS
  <2>2. /\ DiskOK(N, z, map, L, {})
        /\ \A m \in N : m.kind = "fill" \/ m \in L \/ \E r \in S \ (s \ {x}) : In(m.at, r)
        /\ \A r \in s \ {x} : \A u \in r.start .. r.end - 1 : \E m \in N : m.kind = "fill" /\ Takes(m, u)
    BY <1>5, <2>1
  <2>3. x \in map /\ \A r \in s \ {x} : r \in map \ {x}
    OBVIOUS
  <2>4. PICK K : K = Wiped(N, x)
    OBVIOUS
  <2>5. /\ DiskOK(K, z, map, L, {})
        /\ \A m \in K : m.kind = "fill" \/ (m \in N /\ ~In(m.at, x))
        /\ \A u \in x.start .. x.end - 1 : \E m \in K : m.kind = "fill" /\ Takes(m, u)
        /\ \A q \in map \ {x} : \A u \in q.start .. q.end - 1 : \A m \in N : Takes(m, u) => m \in K
    BY <2>2, <2>3, <2>4, FlushOneLemma
  <2>6. \A m \in K : m.kind = "fill" \/ m \in L \/ \E r \in S \ s : In(m.at, r)
    BY <2>2, <2>5
  <2>7. \A r \in s : \A u \in r.start .. r.end - 1 : \E m \in K : m.kind = "fill" /\ Takes(m, u)
    BY <2>2, <2>3, <2>5
  <2> QED BY <1>5, <2>1, <2>4, <2>5, <2>6, <2>7
<1>6. T = {}
  <2>1. SUFFICES ASSUME T # {} PROVE FALSE
    OBVIOUS
  <2> HIDE DEF Fine, S
  <2>2. PICK s \in T : \A x \in s : s \ {x} \notin T
    BY <1>2, <2>1, SmallestSet
  <2>3. s # {}
    BY <1>4, <2>2
  <2>4. PICK x \in s : h[s] = Wiped(h[s \ {x}], x)
    BY <1>3, <2>2, <2>3
  <2>5. Fine(s \ {x})
    BY <2>2
  <2> QED BY <1>5, <2>2, <2>4, <2>5
<1>7. PICK N : N = h[S]
  OBVIOUS
<1>8. /\ DiskOK(N, z, map, L, {})
      /\ \A m \in N : m.kind = "fill" \/ m \in L
      /\ \A r \in S : \A u \in r.start .. r.end - 1 : \E m \in N : m.kind = "fill" /\ Takes(m, u)
  <2>1. Fine(S)
    BY <1>6
  <2> QED BY <1>7, <2>1
<1>9. \A r \in map : \A u \in r.start .. r.end - 1 : \E m \in N : m.kind = "fill" /\ Takes(m, u)
  BY <1>8 DEF DiskOK, ShownOK
<1>10. DiskOK(N, z, Cleaned(map), L, {}) /\ \A r \in Cleaned(map) : ~r.dirty
  BY <1>8, <1>9, CleanedLemma
<1>11. FlushFreeSpace(DiskOf(M, z, map)) = DiskOf(N, z, Cleaned(map))
  <2>1. FlushedDirty(DiskOf(M, z, map), S) = DiskOf(N, z, map)
    BY <1>3, <1>7
  <2>2. FlushFreeSpace(DiskOf(M, z, map)) =
          [DiskOf(N, z, map) EXCEPT !.freeMap = {IF q \in S THEN [q EXCEPT !.dirty = FALSE] ELSE q : q \in @}]
    BY <2>1 DEF FlushFreeSpace, FlushAreas, Dirty, FlushedDirty, DiskOf
  <2>3. {IF q \in S THEN [q EXCEPT !.dirty = FALSE] ELSE q : q \in map} = Cleaned(map)
    <3>1. \A q \in map : q \notin S => [q EXCEPT !.dirty = FALSE] = q
      <4> SUFFICES ASSUME NEW q \in map, q \notin S PROVE [q EXCEPT !.dirty = FALSE] = q
        OBVIOUS
      <4>1. q \in Region /\ q.dirty = FALSE
        BY <1>1 DEF Region
      <4> QED BY <4>1 DEF Region
    <3> HIDE DEF S
    <3> QED BY <3>1 DEF Cleaned
  <2>4. FlushFreeSpace(DiskOf(M, z, map)) = [DiskOf(N, z, map) EXCEPT !.freeMap = Cleaned(map)]
    BY <2>2, <2>3 DEF DiskOf
  <2> QED BY <2>4 DEF DiskOf
<1> QED BY <1>10, <1>11

------------------------------------------------------------------------------
(* The operations on the media, as one value. *)
Sound(d, L, A) ==
  /\ d = DiskOf(d.media, d.size, d.freeMap)
  /\ DiskOK(d.media, d.size, d.freeMap, L, A)

LEMMA DiskOfLemma ==
  ASSUME NEW M, NEW z, NEW map
  PROVE  LET d == DiskOf(M, z, map)
         IN  d.media = M /\ d.size = z /\ d.length = z /\ d.freeMap = map
BY DEF DiskOf

LEMMA FreedSound ==
  ASSUME NEW d, NEW L, NEW A, Sound(d, L, A)
  PROVE  Sound(Freed(d, A), L, {}) /\ Freed(d, A).media = d.media
<1>1. PICK new : /\ Freed(DiskOf(d.media, d.size, d.freeMap), A) = DiskOf(d.media, d.size, new)
                 /\ DiskOK(d.media, d.size, new, L, {})
  BY FreedLemma DEF Sound
<1>2. Freed(d, A) = DiskOf(d.media, d.size, new)
  BY <1>1 DEF Sound
<1> QED BY <1>1, <1>2, DiskOfLemma DEF Sound

LEMMA FlushedSound ==
  ASSUME ~SupportsTruncation, NEW d, NEW L, Sound(d, L, {})
  PROVE  Sound(FlushFreeSpace(d), L, {}) /\ \A r \in FlushFreeSpace(d).freeMap : ~r.dirty
<1>1. PICK N, new : /\ FlushFreeSpace(DiskOf(d.media, d.size, d.freeMap)) = DiskOf(N, d.size, new)
                    /\ DiskOK(N, d.size, new, L, {}) /\ \A r \in new : ~r.dirty
  BY FlushLemma DEF Sound
<1>2. FlushFreeSpace(d) = DiskOf(N, d.size, new)
  BY <1>1 DEF Sound
<1> QED BY <1>1, <1>2, DiskOfLemma DEF Sound

LEMMA AtLemma ==
  ASSUME NEW chunk \in Header, NEW p \in Nat
  PROVE  LET c == At(chunk, p)
         IN  /\ c \in Header /\ c.at = p /\ c.units = chunk.units /\ c.kind = chunk.kind /\ c.id = chunk.id
             /\ c.name = chunk.name /\ c.offset = chunk.offset /\ End(c) = p + chunk.units
BY DEF At, Header, End

(* A chunk that is saved is in use then, behind the header its search      *)
(* began at; nothing else comes onto the media. *)
SavedChunk(d, from, minimum, desired, chunk) ==
  At(chunk, Taken(d, from, minimum, desired).start)

SavedWell(d, L, from, minimum, desired, chunk) ==
  LET c == SavedChunk(d, from, minimum, desired, chunk)
      e == Saved(d, from, minimum, desired, chunk)
  IN  /\ Sound(e, L \cup {c}, {}) /\ e.media \subseteq d.media \cup {c}
      /\ c \in Header /\ c.at \in Nat /\ HeaderUnits <= c.at /\ from < c.at
      /\ c.at = Taken(d, from, minimum, desired).start
      /\ \A m \in L : m.at # c.at

LEMMA SavedLemma ==
  ASSUME NEW d, NEW L, Sound(d, L, {}),
         NEW from \in Nat, from = 0 \/ \E m \in L : m.at = from,
         NEW minimum \in Nat, NEW desired \in Nat, 1 <= minimum, minimum <= desired,
         NEW chunk \in Header, Fits(d, from, minimum, desired, chunk.units)
  PROVE  SavedWell(d, L, from, minimum, desired, chunk)
<1> DEFINE M == d.media
           z == d.size
           map == d.freeMap
<1>1. /\ DiskOK(M, z, map, L, {}) /\ d.length = z /\ z \in Nat /\ HeaderUnits <= z /\ MapOK(map, z)
      /\ M \subseteq Header /\ L \subseteq M
  BY DiskOfLemma DEF Sound, DiskOK, MediaOK, SpaceOK
<1>2. \A m \in L : m.at \in Nat /\ End(m) \in Nat /\ m.at < End(m) /\ HeaderUnits <= m.at /\ End(m) <= z
  BY <1>1, HeaderFacts DEF DiskOK, MediaOK
<1>3. \A q \in map : /\ q.start \in Nat /\ q.end \in Nat /\ q.start < q.end /\ HeaderUnits <= q.start /\ q.end <= z
                     /\ \A m \in L : Clear(q, m)
  BY <1>1 DEF MapOK, WellFormed, NonEmpty, Region, DiskOK, SpaceOK
<1>4. from <= z /\ \A r \in map : ~(r.start < from /\ from < r.end)
  <2>1. CASE from = 0
    BY <1>1, <1>3, <2>1
  <2>2. CASE \E m \in L : m.at = from
    BY <1>1, <1>2, <1>3, <2>2 DEF Clear
  <2> QED BY <2>1, <2>2
<1>5. PICK b \in Nat, l \in Nat : Served(map, z, from, minimum, desired, b, l)
  BY <1>1, <1>4, AllocationLemma
<1>a. /\ Taken(d, from, minimum, desired) = Allocation(map, z, from, minimum, desired)
      /\ \A grown, h : TakenAndReleased(d, from, minimum, desired, grown, h) =
                          Released(Reserved(map, z, from, minimum, desired), grown, h)
  <2>1. ~Overlaps(d)
    BY <1>1 DEF Overlaps, MapOK, WellFormed
  <2> QED BY <2>1 DEF Taken, TakenAndReleased
<1>6. /\ Taken(d, from, minimum, desired) = [start |-> b, end |-> l]
      /\ from <= b /\ b < l
  BY <1>5, <1>a DEF Served
<1> DEFINE c == At(chunk, b)
<1>7. PICK k \in Nat, e \in Nat : /\ k = chunk.units /\ e = b + k /\ 1 <= k /\ b < e
                                  /\ c \in Header /\ c.at = b /\ c.units = k /\ End(c) = e
  <2>1. PICK k \in Nat : k = chunk.units /\ 1 <= k
    BY HeaderFacts
  <2>2. b + k \in Nat /\ b < b + k
    BY <2>1
  <2>3. c \in Header /\ c.at = b /\ c.units = chunk.units /\ End(c) = b + chunk.units
    BY AtLemma
  <2> QED BY <2>1, <2>2, <2>3
<1>8. e <= l
  <2>1. k <= l - b
    BY <1>6, <1>7 DEF Fits
  <2> QED BY <1>6, <1>7, <2>1
<1>9. PICK new : new = Released(Reserved(map, z, from, minimum, desired), Higher(z, e),
                             [key |-> b, start |-> e, units |-> l - e])
  OBVIOUS
<1>10. \/ \E r \in map : b = r.start /\ e <= r.end /\ new = (map \ {r}) \cup Rest(r, e)
       \/ b = z /\ new = map
  BY <1>1, <1>5, <1>7, <1>8, <1>9, SavedMapLemma
<1>11. SavedChunk(d, from, minimum, desired, chunk) = c
  BY <1>6 DEF SavedChunk
<1>12. Saved(d, from, minimum, desired, chunk) = DiskOf(Written(M, c), Higher(z, e), new)
  BY <1>1, <1>6, <1>7, <1>9, <1>a DEF Saved, DiskOf
<1> HIDE DEF c
<1>13. DiskOK(Written(M, c), Higher(z, e), new, L \cup {c}, {})
  <2>1. CASE \E r \in map : b = r.start /\ e <= r.end /\ new = (map \ {r}) \cup Rest(r, e)
    <3>1. PICK r \in map : b = r.start /\ e <= r.end /\ new = (map \ {r}) \cup Rest(r, e)
      BY <2>1
    <3>2. Higher(z, e) = z
      <4>1. e <= r.end /\ r.end <= z /\ r.end \in Nat
        BY <1>3, <3>1
      <4> QED BY <1>1, <1>7, <4>1 DEF Higher
    <3>3. DiskOK(Written(M, c), z, (map \ {r}) \cup Rest(r, e), L \cup {c}, {})
      BY <1>1, <1>7, <3>1, PlaceLemma
    <3> QED BY <3>1, <3>2, <3>3
  <2>2. CASE b = z /\ new = map
    <3>1. Higher(z, e) = e
      BY <1>1, <1>7, <2>2 DEF Higher
    <3>2. DiskOK(Written(M, c), e, map, L \cup {c}, {})
      BY <1>1, <1>7, <2>2, AppendLemma
    <3> QED BY <2>2, <3>1, <3>2
  <2> QED BY <1>10, <2>1, <2>2
<1>14. Sound(DiskOf(Written(M, c), Higher(z, e), new), L \cup {c}, {})
  BY <1>13, DiskOfLemma DEF Sound
<1>15. Written(M, c) \subseteq M \cup {c}
  <2>1. \A m \in M : m.at < b => End(m) <= b
    <3>1. CASE \E r \in map : b = r.start
      BY <1>1, <3>1 DEF DiskOK, SpaceOK
    <3>2. CASE b = z
      BY <1>1, <3>2 DEF DiskOK, MediaOK
    <3> QED BY <1>10, <3>1, <3>2
  <2>2. Written(M, c) = {m \in M : m.at < c.at \/ End(c) <= m.at} \cup {c}
    BY <1>1, <1>7, <2>1, WrittenLemma
  <2> QED BY <2>2
<1>16. HeaderUnits <= b /\ \A m \in L : m.at # b
  <2>1. CASE \E r \in map : b = r.start
    BY <1>2, <1>3, <2>1 DEF Clear
  <2>2. CASE b = z
    BY <1>1, <1>2, <2>2
  <2> QED BY <1>10, <2>1, <2>2
<1>17. from < b
  <2>1. CASE from = 0
    BY <1>16, <2>1, SizesLemma
  <2>2. CASE \E m \in L : m.at = from
    BY <1>6, <1>16, <2>2
  <2> QED BY <2>1, <2>2
<1> QED BY <1>6, <1>7, <1>11, <1>12, <1>14, <1>15, <1>16, <1>17, DiskOfLemma DEF SavedWell

------------------------------------------------------------------------------
(* The files, as one value. *)
Directory(fs, I) ==
  /\ DOMAIN fs \subseteq Names /\ I \subseteq Nat /\ IsFiniteSet(I)
  /\ \A n \in DOMAIN fs : fs[n] \in File /\ fs[n].id \in I /\ InOrder(fs[n])
  /\ \A n, m \in DOMAIN fs : fs[n].id = fs[m].id => n = m

(* The disk has what the files need, and nothing else is in use on it. *)
Holds(d, fs, L) == Sound(d, L, {}) /\ Backed(fs, L)

LEMMA FilesAreDirectory == FilesOK <=> Directory(files, ids)
BY DEF FilesOK, Directory, IdentifiersDiffer

LEMMA StoredRow ==
  ASSUME NEW f, NEW k \in Nat, DOMAIN f.chunks = 0 .. k - 1
  PROVE  Stored(f) = k
<1>1. CASE k = 0
  BY <1>1 DEF Stored
<1>2. CASE k # 0
  <2>1. k - 1 \in 0 .. k - 1 /\ \A x \in 0 .. k - 1 : k - 1 >= x
    BY <1>2
  <2>2. Max(0 .. k - 1) = k - 1
    BY <2>1 DEF Max
  <2>3. DOMAIN f.chunks # {}
    BY <2>1
  <2> QED BY <1>2, <2>2, <2>3 DEF Stored
<1> QED BY <1>1, <1>2

LEMMA FileFacts ==
  ASSUME NEW f \in File
  PROVE  /\ f.id \in Nat /\ f.start \in Nat
         /\ Stored(f) \in Nat /\ f.chunks \in [0 .. Stored(f) - 1 -> Area]
         /\ DOMAIN f.chunks = 0 .. Stored(f) - 1
         /\ \A o \in 0 .. Stored(f) - 1 : /\ f.chunks[o] \in Area /\ f.chunks[o].at \in Nat
                                          /\ f.chunks[o].units \in ChunkUnits
         /\ f.tail = <<>> \/ \E p \in Pieces : f.tail = <<p>>
<1>1. f.id \in Nat /\ f.start \in Nat /\ f.chunks \in Rows
      /\ (f.tail = <<>> \/ \E p \in Pieces : f.tail = <<p>>)
  BY DEF File
<1>2. PICK k \in Nat : f.chunks \in [0 .. k - 1 -> Area]
  BY <1>1 DEF Rows
<1>3. DOMAIN f.chunks = 0 .. k - 1
  BY <1>2
<1>5. Stored(f) = k
  BY <1>3, StoredRow
<1>6. \A a \in Area : a.at \in Nat /\ a.units \in ChunkUnits
  BY DEF Area
<1> QED BY <1>1, <1>2, <1>3, <1>5, <1>6

LEMMA LastLemma ==
  ASSUME NEW f \in File
  PROVE  LastKnownFileIndex(f) = IF Stored(f) = 0 THEN f.start ELSE f.chunks[Stored(f) - 1].at
<1>1. PICK k \in Nat : k = Stored(f) /\ DOMAIN f.chunks = 0 .. k - 1
  BY FileFacts
<1>2. CASE k = 0
  BY <1>1, <1>2 DEF LastKnownFileIndex
<1>3. CASE k # 0
  <2>1. k - 1 \in 0 .. k - 1 /\ \A x \in 0 .. k - 1 : k - 1 >= x
    BY <1>3
  <2>2. Max(0 .. k - 1) = k - 1
    BY <2>1 DEF Max
  <2> QED BY <1>1, <1>3, <2>1, <2>2 DEF LastKnownFileIndex
<1> QED BY <1>2, <1>3

LEMMA PutLemma ==
  ASSUME NEW fs, NEW n, NEW f
  PROVE  /\ DOMAIN Put(fs, n, f) = DOMAIN fs \cup {n}
         /\ Put(fs, n, f)[n] = f
         /\ \A x \in DOMAIN fs : x # n => Put(fs, n, f)[x] = fs[x]
         /\ \A g : Put(Put(fs, n, f), n, g) = Put(fs, n, g)
BY DEF Put

(* A header that is a file's is in use. *)
LEMMA OwnedInUse ==
  ASSUME NEW d, NEW fs, NEW L, Holds(d, fs, L), NEW m \in d.media, Owned(fs, m)
  PROVE  m \in L
<1>1. /\ \A x, y \in d.media : x = y \/ Beside(x, y)
      /\ d.media \subseteq Header /\ L \subseteq d.media
  BY DEF Holds, Sound, DiskOK, MediaOK, SpaceOK
<1>2. PICK n \in DOMAIN fs : StartOf(m, n, fs[n]) \/ DataOf(m, fs[n])
  BY DEF Owned
<1>3. PICK x \in L : x.at = m.at
  <2>1. CASE StartOf(m, n, fs[n])
    BY <1>2, <2>1 DEF Holds, Backed, StartOf
  <2>2. CASE DataOf(m, fs[n])
    <3>1. PICK x \in L : DataOf(x, fs[n]) /\ x.offset = m.offset
      BY <2>2 DEF Holds, Backed, DataOf
    <3> QED BY <2>2, <3>1 DEF DataOf
  <2> QED BY <1>2, <2>1, <2>2
<1>4. x \in d.media
  BY <1>1
<1>5. m.at \in Nat /\ x.at \in Nat /\ m.at < End(m) /\ x.at < End(x) /\ End(m) \in Nat /\ End(x) \in Nat
  BY <1>1, <1>4, HeaderFacts
<1> QED BY <1>1, <1>3, <1>4, <1>5 DEF Beside

(* A header in use is of one file, and of one kind. *)
LEMMA OwnerIsOne ==
  ASSUME NEW fs, NEW I, Directory(fs, I), NEW m, NEW n \in DOMAIN fs, NEW x \in DOMAIN fs,
         StartOf(m, n, fs[n]) \/ DataOf(m, fs[n]), StartOf(m, x, fs[x]) \/ DataOf(m, fs[x])
  PROVE  n = x
BY DEF Directory, StartOf, DataOf

(* The file n is replaced by one of the same identifier: L is still what   *)
(* is in use when it is for that file. *)
LEMMA ReplacedLemma ==
  ASSUME NEW fs, NEW I, Directory(fs, I), NEW L, Backed(fs, L), NEW n \in DOMAIN fs, NEW f,
         f \in File, f.id = fs[n].id, InOrder(f),
         NEW G, NEW H, \A m \in G : StartOf(m, n, fs[n]) \/ DataOf(m, fs[n]),
         \A m \in L \ G : StartOf(m, n, fs[n]) \/ DataOf(m, fs[n]) => StartOf(m, n, f) \/ DataOf(m, f),
         \A m \in H : StartOf(m, n, f) \/ DataOf(m, f),
         f.start # 0 => \E m \in (L \ G) \cup H : StartOf(m, n, f),
         \A o \in DOMAIN f.chunks : \E m \in (L \ G) \cup H : DataOf(m, f) /\ m.offset = o
  PROVE  Directory(Put(fs, n, f), I) /\ Backed(Put(fs, n, f), (L \ G) \cup H)
<1> DEFINE new == Put(fs, n, f)
<1>1. DOMAIN new = DOMAIN fs /\ new[n] = f /\ \A x \in DOMAIN fs : x # n => new[x] = fs[x]
  BY DEF Put
<1> HIDE DEF new
<1>2. \A x \in DOMAIN fs : new[x].id = fs[x].id
  BY <1>1
<1>3. Directory(new, I)
  BY <1>1, <1>2 DEF Directory
<1>4. ASSUME NEW m \in (L \ G) \cup H PROVE Owned(new, m)
  <2>1. CASE m \in H
    BY <1>1, <2>1 DEF Owned
  <2>2. CASE m \in L \ G
    <3>1. PICK x \in DOMAIN fs : StartOf(m, x, fs[x]) \/ DataOf(m, fs[x])
      BY <2>2 DEF Backed, Owned
    <3> QED BY <1>1, <2>2, <3>1 DEF Owned
  <2> QED BY <2>1, <2>2
<1>5. ASSUME NEW x \in DOMAIN fs, x # n, NEW m \in L, StartOf(m, x, fs[x]) \/ DataOf(m, fs[x])
      PROVE  m \notin G
  BY <1>5, OwnerIsOne
<1>6. ASSUME NEW x \in DOMAIN new
      PROVE  /\ new[x].start # 0 => \E m \in (L \ G) \cup H : StartOf(m, x, new[x])
             /\ \A o \in DOMAIN new[x].chunks : \E m \in (L \ G) \cup H : DataOf(m, new[x]) /\ m.offset = o
  <2>1. CASE x = n
    BY <1>1, <2>1
  <2>2. CASE x # n
    <3>1. /\ fs[x].start # 0 => \E m \in L : StartOf(m, x, fs[x])
          /\ \A o \in DOMAIN fs[x].chunks : \E m \in L : DataOf(m, fs[x]) /\ m.offset = o
      BY <1>1, <1>6 DEF Backed
    <3> QED BY <1>1, <1>5, <2>2, <3>1
  <2> QED BY <2>1, <2>2
<1>7. Backed(new, (L \ G) \cup H)
  BY <1>4, <1>6 DEF Backed
<1> QED BY <1>3, <1>7 DEF new
(* writeStreamStartIfNeeded: the file has a start chunk then. *)
LEMMA StartLemma ==
  ASSUME NEW d, NEW fs, NEW I, NEW L, Directory(fs, I), Holds(d, fs, L),
         NEW n \in DOMAIN fs, StartFits(d, fs[n])
  PROVE  LET e == StartSaved(d, n, fs[n])
             f == StartedFile(d, fs[n])
         IN  \E K : /\ Holds(e, Put(fs, n, f), K) /\ Directory(Put(fs, n, f), I)
                    /\ L \subseteq K /\ e.media \subseteq d.media \cup K
                    /\ f.start # 0 /\ f.chunks = fs[n].chunks /\ f.tail = fs[n].tail /\ f.id = fs[n].id
<1> DEFINE g == fs[n]
           e == StartSaved(d, n, g)
           f == StartedFile(d, g)
<1>1. g \in File /\ InOrder(g) /\ n \in Names
  BY DEF Directory
<1>2. CASE g.start # 0
  <2>1. e = d /\ f = g
    BY <1>2 DEF StartSaved, StartedFile
  <2>2. DOMAIN Put(fs, n, g) = DOMAIN fs /\ \A x \in DOMAIN fs : Put(fs, n, g)[x] = fs[x]
    BY DEF Put
  <2>3. Directory(Put(fs, n, g), I)
    BY <2>2 DEF Directory
  <2>4. Backed(Put(fs, n, g), L)
    BY <2>2 DEF Backed, Holds, Owned
  <2> QED BY <1>2, <2>1, <2>3, <2>4 DEF Holds
<1>3. CASE g.start = 0
  <2> DEFINE chunk == Chunk("start", StartUnits, g.id, n, 0, NoPiece)
             c == SavedChunk(d, 0, StartUnits, StartUnits, chunk)
             a == Taken(d, 0, StartUnits, StartUnits).start
  <2>1. /\ chunk \in Header /\ chunk.units = StartUnits /\ chunk.kind = "start"
        /\ chunk.id = g.id /\ chunk.name = n
    BY <1>1, SizesLemma, FileFacts DEF Chunk, Header, NoPiece
  <2>2. Fits(d, 0, StartUnits, StartUnits, chunk.units)
    BY <1>3, <2>1 DEF StartFits
  <2>3. e = Saved(d, 0, StartUnits, StartUnits, chunk)
    BY <1>3 DEF StartSaved
  <2> HIDE DEF chunk
  <2>4. /\ Sound(e, L \cup {c}, {}) /\ e.media \subseteq d.media \cup {c}
        /\ c \in Header /\ c.at \in Nat /\ HeaderUnits <= c.at /\ 0 < c.at
        /\ c.at = Taken(d, 0, StartUnits, StartUnits).start
        /\ \A m \in L : m.at # c.at
    <3>1. SavedWell(d, L, 0, StartUnits, StartUnits, chunk)
      BY <2>1, <2>2, SavedLemma, SizesLemma DEF Holds
    <3> QED BY <2>3, <3>1 DEF SavedWell
  <2>5. c.at = a /\ a \in Nat /\ a # 0
    BY <2>4
  <2>6. c.units = StartUnits /\ c.kind = "start" /\ c.id = g.id /\ c.name = n
    BY <2>1, <2>5, AtLemma DEF SavedChunk
  <2> HIDE DEF c
  <2>7. f = [g EXCEPT !.start = a]
    BY <1>3 DEF StartedFile
  <2> HIDE DEF a
  <2>8. f \in File /\ f.start = a /\ f.chunks = g.chunks /\ f.tail = g.tail /\ f.id = g.id
    BY <1>1, <2>5, <2>7 DEF File
  <2>9. DOMAIN g.chunks = {}
    BY <1>1, <1>3 DEF InOrder
  <2>10. InOrder(f)
    BY <2>8, <2>9 DEF InOrder
  <2>11. StartOf(c, n, f)
    BY <2>5, <2>6, <2>8 DEF StartOf
  <2>12. Directory(Put(fs, n, f), I) /\ Backed(Put(fs, n, f), (L \ {}) \cup {c})
    <3>1. \A m \in L : ~StartOf(m, n, fs[n]) /\ ~DataOf(m, fs[n])
      BY <1>3, <2>9 DEF StartOf, DataOf
    <3> HIDE DEF f
    <3> QED BY <2>8, <2>9, <2>10, <2>11, <3>1, ReplacedLemma DEF Holds
  <2>13. (L \ {}) \cup {c} = L \cup {c}
    OBVIOUS
  <2> QED BY <2>4, <2>5, <2>8, <2>12, <2>13 DEF Holds
<1> QED BY <1>2, <1>3

(* The search for its chunk begins at the last header of the file. *)
LEMMA FromLemma ==
  ASSUME NEW d, NEW fs, NEW I, NEW L, Directory(fs, I), Holds(d, fs, L),
         NEW n \in DOMAIN fs, fs[n].start # 0
  PROVE  LastKnownFileIndex(fs[n]) \in Nat /\ \E m \in L : m.at = LastKnownFileIndex(fs[n])
<1> DEFINE g == fs[n]
<1>1. g \in File
  BY DEF Directory
<1>2. PICK k \in Nat : /\ k = Stored(g) /\ DOMAIN g.chunks = 0 .. k - 1
                       /\ \A o \in 0 .. k - 1 : g.chunks[o].at \in Nat
  BY <1>1, FileFacts
<1>3. LastKnownFileIndex(g) = IF k = 0 THEN g.start ELSE g.chunks[k - 1].at
  BY <1>1, <1>2, LastLemma
<1>4. g.start \in Nat /\ (k # 0 => g.chunks[k - 1].at \in Nat)
  BY <1>1, <1>2, FileFacts
<1>5. CASE k = 0
  BY <1>3, <1>4, <1>5 DEF Holds, Backed, StartOf
<1>6. CASE k # 0
  <2>1. k - 1 \in DOMAIN g.chunks
    BY <1>2, <1>6
  <2>2. PICK m \in L : DataOf(m, g) /\ m.offset = k - 1
    BY <2>1 DEF Holds, Backed
  <2> QED BY <1>3, <1>4, <1>6, <2>2 DEF DataOf
<1> QED BY <1>5, <1>6

(* The piece in the tail buffer gets a chunk behind the others. *)
LEMMA TailLemma ==
  ASSUME NEW d, NEW fs, NEW I, NEW L, Directory(fs, I), Holds(d, fs, L),
         NEW n \in DOMAIN fs, fs[n].start # 0, NEW units \in ChunkUnits, TailFits(d, fs[n], units)
  PROVE  LET e == TailSaved(d, fs[n], units)
             f == TailStored(d, fs[n], units)
         IN  \E K : /\ Holds(e, Put(fs, n, f), K) /\ Directory(Put(fs, n, f), I)
                    /\ L \subseteq K /\ e.media \subseteq d.media \cup K
                    /\ f.start = fs[n].start /\ f.tail = <<>> /\ f.id = fs[n].id
                    /\ f \in File /\ Stored(f) = Length(fs[n])
<1> DEFINE g == fs[n]
           e == TailSaved(d, g, units)
           f == TailStored(d, g, units)
<1>1. g \in File /\ InOrder(g) /\ n \in Names /\ units \in Nat
  BY SizesLemma DEF Directory
<1>2. CASE g.tail = <<>>
  <2>1. e = d /\ f = g
    BY <1>2 DEF TailSaved, TailStored
  <2>2. DOMAIN Put(fs, n, g) = DOMAIN fs /\ \A x \in DOMAIN fs : Put(fs, n, g)[x] = fs[x]
    BY DEF Put
  <2>3. Directory(Put(fs, n, g), I)
    BY <2>2 DEF Directory
  <2>4. Backed(Put(fs, n, g), L)
    BY <2>2 DEF Backed, Holds, Owned
  <2>5. Stored(g) = Length(g)
    BY <1>1, <1>2, FileFacts DEF Length
  <2> QED BY <1>1, <1>2, <2>1, <2>3, <2>4, <2>5 DEF Holds
<1>3. CASE g.tail # <<>>
  <2>1. PICK p \in Pieces : g.tail = <<p>>
    BY <1>1, <1>3, FileFacts
  <2>2. PICK k \in Nat : /\ k = Stored(g) /\ g.chunks \in [0 .. k - 1 -> Area] /\ DOMAIN g.chunks = 0 .. k - 1
                         /\ \A o \in 0 .. k - 1 : g.chunks[o].at \in Nat
    BY <1>1, FileFacts
  <2>3. PICK from \in Nat : /\ from = LastKnownFileIndex(g)
                            /\ from = IF k = 0 THEN g.start ELSE g.chunks[k - 1].at
    <3>1. LastKnownFileIndex(g) = IF k = 0 THEN g.start ELSE g.chunks[k - 1].at
      BY <1>1, <2>2, LastLemma
    <3>2. LastKnownFileIndex(g) \in Nat
      BY FromLemma
    <3> QED BY <3>1, <3>2
  <2>4. \E m \in L : m.at = from
    BY <2>3, FromLemma
  <2> DEFINE chunk == Chunk("data", units, g.id, Nobody, k, p)
             c == SavedChunk(d, from, 1, MaxUnits, chunk)
             a == Taken(d, from, 1, MaxUnits).start
  <2>5. /\ chunk \in Header /\ chunk.units = units /\ chunk.kind = "data"
        /\ chunk.id = g.id /\ chunk.offset = k
    BY <1>1, FileFacts DEF Chunk, Header
  <2>6. Fits(d, from, 1, MaxUnits, chunk.units)
    BY <1>3, <2>3, <2>5 DEF TailFits
  <2>7. e = Saved(d, from, 1, MaxUnits, chunk)
    <3>1. Head(g.tail) = p
      BY <2>1
    <3> QED BY <1>3, <2>2, <2>3, <3>1 DEF TailSaved
  <2> HIDE DEF chunk
  <2>8. /\ Sound(e, L \cup {c}, {}) /\ e.media \subseteq d.media \cup {c}
        /\ c \in Header /\ c.at \in Nat /\ HeaderUnits <= c.at /\ from < c.at
        /\ c.at = Taken(d, from, 1, MaxUnits).start
        /\ \A m \in L : m.at # c.at
    <3>1. Sound(d, L, {})
      BY DEF Holds
    <3>2. 1 \in Nat /\ 1 <= 1 /\ MaxUnits \in Nat /\ 1 <= MaxUnits
      BY SizesLemma
    <3>3. SavedWell(d, L, from, 1, MaxUnits, chunk)
      BY <2>4, <2>5, <2>6, <3>1, <3>2, SavedLemma
    <3> QED BY <2>7, <3>3 DEF SavedWell
  <2>9. c.at = a /\ a \in Nat /\ from < a
    BY <2>8
  <2>10. c.units = units /\ c.kind = "data" /\ c.id = g.id /\ c.offset = k
    BY <2>5, <2>9, AtLemma DEF SavedChunk
  <2> HIDE DEF c
  <2> DEFINE area == [at |-> a, units |-> units]
             row == Put(g.chunks, k, area)
  <2>11. f = [g EXCEPT !.chunks = row, !.tail = <<>>]
    BY <1>3, <2>2, <2>3 DEF TailStored
  <2>12. area \in Area /\ area.at = a /\ area.units = units
    BY <2>9 DEF Area
  <2> HIDE DEF a, area
  <2>13. /\ row \in [0 .. k -> Area] /\ DOMAIN row = 0 .. k /\ row[k] = area
         /\ \A o \in 0 .. k - 1 : row[o] = g.chunks[o]
    <3>1. (0 .. k - 1) \cup {k} = 0 .. k
      OBVIOUS
    <3>2. row = [o \in 0 .. k |-> IF o = k THEN area ELSE g.chunks[o]]
      BY <2>2, <3>1 DEF Put
    <3>3. \A o \in 0 .. k : o # k => o \in 0 .. k - 1
      OBVIOUS
    <3> QED BY <2>2, <2>12, <3>2, <3>3
  <2> HIDE DEF row
  <2>14. row \in Rows
    <3>1. row \in [0 .. (k + 1) - 1 -> Area] /\ k + 1 \in Nat
      BY <2>13
    <3> QED BY <3>1 DEF Rows
  <2>15. f \in File /\ f.start = g.start /\ f.chunks = row /\ f.tail = <<>> /\ f.id = g.id
    <3>1. g.id \in Nat /\ g.start \in Nat
      BY <1>1, FileFacts
    <3> QED BY <1>1, <2>11, <2>14, <3>1 DEF File
  <2> HIDE DEF f, e
  <2>16. Stored(f) = Length(g)
    <3>1. Len(g.tail) = 1
      BY <2>1
    <3>2. DOMAIN f.chunks = 0 .. (k + 1) - 1 /\ k + 1 \in Nat
      BY <2>13, <2>15
    <3>3. Stored(f) = k + 1
      BY <3>2, StoredRow
    <3> QED BY <2>2, <3>1, <3>3 DEF Length
  <2>17. InOrder(f)
    <3>1. ASSUME NEW o \in 0 .. k
          PROVE  /\ g.start < row[o].at
                 /\ \A q \in 0 .. k : q < o => row[q].at < row[o].at
      <4>1. CASE o \in 0 .. k - 1
        <5>1. \A q \in 0 .. k : q < o => q \in 0 .. k - 1
          BY <4>1
        <5> QED BY <1>1, <2>2, <2>13, <4>1, <5>1 DEF InOrder
      <4>2. CASE o = k
        <5>1. k = 0 => from = g.start
          BY <2>3
        <5>2. k # 0 => /\ from = g.chunks[k - 1].at /\ g.start < from
                       /\ \A q \in 0 .. k - 1 : g.chunks[q].at <= from
          <6> SUFFICES ASSUME k # 0
                       PROVE  /\ from = g.chunks[k - 1].at /\ g.start < from
                              /\ \A q \in 0 .. k - 1 : g.chunks[q].at <= from
            OBVIOUS
          <6>1. k - 1 \in 0 .. k - 1 /\ \A q \in 0 .. k - 1 : q = k - 1 \/ q < k - 1
            OBVIOUS
          <6>2. /\ g.start < g.chunks[k - 1].at
                /\ \A q \in 0 .. k - 1 : q < k - 1 => g.chunks[q].at < g.chunks[k - 1].at
            BY <1>1, <2>2, <6>1 DEF InOrder
          <6>3. from = g.chunks[k - 1].at
            BY <2>3
          <6>4. \A q \in 0 .. k - 1 : g.chunks[q].at \in Nat
            BY <1>1, <2>2, FileFacts
          <6>5. \A q \in 0 .. k - 1 : q # k - 1 => g.chunks[q].at < from
            BY <6>1, <6>2, <6>3
          <6>6. ASSUME NEW q \in 0 .. k - 1 PROVE g.chunks[q].at <= from
            BY <6>3, <6>4, <6>5
          <6> QED BY <6>2, <6>3, <6>6
        <5>3. g.start \in Nat
          BY <1>1, FileFacts
        <5>4. row[o].at = a
          BY <2>12, <2>13, <4>2
        <5>5. g.start < a
          BY <2>9, <5>1, <5>2, <5>3
        <5>6. ASSUME NEW q \in 0 .. k, q < o PROVE row[q].at < a
          <6>1. q \in 0 .. k - 1 /\ k # 0
            BY <4>2, <5>6
          <6>2. PICK t \in Nat : t = g.chunks[q].at
            BY <2>2, <6>1
          <6>3. t <= from
            BY <5>2, <6>1, <6>2
          <6>4. row[q].at = t
            BY <2>13, <6>1, <6>2
          <6> QED BY <2>9, <6>3, <6>4
        <5> QED BY <5>4, <5>5, <5>6
      <4>3. o \in 0 .. k - 1 \/ o = k
        OBVIOUS
      <4> QED BY <4>1, <4>2, <4>3
    <3> QED BY <2>13, <2>15, <3>1 DEF InOrder
  <2>18. DataOf(c, f)
    BY <2>9, <2>10, <2>12, <2>13, <2>15 DEF DataOf
  <2>19. ASSUME NEW m
         PROVE  /\ StartOf(m, n, g) <=> StartOf(m, n, f)
                /\ DataOf(m, g) => DataOf(m, f)
    <3>1. \A o \in 0 .. k - 1 : o \in 0 .. k
      OBVIOUS
    <3> QED BY <2>2, <2>13, <2>15, <3>1 DEF StartOf, DataOf
  <2>20. f.start # 0 => \E m \in (L \ {}) \cup {c} : StartOf(m, n, f)
    BY <2>19 DEF Holds, Backed
  <2>21. ASSUME NEW o \in DOMAIN f.chunks
         PROVE  \E m \in (L \ {}) \cup {c} : DataOf(m, f) /\ m.offset = o
    <3>1. CASE o = k
      BY <2>10, <2>18, <3>1
    <3>2. CASE o # k
      <4>1. o \in DOMAIN g.chunks
        BY <2>2, <2>13, <2>15, <3>2
      <4>2. PICK m \in L : DataOf(m, g) /\ m.offset = o
        BY <4>1 DEF Holds, Backed
      <4> QED BY <2>19, <4>2
    <3> QED BY <3>1, <3>2
  <2>22. Directory(Put(fs, n, f), I) /\ Backed(Put(fs, n, f), (L \ {}) \cup {c})
    BY <2>15, <2>17, <2>18, <2>19, <2>20, <2>21, ReplacedLemma DEF Holds
  <2>23. (L \ {}) \cup {c} = L \cup {c}
    OBVIOUS
  <2> QED BY <2>8, <2>15, <2>16, <2>22, <2>23 DEF Holds, e, f
<1> QED BY <1>2, <1>3
(* Flushing a file: all of it has chunks then. *)
LEMMA FlushFileLemma ==
  ASSUME NEW d, NEW I, NEW L, Directory(files, I), Holds(d, files, L),
         NEW n \in DOMAIN files, NEW units \in ChunkUnits, FlushFits(d, n, units)
  PROVE  LET e == FlushedDisk(d, n, units)
             f == FlushedFile(d, n, units)
         IN  \E K : /\ Holds(e, Put(files, n, f), K) /\ Directory(Put(files, n, f), I)
                    /\ L \subseteq K /\ e.media \subseteq d.media \cup K
                    /\ f \in File /\ f.start # 0 /\ f.tail = <<>> /\ f.id = files[n].id
                    /\ Stored(f) = Length(files[n])
<1> DEFINE g == files[n]
           h == StartedFile(d, g)
           x == StartSaved(d, n, g)
           fs == Put(files, n, h)
           e == TailSaved(x, h, units)
           f == TailStored(x, h, units)
<1>1. StartFits(d, g) /\ TailFits(x, h, units)
  BY DEF FlushFits
<1>2. e = FlushedDisk(d, n, units) /\ f = FlushedFile(d, n, units)
  BY DEF FlushedDisk, FlushedFile
<1>3. PICK J : /\ Holds(x, fs, J) /\ Directory(fs, I)
               /\ L \subseteq J /\ x.media \subseteq d.media \cup J
               /\ h.start # 0 /\ h.chunks = g.chunks /\ h.tail = g.tail /\ h.id = g.id
  BY <1>1, StartLemma
<1>4. n \in DOMAIN fs /\ fs[n] = h /\ \A v : Put(fs, n, v) = Put(files, n, v)
  <2> HIDE DEF h
  <2> QED BY DEF Put
<1> HIDE DEF fs, h, x
<1>5. PICK K : /\ Holds(e, Put(fs, n, f), K) /\ Directory(Put(fs, n, f), I)
               /\ J \subseteq K /\ e.media \subseteq x.media \cup K
               /\ f.start = h.start /\ f.tail = <<>> /\ f.id = h.id
               /\ f \in File /\ Stored(f) = Length(h)
  BY <1>1, <1>3, <1>4, TailLemma
<1>6. Length(h) = Length(g)
  BY <1>3 DEF Length, Stored
<1> HIDE DEF e, f
<1> QED BY <1>2, <1>3, <1>4, <1>5, <1>6

------------------------------------------------------------------------------
(* The invariant, of one value after the other. *)
InUseOK(d, fs) == \E L \in SUBSET d.media : Holds(d, fs, L)

LEMMA InUseIsDisk ==
  (InUse => InUseOK(Disk, files)) <=> InUseInv
<1>1. ASSUME length = size
      PROVE  Disk = DiskOf(media, size, freeMap)
  BY <1>1 DEF Disk, DiskOf
<1>2. Disk.media = media /\ Disk.size = size /\ Disk.length = length /\ Disk.freeMap = freeMap
  BY DEF Disk
<1>3. ASSUME NEW L
      PROVE  Sound(Disk, L, {}) <=> length = size /\ DiskOK(media, size, freeMap, L, {})
  BY <1>1, <1>2, DiskOfLemma DEF Sound
<1> QED BY <1>2, <1>3 DEF InUseInv, InUseOK, Holds
LEMMA FilesAreDirectoryNext == FilesOK' <=> Directory(files', ids')
BY DEF FilesOK, Directory, IdentifiersDiffer

LEMMA InUseHolds ==
  ASSUME ContainerInv, InUse
  PROVE  Directory(files, ids) /\ \E L : Holds(Disk, files, L) /\ L \subseteq media
<1>1. Directory(files, ids)
  BY FilesAreDirectory DEF ContainerInv
<1>2. InUseOK(Disk, files)
  BY InUseIsDisk DEF ContainerInv
<1>3. Disk.media = media
  BY DEF Disk
<1> QED BY <1>1, <1>2, <1>3 DEF InUseOK

LEMMA ReadyLemma ==
  ASSUME phase' = "ready", Directory(files', ids'), NEW L, Holds(Disk', files', L)
  PROVE  ContainerInv'
<1>1. FilesOK'
  BY FilesAreDirectoryNext
<1>2. /\ Disk'.media = media' /\ Disk'.size = size' /\ Disk'.length = length' /\ Disk'.freeMap = freeMap'
  BY DEF Disk
<1>3. length' = size' /\ DiskOK(media', size', freeMap', L, {}) /\ Backed(files', L)
  BY <1>2, DiskOfLemma DEF Holds, Sound
<1>4. L \subseteq media'
  BY <1>3 DEF DiskOK, SpaceOK
<1>5. InUseInv'
  BY <1>3, <1>4 DEF InUseInv
<1> QED BY <1>1, <1>5 DEF ContainerInv, Phases, ClosingInv, StoredInv, ScanInv

LEMMA ClosingLemma ==
  ASSUME phase' = "closing", Directory(files', ids'), NEW L, Holds(Disk', files', L),
         \A m \in media' : m.kind = "fill" \/ Owned(files', m),
         Orderly' => Buffered' = {} /\ \A r \in freeMap' : ~r.dirty
  PROVE  ContainerInv'
<1>1. FilesOK'
  BY FilesAreDirectoryNext
<1>2. /\ Disk'.media = media' /\ Disk'.size = size' /\ Disk'.length = length' /\ Disk'.freeMap = freeMap'
  BY DEF Disk
<1>3. length' = size' /\ DiskOK(media', size', freeMap', L, {}) /\ Backed(files', L)
  BY <1>2, DiskOfLemma DEF Holds, Sound
<1>4. L \subseteq media'
  BY <1>3 DEF DiskOK, SpaceOK
<1>5. InUseInv'
  BY <1>3, <1>4 DEF InUseInv
<1>6. ClosingInv'
  BY DEF ClosingInv
<1> QED BY <1>1, <1>5, <1>6 DEF ContainerInv, Phases, StoredInv, ScanInv

LEMMA FailedLemma ==
  ASSUME phase' = "failed", FilesOK'
  PROVE  ContainerInv'
BY DEF ContainerInv, Phases, InUseInv, InUse, ClosingInv, StoredInv, ScanInv

LEMMA SetDiskLemma ==
  ASSUME NEW e, NEW L, Sound(e, L, {}), SetDisk(e)
  PROVE  Disk' = e /\ media' = e.media /\ freeMap' = e.freeMap
<1>1. e = DiskOf(e.media, e.size, e.freeMap) /\ e.length = e.size
  BY DiskOfLemma DEF Sound
<1>2. Disk' = [media |-> e.media, length |-> e.size, size |-> e.size, freeMap |-> e.freeMap]
  BY <1>1 DEF SetDisk, Disk
<1> QED BY <1>1, <1>2 DEF DiskOf, SetDisk

(* A container with nothing in it. *)
LEMMA EmptyLemma ==
  DiskOK({}, HeaderUnits, {}, {}, {})
<1>1. HeaderUnits \in Nat /\ ~\E u \in HeaderUnits .. HeaderUnits - 1 : TRUE
  BY SizesLemma
<1>2. MediaOK({}, HeaderUnits) /\ MapOK({}, HeaderUnits)
  BY DEF MediaOK, MapOK, WellFormed, NonEmpty, DisjointRegions, CoalescedRegions
<1>3. SpaceOK({}, HeaderUnits, {}, {}, {}) /\ ShownOK({}, {}, {}, {})
  BY <1>1 DEF SpaceOK, ShownOK
<1> QED BY <1>1, <1>2, <1>3 DEF DiskOK

LEMMA NoFilesLemma ==
  ASSUME NEW fs, DOMAIN fs = {}
  PROVE  Directory(fs, {}) /\ Backed(fs, {})
BY FS_EmptySet DEF Directory, Backed

LEMMA InitOK ==
  ASSUME Init
  PROVE  ContainerInv
<1>1. FilesOK
  <2>1. DOMAIN files = {} /\ ids = {}
    BY DEF Init
  <2> QED BY <2>1, NoFilesLemma, FilesAreDirectory
<1>2. StoredInv
  <2>1. MediaOK({}, 0) /\ Streams({})
    BY DEF MediaOK, Streams
  <2>2. Covered({}, 0)
    <3>1. ~\E u \in HeaderUnits .. 0 - 1 : TRUE
      BY SizesLemma
    <3> QED BY <3>1 DEF Covered
  <2> QED BY <2>1, <2>2 DEF StoredInv, Init
<1> QED BY <1>1, <1>2 DEF Init, ContainerInv, Phases, InUseInv, InUse, ClosingInv, ScanInv

LEMMA StutterOK ==
  ASSUME ContainerInv, UNCHANGED containerVars
  PROVE  ContainerInv'
<1> USE DEF containerVars
<1>1. FilesOK'
  BY DEF ContainerInv, FilesOK, IdentifiersDiffer
<1>2. InUseInv' /\ ClosingInv'
  BY DEF ContainerInv, InUseInv, InUse, ClosingInv, Orderly, Buffered
<1>3. StoredInv' /\ ScanInv'
  BY DEF ContainerInv, StoredInv, ScanInv, Orderly, NothingKnown, Scanned
<1> QED BY <1>1, <1>2, <1>3 DEF ContainerInv

------------------------------------------------------------------------------
(* Opening and closing. *)
LEMMA OpenOK ==
  ASSUME ContainerInv, Open
  PROVE  ContainerInv'
<1> USE DEF Open
<1>1. /\ length = size /\ size \in Nat /\ MediaOK(media, size) /\ Streams(media)
      /\ (size = 0 => media = {}) /\ (size # 0 => HeaderUnits <= size)
      /\ (Orderly => Covered(media, size)) /\ HeaderUnits \in Nat
  BY SizesLemma DEF ContainerInv, StoredInv
<1>2. DOMAIN files' = {} /\ ids' = {} /\ freeMap' = {} /\ media' = media
  OBVIOUS
<1>3. Directory(files', ids')
  BY <1>2, NoFilesLemma
<1>4. CASE length = 0
  <2>1. length' = HeaderUnits /\ size' = HeaderUnits /\ media' = {} /\ phase' = "ready"
    BY <1>1, <1>4 DEF Higher
  <2>2. Disk' = DiskOf({}, HeaderUnits, {})
    BY <1>2, <2>1 DEF Disk, DiskOf
  <2>3. Holds(Disk', files', {})
    BY <1>2, <2>2, NoFilesLemma, EmptyLemma, DiskOfLemma DEF Holds, Sound
  <2> QED BY <1>3, <2>1, <2>3, ReadyLemma
<1>5. CASE length # 0
  <2>1. length' = size /\ size' = size /\ phase' = "opened" /\ scan' = HeaderUnits
    BY <1>1, <1>5 DEF Higher
  <2>2. FilesOK'
    BY <1>3, FilesAreDirectoryNext
  <2>3. StoredInv'
    BY <1>1, <1>2, <1>5, <2>1 DEF StoredInv, Orderly
  <2>4. ScanInv'
    BY <1>2, <2>1 DEF ScanInv, NothingKnown
  <2> QED BY <2>1, <2>2, <2>3, <2>4 DEF ContainerInv, Phases, InUseInv, InUse, ClosingInv
<1> QED BY <1>4, <1>5

LEMMA ScanBeginOK ==
  ASSUME ContainerInv, ScanBegin
  PROVE  ContainerInv'
<1> USE DEF ScanBegin
<1>1. /\ scan = HeaderUnits /\ freeMap = {} /\ DOMAIN files = {}
      /\ size # 0 /\ HeaderUnits <= size /\ MediaOK(media, size)
  BY DEF ContainerInv, ScanInv, NothingKnown, StoredInv
<1>2. FilesOK'
  BY DEF ContainerInv, FilesOK, IdentifiersDiffer
<1>3. StoredInv'
  BY DEF ContainerInv, StoredInv, Orderly
<1>4. Scanned' = {}
  <2>1. \A m \in media : m.at \in Nat /\ HeaderUnits <= m.at
    BY <1>1, HeaderFacts DEF MediaOK
  <2> QED BY <1>1, <2>1, SizesLemma DEF Scanned
<1>5. Backed(files', {})
  BY <1>1, NoFilesLemma
<1>6. ScanInv'
  BY <1>1, <1>4, <1>5, EmptyLemma DEF ScanInv
<1> QED BY <1>2, <1>3, <1>6 DEF ContainerInv, Phases, InUseInv, InUse, ClosingInv

(* What is known half-way through a scan. *)
LEMMA ScanFacts ==
  ASSUME ContainerInv, phase = "scanning"
  PROVE  /\ Directory(files, ids)
         /\ length = size /\ size \in Nat /\ scan \in Nat /\ HeaderUnits <= scan /\ scan <= size
         /\ MediaOK(media, size) /\ Streams(media)
         /\ \A r \in freeMap : ~r.dirty
         /\ \A n \in DOMAIN files : files[n].start # 0
         /\ \E L : /\ DiskOK(Scanned, scan, freeMap, L, {}) /\ Backed(files, L) /\ L \subseteq Scanned
                   /\ \A m \in Scanned : m.kind = "fill" \/ m \in L
<1>1. PICK L \in SUBSET Scanned : DiskOK(Scanned, scan, freeMap, L, {}) /\ Backed(files, L)
  BY DEF ContainerInv, ScanInv
<1>2. \A r \in freeMap : ~r.dirty
  BY DEF ContainerInv, ScanInv
<1>3. \A m \in Scanned : m.kind = "fill" \/ m \in L
  BY <1>1, <1>2 DEF DiskOK, ShownOK
<1>4. scan \in Nat /\ HeaderUnits <= scan
  BY <1>1 DEF DiskOK
<1>5. Directory(files, ids)
  BY FilesAreDirectory DEF ContainerInv
<1> QED BY <1>1, <1>2, <1>3, <1>4, <1>5 DEF ContainerInv, ScanInv, StoredInv

LEMMA ScanEndOK ==
  ASSUME ContainerInv, ScanEnd
  PROVE  ContainerInv'
<1> USE DEF ScanEnd
<1>1. PICK L : DiskOK(Scanned, scan, freeMap, L, {}) /\ Backed(files, L)
  BY ScanFacts
<1>2. scan = size /\ length = size
  BY ScanFacts
<1>3. Scanned = media
  <2>1. \A m \in media : m.at < size
    <3> SUFFICES ASSUME NEW m \in media PROVE m.at < size
      OBVIOUS
    <3>1. m \in Header /\ End(m) <= size /\ size \in Nat
      BY ScanFacts DEF MediaOK
    <3> QED BY <3>1, HeaderFacts
  <2> QED BY <1>2, <2>1 DEF Scanned
<1>4. Disk' = DiskOf(media, size, freeMap)
  BY <1>2 DEF Disk, DiskOf
<1>5. Holds(Disk', files', L)
  BY <1>1, <1>2, <1>3, <1>4, DiskOfLemma DEF Holds, Sound
<1>6. Directory(files', ids')
  BY ScanFacts
<1> QED BY <1>5, <1>6, ReadyLemma

LEMMA ScanFailsOK ==
  ASSUME ContainerInv, ScanFails
  PROVE  ContainerInv'
BY FailedLemma DEF ScanFails, ContainerInv, FilesOK, IdentifiersDiffer

(* The scan goes on behind a header. *)
LEMMA ScannedOn ==
  ASSUME ContainerInv, phase = "scanning", NEW m \in media, Scanning(m)
  PROVE  /\ m \in Header /\ m.at = scan /\ scan' = End(m) /\ m.at # 0
         /\ Scanned' = Scanned \cup {m} /\ m \notin Scanned
         /\ scan' <= size /\ phase' = "scanning" /\ StoredInv'
         /\ \A x \in Scanned : x \in media /\ x.at < m.at
<1> USE DEF Scanning
<1>1. /\ m \in Header /\ m.at = scan /\ scan' = End(m) /\ End(m) <= size /\ size \in Nat
      /\ \A x, y \in media : x = y \/ Beside(x, y)
      /\ \A x \in media : x \in Header
  BY ScanFacts DEF MediaOK, End
<1>2. scan \in Nat /\ HeaderUnits <= scan /\ scan # 0
  BY ScanFacts, SizesLemma
<1>3. \A x \in media : x.at \in Nat /\ End(x) \in Nat /\ x.at < End(x)
  BY <1>1, HeaderFacts
<1>4. \A x \in media : x.at < End(m) <=> x.at < scan \/ x = m
  BY <1>1, <1>2, <1>3 DEF Beside
<1>5. Scanned' = Scanned \cup {m}
  BY <1>1, <1>4 DEF Scanned
<1>6. \A x \in Scanned : x \in media /\ x.at < m.at
  BY <1>1 DEF Scanned
<1>7. m \notin Scanned
  BY <1>1, <1>2 DEF Scanned
<1>8. StoredInv'
  BY DEF ContainerInv, StoredInv, Orderly
<1> QED BY <1>1, <1>2, <1>5, <1>6, <1>7, <1>8

LEMMA ScanningLemma ==
  ASSUME ContainerInv, phase = "scanning", NEW m \in media, Scanning(m),
         Directory(files', ids'), \A n \in DOMAIN files' : files'[n].start # 0,
         \A r \in freeMap' : ~r.dirty,
         NEW L, DiskOK(Scanned \cup {m}, End(m), freeMap', L, {}), Backed(files', L)
  PROVE  ContainerInv'
<1>1. FilesOK'
  BY FilesAreDirectoryNext
<1>2. L \subseteq Scanned'
  BY ScannedOn DEF DiskOK, SpaceOK
<1>3. ScanInv'
  <2>1. DiskOK(Scanned', scan', freeMap', L, {})
    BY ScannedOn
  <2>2. phase' = "scanning" /\ scan' <= size'
    BY ScannedOn DEF Scanning
  <2> QED BY <1>2, <2>1, <2>2 DEF ScanInv
<1> QED BY <1>1, <1>3, ScannedOn DEF ContainerInv, Phases, InUseInv, InUse, ClosingInv
LEMMA ScanFillOK ==
  ASSUME ContainerInv, NEW m \in media, ScanFill(m)
  PROVE  ContainerInv'
<1>0. phase = "scanning" /\ Scanning(m) /\ m.kind = "fill"
  BY DEF ScanFill, Scanning
<1>1. PICK L : DiskOK(Scanned, scan, freeMap, L, {}) /\ Backed(files, L) /\ L \subseteq Scanned
  BY <1>0, ScanFacts
<1>2. /\ m \in Header /\ m.at = scan /\ m \notin Scanned /\ m.at \in Nat /\ End(m) \in Nat
      /\ \A u \in Nat : Takes(m, u) <=> u \in m.at .. End(m) - 1
  BY <1>0, ScannedOn, HeaderFacts
<1> DEFINE N == Scanned \cup {m}
           a == AreaOf(m)
           new == NewFreeSpaceArea(freeMap, m.at, m.units, FALSE)
<1>3. DiskOK(N, End(m), freeMap, L \cup {m}, {})
  <2>1. Written(Scanned, m) = N /\ DiskOK(Written(Scanned, m), End(m), freeMap, L \cup {m}, {})
    BY <1>1, <1>2, AppendLemma
  <2> QED BY <2>1
<1>4. DiskOK(N, End(m), freeMap, L, {a})
  <2>1. {m} \in SUBSET (L \cup {m})
    OBVIOUS
  <2>2. DiskOK(N, End(m), freeMap, (L \cup {m}) \ {m}, {} \cup {AreaOf(x) : x \in {m}})
    BY <1>3, <2>1, GiveLemma
  <2>3. (L \cup {m}) \ {m} = L
    BY <1>1, <1>2
  <2>4. {} \cup {AreaOf(x) : x \in {m}} = {a}
    OBVIOUS
  <2> QED BY <2>2, <2>3, <2>4
<1>5. a.at = m.at /\ a.units = m.units /\ End(a) = End(m)
  BY DEF AreaOf, End
<1> HIDE DEF a
<1>6. DiskOK(N, End(m), new, L, {})
  <2>1. \A u \in a.at .. End(a) - 1 : \E x \in N : x.kind = "fill" /\ Takes(x, u)
    <3> SUFFICES ASSUME NEW u \in a.at .. End(a) - 1 PROVE \E x \in N : x.kind = "fill" /\ Takes(x, u)
      OBVIOUS
    <3>1. u \in Nat /\ u \in m.at .. End(m) - 1
      BY <1>2, <1>5
    <3> QED BY <1>0, <1>2, <3>1
  <2>2. FALSE \in BOOLEAN /\ a \in {a} /\ {a} \ {a} = {}
    OBVIOUS
  <2> HIDE DEF N
  <2>3. DiskOK(N, End(m), NewFreeSpaceArea(freeMap, a.at, a.units, FALSE), L, {a} \ {a})
    BY <1>4, <2>1, <2>2, FreeOneLemma
  <2> QED BY <1>5, <2>2, <2>3
<1>7. \A r \in new : ~r.dirty
  <2> DEFINE r == Entry(m.at, m.at + m.units, FALSE, FALSE)
  <2>1. r.dirty = FALSE
    BY DEF Entry
  <2>2. \A p \in freeMap : ~p.dirty
    BY <1>0, ScanFacts
  <2> HIDE DEF r
  <2>3. ~\E p \in Before(freeMap, r) \cup After(freeMap, r) : p.dirty
    BY <2>2 DEF Before, After
  <2>4. \A p \in Coalesce(freeMap, r) : p \in freeMap \/ p.dirty = FALSE
    <3> DEFINE near == Before(freeMap, r) \cup After(freeMap, r)
    <3>1. (r.dirty \/ \E q \in near : q.dirty) = FALSE
      BY <2>1, <2>3
    <3>2. Coalesce(freeMap, r) = (freeMap \ near)
             \cup {Entry(JoinedStart(freeMap, r), JoinedEnd(freeMap, r), FALSE, FALSE)}
      BY <3>1 DEF Coalesce
    <3>3. Entry(JoinedStart(freeMap, r), JoinedEnd(freeMap, r), FALSE, FALSE).dirty = FALSE
      BY DEF Entry
    <3> HIDE DEF near
    <3> QED BY <3>2, <3>3
  <2>5. new = Coalesce(freeMap, r)
    BY DEF NewFreeSpaceArea, r
  <2> QED BY <2>2, <2>4, <2>5
<1>8. freeMap' = new /\ files' = files /\ ids' = ids
  BY DEF ScanFill
<1> HIDE DEF new
<1> QED BY <1>0, <1>1, <1>6, <1>7, <1>8, ScanFacts, ScanningLemma

LEMMA ScanStartOK ==
  ASSUME ContainerInv, NEW m \in media, ScanStart(m)
  PROVE  ContainerInv'
<1>0. /\ phase = "scanning" /\ Scanning(m) /\ m.kind = "start" /\ m.name \notin DOMAIN files
      /\ files' = Put(files, m.name, [NewFile(m.id) EXCEPT !.start = m.at])
      /\ ids' = ids \cup {m.id} /\ freeMap' = freeMap
  BY DEF ScanStart, Scanning, Has
<1>1. PICK L : /\ DiskOK(Scanned, scan, freeMap, L, {}) /\ Backed(files, L) /\ L \subseteq Scanned
  BY <1>0, ScanFacts
<1>2. m \in Header /\ m.at = scan /\ m.at # 0 /\ m \notin Scanned
      /\ \A x \in Scanned : x \in media /\ x.at < m.at
  BY <1>0, ScannedOn
<1>3. m.at \in Nat /\ m.id \in Nat /\ m.units = StartUnits /\ m.name \in Names
  BY <1>0, <1>2, ScanFacts DEF Streams, Header
<1> DEFINE f == [NewFile(m.id) EXCEPT !.start = m.at]
<1>4. f \in File /\ f.id = m.id /\ f.start = m.at /\ DOMAIN f.chunks = {}
  <2>1. [o \in {} |-> 0] \in Rows
    <3>1. 0 .. 0 - 1 = {}
      OBVIOUS
    <3>2. [o \in {} |-> 0] \in [0 .. 0 - 1 -> Area]
      BY <3>1
    <3> QED BY <3>2 DEF Rows
  <2> QED BY <1>3, <2>1 DEF NewFile, File
<1> HIDE DEF f
<1>5. files' = Put(files, m.name, f)
  BY <1>0 DEF f
<1>6. /\ DOMAIN files' = DOMAIN files \cup {m.name} /\ files'[m.name] = f
      /\ \A n \in DOMAIN files : files'[n] = files[n] /\ n # m.name
  BY <1>0, <1>5 DEF Put
<1>7. \A n \in DOMAIN files : files[n].id # m.id
  <2> SUFFICES ASSUME NEW n \in DOMAIN files, files[n].id = m.id PROVE FALSE
    OBVIOUS
  <2>1. PICK x \in L : StartOf(x, n, files[n])
    BY <1>0, <1>1, ScanFacts DEF Backed
  <2>2. x \in media /\ x.kind = "start" /\ x.id = m.id /\ x # m
    BY <1>1, <1>2, <2>1 DEF StartOf
  <2> QED BY <1>0, <2>2, ScanFacts DEF Streams
<1>8. Directory(files', ids')
  <2>1. Directory(files, ids)
    BY <1>0, ScanFacts
  <2>2. InOrder(f)
    BY <1>4 DEF InOrder
  <2>3. IsFiniteSet(ids')
    BY <1>0, <2>1, FS_AddElement DEF Directory
  <2> QED BY <1>0, <1>3, <1>4, <1>6, <1>7, <2>1, <2>2, <2>3 DEF Directory
<1>9. StartOf(m, m.name, f)
  BY <1>0, <1>2, <1>3, <1>4 DEF StartOf
<1>10. Backed(files', L \cup {m})
  <2>1. \A x \in L \cup {m} : Owned(files', x)
    BY <1>1, <1>6, <1>9 DEF Owned, Backed
  <2>2. ASSUME NEW n \in DOMAIN files'
        PROVE  /\ files'[n].start # 0 => \E x \in L \cup {m} : StartOf(x, n, files'[n])
               /\ \A o \in DOMAIN files'[n].chunks : \E x \in L \cup {m} : DataOf(x, files'[n]) /\ x.offset = o
    <3>1. CASE n = m.name
      BY <1>4, <1>6, <1>9, <3>1
    <3>2. CASE n \in DOMAIN files
      BY <1>1, <1>6, <3>2 DEF Backed
    <3> QED BY <1>6, <2>2, <3>1, <3>2
  <2> QED BY <2>1, <2>2 DEF Backed
<1>11. DiskOK(Scanned \cup {m}, End(m), freeMap', L \cup {m}, {})
  <2>1. /\ Written(Scanned, m) = Scanned \cup {m}
        /\ DiskOK(Written(Scanned, m), End(m), freeMap, L \cup {m}, {})
    BY <1>1, <1>2, AppendLemma
  <2> QED BY <1>0, <2>1
<1>12. \A n \in DOMAIN files' : files'[n].start # 0
  BY <1>0, <1>2, <1>4, <1>6, ScanFacts
<1>13. \A r \in freeMap' : ~r.dirty
  BY <1>0, ScanFacts
<1> QED BY <1>0, <1>8, <1>10, <1>11, <1>12, <1>13, ScanningLemma
LEMMA ScanDataOK ==
  ASSUME ContainerInv, NEW m \in media, ScanData(m)
  PROVE  ContainerInv'
<1>0. /\ phase = "scanning" /\ Scanning(m) /\ m.kind = "data" /\ ids' = ids /\ freeMap' = freeMap
      /\ \E n \in DOMAIN files :
           /\ files[n].id = m.id
           /\ files' = [files EXCEPT ![n].chunks = Put(@, m.offset, [at |-> m.at, units |-> m.units])]
  BY DEF ScanData, Scanning, Owner
<1>1. PICK n \in DOMAIN files :
           /\ files[n].id = m.id
           /\ files' = [files EXCEPT ![n].chunks = Put(@, m.offset, [at |-> m.at, units |-> m.units])]
  BY <1>0
<1>2. PICK L : /\ DiskOK(Scanned, scan, freeMap, L, {}) /\ Backed(files, L) /\ L \subseteq Scanned
               /\ \A x \in Scanned : x.kind = "fill" \/ x \in L
  BY <1>0, ScanFacts
<1>3. m \in Header /\ m.at = scan /\ m \notin Scanned
      /\ \A x \in Scanned : x \in media /\ x.at < m.at
  BY <1>0, ScannedOn
<1>4. m.at \in Nat /\ m.offset \in Nat /\ m.units \in ChunkUnits
  BY <1>3 DEF Header
<1>5. Directory(files, ids) /\ Streams(media) /\ files[n].start # 0
  BY <1>0, ScanFacts
<1> DEFINE g == files[n]
           area == [at |-> m.at, units |-> m.units]
           row == Put(g.chunks, m.offset, area)
           f == [g EXCEPT !.chunks = row]
<1>6. g \in File /\ InOrder(g)
  BY <1>5 DEF Directory
<1>7. PICK k \in Nat : /\ k = Stored(g) /\ g.chunks \in [0 .. k - 1 -> Area] /\ DOMAIN g.chunks = 0 .. k - 1
                       /\ \A o \in 0 .. k - 1 : g.chunks[o].at \in Nat
  BY <1>6, FileFacts
(* The data of a file is met in order. *)
<1>8. m.offset = k
  <2>1. ASSUME m.offset < k PROVE FALSE
    <3>1. m.offset \in DOMAIN g.chunks
      BY <1>4, <1>7, <2>1
    <3>2. PICK x \in L : DataOf(x, g) /\ x.offset = m.offset
      BY <1>2, <3>1 DEF Backed
    <3>3. x \in media /\ x.kind = "data" /\ x.id = m.id /\ x # m
      BY <1>1, <1>2, <1>3, <3>2 DEF DataOf
    <3> QED BY <1>0, <1>5, <3>2, <3>3 DEF Streams
  <2>2. ASSUME k < m.offset PROVE FALSE
    <3>1. k \in 0 .. m.offset - 1
      BY <1>4, <2>2
    <3>2. PICK x \in media : x.kind = "data" /\ x.id = m.id /\ x.offset = k
      BY <1>0, <1>5, <3>1 DEF Streams
    <3>3. x.at < m.at
      BY <1>0, <1>5, <2>2, <3>2 DEF Streams
    <3>4. x \in L
      BY <1>2, <1>3, <3>2, <3>3 DEF Scanned
    <3>5. PICK y \in DOMAIN files : DataOf(x, files[y])
      BY <1>2, <3>2, <3>4 DEF Backed, Owned, StartOf
    <3>6. y = n
      BY <1>1, <1>5, <3>2, <3>5 DEF Directory, DataOf
    <3>7. k \in 0 .. k - 1
      BY <1>7, <3>2, <3>5, <3>6 DEF DataOf
    <3> QED BY <3>7
  <2> QED BY <1>4, <1>7, <2>1, <2>2
<1>9. area \in Area /\ area.at = m.at /\ area.units = m.units
  BY <1>4 DEF Area
<1> HIDE DEF area
<1>10. /\ row \in [0 .. k -> Area] /\ DOMAIN row = 0 .. k /\ row[k] = area
       /\ \A o \in 0 .. k - 1 : row[o] = g.chunks[o]
  <2>1. (0 .. k - 1) \cup {k} = 0 .. k
    OBVIOUS
  <2>2. row = [o \in 0 .. k |-> IF o = k THEN area ELSE g.chunks[o]]
    BY <1>7, <1>8, <2>1 DEF Put
  <2>3. \A o \in 0 .. k : o # k => o \in 0 .. k - 1
    OBVIOUS
  <2> QED BY <1>7, <1>9, <2>2, <2>3
<1>11. files' = [files EXCEPT ![n] = f]
  BY <1>1 DEF area
<1> HIDE DEF row
<1>12. f \in File /\ f.start = g.start /\ f.chunks = row /\ f.id = g.id
  <2>1. row \in [0 .. (k + 1) - 1 -> Area] /\ k + 1 \in Nat
    BY <1>10
  <2>2. row \in Rows
    BY <2>1 DEF Rows
  <2> QED BY <1>6, <2>2 DEF File
<1> HIDE DEF f
<1>13. DOMAIN files' = DOMAIN files /\ files'[n] = f /\ \A x \in DOMAIN files : x # n => files'[x] = files[x]
  BY <1>11
<1>14. InOrder(f)
  <2>1. PICK x \in L : StartOf(x, n, g)
    BY <1>2, <1>5 DEF Backed
  <2>2. g.start < m.at
    BY <1>2, <1>3, <2>1 DEF StartOf
  <2>3. ASSUME NEW q \in 0 .. k - 1 PROVE g.chunks[q].at < m.at
    <3>1. PICK y \in L : DataOf(y, g) /\ y.offset = q
      BY <1>2, <1>7, <2>3 DEF Backed
    <3> QED BY <1>2, <1>3, <3>1 DEF DataOf
  <2>4. ASSUME NEW o \in 0 .. k
        PROVE  g.start < row[o].at /\ \A q \in 0 .. k : q < o => row[q].at < row[o].at
    <3>1. CASE o = k
      <4>1. row[o].at = m.at
        BY <1>9, <1>10, <3>1
      <4>2. \A q \in 0 .. k : q < o => q \in 0 .. k - 1
        BY <3>1
      <4> QED BY <1>10, <2>2, <2>3, <4>1, <4>2
    <3>2. CASE o \in 0 .. k - 1
      <4>1. \A q \in 0 .. k : q < o => q \in 0 .. k - 1
        BY <3>2
      <4> QED BY <1>6, <1>7, <1>10, <3>2, <4>1 DEF InOrder
    <3>3. o = k \/ o \in 0 .. k - 1
      OBVIOUS
    <3> QED BY <3>1, <3>2, <3>3
  <2> QED BY <1>5, <1>10, <1>12, <2>4 DEF InOrder
<1>15. Directory(files', ids')
  <2>1. \A x \in DOMAIN files : files'[x].id = files[x].id
    BY <1>12, <1>13
  <2> QED BY <1>0, <1>5, <1>12, <1>13, <1>14, <2>1 DEF Directory
<1>16. DataOf(m, f)
  BY <1>0, <1>1, <1>8, <1>9, <1>10, <1>12 DEF DataOf
<1>17. ASSUME NEW x
       PROVE  /\ StartOf(x, n, g) <=> StartOf(x, n, f)
              /\ DataOf(x, g) => DataOf(x, f)
  <2>1. \A o \in 0 .. k - 1 : o \in 0 .. k
    OBVIOUS
  <2> QED BY <1>7, <1>10, <1>12, <2>1 DEF StartOf, DataOf
<1>18. Backed(files', L \cup {m})
  <2>1. ASSUME NEW x \in L \cup {m} PROVE Owned(files', x)
    <3>1. CASE x = m
      BY <1>13, <1>16, <3>1 DEF Owned
    <3>2. CASE x \in L
      <4>1. PICK y \in DOMAIN files : StartOf(x, y, files[y]) \/ DataOf(x, files[y])
        BY <1>2, <3>2 DEF Backed, Owned
      <4> QED BY <1>13, <1>17, <4>1 DEF Owned
    <3> QED BY <3>1, <3>2
  <2>2. ASSUME NEW y \in DOMAIN files'
        PROVE  /\ files'[y].start # 0 => \E x \in L \cup {m} : StartOf(x, y, files'[y])
               /\ \A o \in DOMAIN files'[y].chunks : \E x \in L \cup {m} : DataOf(x, files'[y]) /\ x.offset = o
    <3>1. CASE y # n
      BY <1>2, <1>13, <2>2, <3>1 DEF Backed
    <3>2. CASE y = n
      <4>1. \E x \in L \cup {m} : StartOf(x, n, f)
        BY <1>2, <1>5, <1>17 DEF Backed
      <4>2. ASSUME NEW o \in 0 .. k PROVE \E x \in L \cup {m} : DataOf(x, f) /\ x.offset = o
        <5>1. CASE o = k
          BY <1>8, <1>16, <5>1
        <5>2. CASE o # k
          <6>1. o \in DOMAIN g.chunks
            BY <1>7, <5>2
          <6> QED BY <1>2, <1>17, <6>1 DEF Backed
        <5> QED BY <5>1, <5>2
      <4> QED BY <1>10, <1>12, <1>13, <3>2, <4>1, <4>2
    <3> QED BY <3>1, <3>2
  <2> QED BY <2>1, <2>2 DEF Backed
<1>19. DiskOK(Scanned \cup {m}, End(m), freeMap', L \cup {m}, {})
  <2>1. /\ Written(Scanned, m) = Scanned \cup {m}
        /\ DiskOK(Written(Scanned, m), End(m), freeMap, L \cup {m}, {})
    BY <1>2, <1>3, AppendLemma
  <2> QED BY <1>0, <2>1
<1>20. \A x \in DOMAIN files' : files'[x].start # 0
  BY <1>0, <1>12, <1>13, ScanFacts
<1>21. \A r \in freeMap' : ~r.dirty
  BY <1>0, ScanFacts
<1> QED BY <1>0, <1>15, <1>18, <1>19, <1>20, <1>21, ScanningLemma

LEMMA CloseBeginOK ==
  ASSUME ~SupportsTruncation, ContainerInv, CloseBegin
  PROVE  ContainerInv'
<1> USE DEF CloseBegin, MayClose
<1>1. InUse /\ phase' = "closing" /\ files' = files /\ ids' = ids /\ setting' = setting
  BY DEF InUse, Ready
<1>2. PICK L : Holds(Disk, files, L) /\ Directory(files, ids)
  BY <1>1, InUseHolds
<1>3. PICK e : e = FlushFreeSpace(Disk)
  OBVIOUS
<1>4. Sound(e, L, {}) /\ \A r \in e.freeMap : ~r.dirty
  BY <1>2, <1>3, FlushedSound DEF Holds
<1>5. Disk' = e /\ media' = e.media /\ freeMap' = e.freeMap
  BY <1>3, <1>4, SetDiskLemma
<1>6. Holds(Disk', files', L)
  BY <1>1, <1>2, <1>4, <1>5 DEF Holds
<1>7. \A m \in media' : m.kind = "fill" \/ Owned(files', m)
  <2>1. \A m \in e.media : m.kind = "fill" \/ m \in L
    BY <1>4 DEF Sound, DiskOK, ShownOK
  <2> QED BY <1>1, <1>2, <1>5, <2>1 DEF Holds, Backed
<1>8. Orderly' => Buffered' = {} /\ \A r \in freeMap' : ~r.dirty
  <2>1. Orderly' => Orderly
    BY <1>1 DEF Orderly
  <2>2. Orderly => Buffered = {}
    BY DEF Orderly
  <2>3. Buffered' = Buffered
    BY <1>1 DEF Buffered
  <2> QED BY <1>4, <1>5, <2>1, <2>2, <2>3
<1> QED BY <1>1, <1>2, <1>6, <1>7, <1>8, ClosingLemma

LEMMA CloseFileOK ==
  ASSUME ContainerInv, NEW n \in Names, NEW units \in ChunkUnits, CloseFile(n, units)
  PROVE  ContainerInv'
<1> USE DEF CloseFile
<1>1. InUse /\ phase = "closing" /\ phase' = "closing" /\ ids' = ids /\ setting' = setting
      /\ n \in DOMAIN files /\ FlushFits(Disk, n, units) /\ n \in Buffered
  BY DEF InUse, Buffered
<1>2. PICK L : Holds(Disk, files, L) /\ Directory(files, ids)
  BY <1>1, InUseHolds
<1>3. PICK e, f : e = FlushedDisk(Disk, n, units) /\ f = FlushedFile(Disk, n, units)
  OBVIOUS
<1>4. PICK K : /\ Holds(e, Put(files, n, f), K) /\ Directory(Put(files, n, f), ids)
               /\ L \subseteq K /\ e.media \subseteq Disk.media \cup K
  BY <1>1, <1>2, <1>3, FlushFileLemma
<1>5. files' = Put(files, n, f) /\ SetDisk(e)
  BY <1>3
<1>6. Disk' = e /\ media' = e.media /\ freeMap' = e.freeMap
  BY <1>4, <1>5, SetDiskLemma DEF Holds
<1>7. Disk.media = media
  BY DEF Disk
<1>8. ASSUME NEW m \in media' PROVE m.kind = "fill" \/ Owned(files', m)
  <2>1. CASE m \in K
    BY <1>4, <1>5, <2>1 DEF Holds, Backed
  <2>2. CASE m \in media
    <3>1. m.kind = "fill" \/ Owned(files, m)
      BY <1>1, <2>2 DEF ContainerInv, ClosingInv
    <3>2. Owned(files, m) => m \in L
      BY <1>2, <1>7, <2>2, OwnedInUse
    <3> QED BY <1>4, <2>1, <3>1, <3>2
  <2> QED BY <1>4, <1>6, <1>7, <2>1, <2>2
<1>9. ~Orderly'
  BY <1>1 DEF ContainerInv, ClosingInv, Orderly
<1> QED BY <1>1, <1>4, <1>5, <1>6, <1>8, <1>9, ClosingLemma

LEMMA CloseEndOK ==
  ASSUME ContainerInv, CloseEnd
  PROVE  ContainerInv'
<1> USE DEF CloseEnd
<1>1. InUse /\ phase = "closing" /\ phase' = "closed"
  BY DEF InUse
<1>2. PICK L : Holds(Disk, files, L) /\ Directory(files, ids)
  BY <1>1, InUseHolds
<1>3. /\ length = size /\ DiskOK(media, size, freeMap, L, {}) /\ Backed(files, L)
  <2>1. Disk.media = media /\ Disk.size = size /\ Disk.length = length /\ Disk.freeMap = freeMap
    BY DEF Disk
  <2> QED BY <1>2, <2>1, DiskOfLemma DEF Holds, Sound
<1>4. \A m \in media : m.kind = "fill" \/ Owned(files, m)
  BY <1>1 DEF ContainerInv, ClosingInv
<1>5. /\ MediaOK(media, size) /\ size \in Nat /\ HeaderUnits <= size /\ size # 0 /\ L \subseteq media
      /\ \A m \in media : m.at \in Nat /\ End(m) \in Nat /\ m.at < End(m)
  <2>1. MediaOK(media, size) /\ size \in Nat /\ HeaderUnits <= size /\ L \subseteq media
    BY <1>3 DEF DiskOK, SpaceOK
  <2>2. \A m \in media : m.at \in Nat /\ End(m) \in Nat /\ m.at < End(m)
    BY <2>1, HeaderFacts DEF MediaOK
  <2>3. size # 0
    BY <2>1, SizesLemma
  <2> QED BY <2>1, <2>2, <2>3
<1>6. ASSUME NEW m \in media, NEW x \in media, m.at = x.at PROVE m = x
  BY <1>5, <1>6 DEF MediaOK, Beside
<1>7. ASSUME NEW m \in media, m.kind = "start"
      PROVE  \E n \in DOMAIN files : StartOf(m, n, files[n])
  BY <1>4, <1>7 DEF Owned, DataOf
<1>8. ASSUME NEW m \in media, m.kind = "data"
      PROVE  \E n \in DOMAIN files : DataOf(m, files[n])
  BY <1>4, <1>8 DEF Owned, StartOf
<1>9. Streams(media)
  <2>1. \A m \in media : m.kind = "start" => m.units = StartUnits /\ m.name \in Names
    BY <1>2, <1>7 DEF StartOf, Directory
  <2>2. ASSUME NEW m \in media, NEW x \in media, m.kind = "start", x.kind = "start", m.id = x.id \/ m.name = x.name
        PROVE  m = x
    <3>1. PICK n \in DOMAIN files : StartOf(m, n, files[n])
      BY <1>7, <2>2
    <3>2. PICK p \in DOMAIN files : StartOf(x, p, files[p])
      BY <1>7, <2>2
    <3>3. n = p
      BY <1>2, <2>2, <3>1, <3>2 DEF StartOf, Directory
    <3> QED BY <1>6, <3>1, <3>2, <3>3 DEF StartOf
  <2>3. ASSUME NEW m \in media, m.kind = "data"
        PROVE  \E x \in media : x.kind = "start" /\ x.id = m.id /\ x.at < m.at
    <3>1. PICK n \in DOMAIN files : DataOf(m, files[n])
      BY <1>8, <2>3
    <3>2. files[n].start # 0 /\ files[n].start < m.at
      BY <1>2, <3>1 DEF Directory, InOrder, DataOf
    <3>3. PICK x \in L : StartOf(x, n, files[n])
      BY <1>3, <3>2 DEF Backed
    <3> QED BY <1>5, <3>1, <3>2, <3>3 DEF StartOf, DataOf
  <2>4. ASSUME NEW m \in media, NEW x \in media, m.kind = "data", x.kind = "data", m.id = x.id
        PROVE  /\ m.offset = x.offset => m = x
               /\ m.offset < x.offset => m.at < x.at
    <3>1. PICK n \in DOMAIN files : DataOf(m, files[n])
      BY <1>8, <2>4
    <3>2. PICK p \in DOMAIN files : DataOf(x, files[p])
      BY <1>8, <2>4
    <3>3. n = p
      BY <1>2, <2>4, <3>1, <3>2 DEF DataOf, Directory
    <3>4. InOrder(files[n])
      BY <1>2 DEF Directory
    <3> QED BY <1>6, <3>1, <3>2, <3>3, <3>4 DEF DataOf, InOrder
  <2>5. ASSUME NEW m \in media, m.kind = "data", NEW o \in 0 .. m.offset - 1
        PROVE  \E x \in media : x.kind = "data" /\ x.id = m.id /\ x.offset = o
    <3>1. PICK n \in DOMAIN files : DataOf(m, files[n])
      BY <1>8, <2>5
    <3>2. PICK k \in Nat : DOMAIN files[n].chunks = 0 .. k - 1
      BY <1>2, FileFacts DEF Directory
    <3>3. o \in 0 .. k - 1
      BY <3>1, <3>2 DEF DataOf
    <3>4. PICK x \in L : DataOf(x, files[n]) /\ x.offset = o
      BY <1>3, <3>2, <3>3 DEF Backed
    <3> QED BY <1>5, <3>1, <3>4 DEF DataOf
  <2> QED BY <2>1, <2>2, <2>3, <2>4, <2>5 DEF Streams
<1>10. Orderly => Covered(media, size)
  <2> SUFFICES ASSUME Orderly, NEW u \in HeaderUnits .. size - 1 PROVE \E m \in media : Takes(m, u)
    BY DEF Covered
  <2>1. \A r \in freeMap : ~r.dirty /\ r.start \in Nat /\ r.end \in Nat
    BY <1>1, <1>3 DEF ContainerInv, ClosingInv, DiskOK, MapOK, WellFormed, Region
  <2>2. (\E r \in freeMap : In(u, r)) \/ (\E m \in L : Takes(m, u))
    BY <1>3 DEF DiskOK, SpaceOK
  <2>3. ASSUME NEW r \in freeMap, In(u, r) PROVE \E m \in media : Takes(m, u)
    <3>1. u \in r.start .. r.end - 1
      BY <1>5, <2>1, <2>3, SizesLemma DEF In
    <3> QED BY <1>3, <2>1, <3>1 DEF DiskOK, ShownOK
  <2> QED BY <1>5, <2>2, <2>3
<1>11. StoredInv'
  BY <1>1, <1>3, <1>5, <1>9, <1>10 DEF StoredInv, Orderly
<1>12. FilesOK'
  <2>1. DOMAIN files' = {} /\ ids' = {}
    OBVIOUS
  <2> QED BY <2>1, NoFilesLemma, FilesAreDirectoryNext
<1> QED BY <1>1, <1>11, <1>12 DEF ContainerInv, Phases, InUseInv, InUse, ClosingInv, ScanInv

------------------------------------------------------------------------------
(* The operations of a container that is open. *)

(* The identifiers of a session are finitely many: there is a next one. *)
LEMMA NewIdentifierLemma ==
  ASSUME ids \subseteq Nat, IsFiniteSet(ids)
  PROVE  NewIdentifier \in Nat /\ NewIdentifier \notin ids
<1>1. PICK c \in Nat : c = Cardinality(ids)
  BY FS_CardinalityType
<1> DEFINE free == {i \in 0 .. c : i \notin ids}
<1>2. free # {}
  <2>1. SUFFICES ASSUME 0 .. c \subseteq ids PROVE FALSE
    OBVIOUS
  <2>2. Cardinality(0 .. c) <= c
    BY <1>1, <2>1, FS_Subset
  <2>3. Cardinality(0 .. c) = IF 0 > c THEN 0 ELSE c - 0 + 1
    BY FS_Interval
  <2> QED BY <2>2, <2>3
<1>3. free \subseteq Nat
  OBVIOUS
<1> HIDE DEF free
<1>4. PICK i \in free : \A j \in free : i <= j
  BY <1>2, <1>3, LeastOf
<1>5. i \in 0 .. c /\ i \notin ids /\ \A j \in 0 .. i - 1 : j \in ids
  <2>1. i \in 0 .. c /\ i \notin ids
    BY DEF free
  <2>2. ASSUME NEW j \in 0 .. i - 1 PROVE j \in ids
    <3>1. j \in 0 .. c /\ ~(i <= j)
      BY <2>1
    <3> QED BY <1>4, <3>1 DEF free
  <2> QED BY <2>1, <2>2
<1>6. NewIdentifier \in 0 .. c /\ NewIdentifier \notin ids
  BY <1>1, <1>5 DEF NewIdentifier
<1> QED BY <1>6

LEMMA DiskUnchanged ==
  ASSUME UNCHANGED <<media, length, size, freeMap>>
  PROVE  Disk' = Disk
BY DEF Disk

LEMMA NewVirtualFileOK ==
  ASSUME ContainerInv, NEW n \in Names, NewVirtualFile(n)
  PROVE  ContainerInv'
<1> USE DEF NewVirtualFile, Ready
<1>1. InUse /\ phase' = "ready" /\ n \notin DOMAIN files
  BY DEF InUse, Has
<1>2. PICK L : Holds(Disk, files, L) /\ Directory(files, ids)
  BY <1>1, InUseHolds
<1>3. PICK i \in Nat : i = NewIdentifier /\ i \notin ids
  BY <1>2, NewIdentifierLemma DEF Directory
<1>4. PICK f : f = NewFile(i)
  OBVIOUS
<1>5. f \in File /\ f.id = i /\ f.start = 0 /\ DOMAIN f.chunks = {}
  <2>1. [o \in {} |-> 0] \in Rows
    <3>1. 0 .. 0 - 1 = {}
      OBVIOUS
    <3>2. [o \in {} |-> 0] \in [0 .. 0 - 1 -> Area]
      BY <3>1
    <3> QED BY <3>2 DEF Rows
  <2> QED BY <1>4, <2>1 DEF NewFile, File
<1>6. /\ DOMAIN files' = DOMAIN files \cup {n} /\ files'[n] = f
      /\ \A x \in DOMAIN files : files'[x] = files[x] /\ x # n
  BY <1>1, <1>3, <1>4 DEF Put
<1>7. Directory(files', ids')
  <2>1. ids' = ids \cup {i} /\ IsFiniteSet(ids')
    BY <1>2, <1>3, FS_AddElement DEF Directory
  <2>2. InOrder(f)
    BY <1>5 DEF InOrder
  <2> QED BY <1>2, <1>3, <1>5, <1>6, <2>1, <2>2 DEF Directory
<1>8. Backed(files', L)
  <2>1. \A m \in L : Owned(files', m)
    BY <1>2, <1>6 DEF Holds, Backed, Owned
  <2>2. ASSUME NEW x \in DOMAIN files'
        PROVE  /\ files'[x].start # 0 => \E m \in L : StartOf(m, x, files'[x])
               /\ \A o \in DOMAIN files'[x].chunks : \E m \in L : DataOf(m, files'[x]) /\ m.offset = o
    <3>1. CASE x = n
      BY <1>5, <1>6, <3>1
    <3>2. CASE x \in DOMAIN files
      BY <1>2, <1>6, <3>2 DEF Holds, Backed
    <3> QED BY <1>6, <3>1, <3>2
  <2> QED BY <2>1, <2>2 DEF Backed
<1>9. Holds(Disk', files', L)
  BY <1>2, <1>8, DiskUnchanged DEF Holds
<1> QED BY <1>1, <1>7, <1>9, ReadyLemma

LEMMA NewVirtualFileExistsOK ==
  ASSUME ContainerInv, NEW n, NewVirtualFileExists(n)
  PROVE  ContainerInv'
BY FailedLemma DEF NewVirtualFileExists, ContainerInv, FilesOK, IdentifiersDiffer

LEMMA FlushOK ==
  ASSUME ContainerInv, NEW n, NEW units \in ChunkUnits, Flush(n, units)
  PROVE  ContainerInv'
<1> USE DEF Flush, Ready, Has
<1>1. InUse /\ phase' = "ready" /\ n \in DOMAIN files /\ ids' = ids
  BY DEF InUse
<1>2. PICK L : Holds(Disk, files, L) /\ Directory(files, ids)
  BY <1>1, InUseHolds
<1>3. PICK e, f : e = FlushedDisk(Disk, n, units) /\ f = FlushedFile(Disk, n, units)
  OBVIOUS
<1>4. PICK K : Holds(e, Put(files, n, f), K) /\ Directory(Put(files, n, f), ids)
  BY <1>1, <1>2, <1>3, FlushFileLemma
<1>5. Disk' = e /\ files' = Put(files, n, f)
  BY <1>3, <1>4, SetDiskLemma DEF Holds
<1> QED BY <1>1, <1>4, <1>5, ReadyLemma

(* What is in the tail buffer makes no difference to the media. *)
LEMMA TailIsFree ==
  ASSUME NEW fs, NEW I, Directory(fs, I), NEW L, Backed(fs, L), NEW n \in DOMAIN fs, NEW p \in Pieces
  PROVE  LET f == [fs[n] EXCEPT !.tail = <<p>>]
         IN  Directory(Put(fs, n, f), I) /\ Backed(Put(fs, n, f), L)
<1> DEFINE g == fs[n]
           f == [g EXCEPT !.tail = <<p>>]
<1>1. g \in File /\ InOrder(g)
  BY DEF Directory
<1>2. f \in File /\ f.id = g.id /\ f.start = g.start /\ f.chunks = g.chunks
  BY <1>1 DEF File
<1> HIDE DEF f
<1>3. InOrder(f) /\ \A m : (StartOf(m, n, g) <=> StartOf(m, n, f)) /\ (DataOf(m, g) <=> DataOf(m, f))
  BY <1>1, <1>2 DEF InOrder, StartOf, DataOf
<1> DEFINE new == Put(fs, n, f)
<1>4. DOMAIN new = DOMAIN fs /\ new[n] = f /\ \A x \in DOMAIN fs : x # n => new[x] = fs[x]
  BY DEF Put
<1> HIDE DEF new
<1>5. Directory(new, I)
  <2>1. \A x \in DOMAIN fs : new[x].id = fs[x].id
    BY <1>2, <1>4
  <2> QED BY <1>2, <1>3, <1>4, <2>1 DEF Directory
<1>6. \A x \in DOMAIN fs : /\ new[x].start = fs[x].start /\ new[x].chunks = fs[x].chunks
                           /\ \A m : /\ StartOf(m, x, new[x]) <=> StartOf(m, x, fs[x])
                                     /\ DataOf(m, new[x]) <=> DataOf(m, fs[x])
  BY <1>2, <1>3, <1>4
<1>7. Backed(new, L)
  BY <1>4, <1>6 DEF Backed, Owned
<1> QED BY <1>5, <1>7 DEF new, f

LEMMA AppendToOK ==
  ASSUME ContainerInv, NEW n, NEW p \in Pieces, NEW units \in ChunkUnits, AppendTo(n, p, units)
  PROVE  ContainerInv'
<1> USE DEF AppendTo, Ready, Has
<1>1. InUse /\ phase' = "ready" /\ n \in DOMAIN files /\ ids' = ids
  BY DEF InUse
<1>2. PICK L : Holds(Disk, files, L) /\ Directory(files, ids)
  BY <1>1, InUseHolds
<1>3. PICK e, f : e = FlushedDisk(Disk, n, units) /\ f = FlushedFile(Disk, n, units)
  OBVIOUS
<1>4. PICK K : Holds(e, Put(files, n, f), K) /\ Directory(Put(files, n, f), ids)
  BY <1>1, <1>2, <1>3, FlushFileLemma
<1>5. Disk' = e /\ files' = Put(files, n, [f EXCEPT !.tail = <<p>>])
  BY <1>3, <1>4, SetDiskLemma DEF Holds
<1> DEFINE fs == Put(files, n, f)
<1>6. n \in DOMAIN fs /\ fs[n] = f /\ \A v : Put(fs, n, v) = Put(files, n, v)
  BY DEF Put
<1> HIDE DEF fs
<1>7. Directory(files', ids') /\ Backed(files', K)
  BY <1>1, <1>4, <1>5, <1>6, TailIsFree DEF Holds, fs
<1> QED BY <1>1, <1>4, <1>5, <1>7, ReadyLemma DEF Holds
(* The areas of chunks are what the file remembers of them. *)
LEMMA AreasLemma ==
  ASSUME NEW f \in File, NEW O \in SUBSET DOMAIN f.chunks, NEW L,
         \A o \in O : \E m \in L : DataOf(m, f) /\ m.offset = o
  PROVE  {AreaOf(m) : m \in {m \in L : DataOf(m, f) /\ m.offset \in O}} = {f.chunks[o] : o \in O}
<1>1. \A o \in O : f.chunks[o] \in Area
  BY FileFacts
<1>2. ASSUME NEW m, DataOf(m, f), m.offset \in O PROVE AreaOf(m) = f.chunks[m.offset]
  <2>1. f.chunks[m.offset] \in Area
    BY <1>1, <1>2
  <2>2. \A a \in Area : a = [at |-> a.at, units |-> a.units]
    BY DEF Area
  <2> QED BY <1>2, <2>1, <2>2 DEF DataOf, AreaOf
<1> QED BY <1>2

(* A file less. *)
LEMMA ErasedLemma ==
  ASSUME NEW fs, NEW I, Directory(fs, I), NEW L, Backed(fs, L), NEW n \in DOMAIN fs
  PROVE  /\ Directory(Except(fs, n), I)
         /\ Backed(Except(fs, n), L \ {m \in L : StartOf(m, n, fs[n]) \/ DataOf(m, fs[n])})
<1> DEFINE G == {m \in L : StartOf(m, n, fs[n]) \/ DataOf(m, fs[n])}
           new == Except(fs, n)
<1>1. DOMAIN new = DOMAIN fs \ {n} /\ \A x \in DOMAIN new : new[x] = fs[x]
  BY DEF Except
<1> HIDE DEF new
<1>2. Directory(new, I)
  BY <1>1 DEF Directory
<1>3. \A m \in L \ G : Owned(new, m)
  BY <1>1 DEF Backed, Owned
<1>4. ASSUME NEW x \in DOMAIN new
      PROVE  /\ new[x].start # 0 => \E m \in L \ G : StartOf(m, x, new[x])
             /\ \A o \in DOMAIN new[x].chunks : \E m \in L \ G : DataOf(m, new[x]) /\ m.offset = o
  <2>1. x \in DOMAIN fs /\ x # n /\ new[x] = fs[x]
    BY <1>1
  <2>2. \A m \in L : StartOf(m, x, fs[x]) \/ DataOf(m, fs[x]) => m \notin G
    BY <2>1, OwnerIsOne
  <2>3. /\ fs[x].start # 0 => \E m \in L : StartOf(m, x, fs[x])
        /\ \A o \in DOMAIN fs[x].chunks : \E m \in L : DataOf(m, fs[x]) /\ m.offset = o
    BY <2>1 DEF Backed
  <2> HIDE DEF G
  <2> QED BY <2>1, <2>2, <2>3
<1>5. Backed(new, L \ G)
  BY <1>3, <1>4 DEF Backed
<1> QED BY <1>2, <1>5 DEF new

LEMMA GivenSound ==
  ASSUME NEW d, NEW L, NEW A, Sound(d, L, A), NEW G \in SUBSET L
  PROVE  Sound(d, L \ G, A \cup {AreaOf(m) : m \in G})
BY GiveLemma DEF Sound

(* The chunks that erase gives up are headers in use. *)
LEMMA ErasedAreas ==
  ASSUME NEW L, Holds(Disk, files, L), Directory(files, ids), NEW n \in DOMAIN files
  PROVE  LET G == {m \in L : StartOf(m, n, files[n]) \/ DataOf(m, files[n])}
         IN  G \in SUBSET L /\ Sound(Disk, L \ G, ChunksOf(files[n]))
<1> DEFINE f == files[n]
           G == {m \in L : StartOf(m, n, f) \/ DataOf(m, f)}
           D == {m \in L : DataOf(m, f) /\ m.offset \in DOMAIN f.chunks}
           S == {m \in L : StartOf(m, n, f)}
<1>1. f \in File
  BY DEF Directory
<1>2. G = D \cup S
  BY DEF DataOf
<1>3. {AreaOf(m) : m \in D} = {f.chunks[o] : o \in DOMAIN f.chunks}
  <2>1. \A o \in DOMAIN f.chunks : \E m \in L : DataOf(m, f) /\ m.offset = o
    BY DEF Holds, Backed
  <2> QED BY <1>1, <2>1, AreasLemma
<1>4. {AreaOf(m) : m \in S} = IF f.start = 0 THEN {} ELSE {[at |-> f.start, units |-> StartUnits]}
  <2>1. \A m \in S : f.start # 0 /\ AreaOf(m) = [at |-> f.start, units |-> StartUnits]
    BY DEF StartOf, AreaOf
  <2>2. f.start # 0 => S # {}
    BY DEF Holds, Backed
  <2> HIDE DEF S
  <2> QED BY <2>1, <2>2
<1>5. {AreaOf(m) : m \in G} = ChunksOf(f)
  <2> HIDE DEF D, S, G
  <2>1. {AreaOf(m) : m \in D \cup S} = {AreaOf(m) : m \in D} \cup {AreaOf(m) : m \in S}
    OBVIOUS
  <2> QED BY <1>2, <1>3, <1>4, <2>1 DEF ChunksOf
<1>6. G \in SUBSET L /\ {} \cup {AreaOf(m) : m \in G} = {AreaOf(m) : m \in G}
  OBVIOUS
<1>7. Sound(Disk, L \ G, ChunksOf(f))
  <2> HIDE DEF G
  <2> QED BY <1>5, <1>6, GivenSound DEF Holds
<1> QED BY <1>6, <1>7

LEMMA EraseOK ==
  ASSUME ~SupportsTruncation, ContainerInv, NEW n, Erase(n)
  PROVE  ContainerInv'
<1> USE DEF Erase, Ready, Has
<1>1. InUse /\ phase' = "ready" /\ n \in DOMAIN files /\ ids' = ids
  BY DEF InUse
<1>2. PICK L : Holds(Disk, files, L) /\ Directory(files, ids)
  BY <1>1, InUseHolds
<1> DEFINE G == {m \in L : StartOf(m, n, files[n]) \/ DataOf(m, files[n])}
<1>3. Sound(Disk, L \ G, ChunksOf(files[n]))
  BY <1>1, <1>2, ErasedAreas
<1>4. PICK e : e = FlushFreeSpace(Freed(Disk, ChunksOf(files[n])))
  OBVIOUS
<1>5. Sound(e, L \ G, {})
  BY <1>3, <1>4, FreedSound, FlushedSound
<1>6. Disk' = e /\ files' = Except(files, n)
  BY <1>4, <1>5, SetDiskLemma
<1>7. Directory(files', ids') /\ Backed(files', L \ G)
  BY <1>1, <1>2, <1>6, ErasedLemma DEF Holds
<1> HIDE DEF G
<1> QED BY <1>1, <1>5, <1>6, <1>7, ReadyLemma DEF Holds

LEMMA RenameOK ==
  ASSUME ContainerInv, NEW n, NEW m \in Names, Rename(n, m)
  PROVE  ContainerInv'
<1> USE DEF Rename, Ready, Has
<1> DEFINE f == files[n]
<1>1. InUse /\ phase' = "ready" /\ n \in DOMAIN files /\ ids' = ids /\ m \notin DOMAIN files
      /\ files' = Put(Except(files, n), m, f)
  BY DEF InUse
<1>2. PICK L : Holds(Disk, files, L) /\ Directory(files, ids)
  BY <1>1, InUseHolds
<1>3. f \in File /\ InOrder(f) /\ f.id \in Nat /\ f.start \in Nat
  BY <1>1, <1>2, FileFacts DEF Directory
<1>4. /\ DOMAIN files' = (DOMAIN files \ {n}) \cup {m} /\ files'[m] = f /\ m # n
      /\ \A x \in DOMAIN files \ {n} : files'[x] = files[x]
  BY <1>1 DEF Put, Except
<1>5. Directory(files', ids')
  BY <1>1, <1>2, <1>3, <1>4 DEF Directory
<1>6. \A x : DataOf(x, f) /\ x \in L => Owned(files', x)
  BY <1>4 DEF Owned
<1>7. CASE f.start = 0
  <2>1. Disk' = Disk
    BY <1>7, DiskUnchanged
  <2>2. Backed(files', L)
    <3>1. \A x \in L : Owned(files', x)
      BY <1>2, <1>4, <1>7 DEF Holds, Backed, Owned, StartOf
    <3>2. ASSUME NEW y \in DOMAIN files'
          PROVE  /\ files'[y].start # 0 => \E x \in L : StartOf(x, y, files'[y])
                 /\ \A o \in DOMAIN files'[y].chunks : \E x \in L : DataOf(x, files'[y]) /\ x.offset = o
      <4>1. CASE y = m
        BY <1>1, <1>2, <1>4, <1>7, <4>1 DEF Holds, Backed
      <4>2. CASE y \in DOMAIN files \ {n}
        BY <1>2, <1>4, <4>2 DEF Holds, Backed
      <4> QED BY <1>4, <3>2, <4>1, <4>2
    <3> QED BY <3>1, <3>2 DEF Backed
  <2> QED BY <1>1, <1>2, <1>5, <2>1, <2>2, ReadyLemma DEF Holds
<1>8. CASE f.start # 0
  <2> DEFINE chunk == Chunk("start", StartUnits, f.id, m, 0, NoPiece)
             c == At(chunk, f.start)
  <2>1. /\ chunk \in Header /\ chunk.units = StartUnits /\ chunk.kind = "start"
        /\ chunk.id = f.id /\ chunk.name = m
    BY <1>3, SizesLemma DEF Chunk, Header, NoPiece
  <2> HIDE DEF chunk
  <2>2. /\ c \in Header /\ c.at = f.start /\ c.units = StartUnits /\ c.kind = "start"
        /\ c.id = f.id /\ c.name = m
    BY <1>3, <2>1, AtLemma
  <2>3. media' = Written(media, c) /\ length' = length /\ size' = size /\ freeMap' = freeMap
    BY <1>8 DEF chunk
  <2> HIDE DEF c
  <2>4. PICK x \in L : StartOf(x, n, f)
    BY <1>1, <1>2, <1>8 DEF Holds, Backed
  <2>5. length = size /\ DiskOK(media, size, freeMap, L, {})
    <3>1. Disk.media = media /\ Disk.size = size /\ Disk.length = length /\ Disk.freeMap = freeMap
      BY DEF Disk
    <3> QED BY <1>2, <3>1, DiskOfLemma DEF Holds, Sound
  <2> DEFINE K == (L \ {x}) \cup {c}
  <2>6. x.at = f.start /\ x.units = StartUnits
    BY <2>4 DEF StartOf
  <2>7. DiskOK(Written(media, c), size, freeMap, K, LeftBehind(x, c))
    <3>1. c.at = x.at /\ c.units <= x.units
      BY <2>2, <2>6, SizesLemma
    <3> QED BY <2>2, <2>5, <3>1, RewriteLemma
  <2>8. LeftBehind(x, c) = {}
    <3>1. ~(c.units < x.units)
      BY <2>2, <2>6, SizesLemma
    <3> QED BY <3>1 DEF LeftBehind
  <2>9. Disk' = DiskOf(Written(media, c), size, freeMap)
    BY <2>3, <2>5 DEF Disk, DiskOf
  <2>10. Sound(Disk', K, {})
    BY <2>7, <2>8, <2>9, DiskOfLemma DEF Sound
  <2>11. StartOf(c, m, f)
    BY <1>8, <2>2 DEF StartOf
  <2>12. \A y \in L : StartOf(y, n, f) => y = x
    <3>1. \A y, w \in media : y = w \/ Beside(y, w)
      BY <2>5 DEF DiskOK, MediaOK
    <3>2. ASSUME NEW y \in L, StartOf(y, n, f) PROVE y = x
      <4>1. y \in media /\ x \in media /\ y \in Header /\ x \in Header
        BY <2>5 DEF DiskOK, MediaOK, SpaceOK
      <4>2. y.at = x.at /\ y.at < End(y) /\ x.at < End(x) /\ x.at \in Nat /\ End(x) \in Nat /\ End(y) \in Nat
        BY <2>6, <3>2, <4>1, HeaderFacts DEF StartOf
      <4> QED BY <3>1, <4>1, <4>2 DEF Beside
    <3> QED BY <3>2
  <2>13. \A y : DataOf(y, f) => y # x
    BY <2>4 DEF DataOf, StartOf
  <2>14. Backed(files', K)
    <3>1. ASSUME NEW y \in K PROVE Owned(files', y)
      <4>1. CASE y = c
        BY <1>4, <2>11, <4>1 DEF Owned
      <4>2. CASE y \in L \ {x}
        <5>1. PICK z \in DOMAIN files : StartOf(y, z, files[z]) \/ DataOf(y, files[z])
          BY <1>2, <4>2 DEF Holds, Backed, Owned
        <5>2. z = n => DataOf(y, f)
          BY <2>12, <4>2, <5>1
        <5> QED BY <1>4, <5>1, <5>2 DEF Owned
      <4> QED BY <4>1, <4>2
    <3>2. ASSUME NEW y \in DOMAIN files'
          PROVE  /\ files'[y].start # 0 => \E w \in K : StartOf(w, y, files'[y])
                 /\ \A o \in DOMAIN files'[y].chunks : \E w \in K : DataOf(w, files'[y]) /\ w.offset = o
      <4>1. CASE y = m
        <5>1. \A o \in DOMAIN f.chunks : \E w \in L : DataOf(w, f) /\ w.offset = o
          BY <1>1, <1>2 DEF Holds, Backed
        <5>2. \A o \in DOMAIN f.chunks : \E w \in K : DataOf(w, f) /\ w.offset = o
          BY <2>13, <5>1
        <5> QED BY <1>4, <2>11, <4>1, <5>2
      <4>2. CASE y \in DOMAIN files \ {n}
        <5>1. /\ files[y].start # 0 => \E w \in L : StartOf(w, y, files[y])
              /\ \A o \in DOMAIN files[y].chunks : \E w \in L : DataOf(w, files[y]) /\ w.offset = o
          BY <1>2, <4>2 DEF Holds, Backed
        <5>2. \A w : StartOf(w, y, files[y]) \/ DataOf(w, files[y]) => w # x
          BY <1>1, <1>2, <2>4, <4>2, OwnerIsOne
        <5> QED BY <1>4, <4>2, <5>1, <5>2
      <4> QED BY <1>4, <3>2, <4>1, <4>2
    <3> QED BY <3>1, <3>2 DEF Backed
  <2> QED BY <1>1, <1>5, <2>10, <2>14, ReadyLemma DEF Holds
<1> QED BY <1>7, <1>8
(* Truncate, by its parts. *)
Given(f, k)       == {f.chunks[o] : o \in {o \in DOMAIN f.chunks : o >= k}}
IsCut(f, k, left) == k > 0 /\ left < f.chunks[k - 1].units
Behind(f, k, left) ==
  [at |-> f.chunks[k - 1].at + left, units |-> f.chunks[k - 1].units - left]
Kept(f, k, left) ==
  [o \in 0 .. k - 1 |-> IF o = k - 1 /\ IsCut(f, k, left) THEN [f.chunks[o] EXCEPT !.units = left]
                        ELSE f.chunks[o]]
CutFile(f, k, left) == [f EXCEPT !.chunks = Kept(f, k, left)]
CutDisk(d, f, k, left) ==
  IF IsCut(f, k, left) THEN Freed(Shrunk(d, f.chunks[k - 1], left), {Behind(f, k, left)} \cup Given(f, k))
  ELSE Freed(d, Given(f, k))

LEMMA KeptLemma ==
  ASSUME NEW f \in File, InOrder(f), NEW k \in Nat, k <= Stored(f), NEW left \in ChunkUnits
  PROVE  LET g == [f EXCEPT !.chunks = Kept(f, k, left)]
         IN  /\ g \in File /\ InOrder(g) /\ g.id = f.id /\ g.start = f.start
             /\ DOMAIN g.chunks = 0 .. k - 1
             /\ \A o \in 0 .. k - 1 :
                  /\ o \in DOMAIN f.chunks /\ g.chunks[o].at = f.chunks[o].at
                  /\ g.chunks[o].units = IF o = k - 1 /\ IsCut(f, k, left) THEN left ELSE f.chunks[o].units
<1> DEFINE row == Kept(f, k, left)
           g == [f EXCEPT !.chunks = row]
<1>1. PICK j \in Nat : j = Stored(f) /\ k <= j /\ DOMAIN f.chunks = 0 .. j - 1
                       /\ \A o \in 0 .. j - 1 : f.chunks[o] \in Area
  BY FileFacts
<1>2. \A o \in 0 .. k - 1 : o \in 0 .. j - 1
  BY <1>1
<1>3. \A a \in Area : /\ [a EXCEPT !.units = left] \in Area /\ [a EXCEPT !.units = left].at = a.at
                      /\ [a EXCEPT !.units = left].units = left
  BY DEF Area
<1>4. DOMAIN row = 0 .. k - 1 /\ \A o \in 0 .. k - 1 :
        row[o] = IF o = k - 1 /\ IsCut(f, k, left) THEN [f.chunks[o] EXCEPT !.units = left] ELSE f.chunks[o]
  BY DEF Kept
<1>5. row \in [0 .. k - 1 -> Area]
  BY <1>1, <1>2, <1>3 DEF Kept
<1> HIDE DEF row
<1>6. g \in File /\ g.id = f.id /\ g.start = f.start /\ g.chunks = row
  <2>1. row \in Rows
    BY <1>5 DEF Rows
  <2> QED BY <2>1 DEF File
<1>7. \A o \in 0 .. k - 1 : row[o].at = f.chunks[o].at
                            /\ row[o].units = IF o = k - 1 /\ IsCut(f, k, left) THEN left ELSE f.chunks[o].units
  BY <1>1, <1>2, <1>3, <1>4
<1>8. InOrder(g)
  BY <1>1, <1>2, <1>4, <1>6, <1>7 DEF InOrder
<1> QED BY <1>1, <1>2, <1>4, <1>6, <1>7, <1>8 DEF row

LEMMA TruncatedLemma ==
  ASSUME NEW d, NEW fs, NEW I, NEW L, Directory(fs, I), Holds(d, fs, L),
         NEW n \in DOMAIN fs, NEW k \in Nat, k <= Stored(fs[n]), NEW left \in ChunkUnits
  PROVE  /\ Directory(Put(fs, n, CutFile(fs[n], k, left)), I)
         /\ \E K : Holds(CutDisk(d, fs[n], k, left), Put(fs, n, CutFile(fs[n], k, left)), K)
<1> DEFINE f == fs[n]
           O == {o \in DOMAIN f.chunks : o >= k}
           G == {m \in L : DataOf(m, f) /\ m.offset \in O}
           e == CutDisk(d, f, k, left)
<1>1. f \in File /\ InOrder(f)
  BY DEF Directory
<1>2. PICK j \in Nat : j = Stored(f) /\ k <= j /\ DOMAIN f.chunks = 0 .. j - 1
                       /\ \A o \in 0 .. j - 1 : f.chunks[o].at \in Nat /\ f.chunks[o].units \in ChunkUnits
  BY <1>1, FileFacts
<1> DEFINE g == CutFile(f, k, left)
<1>3. g = [f EXCEPT !.chunks = Kept(f, k, left)]
  BY DEF CutFile
<1> HIDE DEF g
<1>4. /\ g \in File /\ InOrder(g) /\ g.id = f.id /\ g.start = f.start
      /\ DOMAIN g.chunks = 0 .. k - 1
      /\ \A o \in 0 .. k - 1 :
           /\ o \in DOMAIN f.chunks /\ g.chunks[o].at = f.chunks[o].at
           /\ g.chunks[o].units = IF o = k - 1 /\ IsCut(f, k, left) THEN left ELSE f.chunks[o].units
  BY <1>1, <1>3, KeptLemma
<1>5. {AreaOf(m) : m \in G} = Given(f, k)
  <2>1. \A o \in O : \E m \in L : DataOf(m, f) /\ m.offset = o
    BY DEF Holds, Backed
  <2>2. O \in SUBSET DOMAIN f.chunks
    OBVIOUS
  <2>3. Given(f, k) = {f.chunks[o] : o \in O}
    BY DEF Given
  <2> HIDE DEF O
  <2> QED BY <1>1, <2>1, <2>2, <2>3, AreasLemma
<1>6. ASSUME NEW m \in L, m \notin G, DataOf(m, f) PROVE m.offset \in 0 .. k - 1
  BY <1>2, <1>6 DEF DataOf
<1>7. \A m : StartOf(m, n, f) <=> StartOf(m, n, g)
  BY <1>4 DEF StartOf
<1>8. g.start # 0 => \E m \in L : StartOf(m, n, g)
  BY <1>4, <1>7 DEF Holds, Backed
<1>9. \A o \in 0 .. k - 1 : \E m \in L : DataOf(m, f) /\ m.offset = o
  BY <1>4 DEF Holds, Backed
<1>10. /\ \A m \in G : DataOf(m, f) /\ m.offset \notin 0 .. k - 1
       /\ \A m : StartOf(m, n, f) => ~DataOf(m, f)
  BY <1>2 DEF DataOf, StartOf
<1>11. CASE ~IsCut(f, k, left)
  <2>1. e = Freed(d, Given(f, k))
    BY <1>11 DEF CutDisk
  <2>2. Sound(d, L \ G, Given(f, k))
    <3>1. G \in SUBSET L /\ {} \cup {AreaOf(m) : m \in G} = {AreaOf(m) : m \in G}
      OBVIOUS
    <3> HIDE DEF G
    <3> QED BY <1>5, <3>1, GivenSound DEF Holds
  <2>3. Sound(e, L \ G, {})
    BY <2>1, <2>2, FreedSound
  <2>4. \A m : m.offset \in 0 .. k - 1 => (DataOf(m, f) <=> DataOf(m, g))
    BY <1>4, <1>11 DEF DataOf
  <2> HIDE DEF G, e, f
  <2>5. Directory(Put(fs, n, g), I) /\ Backed(Put(fs, n, g), (L \ G) \cup {})
    <3>1. \A m \in G : StartOf(m, n, f) \/ DataOf(m, f)
      BY <1>10
    <3>2. \A m \in L \ G : StartOf(m, n, f) \/ DataOf(m, f) => StartOf(m, n, g) \/ DataOf(m, g)
      BY <1>6, <1>7, <2>4
    <3>3. \A m \in {} : StartOf(m, n, g) \/ DataOf(m, g)
      OBVIOUS
    <3>4. g.start # 0 => \E m \in (L \ G) \cup {} : StartOf(m, n, g)
      BY <1>7, <1>8, <1>10
    <3>5. \A o \in DOMAIN g.chunks : \E m \in (L \ G) \cup {} : DataOf(m, g) /\ m.offset = o
      BY <1>4, <1>9, <1>10, <2>4
    <3>6. Backed(fs, L)
      BY DEF Holds
    <3> QED BY <1>4, <3>1, <3>2, <3>3, <3>4, <3>5, <3>6, ReplacedLemma DEF f
  <2>6. (L \ G) \cup {} = L \ G
    OBVIOUS
  <2> QED BY <2>3, <2>5, <2>6 DEF Holds, e, f, g
<1>12. CASE IsCut(f, k, left)
  <2>1. k - 1 \in 0 .. k - 1 /\ k - 1 \in 0 .. j - 1 /\ left < f.chunks[k - 1].units /\ left \in Nat
    BY <1>2, <1>12, SizesLemma DEF IsCut
  <2>2. PICK x \in L : DataOf(x, f) /\ x.offset = k - 1
    BY <1>9, <2>1
  <2>3. PICK b, u : /\ b = f.chunks[k - 1].at /\ u = f.chunks[k - 1].units /\ x.at = b /\ x.units = u
                    /\ left < u
    BY <2>1, <2>2 DEF DataOf
  <2> DEFINE M == d.media
             c == [x EXCEPT !.units = left]
  <2>4. /\ d = DiskOf(M, d.size, d.freeMap) /\ DiskOK(M, d.size, d.freeMap, L, {})
        /\ M \subseteq Header /\ L \subseteq M /\ \A y, w \in M : y = w \/ Beside(y, w)
    BY DEF Holds, Sound, DiskOK, MediaOK, SpaceOK
  <2>5. ASSUME NEW y \in M, y.at = b PROVE y = x
    <3>1. x \in M /\ y \in Header /\ x \in Header
      BY <2>4
    <3>2. x.at \in Nat /\ End(y) \in Nat /\ End(x) \in Nat /\ y.at < End(y) /\ x.at < End(x) /\ y.at = x.at
      BY <2>3, <2>5, <3>1, HeaderFacts
    <3> QED BY <2>4, <3>1, <3>2 DEF Beside
  <2>6. /\ c \in Header /\ c.at = b /\ c.units = left /\ c.kind = x.kind /\ c.id = x.id /\ c.offset = x.offset
    <3>1. x \in Header
      BY <2>4
    <3> QED BY <2>3, <3>1 DEF Header
  <2> HIDE DEF c
  <2>7. Shrunk(d, f.chunks[k - 1], left) = DiskOf(Written(M, c), d.size, d.freeMap)
    <3>1. (CHOOSE y \in d.media : y.at = f.chunks[k - 1].at) = x
      BY <2>3, <2>4, <2>5
    <3>2. Shrunk(d, f.chunks[k - 1], left) = [d EXCEPT !.media = Written(M, c)]
      BY <3>1 DEF Shrunk, c
    <3>3. [DiskOf(M, d.size, d.freeMap) EXCEPT !.media = Written(M, c)] = DiskOf(Written(M, c), d.size, d.freeMap)
      BY DEF DiskOf
    <3> QED BY <2>4, <3>2, <3>3
  <2> DEFINE K == (L \ {x}) \cup {c}
  <2>8. DiskOK(Written(M, c), d.size, d.freeMap, K, LeftBehind(x, c))
    <3>1. c.at = x.at /\ c.units <= x.units
      <4>1. u \in Nat
        BY <1>2, <2>1, <2>3, SizesLemma
      <4> QED BY <2>1, <2>3, <2>6, <4>1
    <3> QED BY <2>2, <2>4, <2>6, <3>1, RewriteLemma
  <2>9. LeftBehind(x, c) = {Behind(f, k, left)}
    BY <2>3, <2>6 DEF LeftBehind, Behind
  <2> DEFINE s == Shrunk(d, f.chunks[k - 1], left)
  <2>10. Sound(s, K, {Behind(f, k, left)})
    BY <2>7, <2>8, <2>9, DiskOfLemma DEF Sound
  <2>11. x \notin G /\ c \notin G
    BY <1>10, <2>1, <2>2, <2>6
  <2> HIDE DEF s
  <2>12. Sound(s, K \ G, {Behind(f, k, left)} \cup Given(f, k))
    <3>1. G \in SUBSET K
      BY <2>11
    <3> HIDE DEF G, K
    <3> QED BY <1>5, <2>10, <3>1, GivenSound
  <2>13. e = Freed(s, {Behind(f, k, left)} \cup Given(f, k))
    BY <1>12 DEF CutDisk, s
  <2>14. Sound(e, K \ G, {})
    BY <2>12, <2>13, FreedSound
  <2>15. K \ G = (L \ (G \cup {x})) \cup {c}
    BY <2>11
  <2>16. DataOf(c, g) /\ c.offset = k - 1
    BY <1>4, <1>12, <2>1, <2>2, <2>3, <2>6 DEF DataOf
  <2>17. \A m \in L : DataOf(m, f) /\ m.offset = k - 1 => m = x
    BY <2>3, <2>4, <2>5 DEF DataOf
  <2>18. \A m : m.offset \in 0 .. k - 1 /\ m.offset # k - 1 => (DataOf(m, f) <=> DataOf(m, g))
    BY <1>4 DEF DataOf
  <2> HIDE DEF G, e, f, K
  <2> DEFINE J == (L \ (G \cup {x})) \cup {c}
  <2>19. Directory(Put(fs, n, g), I) /\ Backed(Put(fs, n, g), J)
    <3>1. \A m \in G \cup {x} : StartOf(m, n, f) \/ DataOf(m, f)
      BY <1>10, <2>2
    <3>2. \A m \in L \ (G \cup {x}) : StartOf(m, n, f) \/ DataOf(m, f) => StartOf(m, n, g) \/ DataOf(m, g)
      BY <1>6, <1>7, <2>17, <2>18
    <3>3. \A m \in {c} : StartOf(m, n, g) \/ DataOf(m, g)
      BY <2>16
    <3>4. g.start # 0 => \E m \in J : StartOf(m, n, g)
      BY <1>7, <1>8, <1>10, <2>2
    <3>5. \A o \in DOMAIN g.chunks : \E m \in J : DataOf(m, g) /\ m.offset = o
      <4> SUFFICES ASSUME NEW o \in 0 .. k - 1 PROVE \E m \in J : DataOf(m, g) /\ m.offset = o
        BY <1>4
      <4>1. CASE o = k - 1
        BY <2>16, <4>1
      <4>2. CASE o # k - 1
        <5>1. PICK m \in L : DataOf(m, f) /\ m.offset = o
          BY <1>9
        <5> QED BY <1>10, <2>2, <2>18, <4>2, <5>1
      <4> QED BY <4>1, <4>2
    <3>6. Backed(fs, L)
      BY DEF Holds
    <3> QED BY <1>4, <3>1, <3>2, <3>3, <3>4, <3>5, <3>6, ReplacedLemma DEF f
  <2> HIDE DEF J
  <2>20. Sound(e, J, {})
    BY <2>14, <2>15 DEF J
  <2> QED BY <2>19, <2>20 DEF Holds, e, f, g
<1> QED BY <1>11, <1>12

LEMMA PutTwice ==
  ASSUME NEW fs, NEW n, NEW v, NEW w
  PROVE  Put(fs, n, v)[n] = v /\ n \in DOMAIN Put(fs, n, v) /\ Put(Put(fs, n, v), n, w) = Put(fs, n, w)
<1>1. Put(fs, n, v)[n] = v /\ DOMAIN Put(fs, n, v) = DOMAIN fs \cup {n}
      /\ \A x \in DOMAIN fs : x # n => Put(fs, n, v)[x] = fs[x]
  BY DEF Put
<1>2. (DOMAIN fs \cup {n}) \cup {n} = DOMAIN fs \cup {n}
  OBVIOUS
<1>3. PICK gs : gs = Put(fs, n, v)
  OBVIOUS
<1>4. Put(gs, n, w) = [x \in DOMAIN fs \cup {n} |-> IF x = n THEN w ELSE gs[x]]
  BY <1>1, <1>2, <1>3 DEF Put
<1>5. Put(gs, n, w) = [x \in DOMAIN fs \cup {n} |-> IF x = n THEN w ELSE fs[x]]
  BY <1>1, <1>3, <1>4
<1> QED BY <1>1, <1>3, <1>5 DEF Put

LEMMA TruncateOK ==
  ASSUME ContainerInv, NEW n, NEW k \in Nat, NEW units \in ChunkUnits, NEW left \in ChunkUnits,
         Truncate(n, k, units, left)
  PROVE  ContainerInv'
<1>1. InUse /\ phase' = "ready" /\ n \in DOMAIN files /\ ids' = ids /\ FlushFits(Disk, n, units)
      /\ k <= Length(files[n])
  BY DEF Truncate, Ready, Has, InUse
<1>2. PICK L : Holds(Disk, files, L) /\ Directory(files, ids)
  BY <1>1, InUseHolds
<1>3. PICK d, f : d = FlushedDisk(Disk, n, units) /\ f = FlushedFile(Disk, n, units)
  OBVIOUS
<1>4. PICK fs : fs = Put(files, n, f)
  OBVIOUS
<1>5. PICK K : Holds(d, fs, K) /\ Directory(fs, ids) /\ Stored(f) = Length(files[n])
  BY <1>1, <1>2, <1>3, <1>4, FlushFileLemma
<1>6. fs[n] = f /\ n \in DOMAIN fs
      /\ Put(fs, n, CutFile(f, k, left)) = Put(files, n, CutFile(f, k, left))
  BY <1>4, PutTwice
<1>7. PICK J : /\ Directory(Put(files, n, CutFile(f, k, left)), ids)
               /\ Holds(CutDisk(d, f, k, left), Put(files, n, CutFile(f, k, left)), J)
  BY <1>1, <1>5, <1>6, TruncatedLemma
<1>8. SetDisk(CutDisk(d, f, k, left)) /\ files' = Put(files, n, CutFile(f, k, left))
  BY <1>3 DEF Truncate, Shorten, CutDisk, CutFile, Kept, IsCut, Given, Behind
<1>9. Disk' = CutDisk(d, f, k, left)
  BY <1>7, <1>8, SetDiskLemma DEF Holds
<1> QED BY <1>1, <1>7, <1>8, <1>9, ReadyLemma

------------------------------------------------------------------------------
(* What is refused. *)
LEMMA RefusedOK ==
  ASSUME ContainerInv, CloseRefused \/ \E n \in Names : EraseRefused(n) \/ SaveRefused(n)
  PROVE  ContainerInv'
<1>1. phase' = "failed" /\ files' = files /\ ids' = ids
  BY DEF CloseRefused, EraseRefused, SaveRefused
<1>2. FilesOK'
  BY <1>1 DEF ContainerInv, FilesOK, IdentifiersDiffer
<1> QED BY <1>1, <1>2, FailedLemma

(* Each step keeps the invariant. *)
LEMMA ScanStepOK ==
  ASSUME ContainerInv, ScanStep
  PROVE  ContainerInv'
BY ScanFillOK, ScanStartOK, ScanDataOK, ScanFailsOK, ScanEndOK DEF ScanStep

LEMMA TailUnitsLemma ==
  ASSUME NEW n, NEW u \in TailUnits(n)
  PROVE  u \in ChunkUnits
BY ContainerAssumption DEF TailUnits

LEMMA LeftUnitsLemma ==
  ASSUME NEW n, NEW k, NEW u, NEW left \in LeftUnits(n, k, u)
  PROVE  left \in ChunkUnits
BY ContainerAssumption DEF LeftUnits

LEMMA NextOK ==
  ASSUME ~SupportsTruncation, ContainerInv, [Next]_containerVars
  PROVE  ContainerInv'
<1>1. CASE Open
  BY <1>1, OpenOK
<1>2. CASE ScanBegin
  BY <1>2, ScanBeginOK
<1>3. CASE ScanStep
  BY <1>3, ScanStepOK
<1>4. CASE CloseBegin
  BY <1>4, CloseBeginOK
<1>5. CASE CloseStep
  BY <1>5, CloseEndOK, CloseFileOK, TailUnitsLemma DEF CloseStep
<1>6. ASSUME NEW n \in Names,
             NewVirtualFile(n) \/ NewVirtualFileExists(n) \/ Erase(n) \/ \E m \in Names : Rename(n, m)
      PROVE  ContainerInv'
  BY <1>6, NewVirtualFileOK, NewVirtualFileExistsOK, EraseOK, RenameOK
<1>7. ASSUME NEW n \in Names, NEW u \in TailUnits(n),
             Flush(n, u) \/ \E p \in Pieces : AppendTo(n, p, u)
      PROVE  ContainerInv'
  BY <1>7, FlushOK, AppendToOK, TailUnitsLemma
<1>8. ASSUME NEW n \in Names, NEW k \in 0 .. MaxPieces, NEW u \in TailUnits(n), NEW left \in LeftUnits(n, k, u),
             Truncate(n, k, u, left)
      PROVE  ContainerInv'
  BY <1>8, TruncateOK, TailUnitsLemma, LeftUnitsLemma
<1>9. CASE UNCHANGED containerVars
  BY <1>9, StutterOK
<1>10. CASE CloseRefused \/ \E n \in Names : EraseRefused(n) \/ SaveRefused(n)
  BY <1>10, RefusedOK
<1> QED BY <1>1, <1>2, <1>3, <1>4, <1>5, <1>6, <1>7, <1>8, <1>9, <1>10 DEF Next

------------------------------------------------------------------------------
(* What the invariant says of the properties. *)
LEMMA ScanSucceedsLemma ==
  ASSUME ContainerInv
  PROVE  ScanSucceeds
<1> SUFFICES ASSUME Orderly, phase = "scanning", scan < size
             PROVE  \E m \in media : Parses(m)
  BY DEF ScanSucceeds, CloseKeepsMediaReadable
<1>1. PICK L : /\ DiskOK(Scanned, scan, freeMap, L, {}) /\ Backed(files, L) /\ L \subseteq Scanned
               /\ \A m \in Scanned : m.kind = "fill" \/ m \in L
  BY ScanFacts
<1>2. /\ size \in Nat /\ scan \in Nat /\ HeaderUnits \in Nat /\ HeaderUnits <= scan
      /\ MediaOK(media, size) /\ Streams(media)
      /\ \A n \in DOMAIN files : files[n].start # 0
  BY ScanFacts, SizesLemma
<1>3. Covered(media, size)
  BY DEF ContainerInv, StoredInv
<1>4. PICK m \in media : Takes(m, scan)
  BY <1>2, <1>3 DEF Covered
<1>5. m.at = scan
  <2>1. m.at \in Nat /\ End(m) \in Nat /\ m.at <= scan /\ scan < End(m)
    BY <1>2, <1>4, HeaderFacts DEF MediaOK, Takes
  <2>2. m.at < scan => End(m) <= scan
    BY <1>1 DEF Scanned, DiskOK, MediaOK
  <2> QED BY <1>2, <2>1, <2>2
<1>6. ASSUME m.kind = "start", Has(m.name) PROVE FALSE
  <2>1. PICK x \in L : StartOf(x, m.name, files[m.name])
    BY <1>1, <1>2, <1>6 DEF Backed, Has
  <2>2. x \in media /\ x.at < scan
    BY <1>1 DEF Scanned
  <2>3. x = m
    BY <1>2, <1>6, <2>1, <2>2 DEF Streams, StartOf
  <2> QED BY <1>2, <1>5, <2>2, <2>3
<1>7. ASSUME m.kind = "data" PROVE Owner(m) # {}
  <2>1. PICK x \in media : x.kind = "start" /\ x.id = m.id /\ x.at < m.at
    BY <1>2, <1>7 DEF Streams
  <2>2. x \in L
    BY <1>1, <1>5, <2>1 DEF Scanned
  <2>3. PICK n \in DOMAIN files : StartOf(x, n, files[n])
    BY <1>1, <2>1, <2>2 DEF Backed, Owned, DataOf
  <2> QED BY <2>1, <2>3 DEF StartOf, Owner
<1>8. m.kind # "torn"
  BY <1>2 DEF MediaOK, Header
<1> QED BY <1>5, <1>6, <1>7, <1>8 DEF Parses

(* An extent is a header in use with its owner, or a region. *)
LEMMA ExtentsLemma ==
  ASSUME Directory(files, ids), NEW L, Backed(files, L)
  PROVE  /\ \A x \in Extents :
              \/ \E n \in DOMAIN files, m \in L :
                   (StartOf(m, n, files[n]) \/ DataOf(m, files[n])) /\ x = <<n, m.at, End(m)>>
              \/ \E r \in freeMap : x = <<Nobody, r.start, r.end>>
         /\ \A n \in DOMAIN files, m \in L :
              StartOf(m, n, files[n]) \/ DataOf(m, files[n]) => <<n, m.at, End(m)>> \in Extents
         /\ \A r \in freeMap : <<Nobody, r.start, r.end>> \in Extents
<1>1. ASSUME NEW n \in DOMAIN files, NEW c \in ChunksOf(files[n])
      PROVE  \E m \in L : (StartOf(m, n, files[n]) \/ DataOf(m, files[n])) /\ c.at = m.at /\ c.units = m.units
  <2>1. CASE \E o \in DOMAIN files[n].chunks : c = files[n].chunks[o]
    BY <2>1 DEF Backed, DataOf
  <2>2. CASE files[n].start # 0 /\ c = [at |-> files[n].start, units |-> StartUnits]
    <3>1. PICK m \in L : StartOf(m, n, files[n])
      BY <2>2 DEF Backed
    <3> QED BY <2>2, <3>1 DEF StartOf
  <2> QED BY <2>1, <2>2 DEF ChunksOf
<1>2. ASSUME NEW n \in DOMAIN files, NEW m \in L, StartOf(m, n, files[n]) \/ DataOf(m, files[n])
      PROVE  \E c \in ChunksOf(files[n]) : c.at = m.at /\ c.units = m.units
  <2>1. CASE StartOf(m, n, files[n])
    <3>1. [at |-> files[n].start, units |-> StartUnits] \in ChunksOf(files[n])
      BY <2>1 DEF StartOf, ChunksOf
    <3> QED BY <2>1, <3>1 DEF StartOf
  <2>2. CASE DataOf(m, files[n])
    BY <2>2 DEF DataOf, ChunksOf
  <2> QED BY <1>2, <2>1, <2>2
<1>3. \A x \in Extents :
        \/ \E n \in DOMAIN files : \E c \in ChunksOf(files[n]) : x = <<n, c.at, c.at + c.units>>
        \/ \E r \in freeMap : x = <<Nobody, r.start, r.end>>
  BY DEF Extents
<1>4. \A n \in DOMAIN files : \A c \in ChunksOf(files[n]) : <<n, c.at, c.at + c.units>> \in Extents
  BY DEF Extents
<1>5. \A r \in freeMap : <<Nobody, r.start, r.end>> \in Extents
  BY DEF Extents
<1>6. ASSUME NEW n \in DOMAIN files, NEW m \in L, StartOf(m, n, files[n]) \/ DataOf(m, files[n])
      PROVE  <<n, m.at, End(m)>> \in Extents
  BY <1>2, <1>4, <1>6 DEF End
<1>7. ASSUME NEW n \in DOMAIN files, NEW c \in ChunksOf(files[n])
      PROVE  \E m \in L : (StartOf(m, n, files[n]) \/ DataOf(m, files[n]))
                          /\ <<n, c.at, c.at + c.units>> = <<n, m.at, End(m)>>
  <2>1. PICK m \in L : (StartOf(m, n, files[n]) \/ DataOf(m, files[n])) /\ c.at = m.at /\ c.units = m.units
    BY <1>1
  <2> QED BY <2>1 DEF End
<1> QED BY <1>3, <1>5, <1>6, <1>7

LEMMA EveryUnitOnceLemma ==
  ASSUME ContainerInv
  PROVE  EveryUnitOnce
<1> SUFFICES ASSUME phase = "ready", NEW u \in HeaderUnits .. size - 1
             PROVE  Cardinality({x \in Extents : x[2] <= u /\ u < x[3]}) = 1
  BY DEF EveryUnitOnce
<1> DEFINE over == {x \in Extents : x[2] <= u /\ u < x[3]}
<1>1. PICK L : DiskOK(media, size, freeMap, L, {}) /\ Backed(files, L)
  BY DEF ContainerInv, InUseInv, InUse
<1>2. Directory(files, ids)
  BY FilesAreDirectory DEF ContainerInv
<1>3. u \in Nat
  <2>1. HeaderUnits \in Nat /\ size \in Nat
    BY <1>1, SizesLemma DEF DiskOK
  <2> QED BY <2>1
<1> DEFINE OfFile(x, n, m) == (StartOf(m, n, files[n]) \/ DataOf(m, files[n])) /\ x = <<n, m.at, End(m)>>
           OfMap(x, r)     == x = <<Nobody, r.start, r.end>>
<1>4. \A x \in over : \/ \E n \in DOMAIN files, m \in L : OfFile(x, n, m) /\ Takes(m, u)
                      \/ \E r \in freeMap : OfMap(x, r) /\ In(u, r)
  <2> SUFFICES ASSUME NEW x \in over
               PROVE  \/ \E n \in DOMAIN files, m \in L : OfFile(x, n, m) /\ Takes(m, u)
                      \/ \E r \in freeMap : OfMap(x, r) /\ In(u, r)
    OBVIOUS
  <2>1. CASE \E n \in DOMAIN files, m \in L : OfFile(x, n, m)
    BY <2>1 DEF Takes
  <2>2. CASE \E r \in freeMap : OfMap(x, r)
    BY <2>2 DEF In
  <2> QED BY <1>1, <1>2, <2>1, <2>2, ExtentsLemma
<1>5. \E x \in over : TRUE
  <2>1. CASE \E r \in freeMap : In(u, r)
    <3>1. PICK r \in freeMap : In(u, r)
      BY <2>1
    <3>2. <<Nobody, r.start, r.end>> \in over
      BY <1>1, <1>2, <3>1, ExtentsLemma DEF In
    <3> QED BY <3>2
  <2>2. CASE \E m \in L : Takes(m, u)
    <3>1. PICK m \in L : Takes(m, u)
      BY <2>2
    <3>2. PICK n \in DOMAIN files : StartOf(m, n, files[n]) \/ DataOf(m, files[n])
      BY <1>1 DEF Backed, Owned
    <3>3. <<n, m.at, End(m)>> \in over
      BY <1>1, <1>2, <3>1, <3>2, ExtentsLemma DEF Takes
    <3> QED BY <3>3
  <2> QED BY <1>1, <2>1, <2>2 DEF DiskOK, SpaceOK
<1>6. /\ \A m, x \in L : Takes(m, u) /\ Takes(x, u) => m = x
      /\ \A r, q \in freeMap : In(u, r) /\ In(u, q) => r = q
      /\ \A r \in freeMap, m \in L : ~(In(u, r) /\ Takes(m, u))
  <2>1. \A m \in L : m.at \in Nat /\ End(m) \in Nat
    BY <1>1, HeaderFacts DEF DiskOK, MediaOK, SpaceOK
  <2>2. \A r \in freeMap : r.start \in Nat /\ r.end \in Nat
    BY <1>1 DEF DiskOK, MapOK, WellFormed, Region
  <2>3. \A m, x \in L : m = x \/ Beside(m, x)
    BY <1>1 DEF DiskOK, MediaOK, SpaceOK
  <2>4. \A r, q \in freeMap : r = q \/ Apart(r, q)
    BY <1>1 DEF DiskOK, MapOK, WellFormed, DisjointRegions
  <2>5. \A r \in freeMap, m \in L : Clear(r, m)
    BY <1>1 DEF DiskOK, SpaceOK
  <2>6. \A m, x \in L : Takes(m, u) /\ Takes(x, u) => m = x
    BY <1>3, <2>1, <2>3 DEF Takes, Beside
  <2>7. \A r, q \in freeMap : In(u, r) /\ In(u, q) => r = q
    BY <1>3, <2>2, <2>4 DEF In, Apart
  <2>8. \A r \in freeMap, m \in L : ~(In(u, r) /\ Takes(m, u))
    BY <1>3, <2>1, <2>2, <2>5 DEF In, Takes, Clear
  <2> QED BY <2>6, <2>7, <2>8
<1>7. \A x, y \in over : x = y
  <2> SUFFICES ASSUME NEW x \in over, NEW y \in over PROVE x = y
    OBVIOUS
  <2> HIDE DEF over, OfMap
  <2>1. CASE \E r \in freeMap : OfMap(x, r) /\ In(u, r)
    BY <1>4, <1>6, <2>1 DEF OfMap
  <2>2. CASE \E n \in DOMAIN files, m \in L : OfFile(x, n, m) /\ Takes(m, u)
    <3>1. PICK n \in DOMAIN files, m \in L : OfFile(x, n, m) /\ Takes(m, u)
      BY <2>2
    <3>2. PICK k \in DOMAIN files, w \in L : OfFile(y, k, w) /\ Takes(w, u)
      BY <1>4, <1>6, <3>1
    <3>3. m = w
      BY <1>6, <3>1, <3>2
    <3>4. n = k
      BY <1>2, <3>1, <3>2, <3>3, OwnerIsOne
    <3> QED BY <3>1, <3>2, <3>3, <3>4
  <2> QED BY <1>4, <2>1, <2>2
<1>8. PICK x : over = {x}
  <2> HIDE DEF over
  <2> QED BY <1>5, <1>7
<1> QED BY <1>8, FS_Singleton

------------------------------------------------------------------------------
(* The setting of a behaviour stays as it is. *)
LEMMA SettingKept ==
  ASSUME [Next]_containerVars
  PROVE  setting' = setting
<1>1. ASSUME NEW n \in Names,
             \/ NewVirtualFile(n) \/ NewVirtualFileExists(n) \/ \E m \in Names : Rename(n, m)
             \/ Erase(n) \/ EraseRefused(n) \/ SaveRefused(n)
             \/ \E u \in TailUnits(n) : \/ Flush(n, u) \/ \E p \in Pieces : AppendTo(n, p, u)
                                      \/ \E k \in 0 .. MaxPieces : \E left \in LeftUnits(n, k, u) : Truncate(n, k, u, left)
      PROVE  setting' = setting
  BY <1>1 DEF NewVirtualFile, NewVirtualFileExists, Erase, EraseRefused, SaveRefused, Rename, Flush, AppendTo,
              Truncate
<1>2. CASE Open \/ ScanBegin \/ ScanStep \/ CloseBegin \/ CloseRefused
  BY <1>2 DEF Open, ScanBegin, ScanStep, ScanFill, ScanStart, ScanData, ScanFails, ScanEnd, CloseBegin,
              CloseRefused
<1>3. CASE CloseStep
  BY <1>3 DEF CloseStep, CloseFile, CloseEnd
<1>4. CASE UNCHANGED containerVars
  BY <1>4 DEF containerVars
<1> QED BY <1>1, <1>2, <1>3, <1>4 DEF Next

(* A container that does not truncate its media stays in order, whatever   *)
(* is done with it and however often it is opened again.                   *)
THEOREM ContainerInvariant == Spec /\ ~SupportsTruncation => []ContainerInv
<1>1. ContainerInv /\ ~SupportsTruncation /\ [Next]_containerVars => ContainerInv' /\ ~SupportsTruncation'
  BY NextOK, SettingKept DEF SupportsTruncation
<1> QED BY <1>1, InitOK, PTL DEF Spec

(* A pass over the media meets a file's start chunk before its data, and   *)
(* its data in order.                                                      *)
THEOREM StreamsAlwaysOrdered == Spec /\ ~SupportsTruncation => []StreamOrder
<1>1. ContainerInv => StreamOrder
  BY DEF ContainerInv, FilesOK, StreamOrder
<1> QED BY <1>1, ContainerInvariant, PTL

(* No two files of the directory share a stream identifier, be they new or *)
(* found by a scan.                                                        *)
THEOREM IdentifiersAlwaysDiffer == Spec /\ ~SupportsTruncation => []IdentifiersDiffer
<1>1. ContainerInv => IdentifiersDiffer
  BY DEF ContainerInv, FilesOK
<1> QED BY <1>1, ContainerInvariant, PTL

(* In a container that is ready every unit is in one chunk of one file or  *)
(* in one free region.                                                     *)
THEOREM EveryUnitAlwaysOnce == Spec /\ ~SupportsTruncation => []EveryUnitOnce
<1>1. ContainerInv => EveryUnitOnce
  BY EveryUnitOnceLemma
<1> QED BY <1>1, ContainerInvariant, PTL

(* A scan of a container that was closed with its files flushed never      *)
(* fails.                                                                  *)
THEOREM ScansAlwaysSucceed == Spec /\ ~SupportsTruncation => []ScanSucceeds
<1>1. ContainerInv => ScanSucceeds
  BY ScanSucceedsLemma
<1> QED BY <1>1, ContainerInvariant, PTL

------------------------------------------------------------------------------
(* Container implements Archive, and its media parses where no region      *)
(* waits to be flushed.  The pieces of a file on a media M.                *)
PieceOn(M, f, o) ==
  LET ms == {m \in M : m.at = f.chunks[o].at /\ m.kind = "data" /\ m.id = f.id /\ m.offset = o}
  IN  IF ms = {} THEN NoPiece ELSE (CHOOSE m \in ms : TRUE).data
PiecesOn(M, f) ==
  [i \in 1 .. Stored(f) |-> IF i - 1 \in DOMAIN f.chunks THEN PieceOn(M, f, i - 1) ELSE NoPiece]
Contents(M, fs) == [n \in DOMAIN fs |-> PiecesOn(M, fs[n]) \o fs[n].tail]

LEMMA FilesArchiveIs ==
  /\ \A f : StoredPieces(f) = PiecesOn(media, f)
  /\ FilesArchive = Contents(media, files) /\ FilesArchive' = Contents(media', files')
<1>1. \A f : StoredPieces(f) = PiecesOn(media, f)
  BY DEF StoredPieces, PiecesOn, PieceAt, PieceOn
<1>2. \A f : StoredPieces(f)' = PiecesOn(media', f)
  BY DEF StoredPieces, PiecesOn, PieceAt, PieceOn
<1>3. FilesArchive = Contents(media, files)
  BY DEF FilesArchive, Contents, StoredPieces, PiecesOn, PieceAt, PieceOn
<1>4. FilesArchive' = Contents(media', files')
  BY DEF FilesArchive, Contents, StoredPieces, PiecesOn, PieceAt, PieceOn
<1> QED BY <1>1, <1>3, <1>4

(* A header that is that of a piece holds it. *)
LEMMA HeldPiece ==
  ASSUME NEW M, M \subseteq Header, \A m, x \in M : m = x \/ Beside(m, x),
         NEW f, NEW m \in M, DataOf(m, f)
  PROVE  PieceOn(M, f, m.offset) = m.data
<1> DEFINE ms == {x \in M : x.at = f.chunks[m.offset].at /\ x.kind = "data" /\ x.id = f.id /\ x.offset = m.offset}
<1>1. m \in ms
  BY DEF DataOf
<1>2. ASSUME NEW x \in ms PROVE x = m
  <2>1. x.at = m.at /\ x \in M
    BY DEF DataOf
  <2>2. x.at \in Nat /\ m.at \in Nat /\ End(x) \in Nat /\ End(m) \in Nat /\ x.at < End(x) /\ m.at < End(m)
    BY <2>1, HeaderFacts
  <2> QED BY <2>1, <2>2 DEF Beside
<1>3. PieceOn(M, f, m.offset) = IF ms = {} THEN NoPiece ELSE (CHOOSE x \in ms : TRUE).data
  BY DEF PieceOn
<1> HIDE DEF ms
<1>4. (CHOOSE x \in ms : TRUE) \in ms
  BY <1>1
<1> QED BY <1>1, <1>2, <1>3, <1>4

(* The media that files are on has no header twice. *)
LEMMA HoldsFacts ==
  ASSUME NEW d, NEW fs, NEW L, Holds(d, fs, L)
  PROVE  /\ d.media \subseteq Header /\ \A m, x \in d.media : m = x \/ Beside(m, x)
         /\ L \subseteq d.media /\ Backed(fs, L)
BY DEF Holds, Sound, DiskOK, MediaOK, SpaceOK

(* The stored pieces are a sequence. *)
Contained == Pieces \cup {NoPiece}

LEMMA PiecesAre ==
  ASSUME NEW M, M \subseteq Header, NEW f \in File
  PROVE  /\ Stored(f) \in Nat /\ PiecesOn(M, f) = [i \in 1 .. Stored(f) |-> PieceOn(M, f, i - 1)]
         /\ PiecesOn(M, f) \in Seq(Contained) /\ Len(PiecesOn(M, f)) = Stored(f)
         /\ \A i \in 1 .. Stored(f) : PiecesOn(M, f)[i] = PieceOn(M, f, i - 1)
<1>1. PICK k \in Nat : k = Stored(f) /\ DOMAIN f.chunks = 0 .. k - 1
  BY FileFacts
<1>2. \A i \in 1 .. k : i - 1 \in 0 .. k - 1
  OBVIOUS
<1>3. PiecesOn(M, f) = [i \in 1 .. k |-> PieceOn(M, f, i - 1)]
  BY <1>1, <1>2 DEF PiecesOn
<1>4. ASSUME NEW o PROVE PieceOn(M, f, o) \in Contained
  <2> DEFINE ms == {x \in M : x.at = f.chunks[o].at /\ x.kind = "data" /\ x.id = f.id /\ x.offset = o}
  <2>1. PieceOn(M, f, o) = IF ms = {} THEN NoPiece ELSE (CHOOSE x \in ms : TRUE).data
    BY DEF PieceOn
  <2>2. \A x \in ms : x.data \in Contained
    BY DEF Header, Contained
  <2>3. NoPiece \in Contained
    BY DEF Contained
  <2> HIDE DEF ms
  <2>4. ms # {} => (CHOOSE x \in ms : TRUE) \in ms
    OBVIOUS
  <2> QED BY <2>1, <2>2, <2>3, <2>4
<1>5. [i \in 1 .. k |-> PieceOn(M, f, i - 1)] \in [1 .. k -> Contained]
  BY <1>4
<1> QED BY <1>1, <1>3, <1>5, RowLemma

(* So is what a reader gets of a file, its tail included. *)
LEMMA ContentIs ==
  ASSUME NEW M, M \subseteq Header, NEW f \in File
  PROVE  LET s == PiecesOn(M, f)
         IN  /\ s \in Seq(Contained) /\ s \o f.tail \in Seq(Contained) /\ Len(s \o f.tail) = Length(f)
             /\ f.tail = <<>> => s \o f.tail = s
             /\ \A p : f.tail = <<p>> => p \in Contained /\ s \o f.tail = Append(s, p)
<1> DEFINE s == PiecesOn(M, f)
<1>1. s \in Seq(Contained) /\ Len(s) = Stored(f) /\ Stored(f) \in Nat
  BY PiecesAre
<1> HIDE DEF s
<1>2. CASE f.tail = <<>>
  <2>1. s \o <<>> = s /\ Len(<<>>) = 0 /\ \A p : <<>> # <<p>>
    BY <1>1
  <2> QED BY <1>1, <1>2, <2>1 DEF Length, s
<1>3. ASSUME NEW p \in Pieces, f.tail = <<p>>
      PROVE  /\ s \o f.tail \in Seq(Contained) /\ Len(s \o f.tail) = Length(f)
             /\ f.tail # <<>>
             /\ \A q : f.tail = <<q>> => q \in Contained /\ s \o f.tail = Append(s, q)
  <2>1. p \in Contained
    BY DEF Contained
  <2>2. s \o <<p>> = Append(s, p) /\ Append(s, p) \in Seq(Contained) /\ Len(Append(s, p)) = Stored(f) + 1
    BY <1>1, <2>1
  <2>3. Len(<<p>>) = 1 /\ <<p>> # <<>> /\ \A q : <<p>> = <<q>> => q = p
    OBVIOUS
  <2> QED BY <1>3, <2>1, <2>2, <2>3 DEF Length
<1> QED BY <1>1, <1>2, <1>3, FileFacts DEF s

------------------------------------------------------------------------------
(* A file keeps its pieces while its headers stay. *)
Separate(M) == M \subseteq Header /\ \A m, x \in M : m = x \/ Beside(m, x)
Laid(M, f)  == \A o \in DOMAIN f.chunks : \E m \in M : DataOf(m, f) /\ m.offset = o

LEMMA HoldsLaid ==
  ASSUME NEW d, NEW fs, NEW L, Holds(d, fs, L)
  PROVE  Separate(d.media) /\ \A n \in DOMAIN fs : Laid(d.media, fs[n])
BY HoldsFacts DEF Separate, Laid, Backed

LEMMA PiecesStay ==
  ASSUME NEW M, Separate(M), NEW N, Separate(N), NEW f \in File, NEW g \in File,
         g.chunks = f.chunks, g.id = f.id, Laid(N, g), \A m \in N : m \in M \/ ~DataOf(m, f)
  PROVE  PiecesOn(N, g) = PiecesOn(M, f)
<1>1. \A m : DataOf(m, g) <=> DataOf(m, f)
  BY DEF DataOf
<1>2. ASSUME NEW o \in DOMAIN f.chunks PROVE PieceOn(N, g, o) = PieceOn(M, f, o)
  <2>1. PICK m \in N : DataOf(m, g) /\ m.offset = o
    BY DEF Laid
  <2>2. m \in M /\ DataOf(m, f)
    BY <1>1, <2>1
  <2> QED BY <2>1, <2>2, HeldPiece DEF Separate
<1>3. Stored(g) = Stored(f) /\ Stored(f) \in Nat /\ \A i \in 1 .. Stored(f) : i - 1 \in DOMAIN f.chunks
  <2>1. \A k \in Nat : \A i \in 1 .. k : i - 1 \in 0 .. k - 1
    OBVIOUS
  <2> QED BY <2>1, FileFacts DEF Stored
<1>4. \A i \in 1 .. Stored(f) : PieceOn(N, g, i - 1) = PieceOn(M, f, i - 1)
  BY <1>2, <1>3
<1>5. /\ PiecesOn(N, g) = [i \in 1 .. Stored(f) |-> PieceOn(N, g, i - 1)]
      /\ PiecesOn(M, f) = [i \in 1 .. Stored(f) |-> PieceOn(M, f, i - 1)]
  BY <1>3, PiecesAre DEF Separate
<1> QED BY <1>4, <1>5

------------------------------------------------------------------------------
(* A media whose headers lie apart and cover it is walked from end to end. *)
LEMMA ReachedLemma ==
  ASSUME length \in Nat, HeaderUnits <= length, MediaOK(media, length), Covered(media, length)
  PROVE  Reached = media
<1> DEFINE Here(p) == {m \in media : m.at = p}
           From(p) == {m \in media : p <= m.at}
           Begins(p) == p = length \/ Here(p) # {}
           Rec(g) == [p \in HeaderUnits .. length |->
                        {m \in media : m.at = p} \cup
                        UNION {g[m.at + m.units] : m \in {m \in media : m.at = p /\ m.at + m.units <= length}}]
           g == [p \in HeaderUnits .. length |-> IF Begins(p) THEN From(p) ELSE {}]
           f == CHOOSE h : h = Rec(h)
<1>1. HeaderUnits \in Nat /\ \A m \in media : /\ m.at \in Nat /\ End(m) \in Nat /\ m.at < End(m)
                                              /\ HeaderUnits <= m.at /\ End(m) <= length
  BY SizesLemma, HeaderFacts DEF MediaOK
<1>2. \A m, x \in media : m = x \/ End(m) <= x.at \/ End(x) <= m.at
  BY DEF MediaOK, Beside
<1>3. ASSUME NEW p \in HeaderUnits .. length, NEW m \in media, m.at = p
      PROVE  /\ Here(p) = {m} /\ End(m) \in p + 1 .. length /\ Begins(End(m))
             /\ From(p) = {m} \cup From(End(m))
  <2>1. End(m) \in p + 1 .. length /\ p \in Nat
    BY <1>1, <1>3
  <2>2. \A x \in media : x.at = p => x = m
    BY <1>1, <1>2, <1>3
  <2>3. \A x \in media : p <= x.at => x = m \/ End(m) <= x.at
    BY <1>1, <1>2, <1>3
  <2>4. \A x \in media : End(m) <= x.at => p <= x.at
    BY <1>1, <1>3
  <2>5. ASSUME End(m) # length PROVE \E x \in media : x.at = End(m)
    <3>1. End(m) \in HeaderUnits .. length - 1
      BY <1>1, <2>1, <2>5
    <3>2. PICK x \in media : Takes(x, End(m))
      BY <3>1 DEF Covered
    <3>3. x.at <= End(m) /\ End(m) < End(x)
      BY <3>2 DEF Takes
    <3>4. x # m
      BY <1>1, <3>3
    <3>5. End(m) <= x.at
      BY <1>1, <1>2, <3>3, <3>4
    <3> QED BY <1>1, <3>3, <3>5
  <2> QED BY <1>3, <2>1, <2>2, <2>3, <2>4, <2>5
<1>4. Here(length) = {} /\ From(length) = {}
  BY <1>1
<1>5. ASSUME NEW h, NEW p \in HeaderUnits .. length, NEW m \in media, m.at = p
      PROVE  Rec(h)[p] = {m} \cup h[End(m)]
  <2>1. {x \in media : x.at = p} = {m} /\ m.at + m.units = End(m) /\ End(m) <= length
    BY <1>3, <1>5 DEF End
  <2>2. {x \in media : x.at = p /\ x.at + x.units <= length} = {m}
    BY <2>1
  <2>3. UNION {h[x.at + x.units] : x \in {m}} = h[End(m)]
    BY <2>1
  <2> QED BY <2>1, <2>2, <2>3
<1>6. ASSUME NEW h, NEW p \in HeaderUnits .. length, Here(p) = {}
      PROVE  Rec(h)[p] = {}
  BY <1>6
<1>7. g = Rec(g)
  <2>1. \A p \in HeaderUnits .. length : g[p] = Rec(g)[p]
    <3> SUFFICES ASSUME NEW p \in HeaderUnits .. length PROVE g[p] = Rec(g)[p]
      OBVIOUS
    <3>1. CASE Here(p) = {}
      <4>1. g[p] = {}
        BY <1>4, <3>1
      <4> HIDE DEF Rec, g
      <4> QED BY <1>6, <3>1, <4>1
    <3>2. CASE Here(p) # {}
      <4>1. PICK m \in media : m.at = p
        BY <3>2
      <4>2. g[p] = From(p) /\ g[End(m)] = From(End(m))
        <5>1. End(m) \in HeaderUnits .. length /\ Begins(End(m)) /\ Begins(p)
          BY <1>1, <1>3, <3>2, <4>1
        <5> QED BY <5>1
      <4> HIDE DEF Rec, g
      <4> QED BY <1>3, <1>5, <4>1, <4>2
    <3> QED BY <3>1, <3>2
  <2>2. DOMAIN g = HeaderUnits .. length /\ DOMAIN Rec(g) = HeaderUnits .. length
        /\ g = [p \in HeaderUnits .. length |-> g[p]] /\ Rec(g) = [p \in HeaderUnits .. length |-> Rec(g)[p]]
    OBVIOUS
  <2> HIDE DEF Rec, g
  <2> QED BY <2>1, <2>2
<1>8. f = Rec(f)
  <2> HIDE DEF g
  <2> QED BY <1>7
<1>9. Reached = f[HeaderUnits]
  <2>1. ~(length < HeaderUnits)
    BY <1>1
  <2> QED BY <2>1 DEF Reached
<1> HIDE DEF f
<1> DEFINE Short == {p \in HeaderUnits .. length : f[p] # g[p]}
<1>10. Short = {}
  <2>1. SUFFICES ASSUME Short # {} PROVE FALSE
    OBVIOUS
  <2>2. Short \subseteq Nat /\ \A q \in Short : q <= length
    BY <1>1
  <2>3. PICK p \in Short : \A c \in Short : p >= c
    <3> HIDE DEF Short
    <3> QED BY <2>1, <2>2, LargestOf
  <2>4. p \in HeaderUnits .. length /\ f[p] # g[p]
    BY <2>3
  <2>5. f[p] = Rec(f)[p] /\ g[p] = Rec(g)[p]
    <3> HIDE DEF Rec, g
    <3> QED BY <1>7, <1>8
  <2>6. PICK m \in media : m.at = p
    <3>1. Here(p) # {}
      <4> HIDE DEF Rec, g
      <4> QED BY <1>6, <2>4, <2>5
    <3> QED BY <3>1
  <2>7. End(m) \in HeaderUnits .. length /\ End(m) > p
    BY <1>1, <1>3, <2>4, <2>6
  <2>8. f[End(m)] = g[End(m)]
    <3> HIDE DEF g
    <3> QED BY <2>2, <2>3, <2>7
  <2> HIDE DEF Rec, g
  <2>9. Rec(f)[p] = {m} \cup f[End(m)]
    BY <1>5, <2>4, <2>6
  <2>10. Rec(g)[p] = {m} \cup g[End(m)]
    BY <1>5, <2>4, <2>6
  <2> QED BY <2>4, <2>5, <2>8, <2>9, <2>10
<1>11. g[HeaderUnits] = From(HeaderUnits)
  <2>1. Begins(HeaderUnits)
    <3>1. CASE HeaderUnits = length
      BY <3>1
    <3>2. CASE HeaderUnits # length
      <4>1. HeaderUnits \in HeaderUnits .. length - 1
        BY <1>1, <3>2
      <4>2. PICK m \in media : Takes(m, HeaderUnits)
        BY <4>1 DEF Covered
      <4>3. m.at = HeaderUnits
        BY <1>1, <4>2 DEF Takes
      <4> QED BY <4>3
    <3> QED BY <3>1, <3>2
  <2>2. HeaderUnits \in HeaderUnits .. length
    BY <1>1
  <2> QED BY <2>1, <2>2
<1>12. From(HeaderUnits) = media
  BY <1>1
<1>13. f[HeaderUnits] = g[HeaderUnits]
  <2>1. HeaderUnits \in HeaderUnits .. length
    BY <1>1
  <2> HIDE DEF g
  <2> QED BY <1>10, <2>1
<1> QED BY <1>9, <1>11, <1>12, <1>13

------------------------------------------------------------------------------
(* A clean disk shows the directory: every start chunk is a file's, and    *)
(* every data chunk of its identifier a piece of it. *)
DataHeaders(M, f) == {m \in M : m.kind = "data" /\ m.id = f.id}

LEMMA DataHeadersAre ==
  ASSUME NEW M, Separate(M), NEW f \in File, Laid(M, f),
         \A m \in DataHeaders(M, f) : DataOf(m, f)
  PROVE  /\ Cardinality(DataHeaders(M, f)) = Stored(f)
         /\ \A o \in DOMAIN f.chunks :
              /\ \E m \in DataHeaders(M, f) : m.offset = o
              /\ \A m \in DataHeaders(M, f) : m.offset = o => m.data = PieceOn(M, f, o)
<1> DEFINE ds == DataHeaders(M, f)
           b == [o \in DOMAIN f.chunks |-> CHOOSE m \in ds : m.offset = o]
<1>1. \A o \in DOMAIN f.chunks : \E m \in ds : m.offset = o
  BY DEF Laid, DataHeaders, DataOf
<1>2. ds \subseteq M /\ \A m \in ds : DataOf(m, f) /\ m.offset \in DOMAIN f.chunks
  BY DEF DataHeaders, DataOf
<1>3. \A m \in ds : m.data = PieceOn(M, f, m.offset)
  BY <1>2, HeldPiece DEF Separate
<1>4. ASSUME NEW m \in ds, NEW x \in ds, m.offset = x.offset PROVE m = x
  <2>1. m.at = x.at
    BY <1>2, <1>4 DEF DataOf
  <2>2. m.at \in Nat /\ x.at \in Nat /\ End(m) > m.at /\ End(x) > x.at /\ End(m) \in Nat /\ End(x) \in Nat
    BY <1>2, HeaderFacts DEF Separate
  <2> QED BY <1>2, <2>1, <2>2 DEF Separate, Beside
<1> HIDE DEF ds
<1>5. \A o \in DOMAIN f.chunks : b[o] \in ds /\ b[o].offset = o
  BY <1>1
<1>6. b \in Bijection(DOMAIN f.chunks, ds)
  <2>1. b \in [DOMAIN f.chunks -> ds]
    BY <1>5
  <2>2. \A o, q \in DOMAIN f.chunks : b[o] = b[q] => o = q
    BY <1>5
  <2>3. \A m \in ds : \E o \in DOMAIN f.chunks : b[o] = m
    BY <1>2, <1>4, <1>5
  <2> HIDE DEF b
  <2> QED BY <2>1, <2>2, <2>3 DEF Bijection, Injection, Surjection, IsInjective
<1>7. ExistsBijection(DOMAIN f.chunks, ds)
  BY <1>6, Zenon DEF ExistsBijection
<1>8. IsFiniteSet(DOMAIN f.chunks)
  <2>1. \A k \in Nat : IsFiniteSet(0 .. k - 1)
    BY FS_Interval
  <2> QED BY <2>1, FileFacts
<1>9. Cardinality(ds) = Stored(f)
  <2>1. PICK k \in Nat : k = Stored(f) /\ DOMAIN f.chunks = 0 .. k - 1
    BY FileFacts
  <2>2. Cardinality(0 .. k - 1) = IF 0 > k - 1 THEN 0 ELSE k - 1 - 0 + 1
    BY FS_Interval
  <2>3. Cardinality(0 .. k - 1) = k
    BY <2>2
  <2>4. Cardinality(ds) = Cardinality(DOMAIN f.chunks)
    BY <1>7, <1>8, FS_Bijection
  <2> QED BY <2>1, <2>3, <2>4
<1> QED BY <1>1, <1>3, <1>9 DEF ds

Started(fs) == {n \in DOMAIN fs : fs[n].start # 0}

LEMMA MediaFileIs ==
  ASSUME Reached = media, Separate(media), NEW I, Directory(files, I),
         NEW L, \A m \in media : m.kind = "fill" \/ m \in L, L \subseteq media, Backed(files, L)
  PROVE  /\ {m.name : m \in MediaStarts} = Started(files)
         /\ \A n \in Started(files) : MediaFile(n) = PiecesOn(media, files[n])
<1>1. MediaStarts = {m \in media : m.kind = "start"}
  BY DEF MediaStarts
<1>2. \A m \in media : m.kind # "fill" => Owned(files, m)
  BY DEF Backed
<1>3. \A m \in MediaStarts : m.name \in DOMAIN files /\ StartOf(m, m.name, files[m.name])
  BY <1>1, <1>2 DEF Owned, StartOf, DataOf
<1>4. \A n \in Started(files) : \E m \in MediaStarts : m.name = n
  BY <1>1 DEF Started, Backed, StartOf
<1>5. {m.name : m \in MediaStarts} = Started(files)
  BY <1>3, <1>4 DEF Started, StartOf
<1>6. ASSUME NEW n \in Started(files) PROVE MediaFile(n) = PiecesOn(media, files[n])
  <2> DEFINE f == files[n]
             s == CHOOSE m \in MediaStarts : m.name = n
  <2>1. f \in File /\ n \in DOMAIN files
    BY DEF Started, Directory
  <2>2. s \in MediaStarts /\ s.name = n
    BY <1>4
  <2> HIDE DEF s
  <2>3. s.id = f.id
    BY <1>3, <2>2 DEF StartOf
  <2>4. {m \in Reached : m.kind = "data" /\ m.id = s.id} = DataHeaders(media, f)
    BY <2>3 DEF DataHeaders
  <2>5. \A m \in DataHeaders(media, f) : DataOf(m, f)
    <3> SUFFICES ASSUME NEW m \in DataHeaders(media, f) PROVE DataOf(m, f)
      OBVIOUS
    <3>1. m.kind = "data" /\ m.id = f.id /\ m \in media
      BY DEF DataHeaders
    <3>2. PICK x \in DOMAIN files : DataOf(m, files[x])
      BY <1>2, <3>1 DEF Owned, StartOf
    <3>3. x = n
      BY <2>1, <3>1, <3>2 DEF Directory, DataOf
    <3> QED BY <3>2, <3>3
  <2>6. Laid(media, f)
    BY <2>1 DEF Laid, Backed
  <2> DEFINE ds == DataHeaders(media, f)
  <2>7. /\ Cardinality(ds) = Stored(f)
        /\ \A o \in DOMAIN f.chunks : /\ \E m \in ds : m.offset = o
                                      /\ \A m \in ds : m.offset = o => m.data = PieceOn(media, f, o)
    BY <2>1, <2>5, <2>6, DataHeadersAre
  <2>8. MediaFile(n) = [i \in 1 .. Cardinality(ds) |->
           IF \E m \in ds : m.offset = i - 1 THEN (CHOOSE m \in ds : m.offset = i - 1).data ELSE NoPiece]
    BY <2>4 DEF MediaFile, s
  <2> HIDE DEF ds, f
  <2>9. \A o \in DOMAIN f.chunks : (CHOOSE m \in ds : m.offset = o).data = PieceOn(media, f, o)
    BY <2>7
  <2>10. \A i \in 1 .. Stored(f) : i - 1 \in DOMAIN f.chunks
    <3>1. \A k \in Nat : \A i \in 1 .. k : i - 1 \in 0 .. k - 1
      OBVIOUS
    <3> QED BY <2>1, <3>1, FileFacts
  <2>11. MediaFile(n) = [i \in 1 .. Stored(f) |-> PieceOn(media, f, i - 1)]
    BY <2>7, <2>8, <2>9, <2>10
  <2>12. PiecesOn(media, f) = [i \in 1 .. Stored(f) |-> PieceOn(media, f, i - 1)]
    BY <2>1, PiecesAre DEF Separate
  <2> QED BY <2>11, <2>12 DEF f
<1> QED BY <1>5, <1>6

LEMMA ShownDirectory ==
  ASSUME length = size, NEW map, NEW L, DiskOK(media, size, map, L, {}), \A r \in map : ~r.dirty,
         NEW I, Directory(files, I), Backed(files, L)
  PROVE  MediaArchive = [n \in Started(files) |-> PiecesOn(media, files[n])]
<1>1. /\ size \in Nat /\ HeaderUnits <= size /\ MediaOK(media, size) /\ L \subseteq media
      /\ \A m \in media : m.kind = "fill" \/ m \in L
  BY DEF DiskOK, SpaceOK, ShownOK
<1>2. Covered(media, size)
  <2> SUFFICES ASSUME NEW u \in HeaderUnits .. size - 1 PROVE \E m \in media : Takes(m, u)
    BY DEF Covered
  <2>1. (\E r \in map : In(u, r)) \/ (\E m \in L : Takes(m, u))
    BY DEF DiskOK, SpaceOK
  <2>2. CASE \E r \in map : In(u, r)
    <3>1. PICK r \in map : In(u, r)
      BY <2>2
    <3>2. r.start \in Nat /\ r.end \in Nat
      BY DEF DiskOK, MapOK, WellFormed, Region
    <3>3. u \in r.start .. r.end - 1
      BY <1>1, <3>1, <3>2, SizesLemma DEF In
    <3> QED BY <3>3 DEF DiskOK, ShownOK
  <2> QED BY <1>1, <2>1, <2>2
<1>3. Reached = media
  BY <1>1, <1>2, ReachedLemma
<1>4. Separate(media)
  BY <1>1 DEF MediaOK, Separate
<1>5. /\ {m.name : m \in MediaStarts} = Started(files)
      /\ \A n \in Started(files) : MediaFile(n) = PiecesOn(media, files[n])
  BY <1>1, <1>3, <1>4, MediaFileIs
<1> QED BY <1>5 DEF MediaArchive

------------------------------------------------------------------------------
(* While no region waits to be flushed, the media shows every started file. *)
LEMMA CleanMediaLemma ==
  ASSUME ContainerInv
  PROVE  CleanMediaParses
<1> SUFFICES ASSUME phase = "ready", \A r \in freeMap : ~r.dirty
             PROVE  MediaArchive = [n \in {n \in DOMAIN files : files[n].start # 0} |-> StoredPieces(files[n])]
  BY DEF CleanMediaParses
<1>1. InUse
  BY DEF InUse
<1>2. PICK L : length = size /\ DiskOK(media, size, freeMap, L, {}) /\ Backed(files, L)
  BY <1>1 DEF ContainerInv, InUseInv
<1>3. Directory(files, ids)
  BY <1>1, InUseHolds
<1>4. MediaArchive = [n \in Started(files) |-> PiecesOn(media, files[n])]
  BY <1>2, <1>3, ShownDirectory
<1>5. \A f : StoredPieces(f) = PiecesOn(media, f)
  BY FilesArchiveIs
<1> QED BY <1>4, <1>5 DEF Started

------------------------------------------------------------------------------
(* What a flush of a file makes of the pieces.  The start chunk is none. *)
LEMMA OthersStay ==
  ASSUME NEW d, NEW fs, NEW I, NEW L, Directory(fs, I), Holds(d, fs, L),
         NEW e, NEW gs, NEW J, NEW K, Directory(gs, J), Holds(e, gs, K),
         NEW x \in DOMAIN fs, NEW y \in DOMAIN gs,
         gs[y].chunks = fs[x].chunks, gs[y].id = fs[x].id,
         \A m \in e.media : m \in d.media \/ ~DataOf(m, fs[x])
  PROVE  PiecesOn(e.media, gs[y]) = PiecesOn(d.media, fs[x])
<1>1. fs[x] \in File /\ gs[y] \in File
  BY DEF Directory
<1>2. Separate(d.media) /\ Separate(e.media) /\ Laid(e.media, gs[y])
  BY HoldsLaid
<1> QED BY <1>1, <1>2, PiecesStay

(* So does a chunk that is saved again where it lies. *)
LEMMA InPlaceLemma ==
  ASSUME NEW M, Separate(M), NEW x \in M, NEW c \in Header, c.at = x.at
  PROVE  c \in Written(M, c) /\ Written(M, c) \subseteq M \cup {c}
<1>1. M \in SUBSET Header
  BY DEF Separate
<1>2. ASSUME NEW m \in M, m.at < c.at PROVE End(m) <= c.at
  <2>1. m.at \in Nat /\ x.at \in Nat /\ End(x) \in Nat /\ End(m) \in Nat /\ x.at < End(x)
    BY <1>1, HeaderFacts
  <2> QED BY <1>2, <2>1 DEF Separate, Beside
<1>3. Written(M, c) = {m \in M : m.at < c.at \/ End(c) <= m.at} \cup {c}
  BY <1>1, <1>2, WrittenLemma
<1> QED BY <1>3

LEMMA FreedMedia ==
  ASSUME NEW d, NEW M, NEW z, NEW map, d = DiskOf(M, z, map), NEW A
  PROVE  Freed(d, A).media = M
BY DEF Freed, DiskOf

(* The chunk that is saved is on the media then, and nothing else that was *)
(* not. *)
LEMMA SavedMedia ==
  ASSUME NEW d, NEW L, Sound(d, L, {}),
         NEW from \in Nat, from = 0 \/ \E m \in L : m.at = from,
         NEW minimum \in Nat, NEW desired \in Nat, 1 <= minimum, minimum <= desired,
         NEW chunk \in Header, Fits(d, from, minimum, desired, chunk.units)
  PROVE  LET c == SavedChunk(d, from, minimum, desired, chunk)
             e == Saved(d, from, minimum, desired, chunk)
         IN  c \in e.media /\ e.media \subseteq d.media \cup {c}
<1>1. SavedWell(d, L, from, minimum, desired, chunk)
  BY SavedLemma
<1> QED BY <1>1 DEF SavedWell, Sound, DiskOK, SpaceOK

LEMMA StartContents ==
  ASSUME NEW d, NEW fs, NEW I, NEW L, Directory(fs, I), Holds(d, fs, L),
         NEW n \in DOMAIN fs, StartFits(d, fs[n])
  PROVE  LET e == StartSaved(d, n, fs[n])
             f == StartedFile(d, fs[n])
         IN  \A x \in DOMAIN fs : PiecesOn(e.media, Put(fs, n, f)[x]) = PiecesOn(d.media, fs[x])
<1> DEFINE chunk == Chunk("start", StartUnits, fs[n].id, n, 0, NoPiece)
           c == SavedChunk(d, 0, StartUnits, StartUnits, chunk)
<1>1. PICK e, f : e = StartSaved(d, n, fs[n]) /\ f = StartedFile(d, fs[n])
  OBVIOUS
<1>2. PICK gs : gs = Put(fs, n, f)
  OBVIOUS
<1>3. PICK K : /\ Holds(e, gs, K) /\ Directory(gs, I)
               /\ f.chunks = fs[n].chunks /\ f.id = fs[n].id
  BY <1>1, <1>2, StartLemma
<1>4. \A m \in e.media : m \in d.media \/ m.kind = "start"
  <2>1. CASE fs[n].start # 0
    BY <1>1, <2>1 DEF StartSaved
  <2>2. CASE fs[n].start = 0
    <3>1. e = Saved(d, 0, StartUnits, StartUnits, chunk)
      BY <1>1, <2>2 DEF StartSaved
    <3>2. c.kind = "start"
      BY DEF SavedChunk, At, Chunk
    <3>4. chunk \in Header /\ chunk.units = StartUnits
      BY SizesLemma, FileFacts DEF Chunk, Header, NoPiece, Directory
    <3>5. Fits(d, 0, StartUnits, StartUnits, chunk.units)
      BY <2>2, <3>4 DEF StartFits
    <3> HIDE DEF chunk, c
    <3>3. e.media \subseteq d.media \cup {c}
      BY <3>1, <3>4, <3>5, SavedMedia, SizesLemma DEF c, Holds
    <3> QED BY <3>2, <3>3
  <2> QED BY <2>1, <2>2
<1>5. ASSUME NEW x \in DOMAIN fs PROVE PiecesOn(e.media, gs[x]) = PiecesOn(d.media, fs[x])
  <2>1. x \in DOMAIN gs /\ gs[x].chunks = fs[x].chunks /\ gs[x].id = fs[x].id
    BY <1>2, <1>3, PutLemma
  <2>2. \A m \in e.media : m \in d.media \/ ~DataOf(m, fs[x])
    BY <1>4 DEF DataOf
  <2> QED BY <1>3, <2>1, <2>2, OthersStay
<1> QED BY <1>1, <1>2, <1>5

(* The piece in the tail becomes the last of those that are stored. *)
TailKept(d, fs, n, units) ==
  LET e == TailSaved(d, fs[n], units)
      f == TailStored(d, fs[n], units)
  IN  /\ PiecesOn(e.media, f) = PiecesOn(d.media, fs[n]) \o fs[n].tail
      /\ \A x \in DOMAIN fs : x # n => PiecesOn(e.media, fs[x]) = PiecesOn(d.media, fs[x])

LEMMA TailContents ==
  ASSUME NEW d, NEW fs, NEW I, NEW L, Directory(fs, I), Holds(d, fs, L),
         NEW n \in DOMAIN fs, fs[n].start # 0, NEW units \in ChunkUnits, TailFits(d, fs[n], units)
  PROVE  TailKept(d, fs, n, units)
<1>1. PICK e, f, g : e = TailSaved(d, fs[n], units) /\ f = TailStored(d, fs[n], units) /\ g = fs[n]
  OBVIOUS
<1>2. PICK gs : gs = Put(fs, n, f)
  OBVIOUS
<1>3. PICK K : /\ Holds(e, gs, K) /\ Directory(gs, I)
               /\ f \in File /\ f.id = g.id /\ f.tail = <<>>
  BY <1>1, <1>2, TailLemma
<1>4. g \in File /\ Separate(d.media) /\ Separate(e.media)
  BY <1>1, <1>3, HoldsLaid DEF Directory
<1>5. CASE g.tail = <<>>
  <2>1. e = d /\ f = g
    BY <1>1, <1>5 DEF TailSaved, TailStored
  <2>2. PiecesOn(d.media, g) \o <<>> = PiecesOn(d.media, g)
    BY <1>4, <1>5, ContentIs DEF Separate
  <2> QED BY <1>1, <1>5, <2>1, <2>2 DEF TailKept
<1>6. ASSUME NEW p \in Pieces, g.tail = <<p>>
      PROVE  /\ PiecesOn(e.media, f) = PiecesOn(d.media, g) \o g.tail
             /\ \A x \in DOMAIN fs : x # n => PiecesOn(e.media, fs[x]) = PiecesOn(d.media, fs[x])
  <2>1. PICK k \in Nat : k = Stored(g) /\ DOMAIN g.chunks = 0 .. k - 1
    BY <1>4, FileFacts
  <2> DEFINE chunk == Chunk("data", units, g.id, Nobody, k, p)
             from == LastKnownFileIndex(g)
             c == SavedChunk(d, from, 1, MaxUnits, chunk)
             a == Taken(d, from, 1, MaxUnits).start
  <2>2. g.tail # <<>> /\ Head(g.tail) = p
    BY <1>6
  <2>3. e = Saved(d, from, 1, MaxUnits, chunk)
    BY <1>1, <2>1, <2>2 DEF TailSaved
  <2>4. f = [g EXCEPT !.chunks = Put(@, k, [at |-> a, units |-> units]), !.tail = <<>>]
    BY <1>1, <2>1, <2>2 DEF TailStored
  <2>5. c.at = a /\ c.units = units /\ c.kind = "data" /\ c.id = g.id /\ c.offset = k /\ c.data = p
    BY DEF SavedChunk, At, Chunk
  <2>6. c \in e.media /\ e.media \subseteq d.media \cup {c}
    <3>1. chunk \in Header /\ chunk.units = units
      BY <1>4, <2>1, FileFacts, SizesLemma DEF Chunk, Header
    <3>2. Fits(d, from, 1, MaxUnits, chunk.units)
      BY <1>1, <2>2, <3>1 DEF TailFits
    <3>3. from \in Nat /\ \E m \in L : m.at = from
      BY <1>1, FromLemma
    <3>4. 1 \in Nat /\ 1 <= 1 /\ MaxUnits \in Nat /\ 1 <= MaxUnits /\ Sound(d, L, {})
      BY SizesLemma DEF Holds
    <3> HIDE DEF chunk, from
    <3> QED BY <2>3, <3>1, <3>2, <3>3, <3>4, SavedMedia
  <2> HIDE DEF c, a, chunk
  <2>7. /\ DOMAIN f.chunks = (0 .. k - 1) \cup {k} /\ f.chunks[k] = [at |-> a, units |-> units]
        /\ \A o \in 0 .. k - 1 : f.chunks[o] = g.chunks[o]
    <3>1. f.chunks = Put(g.chunks, k, [at |-> a, units |-> units])
      BY <1>4, <2>4 DEF File
    <3>2. \A o \in 0 .. k - 1 : o # k
      OBVIOUS
    <3> QED BY <2>1, <3>1, <3>2 DEF Put
  <2>8. DataOf(c, f)
    BY <1>3, <2>5, <2>7 DEF DataOf
  <2>9. PieceOn(e.media, f, k) = p
    BY <1>4, <2>5, <2>6, <2>8, HeldPiece DEF Separate
  <2>10. ASSUME NEW o \in 0 .. k - 1 PROVE PieceOn(e.media, f, o) = PieceOn(d.media, g, o)
    <3>1. n \in DOMAIN gs /\ gs[n] = f
      BY <1>2 DEF Put
    <3>2. PICK m \in e.media : DataOf(m, f) /\ m.offset = o
      BY <1>3, <2>7, <3>1, HoldsLaid DEF Laid
    <3>3. o # k
      OBVIOUS
    <3>4. m \in d.media
      BY <2>5, <2>6, <3>2, <3>3
    <3>5. DataOf(m, g)
      BY <1>3, <2>1, <2>7, <3>2 DEF DataOf
    <3> QED BY <1>4, <3>2, <3>4, <3>5, HeldPiece DEF Separate
  <2>11. PiecesOn(e.media, f) = Append(PiecesOn(d.media, g), p)
    <3>1. Stored(f) = k + 1
      <4>1. 0 .. (k + 1) - 1 = (0 .. k - 1) \cup {k} /\ k + 1 \in Nat
        OBVIOUS
      <4> QED BY <2>7, <4>1, StoredRow
    <3> DEFINE s == PiecesOn(d.media, g)
               t == PiecesOn(e.media, f)
    <3>2. /\ s \in Seq(Contained) /\ Len(s) = k /\ \A i \in 1 .. k : s[i] = PieceOn(d.media, g, i - 1)
          /\ t \in Seq(Contained) /\ Len(t) = k + 1 /\ \A i \in 1 .. k + 1 : t[i] = PieceOn(e.media, f, i - 1)
      BY <1>3, <1>4, <2>1, <3>1, PiecesAre DEF Separate
    <3> HIDE DEF s, t
    <3>3. p \in Contained
      BY DEF Contained
    <3>4. \A i \in 1 .. k : t[i] = s[i]
      <4>1. \A i \in 1 .. k : i \in 1 .. k + 1 /\ i - 1 \in 0 .. k - 1
        OBVIOUS
      <4> QED BY <2>10, <3>2, <4>1
    <3>5. t[k + 1] = p
      <4>1. k + 1 \in 1 .. k + 1 /\ (k + 1) - 1 = k
        OBVIOUS
      <4> QED BY <2>9, <3>2, <4>1
    <3>6. /\ Append(s, p) \in Seq(Contained) /\ Len(Append(s, p)) = k + 1
          /\ \A i \in 1 .. k : Append(s, p)[i] = s[i]
          /\ Append(s, p)[k + 1] = p
      BY <3>2, <3>3
    <3>7. t = Append(s, p)
      <4>1. \A i \in 1 .. k + 1 : t[i] = Append(s, p)[i]
        <5>1. \A i \in 1 .. k + 1 : i \in 1 .. k \/ i = k + 1
          OBVIOUS
        <5> QED BY <3>4, <3>5, <3>6, <5>1
      <4> QED BY <3>2, <3>6, <4>1, SeqEqual
    <3> QED BY <3>7 DEF s, t
  <2>12. PiecesOn(d.media, g) \o g.tail = Append(PiecesOn(d.media, g), p)
    BY <1>4, <1>6, ContentIs DEF Separate
  <2>13. ASSUME NEW x \in DOMAIN fs, x # n
         PROVE  PiecesOn(e.media, fs[x]) = PiecesOn(d.media, fs[x])
    <3>1. x \in DOMAIN gs /\ gs[x] = fs[x]
      BY <1>2, <2>13 DEF Put
    <3>2. fs[x].id # g.id
      BY <1>1, <2>13 DEF Directory
    <3>3. \A m \in e.media : m \in d.media \/ ~DataOf(m, fs[x])
      BY <2>5, <2>6, <3>2 DEF DataOf
    <3> QED BY <1>3, <3>1, <3>3, OthersStay
  <2> QED BY <2>11, <2>12, <2>13
<1>7. g.tail = <<>> \/ \E p \in Pieces : g.tail = <<p>>
  BY <1>4, FileFacts
<1> QED BY <1>1, <1>5, <1>6, <1>7 DEF TailKept

LEMMA FlushedContents ==
  ASSUME NEW d, NEW I, NEW L, Directory(files, I), Holds(d, files, L),
         NEW n \in DOMAIN files, NEW units \in ChunkUnits, FlushFits(d, n, units)
  PROVE  LET e == FlushedDisk(d, n, units)
             f == FlushedFile(d, n, units)
         IN  /\ PiecesOn(e.media, f) = PiecesOn(d.media, files[n]) \o files[n].tail
             /\ \A x \in DOMAIN files : x # n => PiecesOn(e.media, files[x]) = PiecesOn(d.media, files[x])
<1>1. PICK b, f : b = StartSaved(d, n, files[n]) /\ f = StartedFile(d, files[n])
  OBVIOUS
<1>2. /\ StartFits(d, files[n]) /\ TailFits(b, f, units)
      /\ FlushedDisk(d, n, units) = TailSaved(b, f, units)
      /\ FlushedFile(d, n, units) = TailStored(b, f, units)
  BY <1>1 DEF FlushFits, FlushedDisk, FlushedFile
<1>3. PICK fs : fs = Put(files, n, f)
  OBVIOUS
<1>4. PICK K : /\ Holds(b, fs, K) /\ Directory(fs, I)
               /\ f.start # 0 /\ f.tail = files[n].tail
  BY <1>1, <1>2, <1>3, StartLemma
<1>5. DOMAIN fs = DOMAIN files /\ fs[n] = f /\ \A x \in DOMAIN files : x # n => fs[x] = files[x]
  BY <1>3 DEF Put
<1>6. \A x \in DOMAIN files : PiecesOn(b.media, fs[x]) = PiecesOn(d.media, files[x])
  BY <1>1, <1>2, <1>3, StartContents
<1>7. n \in DOMAIN fs /\ fs[n].start # 0 /\ TailFits(b, fs[n], units)
  BY <1>2, <1>4, <1>5
<1>8. TailKept(b, fs, n, units)
  BY <1>4, <1>7, TailContents
<1>9. /\ PiecesOn(FlushedDisk(d, n, units).media, FlushedFile(d, n, units)) = PiecesOn(b.media, f) \o f.tail
      /\ \A x \in DOMAIN files : x # n =>
           PiecesOn(FlushedDisk(d, n, units).media, files[x]) = PiecesOn(b.media, files[x])
  BY <1>2, <1>5, <1>8 DEF TailKept
<1> QED BY <1>4, <1>5, <1>6, <1>9

------------------------------------------------------------------------------
(* What each operation does to the contents. *)
LEMMA NextHolds ==
  ASSUME ContainerInv', InUse'
  PROVE  Directory(files', ids') /\ \E L : Holds(Disk', files', L)
<1>1. Directory(files', ids')
  BY FilesAreDirectoryNext DEF ContainerInv
<1>2. PICK L : DiskOK(media', size', freeMap', L, {}) /\ Backed(files', L) /\ length' = size'
  BY DEF ContainerInv, InUseInv
<1>3. Disk' = DiskOf(media', size', freeMap')
  BY <1>2 DEF Disk, DiskOf
<1>4. Holds(Disk', files', L)
  BY <1>2, <1>3, DiskOfLemma DEF Holds, Sound
<1> QED BY <1>1, <1>4

LEMMA SamePieces ==
  ASSUME NEW M, NEW f, NEW g, g.chunks = f.chunks, g.id = f.id
  PROVE  PiecesOn(M, g) = PiecesOn(M, f)
<1>1. \A o : PieceOn(M, g, o) = PieceOn(M, f, o)
  BY DEF PieceOn
<1>2. Stored(g) = Stored(f)
  BY DEF Stored
<1> QED BY <1>1, <1>2 DEF PiecesOn

LEMMA SameContents ==
  ASSUME ContainerInv, InUse, ContainerInv', InUse',
         \A m \in media' : m \in media \/ m.kind # "data",
         NEW x \in DOMAIN files, NEW y \in DOMAIN files',
         files'[y].chunks = files[x].chunks, files'[y].id = files[x].id, files'[y].tail = files[x].tail
  PROVE  Contents(media', files')[y] = Contents(media, files)[x]
<1>1. PICK L : Holds(Disk, files, L) /\ Directory(files, ids)
  BY InUseHolds
<1>2. PICK K : Holds(Disk', files', K) /\ Directory(files', ids')
  BY NextHolds
<1>3. Disk.media = media /\ Disk'.media = media'
  BY DEF Disk
<1>4. \A m \in Disk'.media : m \in Disk.media \/ ~DataOf(m, files[x])
  BY <1>3 DEF DataOf
<1>5. PiecesOn(Disk'.media, files'[y]) = PiecesOn(Disk.media, files[x])
  BY <1>1, <1>2, <1>4, OthersStay
<1> QED BY <1>3, <1>5 DEF Contents

LEMMA FileOnMedia ==
  ASSUME ContainerInv, InUse, NEW n \in DOMAIN files
  PROVE  files[n] \in File /\ media \subseteq Header /\ n \in Names
<1>1. PICK L : Holds(Disk, files, L) /\ Directory(files, ids)
  BY InUseHolds
<1>2. Disk.media \subseteq Header /\ Disk.media = media
  BY <1>1, HoldsFacts DEF Disk
<1> QED BY <1>1, <1>2 DEF Directory

(* flush and append, whose other files have what they had. *)
LEMMA FlushedNext ==
  ASSUME ContainerInv, InUse, NEW n \in DOMAIN files, NEW units \in ChunkUnits,
         FlushFits(Disk, n, units), SetDisk(FlushedDisk(Disk, n, units)), NEW tail,
         files' = Put(files, n, [FlushedFile(Disk, n, units) EXCEPT !.tail = tail])
  PROVE  /\ Contents(media', files')[n] = Contents(media, files)[n] \o tail
         /\ \A x \in DOMAIN files : x # n => Contents(media', files')[x] = Contents(media, files)[x]
         /\ DOMAIN files' = DOMAIN files
<1>1. PICK L : Holds(Disk, files, L) /\ Directory(files, ids)
  BY InUseHolds
<1>2. PICK e, f : e = FlushedDisk(Disk, n, units) /\ f = FlushedFile(Disk, n, units)
  OBVIOUS
<1>3. PICK K : /\ Holds(e, Put(files, n, f), K) /\ f \in File
  BY <1>1, <1>2, FlushFileLemma
<1>4. media' = e.media /\ Disk.media = media
  BY <1>2, <1>3, SetDiskLemma DEF Holds, Disk
<1>5. /\ PiecesOn(e.media, f) = PiecesOn(media, files[n]) \o files[n].tail
      /\ \A x \in DOMAIN files : x # n => PiecesOn(e.media, files[x]) = PiecesOn(media, files[x])
  BY <1>1, <1>2, <1>4, FlushedContents
<1>6. PICK g : g = [f EXCEPT !.tail = tail]
  OBVIOUS
<1>7. g.chunks = f.chunks /\ g.id = f.id /\ g.tail = tail
  BY <1>3, <1>6 DEF File
<1>8. DOMAIN files' = DOMAIN files /\ files'[n] = g /\ \A x \in DOMAIN files : x # n => files'[x] = files[x]
  BY <1>2, <1>6 DEF Put
<1>9. PiecesOn(media', files'[n]) = Contents(media, files)[n]
  <2>1. PiecesOn(e.media, g) = PiecesOn(e.media, f)
    BY <1>7, SamePieces
  <2> QED BY <1>4, <1>5, <1>8, <2>1 DEF Contents
<1>10. Contents(media', files')[n] = Contents(media, files)[n] \o tail
  BY <1>7, <1>8, <1>9 DEF Contents
<1>11. \A x \in DOMAIN files : x # n => Contents(media', files')[x] = Contents(media, files)[x]
  BY <1>4, <1>5, <1>8 DEF Contents
<1> QED BY <1>8, <1>10, <1>11

(* A truncation leaves the first k pieces: the chunk that is shortened     *)
(* holds what it held. *)
CutKept(d, fs, n, k, left) ==
  LET e == CutDisk(d, fs[n], k, left)
      f == CutFile(fs[n], k, left)
  IN  /\ PiecesOn(e.media, f) = SubSeq(PiecesOn(d.media, fs[n]), 1, k)
      /\ f.tail = fs[n].tail
      /\ \A x \in DOMAIN fs : x # n => PiecesOn(e.media, fs[x]) = PiecesOn(d.media, fs[x])

LEMMA CutContents ==
  ASSUME NEW d, NEW fs, NEW I, NEW L, Directory(fs, I), Holds(d, fs, L),
         NEW n \in DOMAIN fs, NEW k \in Nat, k <= Stored(fs[n]), NEW left \in ChunkUnits
  PROVE  CutKept(d, fs, n, k, left)
<1>1. PICK e, f, g : e = CutDisk(d, fs[n], k, left) /\ f = fs[n] /\ g = CutFile(fs[n], k, left)
  OBVIOUS
<1>2. PICK gs : gs = Put(fs, n, g)
  OBVIOUS
<1>3. n \in DOMAIN gs /\ gs[n] = g /\ \A x \in DOMAIN fs : x # n => x \in DOMAIN gs /\ gs[x] = fs[x]
  BY <1>2 DEF Put
<1>4. PICK K : Holds(e, gs, K) /\ Directory(gs, I)
  BY <1>1, <1>2, TruncatedLemma
<1>5. /\ f \in File /\ InOrder(f) /\ g \in File
      /\ Separate(d.media) /\ Laid(d.media, f) /\ Separate(e.media) /\ Laid(e.media, g)
  BY <1>1, <1>3, <1>4, HoldsLaid DEF Directory
<1>6. /\ g.id = f.id /\ DOMAIN g.chunks = 0 .. k - 1
      /\ \A o \in 0 .. k - 1 :
           /\ o \in DOMAIN f.chunks /\ g.chunks[o].at = f.chunks[o].at
           /\ g.chunks[o].units = IF o = k - 1 /\ IsCut(f, k, left) THEN left ELSE f.chunks[o].units
  <2>1. g = [f EXCEPT !.chunks = Kept(f, k, left)]
    BY <1>1 DEF CutFile
  <2>2. k <= Stored(f)
    BY <1>1
  <2> QED BY <1>5, <2>1, <2>2, KeptLemma
<1>7. g.tail = f.tail
  BY <1>1, <1>5 DEF CutFile, File
<1>8. d = DiskOf(d.media, d.size, d.freeMap)
  BY DEF Holds, Sound
<1> DEFINE Old(m) == m \in d.media
           New(m) == m.kind = "data" /\ m.id = f.id /\ m.offset = k - 1 /\ DataOf(m, g)
                     /\ m.data = PieceOn(d.media, f, k - 1)
<1>10. ASSUME IsCut(f, k, left)
       PROVE  (\A m \in e.media : Old(m) \/ New(m)) /\ \E m \in e.media : New(m)
  <2>1. k - 1 \in 0 .. k - 1
    BY <1>10 DEF IsCut
  <2>2. PICK x \in d.media : DataOf(x, f) /\ x.offset = k - 1
    BY <1>5, <1>6, <2>1 DEF Laid
  <2>3. x.at = f.chunks[k - 1].at
    BY <2>2 DEF DataOf
  <2>4. ASSUME NEW y \in d.media, y.at = x.at PROVE y = x
    <3>1. y.at \in Nat /\ End(y) \in Nat /\ End(x) \in Nat /\ y.at < End(y) /\ x.at < End(x)
      BY <1>5, HeaderFacts DEF Separate
    <3> QED BY <1>5, <2>4, <3>1 DEF Separate, Beside
  <2>5. (CHOOSE y \in d.media : y.at = f.chunks[k - 1].at) = x
    BY <2>3, <2>4
  <2> DEFINE c == [x EXCEPT !.units = left]
  <2>6. c.at = x.at /\ c.units = left /\ c.kind = x.kind /\ c.id = x.id /\ c.offset = x.offset /\ c.data = x.data
    BY <1>5 DEF Separate, Header
  <2> DEFINE s == Shrunk(d, f.chunks[k - 1], left)
  <2>7. s = [d EXCEPT !.media = Written(d.media, c)]
    BY <2>5 DEF Shrunk
  <2>8. e = Freed(s, {Behind(f, k, left)} \cup Given(f, k))
    BY <1>1, <1>10 DEF CutDisk
  <2>9. e.media = Written(d.media, c)
    <3> DEFINE A == {Behind(f, k, left)} \cup Given(f, k)
               W == Written(d.media, c)
    <3> HIDE DEF A, W, s, c
    <3>1. s = DiskOf(W, d.size, d.freeMap)
      BY <1>8, <2>7 DEF DiskOf, W
    <3>2. e = Freed(s, A)
      BY <2>8 DEF A
    <3> QED BY <3>1, <3>2, FreedMedia DEF W
  <2>c. c \in Header
    BY <1>5, <2>2, <2>6 DEF Separate, Header
  <2> HIDE DEF c
  <2>10. c \in e.media /\ e.media \subseteq d.media \cup {c}
    BY <1>5, <2>2, <2>6, <2>9, <2>c, InPlaceLemma DEF Separate
  <2>11. DataOf(c, g)
    BY <1>6, <1>10, <2>1, <2>2, <2>6 DEF DataOf
  <2>12. c.data = PieceOn(d.media, f, k - 1)
    BY <1>5, <2>2, <2>6, HeldPiece DEF Separate
  <2>13. New(c)
    BY <1>6, <2>2, <2>6, <2>11, <2>12 DEF DataOf
  <2> HIDE DEF New
  <2> QED BY <2>10, <2>13
<1>11. \A m \in e.media : Old(m) \/ New(m)
  <2>1. CASE ~IsCut(f, k, left)
    <3>1. e.media = d.media
      <4>1. e = Freed(d, Given(f, k))
        BY <1>1, <2>1 DEF CutDisk
      <4> QED BY <1>8, <4>1, FreedMedia
    <3> QED BY <3>1
  <2> QED BY <1>10, <2>1
<1>12. ASSUME NEW o \in 0 .. k - 1 PROVE PieceOn(e.media, g, o) = PieceOn(d.media, f, o)
  <2>1. PICK m \in e.media : DataOf(m, g) /\ m.offset = o
    BY <1>5, <1>6 DEF Laid
  <2>2. CASE o = k - 1 /\ IsCut(f, k, left)
    <3>1. PICK c \in e.media : New(c)
      BY <1>10, <2>2
    <3> QED BY <1>5, <2>2, <3>1, HeldPiece DEF Separate
  <2>3. CASE ~(o = k - 1 /\ IsCut(f, k, left))
    <3>1. CASE New(m)
      BY <1>5, <2>1, <3>1, HeldPiece DEF Separate
    <3>2. CASE Old(m)
      <4>1. DataOf(m, f)
        BY <1>6, <2>1, <2>3 DEF DataOf
      <4> QED BY <1>5, <2>1, <3>2, <4>1, HeldPiece DEF Separate
    <3> QED BY <1>11, <3>1, <3>2
  <2> QED BY <2>2, <2>3
<1>13. PiecesOn(e.media, g) = SubSeq(PiecesOn(d.media, f), 1, k)
  <2> DEFINE s == PiecesOn(d.media, f)
             t == PiecesOn(e.media, g)
  <2>1. Stored(g) = k
    BY <1>6, StoredRow
  <2>2. /\ s \in Seq(Contained) /\ Len(s) = Stored(f) /\ \A i \in 1 .. Stored(f) : s[i] = PieceOn(d.media, f, i - 1)
        /\ t \in Seq(Contained) /\ Len(t) = k /\ \A i \in 1 .. k : t[i] = PieceOn(e.media, g, i - 1)
        /\ Stored(f) \in Nat /\ k <= Stored(f)
    BY <1>1, <1>5, <2>1, PiecesAre DEF Separate
  <2> HIDE DEF s, t
  <2>3. \A i \in 1 .. k : t[i] = s[i]
    <3>1. \A i \in 1 .. k : i - 1 \in 0 .. k - 1 /\ i \in 1 .. Stored(f)
      BY <2>2
    <3> QED BY <1>12, <2>2, <3>1
  <2>4. k \in 0 .. Len(s)
    BY <2>2
  <2>5. /\ SubSeq(s, 1, k) \in Seq(Contained) /\ Len(SubSeq(s, 1, k)) = k
        /\ \A i \in 1 .. k : SubSeq(s, 1, k)[i] = s[i]
    BY <2>2, <2>4, FrontLemma
  <2>6. t = SubSeq(s, 1, k)
    BY <2>2, <2>3, <2>5, SeqEqual
  <2> QED BY <2>6 DEF s, t
<1>14. ASSUME NEW x \in DOMAIN fs, x # n PROVE PiecesOn(e.media, fs[x]) = PiecesOn(d.media, fs[x])
  <2>1. fs[x].id # f.id
    BY <1>1, <1>14 DEF Directory
  <2>2. \A m \in e.media : m \in d.media \/ ~DataOf(m, fs[x])
    BY <1>11, <2>1 DEF DataOf
  <2> QED BY <1>3, <1>4, <1>14, <2>2, OthersStay
<1> QED BY <1>1, <1>7, <1>13, <1>14 DEF CutKept

------------------------------------------------------------------------------
(* The archive that the container is. *)
Nothing == [n \in {} |-> <<>>]
TheArchive == IF ~Orderly THEN Nothing ELSE IF InUse THEN FilesArchive ELSE MediaArchive

Sets(a, b, n, s) == b = [x \in DOMAIN a \cup {n} |-> IF x = n THEN s ELSE a[x]]
Creates(a, b, n) == n \notin DOMAIN a /\ Sets(a, b, n, <<>>)
Appends(a, b, n, p) == n \in DOMAIN a /\ Len(a[n]) < MaxPieces /\ Sets(a, b, n, Append(a[n], p))
Truncates(a, b, n, k) == n \in DOMAIN a /\ k <= Len(a[n]) /\ Sets(a, b, n, SubSeq(a[n], 1, k))
Erases(a, b, n) == n \in DOMAIN a /\ b = [x \in DOMAIN a \ {n} |-> a[x]]
Renames(a, b, n, m) ==
  /\ n \in DOMAIN a /\ m \notin DOMAIN a
  /\ b = [x \in (DOMAIN a \ {n}) \cup {m} |-> IF x = m THEN a[n] ELSE a[x]]

Acts(a, b) ==
  \/ a = b
  \/ \E n \in Names :
       \/ Creates(a, b, n) \/ Erases(a, b, n)
       \/ \E p \in Pieces : Appends(a, b, n, p)
       \/ \E k \in 0 .. MaxPieces : Truncates(a, b, n, k)
       \/ \E m \in Names : Renames(a, b, n, m)

LEMMA ContentsDomain ==
  ASSUME NEW M, NEW fs
  PROVE  DOMAIN Contents(M, fs) = DOMAIN fs /\ Contents(M, fs) = [x \in DOMAIN fs |-> Contents(M, fs)[x]]
BY DEF Contents

LEMMA ContentsSet ==
  ASSUME NEW M, NEW fs, NEW N, NEW gs, NEW n, NEW s, DOMAIN gs = DOMAIN fs \cup {n},
         Contents(N, gs)[n] = s,
         \A x \in DOMAIN fs : x # n => Contents(N, gs)[x] = Contents(M, fs)[x]
  PROVE  Sets(Contents(M, fs), Contents(N, gs), n, s)
<1>1. PICK a, b : a = Contents(M, fs) /\ b = Contents(N, gs)
  OBVIOUS
<1>2. DOMAIN a = DOMAIN fs /\ b = [x \in DOMAIN fs \cup {n} |-> b[x]]
  BY <1>1, ContentsDomain
<1>3. \A x \in DOMAIN fs \cup {n} : b[x] = IF x = n THEN s ELSE a[x]
  BY <1>1
<1> QED BY <1>1, <1>2, <1>3 DEF Sets

LEMMA CreateActs ==
  ASSUME ContainerInv, ContainerInv', NEW n \in Names, NewVirtualFile(n)
  PROVE  Creates(Contents(media, files), Contents(media', files'), n)
<1> USE DEF NewVirtualFile, Ready, Has
<1>1. InUse /\ InUse' /\ media' = media /\ files' = Put(files, n, NewFile(NewIdentifier)) /\ n \notin DOMAIN files
  BY DEF InUse
<1>2. DOMAIN files' = DOMAIN files \cup {n} /\ files'[n] = NewFile(NewIdentifier)
      /\ \A x \in DOMAIN files : files'[x] = files[x]
  BY <1>1 DEF Put
<1>3. Contents(media', files')[n] = <<>>
  <2> DEFINE f == NewFile(NewIdentifier)
  <2>1. f.tail = <<>> /\ DOMAIN f.chunks = {}
    BY DEF NewFile
  <2>2. files'[n] \in File
    BY <1>1, <1>2, NextHolds DEF Directory
  <2>3. media \subseteq Header
    <3>1. Disk' .media = media'
      BY DEF Disk
    <3> QED BY <1>1, <3>1, NextHolds, HoldsFacts
  <2>4. Stored(f) = 0
    BY <2>1 DEF Stored
  <2>5. PiecesOn(media, f) \in Seq(Contained) /\ Len(PiecesOn(media, f)) = 0
    BY <1>2, <2>2, <2>3, <2>4, PiecesAre
  <2>6. PiecesOn(media, f) = <<>>
    BY <2>5
  <2>7. Contents(media', files')[n] = PiecesOn(media, f) \o f.tail
    BY <1>1, <1>2 DEF Contents
  <2>8. <<>> \o <<>> = <<>>
    OBVIOUS
  <2> QED BY <2>1, <2>6, <2>7, <2>8
<1>4. \A x \in DOMAIN files : x # n => Contents(media', files')[x] = Contents(media, files)[x]
  BY <1>1, <1>2, SameContents
<1> QED BY <1>1, <1>2, <1>3, <1>4, ContentsSet, ContentsDomain DEF Creates

LEMMA FlushActs ==
  ASSUME ContainerInv, ContainerInv', NEW n, NEW units \in ChunkUnits, Flush(n, units)
  PROVE  Contents(media', files') = Contents(media, files)
<1> USE DEF Flush, Ready, Has
<1>1. InUse /\ n \in DOMAIN files /\ FlushFits(Disk, n, units)
  BY DEF InUse
<1>2. PICK L : Holds(Disk, files, L) /\ Directory(files, ids)
  BY <1>1, InUseHolds
<1>3. PICK f : f = FlushedFile(Disk, n, units)
  OBVIOUS
<1>4. f \in File /\ f.tail = <<>>
  BY <1>1, <1>2, <1>3, FlushFileLemma
<1>5. [f EXCEPT !.tail = <<>>] = f
  BY <1>4 DEF File
<1>6. /\ Contents(media', files')[n] = Contents(media, files)[n] \o <<>>
      /\ \A x \in DOMAIN files : x # n => Contents(media', files')[x] = Contents(media, files)[x]
      /\ DOMAIN files' = DOMAIN files
  BY <1>1, <1>3, <1>5, FlushedNext
<1>7. Contents(media, files)[n] \o <<>> = Contents(media, files)[n]
  <2>1. Contents(media, files)[n] \in Seq(Contained)
    BY <1>1, FileOnMedia, ContentIs DEF Contents
  <2> QED BY <2>1
<1> QED BY <1>6, <1>7, ContentsDomain

LEMMA AppendActs ==
  ASSUME ContainerInv, ContainerInv', NEW n, NEW p \in Pieces, NEW units \in ChunkUnits, AppendTo(n, p, units)
  PROVE  Appends(Contents(media, files), Contents(media', files'), n, p)
<1> USE DEF AppendTo, Ready, Has
<1>1. InUse /\ n \in DOMAIN files /\ FlushFits(Disk, n, units) /\ Length(files[n]) < MaxPieces
  BY DEF InUse
<1>2. /\ Contents(media', files')[n] = Contents(media, files)[n] \o <<p>>
      /\ \A x \in DOMAIN files : x # n => Contents(media', files')[x] = Contents(media, files)[x]
      /\ DOMAIN files' = DOMAIN files
  BY <1>1, FlushedNext
<1>3. Contents(media, files)[n] \in Seq(Contained) /\ Len(Contents(media, files)[n]) = Length(files[n])
  BY <1>1, FileOnMedia, ContentIs DEF Contents
<1>4. p \in Contained
  BY DEF Contained
<1>5. Contents(media, files)[n] \o <<p>> = Append(Contents(media, files)[n], p)
  BY <1>3, <1>4
<1>6. DOMAIN files' = DOMAIN files \cup {n}
  BY <1>1, <1>2
<1> QED BY <1>1, <1>2, <1>3, <1>5, <1>6, ContentsSet, ContentsDomain DEF Appends

(* A flush of the free space leaves the chunks in use and fill chunks. *)
LEMMA FlushedShows ==
  ASSUME ~SupportsTruncation, NEW d, NEW L, Sound(d, L, {})
  PROVE  \A m \in FlushFreeSpace(d).media : m.kind = "fill" \/ m \in L
<1>1. PICK e : e = FlushFreeSpace(d)
  OBVIOUS
<1>2. Sound(e, L, {}) /\ \A r \in e.freeMap : ~r.dirty
  BY <1>1, FlushedSound
<1>3. \A m \in e.media : m.kind = "fill" \/ m \in L
  BY <1>2 DEF Sound, DiskOK, ShownOK
<1> QED BY <1>1, <1>3

LEMMA EraseActs ==
  ASSUME ~SupportsTruncation, ContainerInv, ContainerInv', NEW n, Erase(n)
  PROVE  Erases(Contents(media, files), Contents(media', files'), n)
<1> USE DEF Erase, Ready, Has
<1>1. InUse /\ InUse' /\ n \in DOMAIN files /\ files' = Except(files, n)
  BY DEF InUse
<1>2. PICK L : Holds(Disk, files, L) /\ Directory(files, ids) /\ L \subseteq media
  BY <1>1, InUseHolds
<1>3. PICK G \in SUBSET L : Sound(Disk, L \ G, ChunksOf(files[n]))
  BY <1>1, <1>2, ErasedAreas
<1>4. PICK e : e = Freed(Disk, ChunksOf(files[n]))
  OBVIOUS
<1>5. Sound(e, L \ G, {})
  BY <1>3, <1>4, FreedSound
<1>6. \A m \in media' : m.kind = "fill" \/ m \in L
  <2>1. media' = FlushFreeSpace(e).media
    BY <1>4 DEF SetDisk
  <2> QED BY <1>5, <2>1, FlushedShows
<1>7. \A m \in media' : m \in media \/ m.kind # "data"
  BY <1>2, <1>6
<1>8. DOMAIN files' = DOMAIN files \ {n} /\ \A x \in DOMAIN files' : x \in DOMAIN files /\ files'[x] = files[x]
  BY <1>1 DEF Except
<1>9. \A x \in DOMAIN files \ {n} : Contents(media', files')[x] = Contents(media, files)[x]
  BY <1>1, <1>7, <1>8, SameContents
<1>10. PICK a, b : a = Contents(media, files) /\ b = Contents(media', files')
  OBVIOUS
<1>11. DOMAIN a = DOMAIN files /\ b = [x \in DOMAIN files \ {n} |-> b[x]]
  BY <1>8, <1>10, ContentsDomain
<1> QED BY <1>1, <1>9, <1>10, <1>11 DEF Erases

LEMMA RenameActs ==
  ASSUME ContainerInv, ContainerInv', NEW n, NEW m \in Names, Rename(n, m)
  PROVE  Renames(Contents(media, files), Contents(media', files'), n, m)
<1> USE DEF Rename, Ready, Has
<1>1. /\ InUse /\ InUse' /\ n \in DOMAIN files /\ m \notin DOMAIN files
      /\ files' = Put(Except(files, n), m, files[n])
  BY DEF InUse
<1>2. /\ DOMAIN files' = (DOMAIN files \ {n}) \cup {m} /\ files'[m] = files[n] /\ m # n
      /\ \A x \in DOMAIN files \ {n} : files'[x] = files[x]
  BY <1>1 DEF Put, Except
<1>3. \A x \in media' : x \in media \/ x.kind # "data"
  <2>1. CASE files[n].start = 0
    BY <2>1
  <2>2. CASE files[n].start # 0
    <3> DEFINE chunk == Chunk("start", StartUnits, files[n].id, m, 0, NoPiece)
               c == At(chunk, files[n].start)
    <3>1. PICK L : Holds(Disk, files, L) /\ Directory(files, ids) /\ L \subseteq media
      BY <1>1, InUseHolds
    <3>2. files[n] \in File
      BY <1>1, <3>1 DEF Directory
    <3>3. chunk \in Header /\ chunk.kind = "start"
      BY <3>2, SizesLemma, FileFacts DEF Chunk, Header
    <3> HIDE DEF chunk
    <3>4. c \in Header /\ c.at = files[n].start /\ c.kind = "start"
      BY <3>2, <3>3, AtLemma, FileFacts
    <3>5. PICK x \in L : StartOf(x, n, files[n])
      BY <1>1, <2>2, <3>1 DEF Holds, Backed
    <3>6. x \in media /\ x.at = files[n].start
      BY <3>1, <3>5 DEF StartOf
    <3>7. Separate(media)
      <4>1. Disk.media = media
        BY DEF Disk
      <4> QED BY <3>1, <4>1, HoldsLaid
    <3>8. media' = Written(media, c)
      BY <2>2 DEF chunk
    <3> HIDE DEF c
    <3>9. media' \subseteq media \cup {c}
      BY <3>4, <3>6, <3>7, <3>8, InPlaceLemma
    <3> QED BY <3>4, <3>9
  <2> QED BY <2>1, <2>2
<1>4. Contents(media', files')[m] = Contents(media, files)[n]
  BY <1>1, <1>2, <1>3, SameContents
<1>5. \A x \in DOMAIN files \ {n} : Contents(media', files')[x] = Contents(media, files)[x]
  BY <1>1, <1>2, <1>3, SameContents
<1>6. PICK a, b : a = Contents(media, files) /\ b = Contents(media', files')
  OBVIOUS
<1>7. DOMAIN a = DOMAIN files /\ b = [x \in (DOMAIN files \ {n}) \cup {m} |-> b[x]]
  BY <1>2, <1>6, ContentsDomain
<1>8. \A x \in (DOMAIN files \ {n}) \cup {m} : b[x] = IF x = m THEN a[n] ELSE a[x]
  BY <1>1, <1>4, <1>5, <1>6
<1> QED BY <1>1, <1>6, <1>7, <1>8 DEF Renames

LEMMA TruncateActs ==
  ASSUME ContainerInv, ContainerInv', NEW n, NEW k \in Nat, NEW units \in ChunkUnits, NEW left \in ChunkUnits,
         Truncate(n, k, units, left)
  PROVE  Truncates(Contents(media, files), Contents(media', files'), n, k)
<1>1. InUse /\ n \in DOMAIN files /\ FlushFits(Disk, n, units) /\ k <= Length(files[n])
  BY DEF Truncate, Ready, Has, InUse
<1>2. PICK L : Holds(Disk, files, L) /\ Directory(files, ids)
  BY <1>1, InUseHolds
<1>3. PICK d, f : d = FlushedDisk(Disk, n, units) /\ f = FlushedFile(Disk, n, units)
  OBVIOUS
<1>4. PICK fs : fs = Put(files, n, f)
  OBVIOUS
<1>5. PICK K : Holds(d, fs, K) /\ Directory(fs, ids) /\ Stored(f) = Length(files[n]) /\ f \in File /\ f.tail = <<>>
  BY <1>1, <1>2, <1>3, <1>4, FlushFileLemma
<1>6. fs[n] = f /\ DOMAIN fs = DOMAIN files /\ n \in DOMAIN fs /\ \A x \in DOMAIN files : x # n => fs[x] = files[x]
  BY <1>1, <1>4 DEF Put
<1>7. PICK e, g : e = CutDisk(d, f, k, left) /\ g = CutFile(f, k, left)
  OBVIOUS
<1>8. media' = e.media /\ files' = Put(files, n, g)
  <2>1. SetDisk(CutDisk(d, f, k, left)) /\ files' = Put(files, n, CutFile(f, k, left))
    BY <1>3 DEF Truncate, Shorten, CutDisk, CutFile, Kept, IsCut, Given, Behind
  <2> QED BY <1>7, <2>1 DEF SetDisk
<1>9. CutKept(d, fs, n, k, left)
  BY <1>1, <1>5, <1>6, CutContents
<1>10. /\ PiecesOn(e.media, g) = SubSeq(PiecesOn(d.media, f), 1, k) /\ g.tail = <<>>
       /\ \A x \in DOMAIN files : x # n => PiecesOn(e.media, files[x]) = PiecesOn(d.media, files[x])
  BY <1>5, <1>6, <1>7, <1>9 DEF CutKept
<1>11. /\ PiecesOn(d.media, f) = PiecesOn(media, files[n]) \o files[n].tail
       /\ \A x \in DOMAIN files : x # n => PiecesOn(d.media, files[x]) = PiecesOn(media, files[x])
  <2>1. Disk.media = media
    BY DEF Disk
  <2> QED BY <1>1, <1>2, <1>3, <2>1, FlushedContents
<1>12. DOMAIN files' = DOMAIN files /\ files'[n] = g /\ \A x \in DOMAIN files : x # n => files'[x] = files[x]
  BY <1>1, <1>8 DEF Put
<1>13. Contents(media, files)[n] \in Seq(Contained) /\ Len(Contents(media, files)[n]) = Length(files[n])
  BY <1>1, FileOnMedia, ContentIs DEF Contents
<1>14. Contents(media', files')[n] = SubSeq(Contents(media, files)[n], 1, k)
  <2> DEFINE s == Contents(media, files)[n]
  <2>1. s = PiecesOn(d.media, f)
    BY <1>1, <1>11 DEF Contents
  <2>2. Contents(media', files')[n] = SubSeq(s, 1, k) \o <<>>
    BY <1>1, <1>8, <1>10, <1>12, <2>1 DEF Contents
  <2>3. s \in Seq(Contained) /\ k \in 0 .. Len(s)
    <3>1. Length(files[n]) \in Nat
      BY <1>13
    <3> QED BY <1>1, <1>13, <3>1
  <2> HIDE DEF s
  <2>4. SubSeq(s, 1, k) \in Seq(Contained)
    BY <2>3, FrontLemma
  <2>5. SubSeq(s, 1, k) \o <<>> = SubSeq(s, 1, k)
    BY <2>4
  <2> QED BY <2>2, <2>5 DEF s
<1>15. \A x \in DOMAIN files : x # n => Contents(media', files')[x] = Contents(media, files)[x]
  BY <1>8, <1>10, <1>11, <1>12 DEF Contents
<1>16. DOMAIN files' = DOMAIN files \cup {n}
  BY <1>1, <1>12
<1> QED BY <1>1, <1>13, <1>14, <1>15, <1>16, ContentsSet, ContentsDomain DEF Truncates

------------------------------------------------------------------------------
(* The steps that the archive does not see. *)
LEMMA SameMediaArchive ==
  ASSUME media' = media, length' = length
  PROVE  MediaArchive' = MediaArchive
<1>1. Reached' = Reached
  BY DEF Reached
<1>2. MediaStarts' = MediaStarts
  BY <1>1 DEF MediaStarts
<1>3. \A n : MediaFile(n)' = MediaFile(n)
  BY <1>1, <1>2 DEF MediaFile
<1> QED BY <1>2, <1>3 DEF MediaArchive

(* A scan begins without files, and gives none a tail. *)
NoTails == phase = "scanning" => \A n \in DOMAIN files : files[n].tail = <<>>

LEMMA NoTailsKept ==
  ASSUME ContainerInv, NoTails, [Next]_containerVars
  PROVE  NoTails'
<1>1. ASSUME NEW n \in Names,
             \/ NewVirtualFile(n) \/ NewVirtualFileExists(n) \/ \E m \in Names : Rename(n, m)
             \/ Erase(n) \/ EraseRefused(n) \/ SaveRefused(n)
             \/ \E u \in TailUnits(n) : \/ Flush(n, u) \/ \E p \in Pieces : AppendTo(n, p, u)
                                      \/ \E k \in 0 .. MaxPieces : \E left \in LeftUnits(n, k, u) : Truncate(n, k, u, left)
      PROVE  phase' # "scanning"
  BY <1>1 DEF NewVirtualFile, NewVirtualFileExists, Erase, EraseRefused, SaveRefused, Rename, Flush, AppendTo,
              Truncate, Ready
<1>2. CASE Open \/ CloseBegin \/ CloseRefused \/ ScanFails \/ ScanEnd
  BY <1>2 DEF Open, CloseBegin, CloseRefused, ScanFails, ScanEnd, NoTails
<1>3. CASE ScanBegin
  BY <1>3 DEF ScanBegin, ContainerInv, ScanInv, NothingKnown, NoTails
<1>4. CASE CloseStep
  BY <1>4 DEF CloseStep, CloseFile, CloseEnd, NoTails
<1>5. ASSUME NEW m \in media, ScanFill(m) PROVE NoTails'
  BY <1>5 DEF ScanFill, Scanning, NoTails
<1>6. ASSUME NEW m \in media, ScanStart(m) PROVE NoTails'
  <2> USE DEF ScanStart, Scanning
  <2>1. files' = Put(files, m.name, [NewFile(m.id) EXCEPT !.start = m.at])
    BY <1>6
  <2>2. [NewFile(m.id) EXCEPT !.start = m.at].tail = <<>>
    BY DEF NewFile
  <2>3. \A n \in DOMAIN files : files[n].tail = <<>>
    BY <1>6 DEF NoTails
  <2> QED BY <2>1, <2>2, <2>3 DEF NoTails, Put
<1>7. ASSUME NEW m \in media, ScanData(m) PROVE NoTails'
  <2> USE DEF ScanData, Scanning
  <2>1. PICK n \in Owner(m) :
          files' = [files EXCEPT ![n].chunks = Put(@, m.offset, [at |-> m.at, units |-> m.units])]
    BY <1>7
  <2>2. \A x \in DOMAIN files : files[x].tail = <<>> /\ files[x] \in File
    BY <1>7, ScanFacts DEF NoTails, Directory
  <2>3. DOMAIN files' = DOMAIN files /\ \A x \in DOMAIN files : files'[x].tail = files[x].tail
    BY <2>1, <2>2 DEF File
  <2> QED BY <2>2, <2>3 DEF NoTails
<1>8. CASE UNCHANGED containerVars
  BY <1>8 DEF containerVars, NoTails
<1> QED BY <1>1, <1>2, <1>3, <1>4, <1>5, <1>6, <1>7, <1>8 DEF Next, ScanStep, NoTails

(* Without tails and buffered start chunks the files are what the media    *)
(* shows. *)
LEMMA ShownIsContents ==
  ASSUME NEW I, Directory(files, I), media \subseteq Header,
         \A n \in DOMAIN files : files[n].start # 0 /\ files[n].tail = <<>>
  PROVE  Contents(media, files) = [n \in Started(files) |-> PiecesOn(media, files[n])]
<1>1. Started(files) = DOMAIN files
  BY DEF Started
<1>2. ASSUME NEW n \in DOMAIN files
      PROVE  PiecesOn(media, files[n]) \o files[n].tail = PiecesOn(media, files[n])
  <2>1. files[n] \in File
    BY DEF Directory
  <2> QED BY <2>1, ContentIs
<1> QED BY <1>1, <1>2 DEF Contents

LEMMA ScanEndShows ==
  ASSUME ContainerInv, NoTails, ScanEnd
  PROVE  FilesArchive' = MediaArchive
<1> USE DEF ScanEnd
<1>1. PICK L : DiskOK(Scanned, scan, freeMap, L, {}) /\ Backed(files, L)
  BY ScanFacts
<1>2. /\ length = size /\ scan = size /\ MediaOK(media, size) /\ Directory(files, ids) /\ \A r \in freeMap : ~r.dirty
      /\ \A n \in DOMAIN files : files[n].start # 0 /\ files[n].tail = <<>>
  BY ScanFacts DEF NoTails, ContainerInv, StoredInv
<1>3. Scanned = media
  <2>1. \A m \in media : m.at < size
    <3> SUFFICES ASSUME NEW m \in media PROVE m.at < size
      OBVIOUS
    <3>1. m \in Header /\ End(m) <= size /\ size \in Nat
      BY ScanFacts DEF MediaOK
    <3> QED BY <3>1, HeaderFacts
  <2> QED BY <1>2, <2>1 DEF Scanned
<1>4. MediaArchive = [n \in Started(files) |-> PiecesOn(media, files[n])]
  BY <1>1, <1>2, <1>3, ShownDirectory
<1>5. Contents(media, files) = MediaArchive
  BY <1>2, <1>4, ShownIsContents DEF MediaOK
<1>6. FilesArchive' = Contents(media, files)
  BY FilesArchiveIs
<1> QED BY <1>5, <1>6

LEMMA CloseEndShows ==
  ASSUME ContainerInv, Orderly, CloseEnd
  PROVE  MediaArchive' = FilesArchive
<1> USE DEF CloseEnd
<1>1. PICK L : Holds(Disk, files, L) /\ Directory(files, ids)
  BY InUseHolds DEF InUse
<1>2. length = size /\ DiskOK(media, size, freeMap, L, {}) /\ Backed(files, L)
  <2>1. Disk.media = media /\ Disk.size = size /\ Disk.length = length /\ Disk.freeMap = freeMap
    BY DEF Disk
  <2> QED BY <1>1, <2>1, DiskOfLemma DEF Holds, Sound
<1>3. \A r \in freeMap : ~r.dirty
  BY DEF ContainerInv, ClosingInv
<1>4. MediaArchive = [n \in Started(files) |-> PiecesOn(media, files[n])]
  BY <1>1, <1>2, <1>3, ShownDirectory
<1>5. \A n \in DOMAIN files : files[n].start # 0 /\ files[n].tail = <<>>
  BY DEF Buffered
<1>6. media \subseteq Header
  BY <1>2 DEF DiskOK, MediaOK
<1>7. Contents(media, files) = MediaArchive
  BY <1>1, <1>4, <1>5, <1>6, ShownIsContents
<1> QED BY <1>7, FilesArchiveIs, SameMediaArchive

LEMMA CloseBeginShows ==
  ASSUME ~SupportsTruncation, ContainerInv, ContainerInv', CloseBegin
  PROVE  FilesArchive' = FilesArchive
<1> USE DEF CloseBegin, MayClose, Ready
<1>1. InUse /\ InUse' /\ files' = files
  BY DEF InUse
<1>2. PICK L : Holds(Disk, files, L) /\ L \subseteq media
  BY <1>1, InUseHolds
<1>3. \A m \in media' : m \in media \/ m.kind # "data"
  <2>1. media' = FlushFreeSpace(Disk).media
    BY DEF SetDisk
  <2> QED BY <1>2, <2>1, FlushedShows DEF Holds
<1>4. \A x \in DOMAIN files : Contents(media', files')[x] = Contents(media, files)[x]
  BY <1>1, <1>3, SameContents
<1> QED BY <1>1, <1>4, FilesArchiveIs, ContentsDomain

LEMMA EmptyShows ==
  ASSUME length = 0
  PROVE  MediaArchive = Nothing
<1>1. Reached = {}
  BY SizesLemma DEF Reached
<1> QED BY <1>1 DEF MediaArchive, MediaStarts, Nothing

LEMMA OpenShows ==
  ASSUME ContainerInv, Open
  PROVE  IF length = 0 THEN MediaArchive = Nothing /\ FilesArchive' = Nothing /\ InUse'
         ELSE MediaArchive' = MediaArchive /\ ~InUse'
<1> USE DEF Open
<1>1. /\ length = size /\ size \in Nat /\ HeaderUnits \in Nat
      /\ size # 0 => HeaderUnits <= size
  BY SizesLemma DEF ContainerInv, StoredInv
<1>2. CASE length = 0
  <2>1. FilesArchive' = Nothing
    <3>1. DOMAIN files' = {}
      OBVIOUS
    <3> QED BY <3>1 DEF FilesArchive, Nothing
  <2> QED BY <1>1, <1>2, <2>1, EmptyShows DEF InUse
<1>3. CASE length # 0
  <2>1. length' = length /\ media' = media
    BY <1>1, <1>3 DEF Higher
  <2> QED BY <1>3, <2>1, SameMediaArchive DEF InUse
<1> QED BY <1>2, <1>3

------------------------------------------------------------------------------
(* On a media that is not cut nothing lies past its end. *)
LEMMA AllPlaced ==
  ASSUME ~SupportsTruncation, NEW d, NEW L, Sound(d, L, {})
  PROVE  Flushable(d)
<1>1. d.size \in Nat /\ MapOK(d.freeMap, d.size)
  BY DEF Sound, DiskOK
<1>2. ASSUME NEW r \in d.freeMap PROVE ~(r.start > d.size)
  <2>1. r.start \in Nat /\ r.end \in Nat /\ r.start < r.end /\ r.end <= d.size
    BY <1>1 DEF MapOK, WellFormed, NonEmpty, Region
  <2> QED BY <1>1, <2>1
<1>3. Unplaced(d) = {}
  BY <1>2 DEF Unplaced, Dirty
<1> QED BY <1>3 DEF Flushable

LEMMA NoneRefused ==
  ASSUME NEW d, NEW L, Sound(d, L, {}),
         NEW from \in Nat, from = 0 \/ \E m \in L : m.at = from,
         NEW minimum \in Nat, NEW desired \in Nat, 1 <= minimum, minimum <= desired
  PROVE  ~Refused(d, from, minimum, desired)
<1>1. /\ DiskOK(d.media, d.size, d.freeMap, L, {}) /\ d.size \in Nat /\ MapOK(d.freeMap, d.size)
      /\ d.media \subseteq Header /\ L \subseteq d.media
  BY DEF Sound, DiskOK, MediaOK, SpaceOK
<1>2. \A m \in L : m.at \in Nat /\ End(m) \in Nat /\ m.at < End(m) /\ End(m) <= d.size
  BY <1>1, HeaderFacts DEF DiskOK, MediaOK
<1>3. \A q \in d.freeMap : /\ q.start \in Nat /\ q.end \in Nat /\ q.start < q.end /\ q.end <= d.size
                           /\ \A m \in L : Clear(q, m)
  BY <1>1 DEF MapOK, WellFormed, NonEmpty, Region, DiskOK, SpaceOK
<1>4. from <= d.size /\ \A r \in d.freeMap : ~(r.start < from /\ from < r.end)
  <2>1. CASE from = 0
    BY <1>1, <1>3, <2>1
  <2>2. CASE \E m \in L : m.at = from
    BY <1>1, <1>2, <1>3, <2>2 DEF Clear
  <2> QED BY <2>1, <2>2
<1>5. PICK b \in Nat, l \in Nat : Served(d.freeMap, d.size, from, minimum, desired, b, l)
  BY <1>1, <1>4, AllocationLemma
<1>6. b <= d.size
  BY <1>1, <1>3, <1>5 DEF Served
<1>7. ~Overlaps(d)
  BY <1>1 DEF Overlaps, MapOK, WellFormed
<1>8. Taken(d, from, minimum, desired).start = b
  BY <1>5, <1>7 DEF Taken, Served
<1> QED BY <1>1, <1>6, <1>8 DEF Refused

LEMMA NothingRefused ==
  ASSUME ~SupportsTruncation, Orderly, ContainerInv,
         CloseRefused \/ \E n \in Names : EraseRefused(n) \/ SaveRefused(n)
  PROVE  FALSE
<1>1. CASE CloseRefused
  <2>1. InUse /\ ~Flushable(Disk)
    BY <1>1 DEF CloseRefused, MayClose, Ready, InUse
  <2> QED BY <2>1, InUseHolds, AllPlaced DEF Holds
<1>2. ASSUME NEW n \in Names, EraseRefused(n) PROVE FALSE
  <2>1. InUse /\ n \in DOMAIN files /\ ~Flushable(Freed(Disk, ChunksOf(files[n])))
    BY <1>2 DEF EraseRefused, Ready, Has, InUse
  <2>2. PICK L : Holds(Disk, files, L) /\ Directory(files, ids)
    BY <2>1, InUseHolds
  <2>3. PICK G \in SUBSET L : Sound(Disk, L \ G, ChunksOf(files[n]))
    BY <2>1, <2>2, ErasedAreas
  <2>4. Sound(Freed(Disk, ChunksOf(files[n])), L \ G, {})
    BY <2>3, FreedSound
  <2> QED BY <2>1, <2>4, AllPlaced
<1>3. ASSUME NEW n \in Names, SaveRefused(n) PROVE FALSE
  <2>1. PICK e, f : e = StartSaved(Disk, n, files[n]) /\ f = StartedFile(Disk, files[n])
    OBVIOUS
  <2>2. /\ n \in DOMAIN files /\ InUse
        /\ \/ Refused(Disk, 0, StartUnits, StartUnits)
           \/ StartFits(Disk, files[n]) /\ Refused(e, LastKnownFileIndex(f), 1, MaxUnits)
    BY <1>3, <2>1 DEF SaveRefused, Has, InUse, Ready
  <2>3. PICK L : Holds(Disk, files, L) /\ Directory(files, ids)
    BY <2>2, InUseHolds
  <2>4. CASE Refused(Disk, 0, StartUnits, StartUnits)
    <3>1. 0 \in Nat /\ StartUnits \in Nat /\ 1 <= StartUnits /\ StartUnits <= StartUnits
      BY SizesLemma
    <3> QED BY <2>3, <2>4, <3>1, NoneRefused DEF Holds
  <2>5. CASE StartFits(Disk, files[n]) /\ Refused(e, LastKnownFileIndex(f), 1, MaxUnits)
    <3>1. PICK fs : fs = Put(files, n, f)
      OBVIOUS
    <3>2. PICK K : Holds(e, fs, K) /\ Directory(fs, ids) /\ f.start # 0
      BY <2>1, <2>2, <2>3, <2>5, <3>1, StartLemma
    <3>3. n \in DOMAIN fs /\ fs[n] = f
      BY <3>1 DEF Put
    <3>4. LastKnownFileIndex(f) \in Nat /\ \E m \in K : m.at = LastKnownFileIndex(f)
      BY <3>2, <3>3, FromLemma
    <3>5. 1 \in Nat /\ 1 <= 1 /\ MaxUnits \in Nat /\ 1 <= MaxUnits /\ Sound(e, K, {})
      BY <3>2, SizesLemma DEF Holds
    <3> QED BY <2>5, <3>4, <3>5, NoneRefused
  <2> QED BY <2>2, <2>4, <2>5
<1> QED BY <1>1, <1>2, <1>3

------------------------------------------------------------------------------
(* Container is an Archive. *)
LEMMA UseActs ==
  ASSUME ~SupportsTruncation, Orderly, ContainerInv, ContainerInv', NEW n \in Names,
         \/ NewVirtualFile(n) \/ Erase(n) \/ \E m \in Names : Rename(n, m)
         \/ \E u \in TailUnits(n) : \/ Flush(n, u) \/ \E p \in Pieces : AppendTo(n, p, u)
                                  \/ \E k \in 0 .. MaxPieces : \E left \in LeftUnits(n, k, u) : Truncate(n, k, u, left)
  PROVE  InUse /\ InUse' /\ Acts(Contents(media, files), Contents(media', files'))
<1>1. InUse /\ InUse'
  BY DEF NewVirtualFile, Erase, Rename, Flush, AppendTo, Truncate, Ready, InUse
<1> DEFINE A == Contents(media, files)
           B == Contents(media', files')
<1>2. ASSUME NewVirtualFile(n) PROVE Acts(A, B)
  <2>1. Creates(A, B, n)
    BY <1>2, CreateActs
  <2> QED BY <2>1 DEF Acts
<1>3. ASSUME Erase(n) PROVE Acts(A, B)
  <2>1. Erases(A, B, n)
    BY <1>3, EraseActs
  <2> QED BY <2>1 DEF Acts
<1>4. ASSUME NEW m \in Names, Rename(n, m) PROVE Acts(A, B)
  <2>1. Renames(A, B, n, m)
    BY <1>4, RenameActs
  <2> QED BY <2>1 DEF Acts
<1>5. ASSUME NEW u \in TailUnits(n), Flush(n, u) PROVE Acts(A, B)
  <2>1. A = B
    BY <1>5, FlushActs, TailUnitsLemma
  <2> QED BY <2>1 DEF Acts
<1>6. ASSUME NEW u \in TailUnits(n), NEW p \in Pieces, AppendTo(n, p, u) PROVE Acts(A, B)
  <2>1. Appends(A, B, n, p)
    BY <1>6, AppendActs, TailUnitsLemma
  <2> QED BY <2>1 DEF Acts
<1>7. ASSUME NEW u \in TailUnits(n), NEW k \in 0 .. MaxPieces, NEW left \in LeftUnits(n, k, u),
             Truncate(n, k, u, left)
      PROVE  Acts(A, B)
  <2>1. Truncates(A, B, n, k)
    BY <1>7, TruncateActs, TailUnitsLemma, LeftUnitsLemma
  <2> QED BY <2>1 DEF Acts
<1> HIDE DEF A, B
<1>8. Acts(A, B)
  BY <1>2, <1>3, <1>4, <1>5, <1>6, <1>7
<1> QED BY <1>1, <1>8 DEF A, B

LEMMA StepActs ==
  ASSUME ~SupportsTruncation, ContainerInv, ContainerInv', NoTails, [Next]_containerVars
  PROVE  Acts(TheArchive, TheArchive')
<1>1. Orderly' <=> Orderly
  BY SettingKept DEF Orderly
<1>2. CASE ~Orderly
  BY <1>1, <1>2 DEF TheArchive, Acts
<1>3. SUFFICES ASSUME Orderly PROVE Acts(TheArchive, TheArchive')
  BY <1>2
<1>4. /\ InUse => TheArchive = FilesArchive
      /\ ~InUse => TheArchive = MediaArchive
      /\ InUse' => TheArchive' = FilesArchive'
      /\ ~InUse' => TheArchive' = MediaArchive'
  BY <1>1, <1>3 DEF TheArchive
<1>5. CASE Open
  <2>1. ~InUse
    BY <1>5 DEF Open, InUse
  <2>2. TheArchive = TheArchive'
    BY <1>4, <1>5, <2>1, OpenShows
  <2> QED BY <2>2 DEF Acts
<1>6. CASE ScanBegin \/ ScanFails \/ \E m \in media : ScanFill(m) \/ ScanStart(m) \/ ScanData(m)
  <2>1. ~InUse /\ ~InUse' /\ media' = media /\ length' = length
    BY <1>6 DEF ScanBegin, ScanFails, ScanFill, ScanStart, ScanData, Scanning, InUse
  <2>2. TheArchive = TheArchive'
    BY <1>4, <2>1, SameMediaArchive
  <2> QED BY <2>2 DEF Acts
<1>7. CASE ScanEnd
  <2>1. ~InUse /\ InUse'
    BY <1>7 DEF ScanEnd, InUse
  <2>2. TheArchive = TheArchive'
    BY <1>4, <1>7, <2>1, ScanEndShows
  <2> QED BY <2>2 DEF Acts
<1>8. CASE CloseBegin
  <2>1. InUse /\ InUse'
    BY <1>8 DEF CloseBegin, MayClose, Ready, InUse
  <2>2. TheArchive = TheArchive'
    BY <1>4, <1>8, <2>1, CloseBeginShows
  <2> QED BY <2>2 DEF Acts
<1>9. CASE CloseEnd
  <2>1. InUse /\ ~InUse'
    BY <1>9 DEF CloseEnd, InUse
  <2>2. TheArchive = TheArchive'
    BY <1>3, <1>4, <1>9, <2>1, CloseEndShows
  <2> QED BY <2>2 DEF Acts
<1>10. ASSUME NEW n, NEW u, CloseFile(n, u) PROVE FALSE
  BY <1>3, <1>10 DEF CloseFile, ContainerInv, ClosingInv
<1>11. ASSUME NEW n, NewVirtualFileExists(n) PROVE FALSE
  BY <1>3, <1>11 DEF NewVirtualFileExists, Orderly
<1>r. CASE CloseRefused \/ \E n \in Names : EraseRefused(n) \/ SaveRefused(n)
  BY <1>3, <1>r, NothingRefused
<1>12. ASSUME NEW n \in Names,
              \/ NewVirtualFile(n) \/ Erase(n) \/ \E m \in Names : Rename(n, m)
              \/ \E u \in TailUnits(n) : \/ Flush(n, u) \/ \E p \in Pieces : AppendTo(n, p, u)
                                       \/ \E k \in 0 .. MaxPieces : \E left \in LeftUnits(n, k, u) : Truncate(n, k, u, left)
       PROVE  Acts(TheArchive, TheArchive')
  <2>1. InUse /\ InUse' /\ Acts(Contents(media, files), Contents(media', files'))
    BY <1>3, <1>12, UseActs
  <2> QED BY <1>4, <2>1, FilesArchiveIs
<1>13. CASE UNCHANGED containerVars
  <2>1. TheArchive' = TheArchive
    <3>1. media' = media /\ length' = length /\ files' = files /\ phase' = phase
      BY <1>13 DEF containerVars
    <3>2. InUse' <=> InUse
      BY <3>1 DEF InUse
    <3>3. FilesArchive' = FilesArchive
      BY <3>1, FilesArchiveIs
    <3> QED BY <1>4, <3>1, <3>2, <3>3, SameMediaArchive
  <2> QED BY <2>1 DEF Acts
<1> QED BY <1>5, <1>6, <1>7, <1>8, <1>9, <1>10, <1>11, <1>12, <1>13, <1>r DEF Next, ScanStep, CloseStep

LEMMA ActsIsArchive ==
  ASSUME Acts(TheArchive, TheArchive')
  PROVE  [Abstract!ArchiveNext]_TheArchive
<1> USE DEF Abstract!ArchiveNext, TheArchive, Nothing
<1>1. ASSUME NEW n \in Names, Creates(TheArchive, TheArchive', n) PROVE Abstract!CreateFile(n)
  BY <1>1 DEF Creates, Sets, Abstract!CreateFile, Abstract!Put
<1>2. ASSUME NEW n \in Names, Erases(TheArchive, TheArchive', n) PROVE Abstract!EraseFile(n)
  BY <1>2 DEF Erases, Abstract!EraseFile, Abstract!Without
<1>3. ASSUME NEW n \in Names, NEW p \in Pieces, Appends(TheArchive, TheArchive', n, p)
      PROVE  Abstract!AppendPiece(n, p)
  BY <1>3 DEF Appends, Sets, Abstract!AppendPiece, Abstract!Put
<1>4. ASSUME NEW n \in Names, NEW k \in 0 .. MaxPieces, Truncates(TheArchive, TheArchive', n, k)
      PROVE  Abstract!TruncateFile(n, k)
  BY <1>4 DEF Truncates, Sets, Abstract!TruncateFile, Abstract!Put
<1>5. ASSUME NEW n \in Names, NEW m \in Names, Renames(TheArchive, TheArchive', n, m)
      PROVE  Abstract!RenameFile(n, m)
  BY <1>5 DEF Renames, Abstract!RenameFile
<1> HIDE DEF TheArchive
<1> QED BY <1>1, <1>2, <1>3, <1>4, <1>5 DEF Acts

LEMMA InitIsArchive ==
  ASSUME Init
  PROVE  Abstract!ArchiveInit /\ NoTails
<1>1. length = 0 /\ ~InUse /\ NoTails
  BY DEF Init, InUse, NoTails
<1>2. MediaArchive = Nothing
  BY <1>1, EmptyShows
<1> QED BY <1>1, <1>2 DEF Abstract!ArchiveInit, Nothing

(* While no region waits to be flushed, a program may end without closing  *)
(* the container: the media has the stored part of every file.             *)
THEOREM CleanMediaAlwaysParses == Spec /\ ~SupportsTruncation => []CleanMediaParses
BY ContainerInvariant, CleanMediaLemma, PTL

(* With every close, open and scan, and whatever holes its chunks lie in,  *)
(* a container is a directory of named sequences of pieces.                *)
THEOREM ContainerIsArchive == Spec /\ ~SupportsTruncation => IsArchive
<1>1. Init => Abstract!ArchiveInit /\ NoTails
  BY InitIsArchive
<1>2. ContainerInv /\ NoTails /\ [Next]_containerVars => NoTails'
  BY NoTailsKept
<1>3. ~SupportsTruncation /\ [Next]_containerVars => ~SupportsTruncation'
  BY SettingKept DEF SupportsTruncation
<1>4. ~SupportsTruncation /\ ContainerInv /\ ContainerInv' /\ NoTails /\ [Next]_containerVars
        => [Abstract!ArchiveNext]_(IF ~Orderly THEN [n \in {} |-> <<>>] ELSE IF InUse THEN FilesArchive ELSE MediaArchive)
  BY StepActs, ActsIsArchive DEF TheArchive, Nothing
<1> QED BY <1>1, <1>2, <1>3, <1>4, ContainerInvariant, PTL DEF Spec, IsArchive, Abstract!ArchiveSpec
==============================================================================
