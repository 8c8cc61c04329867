------------------------------- MODULE Opening -------------------------------
(***************************************************************************)
(* What a container object makes of media it did not write: ContainerImpl  *)
(* opens, checks the header, scans the chunks for the directory or for a   *)
(* streamed read, and its calls answer with statuses that tell how far     *)
(* they came.  The media is the row of its chunks; the last may be torn,   *)
(* as a program that stopped while it wrote leaves it.                     *)
(*                                                                         *)
(* The operations are functions of the container and the media, since one  *)
(* thread makes the calls; a payload is what one data chunk holds.  Where  *)
(* chunks lie, and the free space, are Container's.                        *)
(***************************************************************************)
EXTENDS Status, SequencesExt

CONSTANTS
  NamesInOrder,  \* the virtual file names, as the maps order them
  Payloads,      \* what one data chunk may hold
  MaxCalls       \* bound on the calls of a program

Names == ToSet(NamesInOrder)

ASSUME OpeningAssumption ==
  NamesInOrder \in Seq(Names) /\ IsInjective(NamesInOrder) /\ MaxCalls \in Nat

FirstOf(names) == NamesInOrder[Min({i \in DOMAIN NamesInOrder : NamesInOrder[i] \in names})]

Assigned(f, k, v) == [x \in DOMAIN f \cup {k} |-> IF x = k THEN v ELSE f[x]]
Without(f, k)     == [x \in DOMAIN f \ {k} |-> f[x]]
NoEntries == [n \in {} |-> 0]

------------------------------------------------------------------------------
(* The media: the state of the header ("absent", "none", "stub", "foreign", *)
(* "older", "newer", "badCrc" or "good"), the chunks behind it, and the    *)
(* part in which the last one is cut off.                                  *)
NoName == "none"

Start(name, id)   == [type |-> "start", id |-> id, name |-> name, payload |-> 0]
Data(id, payload) == [type |-> "data", id |-> id, name |-> NoName, payload |-> payload]
FillChunk == [type |-> "fill", id |-> 0, name |-> NoName, payload |-> 0]
Zeros     == [type |-> "header", id |-> 0, name |-> NoName, payload |-> 0]  \* type 0

Chunk == {Start(n, id) : n \in Names, id \in Nat} \cup {Data(id, p) : id \in Nat, p \in Payloads}
         \cup {FillChunk, Zeros}

(* What there is of chunk i: 1 the common header, 2 its own, 3 the payload. *)
PartsOf(torn) == CASE torn = "common" -> 0 [] torn = "header" -> 1
                   [] torn = "payload" -> 2 [] OTHER -> 3
PartsThere(media, i) == IF i = Len(media.chunks) THEN PartsOf(media.torn) ELSE 3

ShortRead == ReadSuccessful(1)  \* of the four bytes or more that were asked for

(* Every read but a whole one is answered with the count it got.           *)
Load(media, i, parts) == IF PartsThere(media, i) >= parts THEN NoStatus ELSE ShortRead

(* The names, identifiers and contents that the media holds, for whoever   *)
(* reads it whole.                                                         *)
StartsIn(row)     == {i \in DOMAIN row : row[i].type = "start"}
Starts(media)     == StartsIn(media.chunks)
IdOnMedia(media)  == [n \in {media.chunks[i].name : i \in Starts(media)} |->
                        media.chunks[CHOOSE i \in Starts(media) : media.chunks[i].name = n].id]
Collected(row, id) ==
  FoldLeft(LAMBDA found, ch : IF ch.type = "data" /\ ch.id = id THEN Append(found, ch.payload) ELSE found,
           <<>>, row)
FilesOn(media) == [n \in DOMAIN IdOnMedia(media) |-> Collected(media.chunks, IdOnMedia(media)[n])]

(* What the containers of this library leave, closed in order or stopped   *)
(* while they wrote: the start of a file before its data, names and        *)
(* identifiers once; and empty media hold nothing.                         *)
WellFormed(row) ==
  /\ \A i, j \in StartsIn(row) : i # j => row[i].id # row[j].id /\ row[i].name # row[j].name
  /\ \A j \in DOMAIN row : row[j].type = "data" =>
       \E i \in StartsIn(row) : i < j /\ row[i].id = row[j].id

Media == [header : {"absent", "none", "stub", "foreign", "older", "newer", "badCrc", "good"},
          chunks : Seq(Chunk), torn : {"whole", "common", "header", "payload"}]
AnyMedia == {m \in Media : WellFormed(m.chunks) /\ (m.header = "none" => m.chunks = <<>>)}

------------------------------------------------------------------------------
(* The container object: is startingFileIndex valid, fileMapsPopulated,    *)
(* filesByName with the files, filesByIdentifier, lastReportedStatus.      *)
Unopened == [located |-> FALSE, populated |-> FALSE, files |-> NoEntries,
             ids |-> NoEntries, last |-> NoStatus]

(* A file: what is stored of it, its tail, and whether its position has    *)
(* left the start (for the end).                                           *)
NewFile(id) == [id |-> id, started |-> FALSE, stored |-> <<>>, tail |-> <<>>, moved |-> FALSE]

(* The checks of the header, in their order; ignoreIdentifierOnOpen skips  *)
(* those of the version, too.                                              *)
CheckedHeader(header, ignoring) ==
  CASE header = "stub"                  -> ShortRead
    [] header = "foreign" /\ ~ignoring  -> HeaderIdentifierInvalid
    [] header = "older" /\ ~ignoring    -> VersionDownlevelStatus
    [] header = "newer" /\ ~ignoring    -> HeaderVersionInvalid
    [] header = "badCrc"                -> HeaderCrcError
    [] OTHER                            -> NoStatus

(* FileContainer::open: empty media get a header; size() is compared with  *)
(* an index of units, so that other media always wait for a scan.          *)
Open(media, ignoring, writable) ==
  LET empty  == media.header = "none"
      status == CASE media.header = "absent" -> FailedToOpenFile
                  [] empty /\ ~writable      -> FileWriteError
                  [] OTHER                   -> CheckedHeader(media.header, ignoring)
      opened == ~Informs(status)
  IN  [status |-> status,
       media |-> IF empty /\ opened THEN [media EXCEPT !.header = "good"] ELSE media,
       container |-> [Unopened EXCEPT !.located = opened, !.populated = opened /\ empty,
                                      !.last = status]]

(* Mutated form: the number of identifiers is taken for an unused one.     *)
NextIdentifier(ids) == Cardinality(DOMAIN ids)

(* newStreamIdentifier: the first that is not a key of the map; n keys     *)
(* leave one of the first n + 1 free.                                      *)
UnusedIdentifier(ids) == Min({k \in 0 .. Cardinality(DOMAIN ids) : k \notin DOMAIN ids})

(* callNewVirtualFile with a first guess at the identifier, and the real   *)
(* one put in its place.                                                   *)
FoundFile(container, chunk) ==
  LET guess == UnusedIdentifier(container.ids)
      known == Assigned(container.ids, guess, chunk.name)
  IN  [container EXCEPT
        !.files = Assigned(@, chunk.name, [NewFile(chunk.id) EXCEPT !.started = TRUE]),
        !.ids = IF guess = chunk.id THEN known
                ELSE Without(IF chunk.id \in DOMAIN known THEN known
                             ELSE Assigned(known, chunk.id, chunk.name), guess)]

Fails(s, status) == [s EXCEPT !.status = status]

(* One chunk of a scan s: [container, status, heard], where heard is what  *)
(* receivedData was given for each file.                                   *)
ScanStart(s, media, i) ==
  LET chunk == media.chunks[i]
  IN  IF Informs(Load(media, i, 2)) THEN Fails(s, Load(media, i, 2))
      ELSE IF chunk.name \in DOMAIN s.container.files THEN Fails(s, FilenameMismatch)
      ELSE [s EXCEPT !.container = FoundFile(@, chunk),
                     !.heard = Assigned(@, chunk.name, <<>>)]

(* A file of a class that does not override receivedData answers           *)
(* StreamingReadError.                                                     *)
ScanData(s, media, i, mapsOnly, listens) ==
  LET chunk  == media.chunks[i]
      loaded == Load(media, i, IF mapsOnly THEN 2 ELSE 3)
      name   == s.container.ids[chunk.id]
  IN  IF Informs(loaded) THEN Fails(s, loaded)
      ELSE IF chunk.id \notin DOMAIN s.container.ids THEN Fails(s, StreamIdentifierMismatch)
      ELSE [container |-> [s.container EXCEPT !.files[name].stored = Append(@, chunk.payload)],
            status |-> IF mapsOnly \/ listens THEN NoStatus ELSE StreamingReadError,
            heard |-> IF mapsOnly \/ ~listens THEN s.heard
                      ELSE [s.heard EXCEPT ![name] = Append(@, chunk.payload)]]

ScanChunk(s, media, i, mapsOnly, listens) ==
  LET type == media.chunks[i].type
  IN  IF Informs(Load(media, i, 1)) THEN Fails(s, Load(media, i, 1))
      ELSE CASE type = "fill"   -> s
             [] type = "start"  -> ScanStart(s, media, i)
             [] type = "data"   -> ScanData(s, media, i, mapsOnly, listens)
             [] type = "header" -> Fails(s, ContainerDataError)

(* traverseContainer stops at whatever a step has to say.  A container     *)
(* that was not opened has its first chunk past every end.  The free map   *)
(* is Container's; a second scan adds the fill chunks to it again, which   *)
(* an assertion of newFreeSpaceArea does not admit and a release build     *)
(* does.                                                                   *)
Traverse(container, media, mapsOnly, listens) ==
  LET s == [container |-> [container EXCEPT !.populated = TRUE], status |-> NoStatus,
            heard |-> NoEntries]
  IN  IF ~container.located THEN s
      ELSE FoldLeftDomain(LAMBDA t, i : IF Informs(t.status) THEN t
                                        ELSE ScanChunk(t, media, i, mapsOnly, listens),
                          s, media.chunks)

(* Mutated form: a call that does not scan has nothing to say. *)
DirectoryForgets(container, media) ==
  LET t == Traverse(container, media, TRUE, FALSE)
  IN  IF container.populated THEN [container EXCEPT !.last = NoStatus]
      ELSE [t.container EXCEPT !.last = t.status]

(* directory() and newVirtualFile() scan once, and keep what the scan said. *)
Directory(container, media) ==
  LET t == Traverse(container, media, TRUE, FALSE)
  IN  IF container.populated THEN container
      ELSE [t.container EXCEPT !.last = t.status]

NewVirtualFile(container, media, name) ==
  LET c  == Directory(container, media)
      id == UnusedIdentifier(c.ids)
  IN  [c EXCEPT !.files = Assigned(@, name, NewFile(id)), !.ids = Assigned(@, id, name)]

(* Mutated form: a short read in the middle of a file is taken for its end. *)
StreamReadLenient(container, media, listens) ==
  LET t == Traverse(container, media, FALSE, listens)
  IN  [container |-> t.container, heard |-> t.heard,
       status |-> IF Succeeded(t.status) THEN NoStatus ELSE t.status,
       ended |-> IF Failed(t.status) THEN {} ELSE DOMAIN t.container.files]

(* streamRead scans whether or not the maps are there. *)
StreamRead(container, media, listens) ==
  LET t == Traverse(container, media, FALSE, listens)
  IN  [container |-> t.container, status |-> t.status, heard |-> t.heard,
       ended |-> IF Informs(t.status) THEN {} ELSE DOMAIN t.container.files]

------------------------------------------------------------------------------
(* A program that opens a container and calls it.                          *)
VARIABLES
  media, container,
  options,  \* ignoring: does it ignore identifiers?  writable: may it write?
            \* streams: does it call streamRead?  listens: do its files take
            \* the data?
  call,     \* the last call it made
  calls,    \* how many
  reply,    \* the status that call returned
  heard,    \* what receivedData was given in it
  ended     \* the files whose endOfFile it called

openingVars == <<media, container, options, call, calls, reply, heard, ended>>

OpeningInit(someMedia, someOptions) ==
  /\ media \in someMedia /\ options \in someOptions
  /\ container = Unopened /\ call = "none" /\ calls = 0
  /\ reply = NoStatus /\ heard = NoEntries /\ ended = {}

Calls(name) == call' = name /\ calls < MaxCalls /\ calls' = calls + 1 /\ UNCHANGED options
Hears(h, e) == heard' = h /\ ended' = e

CallOpen ==
  LET o == Open(media, options.ignoring, options.writable)
  IN  /\ call = "none" /\ Calls("open")
      /\ media' = o.media /\ container' = o.container /\ reply' = o.status
      /\ Hears(NoEntries, {})

CallDirectory ==
  /\ call # "none" /\ Calls("directory")
  /\ container' = Directory(container, media) /\ reply' = container'.last
  /\ Hears(NoEntries, {}) /\ UNCHANGED media

CallStreamRead ==
  LET t == StreamRead(container, media, options.listens)
  IN  /\ options.streams /\ call # "none" /\ Calls("streamRead")
      /\ container' = t.container /\ reply' = t.status /\ Hears(t.heard, t.ended)
      /\ UNCHANGED media

(* Of a name that exists it is undefined behaviour (Container has the step). *)
CallNewVirtualFile(name) ==
  /\ call # "none" /\ Calls("newVirtualFile")
  /\ name \notin DOMAIN Directory(container, media).files
  /\ container' = NewVirtualFile(container, media, name) /\ reply' = container'.last
  /\ Hears(NoEntries, {}) /\ UNCHANGED media

ReaderNext ==
  \/ CallOpen \/ CallDirectory \/ CallStreamRead
  \/ \E name \in Names : CallNewVirtualFile(name)

AnyOptions == [ignoring : BOOLEAN, writable : BOOLEAN, streams : BOOLEAN, listens : BOOLEAN]

(* A program that reads, on any media that a container may have left. *)
ReaderSpec == OpeningInit(AnyMedia, AnyOptions) /\ [][ReaderNext]_openingVars

------------------------------------------------------------------------------
(* A streamed read of an opened container that has nothing to say has      *)
(* given every file on the media all of its payloads, in their order, and  *)
(* ended each: streamRead with traverseContainer and receivedData.         *)
StreamDelivers ==
  call = "streamRead" /\ ~Informs(reply) /\ container.located =>
    heard = FilesOn(media) /\ DOMAIN FilesOn(media) \subseteq ended

(* A directory of an opened container whose lastStatus has nothing to say  *)
(* has every file of the media, with its identifier and its chunks, also   *)
(* when an earlier call made the scan.  It is not so once a streamed read  *)
(* has stopped half-way, whose status lastStatus never gets.               *)
DirectoryWhole ==
  call = "directory" /\ ~Informs(reply) /\ container.located /\ ~options.streams =>
    \A n \in DOMAIN FilesOn(media) :
      /\ n \in DOMAIN container.files
      /\ container.files[n].id = IdOnMedia(media)[n]
      /\ container.files[n].stored = FilesOn(media)[n]

(* A file made by newVirtualFile of a container that could be scanned gets *)
(* an identifier that no chunk of the media has, though the file may be    *)
(* made before anyone asked for the directory.                             *)
NewIdentifierFree ==
  call = "newVirtualFile" /\ ~Informs(reply) /\ container.located /\ ~options.streams =>
    \A n \in DOMAIN container.files :
      ~container.files[n].started =>
        \A i \in DOMAIN media.chunks :
          media.chunks[i].type \in {"start", "data"} => media.chunks[i].id # container.files[n].id
==============================================================================
