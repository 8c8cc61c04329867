---------------------------------- MODULE Ic ----------------------------------
(***************************************************************************)
(* The command line tool: main opens the container, takes the directory,   *)
(* and executes the switches in their order, each by one of the functions  *)
(* of ic.cpp, until one fails; then it closes the container.  The file     *)
(* system is a map from names to files, which the tool imports from and    *)
(* exports to.  A payload is what it moves at once.                        *)
(***************************************************************************)
EXTENDS Opening

CONSTANTS
  ContainerName,  \* the argument that names the container
  DiskFills       \* may a write to an exported file come up short?

Switches == {"-l", "-I", "-X", "-r", "-e", "-i", "-x", "-h", "--help", "-?"}

(* What stands on a command line is a switch, a file's name or the         *)
(* container's, and which of them can be told.                             *)
ASSUME IcAssumption ==
  /\ ContainerName \notin Names \cup Switches /\ Names \cap Switches = {}
  /\ DiskFills \in BOOLEAN

VARIABLES
  arguments,       \* argumentValues from 1 on
  argumentNumber,
  exitStatus,
  control,         \* "start", "opened", "switches", "exporting", "importing",
                   \* "closed", "scattered" (closed, with chunks in the free
                   \* space) or "crashed"
  directory,       \* the keys of the tool's copy of the directory
  pending,         \* the files doExport has not come to
  disk,            \* the file system
  given            \* the media and the file system at the start

toolVars == <<arguments, argumentNumber, exitStatus, control, directory, pending, disk, given>>

(* A file: its content, or why there is none to be had. *)
Plain(content) == [kind |-> "plain", content |-> content]
Missing == [kind |-> "missing", content |-> <<>>]
Locked  == [kind |-> "locked", content |-> <<>>]  \* neither readable nor writable
Folder  == [kind |-> "folder", content |-> <<>>]  \* readable as far as access() knows

ToolInit(someMedia, someArguments, someDisks) ==
  /\ OpeningInit(someMedia, {[ignoring |-> TRUE, writable |-> TRUE, streams |-> FALSE, listens |-> FALSE]})
  /\ arguments \in someArguments /\ disk \in someDisks
  /\ argumentNumber = 1 /\ exitStatus = 0 /\ control = "start"
  /\ directory = {} /\ pending = {}
  /\ given = [media |-> media, disk |-> disk]

Helps == ToSet(arguments) \cap {"-h", "--help", "-?"} # {}

(* The first argument that does not begin with "-". *)
ContainerAt == LET named == {i \in DOMAIN arguments : arguments[i] \notin Switches}
               IN  IF named = {} THEN 0 ELSE Min(named)

ToolStep == UNCHANGED <<options, call, calls, reply, heard, ended, arguments, given>>

(* main, before the first switch: help and nothing else, or no container.  *)
StartHelp ==
  /\ control = "start" /\ Helps
  /\ control' = "closed"
  /\ ToolStep /\ UNCHANGED <<media, container, argumentNumber, exitStatus, directory, pending, disk>>

StartUnnamed ==
  /\ control = "start" /\ ~Helps
  /\ ContainerAt = 0
  /\ control' = "closed" /\ exitStatus' = 1
  /\ ToolStep /\ UNCHANGED <<media, container, argumentNumber, directory, pending, disk>>

(* Mutated form: main asks whether the status is an error. *)
RefusesErrors(status) == Failed(status)

(* Any status with something to say ends it. *)
Refuses(status) == Informs(status)

(* An open that failed leaves the loop over the switches out. *)
OpenContainer ==
  LET o == Open(media, TRUE, TRUE)
  IN  /\ control = "start" /\ ~Helps
      /\ ContainerAt # 0
      /\ media' = o.media /\ container' = o.container
      /\ control' = IF Refuses(o.status) THEN "switches" ELSE "opened"
      /\ exitStatus' = IF Refuses(o.status) THEN 1 ELSE 0
      /\ ToolStep /\ UNCHANGED <<argumentNumber, directory, pending, disk>>

TakeDirectory ==
  /\ control = "opened"
  /\ container' = Directory(container, media)
  /\ directory' = DOMAIN container'.files
  /\ control' = "switches"
  /\ exitStatus' = IF Refuses(container'.last) THEN 1 ELSE 0
  /\ ToolStep /\ UNCHANGED <<media, argumentNumber, pending, disk>>

------------------------------------------------------------------------------
(* The argument after the switch, past the container's; when there is none *)
(* the tool makes a string of the null pointer behind the last argument.   *)
NextArgument == IF argumentNumber + 1 = ContainerAt THEN argumentNumber + 2 ELSE argumentNumber + 1

At(switches) ==
  /\ control = "switches" /\ exitStatus = 0 /\ argumentNumber <= Len(arguments)
  /\ argumentNumber # ContainerAt /\ arguments[argumentNumber] \in switches
Parameter == arguments[NextArgument]
WithParameter(switches) == At(switches) /\ NextArgument <= Len(arguments)

Returns(status) == exitStatus' = status
AndGoesOn(n)    == argumentNumber' = argumentNumber + n

(* Mutated form: the loop does not step over the container's name. *)
SkipContainerStays ==
  /\ control = "switches" /\ exitStatus = 0 /\ argumentNumber = ContainerAt
  /\ AndGoesOn(0)
  /\ ToolStep /\ UNCHANGED <<media, container, exitStatus, control, directory, pending, disk>>

SkipContainer ==
  /\ control = "switches" /\ exitStatus = 0 /\ argumentNumber = ContainerAt
  /\ AndGoesOn(1)
  /\ ToolStep /\ UNCHANGED <<media, container, exitStatus, control, directory, pending, disk>>

DoList ==
  /\ At({"-l"}) /\ AndGoesOn(1)
  /\ ToolStep /\ UNCHANGED <<media, container, exitStatus, control, directory, pending, disk>>

(* Mutated form: the chunks of every file from this identifier on go. *)
EraseChunksFrom(id) ==
  [i \in DOMAIN media.chunks |->
     IF media.chunks[i].type \in {"start", "data"} /\ media.chunks[i].id >= id
     THEN FillChunk ELSE media.chunks[i]]

(* VirtualFileImpl::erase: the chunks become free space, the maps by name  *)
(* lose the file and the object its container, so that a second erase of   *)
(* the object is refused.                                                  *)
EraseChunks(id) ==
  [i \in DOMAIN media.chunks |->
     IF media.chunks[i].type \in {"start", "data"} /\ media.chunks[i].id = id
     THEN FillChunk ELSE media.chunks[i]]

Erase(name) ==
  /\ media' = [media EXCEPT !.chunks = EraseChunks(container.files[name].id)]
  /\ container' = [container EXCEPT !.files = Without(@, name)]

(* The iterator of doInitialize is never advanced: the first file is       *)
(* erased, and the second turn erases the same object, which is refused.   *)
DoInitialize ==
  /\ At({"-I"}) /\ AndGoesOn(1)
  /\ \/ directory = {} /\ Returns(0) /\ UNCHANGED <<media, container>>
     \/ directory # {} /\ Returns(1) /\ Erase(FirstOf(directory))
  /\ ToolStep /\ UNCHANGED <<control, directory, pending, disk>>

(* A name that is not there is no error. *)
DoRemove ==
  /\ WithParameter({"-r"}) /\ AndGoesOn(2)
  /\ \/ Parameter \notin directory /\ UNCHANGED <<media, container, directory>>
     \/ Parameter \in directory /\ Erase(Parameter) /\ directory' = directory \ {Parameter}
  /\ ToolStep /\ UNCHANGED <<exitStatus, control, pending, disk>>

------------------------------------------------------------------------------
(* extractVirtualFile reads as many bytes as the file has, from where its  *)
(* position is; it empties the file of that name before.  A file that      *)
(* cannot be opened is closed all the same: fclose of a null pointer.      *)
Size(file)     == Len(file.stored) + Len(file.tail)
Contents(file) == file.stored \o file.tail

ExtractCrashes(name) ==
  /\ disk[name].kind \in {"locked", "folder"}
  /\ control' = "crashed" /\ Returns(1) /\ UNCHANGED <<container, disk>>

ExtractWhole(name) ==
  LET file == container.files[name]
  IN  /\ disk[name].kind \notin {"locked", "folder"} /\ (file.moved => Size(file) = 0)
      /\ disk' = [disk EXCEPT ![name] = Plain(Contents(file))]
      /\ container' = [container EXCEPT !.files[name].moved = Size(file) > 0]
      /\ Returns(0) /\ UNCHANGED control

ExtractNothing(name) ==
  /\ disk[name].kind \notin {"locked", "folder"}
  /\ container.files[name].moved /\ Size(container.files[name]) > 0
  /\ disk' = [disk EXCEPT ![name] = Plain(<<>>)]
  /\ Returns(1) /\ UNCHANGED <<container, control>>

(* fwrite comes up short: what is behind n payloads is lost. *)
ExtractShort(name) ==
  LET file == container.files[name]
  IN  /\ DiskFills /\ disk[name].kind \notin {"locked", "folder"} /\ ~file.moved
      /\ \E n \in 0 .. Size(file) - 1 :
           disk' = [disk EXCEPT ![name] = Plain(SubSeq(Contents(file), 1, n))]
      /\ container' = [container EXCEPT !.files[name].moved = TRUE]
      /\ Returns(1) /\ UNCHANGED control

Extract(name) ==
  ExtractCrashes(name) \/ ExtractWhole(name) \/ ExtractNothing(name) \/ ExtractShort(name)

DoExtract ==
  /\ WithParameter({"-e"}) /\ AndGoesOn(2)
  /\ \/ Parameter \notin directory /\ Returns(1) /\ UNCHANGED <<container, control, disk>>
     \/ Parameter \in directory /\ Extract(Parameter)
  /\ ToolStep /\ UNCHANGED <<media, directory, pending>>

DoExport ==
  /\ At({"-X"})
  /\ control' = "exporting" /\ pending' = directory
  /\ ToolStep /\ UNCHANGED <<media, container, argumentNumber, exitStatus, directory, disk>>

ExportNext ==
  /\ control = "exporting" /\ pending # {} /\ exitStatus = 0
  /\ Extract(FirstOf(pending)) /\ pending' = pending \ {FirstOf(pending)}
  /\ ToolStep /\ UNCHANGED <<media, argumentNumber, directory>>

ExportEnds ==
  /\ control = "exporting" /\ (pending = {} \/ exitStatus # 0)
  /\ control' = "switches" /\ pending' = {} /\ AndGoesOn(1)
  /\ ToolStep /\ UNCHANGED <<media, container, exitStatus, directory, disk>>

------------------------------------------------------------------------------
(* doImport: the file of that name in the container is erased before the   *)
(* other is opened.  What is read goes to the new file's tail.             *)
ImportRefused ==
  /\ WithParameter({"-i"}) /\ disk[Parameter].kind \in {"missing", "locked"}
  /\ Returns(1) /\ AndGoesOn(2) /\ directory' = DOMAIN container.files
  /\ ToolStep /\ UNCHANGED <<media, container, control, pending, disk>>

Emptied(name) ==
  IF name \in directory THEN [container EXCEPT !.files = Without(@, name)] ELSE container

ImportBegins ==
  /\ WithParameter({"-i"}) /\ disk[Parameter].kind \in {"plain", "folder"}
  /\ media' = IF Parameter \in directory
              THEN [media EXCEPT !.chunks = EraseChunks(container.files[Parameter].id)] ELSE media
  /\ container' = NewVirtualFile(Emptied(Parameter), media', Parameter)
  /\ control' = "importing" /\ directory' = directory \ {Parameter}
  /\ ToolStep /\ UNCHANGED <<argumentNumber, exitStatus, pending, disk>>

Imported == container.files[Parameter]

ImportWrites ==
  /\ control = "importing" /\ Len(Imported.tail) < Len(disk[Parameter].content)
  /\ container' = [container EXCEPT
       !.files[Parameter].tail = Append(@, disk[Parameter].content[Len(@) + 1]),
       !.files[Parameter].moved = TRUE]
  /\ ToolStep /\ UNCHANGED <<media, argumentNumber, exitStatus, control, directory, pending, disk>>

(* A folder can be opened, and every fread of it fails, which is not the   *)
(* end of file: the loop goes on for good.                                 *)
ImportSpins ==
  /\ control = "importing" /\ disk[Parameter].kind = "folder"
  /\ UNCHANGED toolVars /\ UNCHANGED openingVars

ImportEnds ==
  /\ control = "importing" /\ disk[Parameter].kind = "plain"
  /\ Len(Imported.tail) = Len(disk[Parameter].content)
  /\ control' = "switches" /\ AndGoesOn(2) /\ directory' = DOMAIN container.files
  /\ ToolStep /\ UNCHANGED <<media, container, exitStatus, pending, disk>>

------------------------------------------------------------------------------
(* A switch that is unknown, or a file name in its place, needs a          *)
(* parameter, too, before it is an error.                                  *)
UnknownSwitch ==
  /\ WithParameter({"-x"} \cup Names)
  /\ Returns(1) /\ AndGoesOn(1)
  /\ ToolStep /\ UNCHANGED <<media, container, control, directory, pending, disk>>

MissingParameter ==
  /\ At({"-r", "-e", "-i", "-x"} \cup Names) /\ NextArgument > Len(arguments)
  /\ control' = "crashed" /\ Returns(1)
  /\ ToolStep /\ UNCHANGED <<media, container, argumentNumber, directory, pending, disk>>

(* close flushes every file: a start chunk if it has none, and its tail.   *)
FlushOf(name) ==
  LET file == container.files[name]
  IN  (IF file.started THEN <<>> ELSE <<Start(name, file.id)>>)
      \o [i \in DOMAIN file.tail |-> Data(file.id, file.tail[i])]
Flushed(row, name) == IF name \in DOMAIN container.files THEN row \o FlushOf(name) ELSE row

(* The chunks that close brings to the media.  They go to its end when     *)
(* there is no free space; the free space was covered before.              *)
LateChunks == FoldLeft(Flushed, <<>>, NamesInOrder)
Scatters   == LateChunks # <<>> /\ \E i \in DOMAIN media.chunks : media.chunks[i].type = "fill"

MayClose == control = "switches" /\ (exitStatus # 0 \/ argumentNumber > Len(arguments))

(* Mutated form: after an import that succeeded the process just ends. *)
CloseUnflushed ==
  /\ MayClose /\ ~Scatters /\ control' = "closed"
  /\ ToolStep /\ UNCHANGED <<media, container, argumentNumber, exitStatus, directory, pending, disk>>

Close ==
  /\ MayClose /\ ~Scatters
  /\ media' = [media EXCEPT !.chunks = FoldLeft(Flushed, @, NamesInOrder)]
  /\ control' = "closed"
  /\ ToolStep /\ UNCHANGED <<container, argumentNumber, exitStatus, directory, pending, disk>>

------------------------------------------------------------------------------
(* Otherwise each goes to the front of a hole.  What it leaves of the hole *)
(* is not covered again: bytes that are no chunk's header.                 *)
FreeChunk(chunk) == chunk.type \in {"fill", "header"}
OfFile(id, chunk) == chunk.type \in {"start", "data"} /\ chunk.id = id

(* Mutated form: a hole in front of what the file has will do. *)
HolesAnywhere(row, id) ==
  {i \in DOMAIN row : FreeChunk(row[i]) /\ (i > 1 => ~FreeChunk(row[i - 1]))}

(* The fronts of the holes behind all that the file has on the media. *)
HolesBehind(row, id) ==
  {i \in DOMAIN row : /\ FreeChunk(row[i]) /\ (i > 1 => ~FreeChunk(row[i - 1]))
                      /\ \A k \in DOMAIN row : OfFile(id, row[k]) => k < i}

(* A data chunk takes what the first hole has; a start chunk may be too    *)
(* long for any.                                                           *)
Places(row, chunk) ==
  LET holes == HolesBehind(row, chunk.id)
  IN  IF chunk.type = "data" /\ holes # {} THEN {Min(holes)} ELSE holes \cup {Len(row) + 1}

(* It covers the hole up to j, all of it or with a rest. *)
Covers(row, i) == {j \in i .. Len(row) : \A k \in i .. j : FreeChunk(row[k])}
PlacedAt(row, i, chunk) ==
  IF i > Len(row) THEN {Append(row, chunk)}
  ELSE {SubSeq(row, 1, i - 1) \o <<chunk>> \o rest \o SubSeq(row, j + 1, Len(row)) :
          j \in Covers(row, i), rest \in {<<>>, <<Zeros>>}}
PlacedIn(row, chunk) == UNION {PlacedAt(row, i, chunk) : i \in Places(row, chunk)}

CloseInHoles ==
  /\ MayClose /\ Scatters /\ control' = "scattered"
  /\ \E row \in FoldLeft(LAMBDA rows, chunk : UNION {PlacedIn(r, chunk) : r \in rows},
                         {media.chunks}, LateChunks) :
       media' = [media EXCEPT !.chunks = row]
  /\ ToolStep /\ UNCHANGED <<container, argumentNumber, exitStatus, directory, pending, disk>>

ToolNext ==
  \/ StartHelp \/ StartUnnamed \/ OpenContainer \/ TakeDirectory \/ SkipContainer
  \/ DoList \/ DoInitialize \/ DoRemove \/ DoExtract \/ DoExport \/ ExportNext \/ ExportEnds
  \/ ImportRefused \/ ImportBegins \/ ImportWrites \/ ImportSpins \/ ImportEnds
  \/ UnknownSwitch \/ MissingParameter \/ Close \/ CloseInHoles

(* Command lines that name the container at most once, before any file,    *)
(* and have a file's name behind each switch that wants one, or the        *)
(* container's before it.                                                  *)
AnyArguments ==
  {a \in Seq(Switches \cup Names \cup {ContainerName}) :
     /\ \A i, j \in DOMAIN a : a[i] = ContainerName /\ a[j] = ContainerName => i = j
     /\ \A i \in DOMAIN a : a[i] \in Names => \E j \in DOMAIN a : j < i /\ a[j] = ContainerName
     /\ \A i \in DOMAIN a : a[i] \in {"-r", "-e", "-i"} =>
          /\ i + 1 \in DOMAIN a => a[i + 1] \in Names \cup {ContainerName}
          /\ i + 2 \in DOMAIN a /\ a[i + 1] = ContainerName => a[i + 2] \in Names}

DiskFile == {Plain(content) : content \in Seq(Payloads)} \cup {Missing, Locked, Folder}

(* The tool on any such command line, with any files.  Of a torn payload   *)
(* Opening does not say what a read of it answers.                         *)
ToolSpec ==
  /\ ToolInit({m \in AnyMedia : m.torn # "payload"}, AnyArguments, [Names -> DiskFile])
  /\ [][ToolNext]_<<openingVars, toolVars>>

------------------------------------------------------------------------------
Stopped == control \in {"closed", "scattered", "crashed"}

(* The first switch is not executed unless the tool has seen every file    *)
(* that the media holds: main's checks of the statuses of open and of the  *)
(* directory, on media that may be torn or not a container.                *)
ToolSeesAll ==
  control = "switches" /\ exitStatus = 0 /\ argumentNumber = 1 =>
    directory = DOMAIN FilesOn(given.media)

(* What the help text promises of the switches, on the files of the        *)
(* container and those of the file system.                                 *)
Removed(files, names) == [n \in DOMAIN files \ names |-> files[n]]
Promised(s, switch, name) ==
  CASE switch = "-I" -> [s EXCEPT !.files = NoEntries]
    [] switch = "-X" -> [s EXCEPT !.disk = [n \in DOMAIN @ |-> IF n \in DOMAIN s.files
                                                                THEN Plain(s.files[n]) ELSE @[n]]]
    [] switch = "-r" -> [s EXCEPT !.files = Removed(@, {name})]
    [] switch = "-e" /\ name \in DOMAIN s.files -> [s EXCEPT !.disk[name] = Plain(s.files[name])]
    [] switch = "-i" /\ name \in DOMAIN s.disk ->
         [s EXCEPT !.files = Assigned(@, name, s.disk[name].content)]
    [] OTHER -> s
NameAfter(i) == IF i < Len(arguments) THEN arguments[i + 1] ELSE NoName
Wanted ==
  FoldLeftDomain(LAMBDA s, i : Promised(s, arguments[i], NameAfter(i)),
                 [files |-> FilesOn(given.media), disk |-> given.disk], arguments)

(* When the tool exits with 0 and close put no chunk into free space, the  *)
(* container and the exported files are what the switches on its command   *)
(* line promise, after any of them in any order, files that were not there *)
(* and switches that have nothing to do.                                   *)
ExitZeroMeansDone ==
  control = "closed" /\ exitStatus = 0 /\ ~Helps =>
    FilesOn(media) = Wanted.files /\ disk = Wanted.disk

(* A file of the container that no argument names stays on the media as it *)
(* was, whatever fails, crashes or is refused, without --initialize, until *)
(* close puts a chunk into free space.                                     *)
OthersAsTheyWere ==
  "-I" \notin ToSet(arguments) =>
    \A n \in DOMAIN FilesOn(given.media) \ ToSet(arguments) :
      n \in DOMAIN FilesOn(media) /\ FilesOn(media)[n] = FilesOn(given.media)[n]
OthersUntouched == control # "scattered" => OthersAsTheyWere

(* When close does so, no chunk is lost, every start is before its file's  *)
(* data, and the data are in their order.  A scan may not come as far as   *)
(* they are: it stops at the rest of a hole.                               *)
LateChunksInOrder ==
  control = "scattered" =>
    /\ WellFormed(media.chunks) /\ OthersAsTheyWere
    /\ exitStatus = 0 => FilesOn(media) = Wanted.files /\ disk = Wanted.disk

(* The tool stops, unless it imports a folder: main's loop over the        *)
(* arguments and the loops of the switches come to their ends.             *)
NoFolders == \A n \in Names : disk[n].kind # "folder"
ToolExits == (control = "start" /\ NoFolders) ~> Stopped
==============================================================================
