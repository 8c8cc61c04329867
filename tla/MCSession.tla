------------------------------ MODULE MCSession ------------------------------
(***************************************************************************)
(* One of two users of a container: a program that reads it, with every    *)
(* sequence of calls, or the tool, with every command line of two switches *)
(* and some that misuse it.                                                *)
(***************************************************************************)
EXTENDS Ic

VARIABLE user

sessionVars == <<user, openingVars, toolVars>>

TwoNames == <<"a", "b">>

MCPayloads == 0 .. 8

(* Rows of chunks, of which the last may be torn, with the gap that a file *)
(* container makes behind a truncation.                                    *)
ChunksAt(i) == {Start(n, id) : n \in Names, id \in {0, 1}}
               \cup {Data(id, i) : id \in {0, 1}} \cup {FillChunk, Zeros}
Rows(n) == {r \in [1 .. n -> UNION {ChunksAt(i) : i \in 1 .. n}] : \A i \in 1 .. n : r[i] \in ChunksAt(i)}
GapInside(row) == \A i \in DOMAIN row : row[i] = Zeros => i < Len(row)

MediaOf(header, rows, torn) == [header : {header}, chunks : rows, torn : torn]
Torn == {"common", "header", "payload"}
WholeRows(n) == {r \in Rows(n) : WellFormed(r) /\ GapInside(r)}
GoodMedia(n) == MediaOf("good", UNION {WholeRows(k) : k \in 0 .. n}, {"whole"})
TornMedia(n) == MediaOf("good", UNION {WholeRows(k) : k \in 1 .. n}, Torn)
OneFile == <<Start("a", 0), Data(0, 2)>>
OtherMedia ==
  UNION {MediaOf(h, {<<>>}, {"whole"}) : h \in {"absent", "none", "stub"}}
  \cup UNION {MediaOf(h, {OneFile}, {"whole"}) : h \in {"foreign", "older", "newer", "badCrc"}}

Options(ignoring, writable) ==
  [ignoring : ignoring, writable : writable, streams : BOOLEAN, listens : BOOLEAN]

(* The tool's command lines. *)
Commands == {<<"-l">>, <<"-I">>, <<"-X">>, <<"-r", "a">>, <<"-e", "a">>, <<"-i", "a">>, <<"-i", "b">>}
Misuses == {<<"-l">>, <<"C", "--help">>, <<"C", "-r">>, <<"C", "-x", "a">>, <<"-r", "C", "a">>,
            <<"-i", "C", "b">>, <<"-r", "C", "a", "-l">>, <<"C", "-i", "a", "-e">>}
CommandLines == {<<"C">> \o one \o two : one \in Commands, two \in Commands}
                \cup {<<"C">> \o one : one \in Commands} \cup Misuses

TwoFiles == <<Start("b", 1), FillChunk, Data(1, 3), Start("a", 0), Data(0, 5)>>
ToolMedia ==
  MediaOf("good", {<<>>, OneFile, TwoFiles}, {"whole"})
  \cup MediaOf("good", {TwoFiles, <<Start("b", 1), Start("a", 0)>>}, {"common", "header"})
  \cup MediaOf("good", {<<Start("a", 0), Zeros, Start("b", 1)>>}, {"whole"})
  \cup {m \in OtherMedia : m.header \in {"absent", "none", "stub", "foreign", "badCrc"}}
Disks ==
  {[n \in Names |-> IF n = "a" THEN forA ELSE forB] :
     forA \in {Plain(<<7, 8>>), Missing, Locked, Folder}, forB \in {Plain(<<>>), Missing}}

ToolIdle ==
  /\ arguments = <<>> /\ argumentNumber = 1 /\ exitStatus = 0 /\ control = "closed"
  /\ directory = {} /\ pending = {} /\ disk = [n \in Names |-> Missing]
  /\ given = [media |-> media, disk |-> disk]

SessionInit ==
  \/ user = "reader"
     /\ \/ OpeningInit(GoodMedia(4) \cup TornMedia(3), Options({FALSE}, {TRUE}))
        \/ OpeningInit(OtherMedia, Options(BOOLEAN, BOOLEAN))
     /\ ToolIdle
  \/ user = "ic" /\ ToolInit(ToolMedia, CommandLines, Disks)

Reads == user = "reader" /\ ReaderNext /\ UNCHANGED <<user, toolVars>>
Tools == user = "ic" /\ ToolNext /\ UNCHANGED user

SessionSpec == SessionInit /\ [][Reads \/ Tools]_sessionVars /\ WF_sessionVars(Tools)
==============================================================================
