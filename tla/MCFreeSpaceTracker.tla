-------------------------- MODULE MCFreeSpaceTracker --------------------------
(* Chunks of one and two units and a start chunk of two, on a media of up  *)
(* to eight units: holes on both sides of a live chunk, a hole larger than *)
(* a chunk, requests in the middle of a hole and past every hole.          *)
EXTENDS FreeSpaceTracker

MCChunkUnits == {1, 2}

(* A largest chunk as long as the longest hole: no request splits a hole. *)
MCOneHole == {1, 2, 4}

Cuttable == [Working EXCEPT !.truncates = TRUE]
Failing  == [Working EXCEPT !.fails = TRUE]

MCWorking  == {Working}
MCFaults   == {Working, Cuttable, Failing}
MCFailing  == {Failing}
==============================================================================
