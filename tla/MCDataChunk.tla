----------------------------- MODULE MCDataChunk -----------------------------
(* The real sizes of the container format; segment lengths around every    *)
(* size at which a data chunk (14 header bytes) changes its chunk size.    *)
EXTENDS DataChunk

Powers == {2^k : k \in MinP2 .. MaxP2}

MCSpaces == Powers \cup {c + MinChunk : c \in Powers}
MCLengths == {1} \cup UNION {(c - 15) .. (c - 13) : c \in Powers}
==============================================================================
