------------------------------ MODULE MCLogger ------------------------------
EXTENDS Logger, SequencesExt

CONSTANTS l1, l2, w1, w2, w3

\* The files of a logger, oldest first, hold the last messages written to it
\* without a gap (but for files that someone deleted), and all of them until
\* every backup is there (logger.cpp:839).
RotationKeeps ==
    \A l \in Loggers :
        LET all  == FlattenSeq([i \in 1..(Backups + 1) |->
                        LET f == files[l][Backups + 1 - i]
                        IN  IF f = NoFile THEN <<>> ELSE f])
            kept == SelectSeq(written[l], LAMBDA m : m \notin gone)
        IN  /\ IsSuffix(all, kept)
            /\ all # kept => \A i \in 1..Backups : files[l][i] # NoFile
=============================================================================
