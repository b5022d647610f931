--------------------------- MODULE MCStreamManager ---------------------------
\* StreamManager for TLC: the two outputs of one job, written to one file, as
\* SLURM does by default.
EXTENDS StreamManager

CONSTANTS out, err, file

MCKey == {out, err}
MCPath == {file}
MCPathOf == [k \in MCKey |-> file]
MCElsewhere == {err}

=============================================================================
