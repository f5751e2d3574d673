----------------------------- MODULE MCLogging -----------------------------
(***************************************************************************)
(* The logger and the buffers its lines are put together in: a behaviour   *)
(* is one of one of them (part) while the other rests.                     *)
(***************************************************************************)
EXTENDS LogBuffer

CONSTANTS MaxFd, MaxError, Level, Careless, NULL   \* see module Logger

VARIABLES part, proc, level, name, fd, nerror, inited, fds, others, written

G == INSTANCE Logger

ASSUME LoggerAssumption == G!LoggerConstants

logvars == <<proc, level, name, fd, nerror, inited, fds, others, written>>
all     == <<part, vars, logvars>>

MCInit == part \in {"logger", "buffer"} /\ Init /\ G!Init

BufferMoves == part = "buffer" /\ Next /\ UNCHANGED <<part, logvars>>
LoggerMoves == part = "logger" /\ G!Next /\ UNCHANGED <<part, vars>>

\* As FairSpec of LogBuffer: the code that is putting a line together goes on.
MCSpec == /\ MCInit /\ [][BufferMoves \/ LoggerMoves]_all
          /\ WF_all(part = "buffer" /\ Work /\ UNCHANGED <<part, logvars>>)

\* An error, an empty text, short texts, and texts that fill or overflow the
\* small buffer.
Widths == {-1, 0, 1, 5, 19, 20, 21, 22, 90}

\* Below, at, inside and above the range of the levels.
Levels == {-1, 0, 4, 11, 12}

\* See Logger: lines go to the log's own destination.
LinesGoHome == G!LinesGoHome

\* See Logger: no foreign descriptor is closed, no own one is leaked.
DescriptorsSound == G!DescriptorsSound
=============================================================================
