--------------------------- MODULE LoggingProofs ---------------------------
(***************************************************************************)
(* Proofs about the two modules of the log: LogBuffer, for every           *)
(* LOG_MAX_LEN and every text, and Logger (here G), for every number of    *)
(* descriptors, every set of levels and every interleaving with the rest   *)
(* of the program.                                                         *)
(***************************************************************************)
EXTENDS MCLogging, WellFoundedInduction, TLAPS

USE BufferAssumption, LoggerAssumption

-----------------------------------------------------------------------------
(***************************************************************************)
(* The buffers: the log functions stay inside them, and the hex dump stays *)
(* inside its data.                                                        *)
(***************************************************************************)
\* The inductive invariant of the buffers.
BufferInv == TypeOK /\ Fits /\ ReadsData

\* _vscnprintf reports what has been stored without the '\0': less than the
\* room it was given, never a negative length.
LEMMA ScnprintfFits ==
  ASSUME NEW room \in Int, NEW n \in Int, room >= 1
  PROVE  _vscnprintf(room, n) \in 0 .. room - 1
  BY DEF _vscnprintf

\* One formatting call keeps len below size.
LEMMA FormatFits ==
  ASSUME TypeOK, Fits, NEW n \in Int, NEW next, pc # "idle", Format(n, next)
  PROVE  /\ len' \in Int /\ given' \in Int
         /\ len' >= len /\ len' < size
         /\ given' >= 1
         /\ pc' = next
<1>1. size - len \in Int /\ size - len >= 1
  BY DEF TypeOK, Fits
<1>2. _vscnprintf(size - len, n) \in 0 .. size - len - 1
  BY <1>1, ScnprintfFits
<1> QED BY <1>1, <1>2 DEF Format, TypeOK

\* A call of a log function starts with an empty buffer.
LEMMA BeginStep == BufferInv /\ Begin => BufferInv'
<1> SUFFICES ASSUME BufferInv, Begin PROVE BufferInv'
  OBVIOUS
<1> USE DEF BufferInv, TypeOK, Fits, ReadsData, Start, hex
<1>1. CASE _log
  BY <1>1 DEF _log
<1>2. CASE _log_stderr
  BY <1>2 DEF _log_stderr
<1>3. ASSUME NEW n \in 0 .. MaxData, _log_hexdump(n) PROVE BufferInv'
  BY <1>3 DEF _log_hexdump
<1> QED BY <1>1, <1>2, <1>3 DEF Begin

\* Every step inside a log function keeps the invariant.
LEMMA WorkStep == BufferInv /\ Work => BufferInv'
<1> SUFFICES ASSUME BufferInv, Work PROVE BufferInv'
  OBVIOUS
<1>0. TypeOK /\ Fits /\ ReadsData
  BY DEF BufferInv
<1>s. Sep \in Int
  BY DEF Sep
<1>1. CASE _log_format
  <2>1. PICK n \in Width : \/ pc = "prefix" /\ Format(n, "message")
                           \/ pc = "message" /\ Format(n, "suffix")
                           \/ pc = "suffix" /\ Format(n, "newline")
    BY <1>1 DEF _log_format
  <2>2. n \in Int
    OBVIOUS
  <2>3. PICK next \in {"message", "suffix", "newline"} : pc # "idle" /\ Format(n, next)
    BY <2>1
  <2> QED BY <1>0, <1>1, <2>2, <2>3, FormatFits
          DEF _log_format, BufferInv, TypeOK, Fits, ReadsData, hex
<1>2. CASE _log_stderr_format
  <2>1. PICK n \in Width : pc = "stderr" /\ Format(n, "newline")
    BY <1>2 DEF _log_stderr_format
  <2> QED BY <1>0, <1>2, <2>1, FormatFits
          DEF _log_stderr_format, BufferInv, TypeOK, Fits, ReadsData, hex
<1>3. CASE newline
  BY <1>0, <1>3 DEF newline, BufferInv, TypeOK, Fits, ReadsData, hex
<1>4. CASE hexdump_end
  BY <1>0, <1>4 DEF hexdump_end, BufferInv, TypeOK, Fits, ReadsData, hex
<1>5. CASE hexdump_offset
  BY <1>0, <1>5, FormatFits
     DEF hexdump_offset, More, BufferInv, TypeOK, Fits, ReadsData
<1>6. CASE hexdump_byte
  BY <1>0, <1>s, <1>6, FormatFits
     DEF hexdump_byte, BufferInv, TypeOK, Fits, ReadsData
<1>7. CASE hexdump_pad
  BY <1>0, <1>s, <1>7, FormatFits
     DEF hexdump_pad, BufferInv, TypeOK, Fits, ReadsData
<1>8. CASE hexdump_bar
  BY <1>0, <1>8, FormatFits
     DEF hexdump_bar, BufferInv, TypeOK, Fits, ReadsData
<1>9. CASE hexdump_char
  BY <1>0, <1>9, FormatFits
     DEF hexdump_char, BufferInv, TypeOK, Fits, ReadsData
<1>10. CASE hexdump_newline
  BY <1>0, <1>10, FormatFits
     DEF hexdump_newline, BufferInv, TypeOK, Fits, ReadsData
<1> QED BY <1>1, <1>2, <1>3, <1>4, <1>5, <1>6, <1>7, <1>8, <1>9, <1>10 DEF Work

\* The conjunction is inductive.
LEMMA BufferInvariant == Spec => []BufferInv
<1>1. Init => BufferInv
  BY DEF Init, BufferInv, TypeOK, Fits, ReadsData
<1>2. BufferInv /\ [Next]_vars => BufferInv'
  <2>1. BufferInv /\ UNCHANGED vars => BufferInv'
    BY DEF BufferInv, TypeOK, Fits, ReadsData, vars
  <2> QED BY <2>1, BeginStep, WorkStep DEF Next
<1> QED BY <1>1, <1>2, PTL DEF Spec

\* No sequence of texts, of whatever length, makes _log, _log_stderr or
\* _log_hexdump store outside its buffer, for every size of the buffer.
THEOREM BuffersSafe == Spec => [](TypeOK /\ Fits)
<1>1. BufferInv => TypeOK /\ Fits
  BY DEF BufferInv
<1> QED BY <1>1, BufferInvariant, PTL

\* The hex dump reads every line's bytes twice, from the same place, and never
\* beyond the end of its data, whatever their number.
THEOREM DumpReadsData == Spec => []ReadsData
<1>1. BufferInv => ReadsData
  BY DEF BufferInv
<1> QED BY <1>1, BufferInvariant, PTL

-----------------------------------------------------------------------------
(***************************************************************************)
(* The logger.  The theorems hold for a program that logs only between     *)
(* log_init and log_deinit (~Careless): before the one fd is the number of *)
(* stdin, and after the other it keeps the number of the closed log file,  *)
(* which another open may get.  The table is shared, so that no            *)
(* property of the logger is inductive by itself: the invariant says in    *)
(* both directions which entries are the logger's.                         *)
(***************************************************************************)
\* Every open log file is the one that the logger holds.
OnlyFdIsLog == \A d \in G!FD : fds[d] = "log" => inited /\ d = fd

\* The number that the logger holds is that of its file, or STDERR_FILENO.
FdIsOurs == inited /\ fd >= 0 => fd = G!STDERR_FILENO \/ fds[fd] = "log"

\* The inductive invariant.
LoggerInv == G!TypeOK /\ G!OthersIntact /\ G!LinesGoHome /\ OnlyFdIsLog /\ FdIsOurs

\* A table of descriptors.
Table == [G!FD -> {"closed", "stdin", "stdout", "stderr", "log", "other"}]

\* The descriptor that open returns was free.
LEMMA LowestIsFree ==
  ASSUME NEW t \in Table, G!Free(t) # {}
  PROVE  G!Lowest(t) \in G!FD /\ t[G!Lowest(t)] = "closed"
<1> DEFINE R == OpToRel(<, Nat)
<1>1. G!Free(t) \subseteq Nat
  BY DEF G!Free, G!FD, G!LoggerConstants
<1>2. IsWellFoundedOn(R, Nat)
  BY NatLessThanWellFounded
<1>3. \E d \in G!Free(t) : \A e \in G!Free(t) : ~(<<e, d>> \in R)
  <2> HIDE DEF R
  <2> QED BY <1>1, <1>2, WFMin
<1>4. \E d \in G!Free(t) : \A e \in G!Free(t) : d <= e
  <2>1. PICK d \in G!Free(t) : \A e \in G!Free(t) : ~(<<e, d>> \in R)
    BY <1>3
  <2>2. ASSUME NEW e \in G!Free(t) PROVE d <= e
    <3>1. e \in Nat /\ d \in Nat /\ (e < d => <<e, d>> \in R)
      BY <1>1 DEF OpToRel
    <3> HIDE DEF R
    <3> QED BY <2>1, <3>1
  <2> QED BY <2>2
<1>5. G!Lowest(t) \in G!Free(t)
  BY <1>4 DEF G!Lowest
<1> QED BY <1>5 DEF G!Free

\* A line written to a descriptor that is the logger's goes home.
LEMMA EmitGoesHome ==
  ASSUME NEW t, NEW d, t[d] \in {"closed", "log", "stderr"},
         nerror \in 0 .. MaxError, G!LinesGoHome, G!Emit(t, d)
  PROVE  nerror' \in 0 .. MaxError /\ G!LinesGoHome'
<1>1. CASE t[d] # "closed" /\ written' = written \cup {t[d]} /\ nerror' = nerror
  BY <1>1 DEF G!LinesGoHome
<1>2. CASE nerror < MaxError /\ nerror' = nerror + 1 /\ written' = written
  BY <1>2 DEF G!LinesGoHome, G!LoggerConstants
<1> QED BY <1>1, <1>2 DEF G!Emit

\* So does one that _log writes.
LEMMA LogGoesHome ==
  ASSUME LoggerInv, inited, G!_log
  PROVE  nerror' \in 0 .. MaxError /\ G!LinesGoHome'
<1>1. CASE fd < 0
  BY <1>1 DEF G!_log, LoggerInv, G!TypeOK, G!LinesGoHome
<1>2. CASE ~(fd < 0)
  <2>1. fd \in G!FD /\ fd >= 0
    BY <1>2 DEF LoggerInv, G!TypeOK, G!FD, G!LoggerConstants
  <2>2. fds[fd] \in {"log", "stderr"}
    BY <2>1 DEF LoggerInv, FdIsOurs, G!OthersIntact
  <2>3. G!Emit(fds, fd)
    BY <1>2 DEF G!_log
  <2> QED BY <2>2, <2>3, EmitGoesHome DEF LoggerInv, G!TypeOK
<1> QED BY <1>1, <1>2

\* A step that only logs a line keeps the invariant, whatever it does to the
\* level inside its range.
LEMMA LineStep ==
  ASSUME LoggerInv, inited, G!_log \/ UNCHANGED <<nerror, written>>,
         UNCHANGED <<name, fd, inited, fds, others>>,
         level' \in G!LOG_EMERG .. G!LOG_PVERB, proc' \in {"up", "abort"}
  PROVE  LoggerInv'
<1>1. nerror' \in 0 .. MaxError /\ G!LinesGoHome'
  BY LogGoesHome DEF LoggerInv, G!TypeOK, G!LinesGoHome
<1>2. G!TypeOK'
  BY <1>1 DEF LoggerInv, G!TypeOK, G!LinesGoHome
<1>3. (G!OthersIntact /\ OnlyFdIsLog /\ FdIsOurs)'
  BY DEF LoggerInv, G!OthersIntact, OnlyFdIsLog, FdIsOurs
<1> QED BY <1>1, <1>2, <1>3 DEF LoggerInv

\* Opening the log file when none is open, in a table in which the descriptors
\* of the rest of the program and stderr are in place.
LEMMA OpenStep ==
  ASSUME LoggerInv, NEW t \in Table, NEW nm,
         \A d \in G!FD : t[d] # "log",
         \A d \in others : t[d] = "other",
         t[G!STDERR_FILENO] = "stderr",
         G!OpenLog(t, nm), inited', UNCHANGED <<proc, others>>,
         level' \in G!LOG_EMERG .. G!LOG_PVERB, name' \in {NULL, "file"}, inited' \in BOOLEAN
  PROVE  LoggerInv'
<1> G!STDERR_FILENO \in G!FD /\ others \subseteq G!FD
  BY DEF G!STDERR_FILENO, G!FD, G!LoggerConstants, LoggerInv, G!TypeOK
<1>1. CASE /\ G!Free(t) # {} /\ fd' = G!Lowest(t)
           /\ fds' = [t EXCEPT ![G!Lowest(t)] = "log"]
           /\ UNCHANGED <<nerror, written>>
  <2>1. G!Lowest(t) \in G!FD /\ t[G!Lowest(t)] = "closed"
    BY <1>1, LowestIsFree
  <2>2. fds' \in Table /\ fds'[fd'] = "log" /\ fd' \in G!FD
    BY <1>1, <2>1 DEF Table
  <2>3. \A d \in G!FD : d # fd' => fds'[d] = t[d]
    BY <1>1, <2>1 DEF Table
  <2>4. G!TypeOK'
    BY <1>1, <2>2 DEF LoggerInv, G!TypeOK, Table
  <2>5. G!OthersIntact'
    <3>1. fd' \notin others /\ fd' # G!STDERR_FILENO
      BY <1>1, <2>1
    <3> QED BY <2>3, <3>1 DEF G!OthersIntact
  <2>6. (OnlyFdIsLog /\ FdIsOurs)'
    BY <2>2, <2>3 DEF OnlyFdIsLog, FdIsOurs
  <2> QED BY <1>1, <2>4, <2>5, <2>6 DEF LoggerInv, G!LinesGoHome
<1>2. CASE fd' = -1 /\ fds' = t /\ G!Emit(t, G!STDERR_FILENO)
  <2>1. nerror' \in 0 .. MaxError /\ G!LinesGoHome'
    BY <1>2, EmitGoesHome DEF LoggerInv, G!TypeOK
  <2>2. G!TypeOK'
    BY <1>2, <2>1 DEF LoggerInv, G!TypeOK, Table, G!LinesGoHome
  <2> QED BY <1>2, <2>1, <2>2 DEF LoggerInv, G!OthersIntact, OnlyFdIsLog, FdIsOurs
<1> QED BY <1>1, <1>2 DEF G!OpenLog

-----------------------------------------------------------------------------
\* The level that is set is in the range of the levels.
LEMMA ClampInRange ==
  ASSUME NEW lv \in Int
  PROVE  G!Clamp(lv) \in G!LOG_EMERG .. G!LOG_PVERB
  BY DEF G!Clamp, G!LOG_EMERG, G!LOG_PVERB

\* The static logger and the three descriptors of a new process.
LEMMA InitInv ==
  ASSUME G!Init
  PROVE  LoggerInv
<1>1. G!STDERR_FILENO \in G!FD /\ 0 \in G!FD
  BY DEF G!STDERR_FILENO, G!FD, G!LoggerConstants
<1>2. /\ fds \in [G!FD -> {"closed", "stdin", "stdout", "stderr"}]
      /\ fds[G!STDERR_FILENO] = "stderr"
  BY <1>1 DEF G!Init, G!STDERR_FILENO
<1>3. G!TypeOK
  <2>1. fds \in [G!FD -> {"closed", "stdin", "stdout", "stderr", "log", "other"}]
    BY <1>2
  <2>2. /\ proc \in {"up", "abort"} /\ name \in {NULL, "file"} /\ inited \in BOOLEAN
        /\ fd \in G!FD \cup {-1} /\ others \subseteq G!FD /\ written = {}
    BY <1>1 DEF G!Init
  <2>3. level \in G!LOG_EMERG .. G!LOG_PVERB /\ nerror \in 0 .. MaxError
    BY DEF G!Init, G!LoggerConstants, G!LOG_EMERG, G!LOG_PVERB
  <2> QED BY <2>1, <2>2, <2>3 DEF G!TypeOK
<1> QED BY <1>2, <1>3 DEF G!Init, LoggerInv, G!OthersIntact, G!LinesGoHome, OnlyFdIsLog, FdIsOurs

\* log_init: no log file was open.
LEMMA LogInitStep ==
  ASSUME LoggerInv, NEW lv \in Level, NEW nm \in {NULL, "file"},
         ~Careless, G!log_init(lv, nm)
  PROVE  LoggerInv'
<1>1. level' \in G!LOG_EMERG .. G!LOG_PVERB
  BY ClampInRange DEF G!log_init, G!LoggerConstants
<1>2. G!STDERR_FILENO \in G!FD
  BY DEF G!STDERR_FILENO, G!FD, G!LoggerConstants
<1>3. CASE nm = NULL
  BY <1>1, <1>2, <1>3 DEF G!log_init, LoggerInv, G!TypeOK, G!OthersIntact, G!LinesGoHome, OnlyFdIsLog,
                          FdIsOurs
<1>4. CASE nm # NULL
  <2>1. fds \in Table /\ (\A d \in G!FD : fds[d] # "log") /\ G!OpenLog(fds, nm)
    BY <1>4 DEF G!log_init, LoggerInv, G!TypeOK, Table, OnlyFdIsLog
  <2>2. (\A d \in others : fds[d] = "other") /\ fds[G!STDERR_FILENO] = "stderr"
    BY DEF LoggerInv, G!OthersIntact
  <2>3. inited' = TRUE /\ name' = nm /\ UNCHANGED <<proc, others>>
    BY DEF G!log_init
  <2> QED BY <1>1, <2>1, <2>2, <2>3, OpenStep
<1> QED BY <1>3, <1>4

\* Closing the descriptor that the logger holds closes its file and no other.
LEMMA CloseFd ==
  ASSUME LoggerInv, inited, fd # G!STDERR_FILENO
  PROVE  /\ G!Close(fds, fd) \in Table
         /\ \A d \in G!FD : G!Close(fds, fd)[d] # "log"
         /\ \A d \in others : G!Close(fds, fd)[d] = "other"
         /\ G!Close(fds, fd)[G!STDERR_FILENO] = "stderr"
<1> fds \in Table /\ G!STDERR_FILENO \in G!FD /\ others \subseteq G!FD
  BY DEF G!STDERR_FILENO, G!FD, G!LoggerConstants, LoggerInv, G!TypeOK, Table
<1>1. CASE fd \in G!FD
  <2>1. fds[fd] = "log"
    BY <1>1 DEF LoggerInv, FdIsOurs, G!FD, G!LoggerConstants
  <2>2. fd \notin others
    BY <2>1 DEF LoggerInv, G!OthersIntact
  <2> QED BY <1>1, <2>1, <2>2 DEF G!Close, LoggerInv, OnlyFdIsLog, G!OthersIntact, Table
<1>2. CASE fd \notin G!FD
  BY <1>2 DEF G!Close, LoggerInv, OnlyFdIsLog, G!OthersIntact
<1> QED BY <1>1, <1>2

\* log_deinit: no log file is open any more.
LEMMA LogDeinitStep ==
  ASSUME ~Careless, LoggerInv, G!log_deinit
  PROVE  LoggerInv'
<1>1. inited /\ inited' = FALSE /\ UNCHANGED <<proc, level, name, fd, nerror, others, written>>
  BY DEF G!log_deinit, G!Up, G!LoggerConstants
<1>2. CASE fd < 0 \/ fd = G!STDERR_FILENO
  <2>1. fds' = fds
    BY <1>2 DEF G!log_deinit
  <2>2. fds[G!STDERR_FILENO] = "stderr" /\ \A d \in G!FD : d >= 0
    BY DEF LoggerInv, G!OthersIntact, G!FD, G!LoggerConstants
  <2>3. \A d \in G!FD : fds[d] # "log"
    BY <1>2, <2>2 DEF LoggerInv, OnlyFdIsLog, G!TypeOK, G!FD, G!LoggerConstants
  <2> QED BY <1>1, <2>1, <2>3 DEF LoggerInv, G!TypeOK, G!OthersIntact, G!LinesGoHome, OnlyFdIsLog, FdIsOurs
<1>3. CASE ~(fd < 0 \/ fd = G!STDERR_FILENO)
  <2>1. fds' = G!Close(fds, fd)
    BY <1>3 DEF G!log_deinit
  <2> HIDE DEF Table
  <2> QED BY <1>1, <1>3, <2>1, CloseFd
       DEF LoggerInv, G!TypeOK, G!OthersIntact, G!LinesGoHome, OnlyFdIsLog, FdIsOurs, Table
<1> QED BY <1>2, <1>3

\* log_reopen: the old file is closed before the new one is opened, and when
\* that fails fd is -1.
LEMMA LogReopenStep ==
  ASSUME ~Careless, LoggerInv, G!log_reopen
  PROVE  LoggerInv'
<1>1. inited /\ UNCHANGED <<proc, level, name, inited, others>>
  BY DEF G!log_reopen, G!Up
<1>2. CASE fd = G!STDERR_FILENO
  BY <1>1, <1>2 DEF G!log_reopen, LoggerInv, G!TypeOK, G!OthersIntact, G!LinesGoHome, OnlyFdIsLog, FdIsOurs
<1>3. CASE fd # G!STDERR_FILENO
  <2>1. G!OpenLog(G!Close(fds, fd), name)
    BY <1>3 DEF G!log_reopen
  <2>2. level \in G!LOG_EMERG .. G!LOG_PVERB /\ name \in {NULL, "file"}
    BY DEF LoggerInv, G!TypeOK
  <2> QED BY <1>1, <1>3, <2>1, <2>2, CloseFd, OpenStep
<1> QED BY <1>2, <1>3

\* The rest of the program gets a descriptor that was free, so not the log's.
LEMMA OtherOpenStep ==
  ASSUME LoggerInv, G!other_open
  PROVE  LoggerInv'
<1> fds \in Table /\ G!STDERR_FILENO \in G!FD
  BY DEF G!STDERR_FILENO, G!FD, G!LoggerConstants, LoggerInv, G!TypeOK, Table
<1> DEFINE d == G!Lowest(fds)
<1>1. d \in G!FD /\ fds[d] = "closed"
  BY LowestIsFree DEF G!other_open
<1>2. /\ fds' = [fds EXCEPT ![d] = "other"]
      /\ others' = others \cup {d}
      /\ UNCHANGED <<proc, level, name, fd, nerror, inited, written>>
  BY DEF G!other_open
<1> HIDE DEF d
<1>3. G!TypeOK'
  BY <1>1, <1>2 DEF LoggerInv, G!TypeOK
<1>4. (G!OthersIntact /\ G!LinesGoHome /\ OnlyFdIsLog)'
  BY <1>1, <1>2 DEF LoggerInv, G!OthersIntact, G!LinesGoHome, OnlyFdIsLog, G!TypeOK
<1>5. FdIsOurs'
  BY <1>1, <1>2 DEF LoggerInv, FdIsOurs, G!OthersIntact, G!TypeOK, G!STDERR_FILENO
<1> QED BY <1>3, <1>4, <1>5 DEF LoggerInv

\* It closes only its own.
LEMMA OtherCloseStep ==
  ASSUME LoggerInv, NEW d \in G!FD, G!other_close(d)
  PROVE  LoggerInv'
<1> fds \in Table /\ G!STDERR_FILENO \in G!FD
  BY DEF G!STDERR_FILENO, G!FD, G!LoggerConstants, LoggerInv, G!TypeOK, Table
<1>1. fds[d] = "other"
  BY DEF G!other_close, LoggerInv, G!OthersIntact
<1>2. /\ fds' = [fds EXCEPT ![d] = "closed"]
      /\ others' = others \ {d}
      /\ UNCHANGED <<proc, level, name, fd, nerror, inited, written>>
  BY DEF G!other_close, G!Close
<1>3. G!TypeOK'
  BY <1>1, <1>2 DEF LoggerInv, G!TypeOK
<1>4. (G!OthersIntact /\ G!LinesGoHome /\ OnlyFdIsLog)'
  BY <1>1, <1>2 DEF LoggerInv, G!OthersIntact, G!LinesGoHome, OnlyFdIsLog, G!TypeOK
<1>5. FdIsOurs'
  BY <1>1, <1>2 DEF LoggerInv, FdIsOurs, G!OthersIntact, G!TypeOK, G!STDERR_FILENO
<1> QED BY <1>3, <1>4, <1>5 DEF LoggerInv

\* Every step keeps the invariant.
LEMMA NextStep ==
  ASSUME ~Careless, LoggerInv, G!Next
  PROVE  LoggerInv'
<1> USE DEF G!Up
<1>0. level \in G!LOG_EMERG .. G!LOG_PVERB /\ proc \in {"up", "abort"} /\ level \in Int
  BY DEF LoggerInv, G!TypeOK, G!LOG_EMERG, G!LOG_PVERB
<1>1. ASSUME NEW lv \in Level, NEW nm \in {NULL, "file"}, G!log_init(lv, nm) PROVE LoggerInv'
  BY <1>1, LogInitStep
<1>2. ASSUME NEW lv \in Level, G!log_level_set(lv) PROVE LoggerInv'
  <2>1. G!Clamp(lv) \in G!LOG_EMERG .. G!LOG_PVERB
    BY ClampInRange DEF G!LoggerConstants
  <2> QED BY <1>0, <1>2, <2>1, LineStep DEF G!log_level_set
<1>3. ASSUME NEW lv \in Level, G!log(lv) PROVE LoggerInv'
  BY <1>0, <1>3, LineStep DEF G!log
<1>4. CASE G!log_level_up
  <2>1. level' \in G!LOG_EMERG .. G!LOG_PVERB
    BY <1>0, <1>4 DEF G!log_level_up, G!LOG_EMERG, G!LOG_PVERB
  <2> QED BY <1>0, <1>4, <2>1, LineStep DEF G!log_level_up
<1>5. CASE G!log_level_down
  <2>1. level' \in G!LOG_EMERG .. G!LOG_PVERB
    BY <1>0, <1>5 DEF G!log_level_down, G!LOG_EMERG, G!LOG_PVERB
  <2> QED BY <1>0, <1>5, <2>1, LineStep DEF G!log_level_down
<1>6. CASE G!log_panic
  BY <1>0, <1>6, LineStep DEF G!log_panic
<1>7. CASE G!Aborted
  BY <1>7 DEF G!Aborted, G!vars, LoggerInv, G!TypeOK, G!OthersIntact, G!LinesGoHome, OnlyFdIsLog, FdIsOurs
<1> QED BY <1>1, <1>2, <1>3, <1>4, <1>5, <1>6, <1>7, LogDeinitStep, LogReopenStep,
           OtherOpenStep, OtherCloseStep DEF G!Next

\* The invariant always holds.
LEMMA LoggerInvariant ==
  ASSUME ~Careless
  PROVE  G!Spec => []LoggerInv
<1>1. G!Init => LoggerInv
  BY InitInv
<1>2. LoggerInv /\ UNCHANGED G!vars => LoggerInv'
  BY DEF G!vars, LoggerInv, G!TypeOK, G!OthersIntact, G!LinesGoHome, OnlyFdIsLog, FdIsOurs
<1>3. LoggerInv /\ G!Next => LoggerInv'
  BY NextStep
<1> QED BY <1>1, <1>2, <1>3, PTL DEF G!Spec

\* A log line never ends up in a socket or a file of the rest of the program:
\* not when the log is reopened, when that fails, or when its number is used
\* again after log_deinit.
THEOREM LinesNeverStray ==
  ASSUME ~Careless
  PROVE  G!Spec => []LinesGoHome
<1>1. LoggerInv => LinesGoHome  BY DEF LoggerInv, LinesGoHome
<1> QED BY LoggerInvariant, <1>1, PTL

\* log_reopen and log_deinit never close a descriptor of the rest of the program
\* or stderr, never leave a second log file open, and the level stays in its
\* range.
THEOREM DescriptorsStaySound ==
  ASSUME ~Careless
  PROVE  G!Spec => []DescriptorsSound
<1>1. LoggerInv => DescriptorsSound
  BY DEF DescriptorsSound, LoggerInv, OnlyFdIsLog, G!OneLogFile, G!DescriptorsSound
<1> QED BY LoggerInvariant, <1>1, PTL
=============================================================================
