------------------------------ MODULE Logger -------------------------------
(***************************************************************************)
(* The logger of cs_log.c: its level, its file descriptor, and what the    *)
(* descriptor stands for in the process's table of descriptors, which the  *)
(* rest of the program (sockets, epoll) shares.  How a line is formatted   *)
(* is module LogBuffer.                                                    *)
(***************************************************************************)
EXTENDS Integers

CONSTANTS MaxFd,       \* descriptors are 0 .. MaxFd
          MaxError,    \* bound on nerror
          Level,       \* the levels the program asks for
          Careless,    \* TRUE: the program also logs before log_init and after
                       \* log_deinit, and calls log_init again in between
          NULL         \* the nil pointer

\* 0, 1 and 2 are open when the program starts, and there is room for more.
LoggerConstants == /\ MaxFd \in Nat /\ MaxFd >= 3
                   /\ MaxError \in Nat
                   /\ Level \subseteq Int
                   /\ Careless \in BOOLEAN

LOG_EMERG == 0
LOG_PVERB == 11
STDERR_FILENO == 2
FD == 0 .. MaxFd

VARIABLES proc,                     \* "up", or "abort" after a panic
          level, name, fd, nerror,  \* struct logger
          inited,                   \* between log_init, successful or not, and log_deinit
          fds,                      \* what every descriptor stands for
          others,                   \* the descriptors of the rest of the program
          written                   \* history: what lines have been written to

vars == <<proc, level, name, fd, nerror, inited, fds, others, written>>

\* struct logger is static: level, fd and nerror are 0 and name is nil.
Init == /\ proc = "up" /\ level = 0 /\ name = NULL /\ fd = 0 /\ nerror = 0
        /\ inited = FALSE /\ others = {} /\ written = {}
        /\ fds = [d \in FD |-> CASE d = 0 -> "stdin" [] d = 1 -> "stdout"
                                 [] d = 2 -> "stderr" [] OTHER -> "closed"]

-----------------------------------------------------------------------------
(***************************************************************************)
(* The descriptors: open returns the lowest free one or fails; close of    *)
(* one that is not open does nothing.                                      *)
(***************************************************************************)
Free(t) == {d \in FD : t[d] = "closed"}
Lowest(t) == CHOOSE d \in Free(t) : \A e \in Free(t) : d <= e
Close(t, d) == IF d \in FD THEN [t EXCEPT ![d] = "closed"] ELSE t

\* A line goes to descriptor d, or the write fails and is counted.
Emit(t, d) == \/ /\ t[d] # "closed"
                 /\ written' = written \cup {t[d]}
                 /\ nerror' = nerror
              \/ /\ nerror < MaxError
                 /\ nerror' = nerror + 1
                 /\ written' = written

\* _log: without a descriptor nothing happens.
_log == IF fd < 0 THEN UNCHANGED <<nerror, written>> ELSE Emit(fds, fd)

\* open of the log file nm after the descriptors have become t.  A failure,
\* which a nil name leads to for certain, is reported on stderr.
OpenLog(t, nm) == \/ /\ Free(t) # {} /\ nm # NULL
                     /\ fd' = Lowest(t)
                     /\ fds' = [t EXCEPT ![Lowest(t)] = "log"]
                     /\ UNCHANGED <<nerror, written>>
                  \/ /\ fd' = -1
                     /\ fds' = t
                     /\ Emit(t, STDERR_FILENO)

Clamp(lv) == IF lv < LOG_EMERG THEN LOG_EMERG ELSE IF lv > LOG_PVERB THEN LOG_PVERB ELSE lv

Up == proc = "up" /\ (inited \/ Careless)

-----------------------------------------------------------------------------
\* A failed log_init leaves fd at -1 and the caller may go on.  A second one
\* does not close what the first one opened.
log_init(lv, nm) ==
  /\ proc = "up" /\ (~inited \/ Careless)
  /\ inited' = TRUE
  /\ level' = Clamp(lv)
  /\ name' = nm
  /\ IF nm = NULL
       THEN fd' = STDERR_FILENO /\ UNCHANGED <<fds, nerror, written>>
       ELSE OpenLog(fds, nm)
  /\ UNCHANGED <<proc, others>>

\* The descriptor is closed; fd keeps its number.
log_deinit ==
  /\ Up
  /\ fds' = IF fd < 0 \/ fd = STDERR_FILENO THEN fds ELSE Close(fds, fd)
  /\ inited' = FALSE
  /\ UNCHANGED <<proc, level, name, fd, nerror, others, written>>

\* Mutant: the old descriptor is not closed.
ReopenWithoutClose ==
  /\ Up
  /\ IF fd = STDERR_FILENO THEN UNCHANGED <<fd, fds, nerror, written>> ELSE OpenLog(fds, name)
  /\ UNCHANGED <<proc, level, name, inited, others>>

\* Mutant: when the file cannot be opened the old number is kept.
ReopenKeepsFd ==
  /\ Up
  /\ fd # STDERR_FILENO
  /\ \/ fd' = fd /\ fds' = Close(fds, fd)
     \/ LET t == Close(fds, fd)
        IN  /\ Free(t) # {} /\ fd' = Lowest(t)
            /\ fds' = [t EXCEPT ![Lowest(t)] = "log"]
  /\ UNCHANGED <<proc, level, name, nerror, inited, others, written>>

log_reopen ==
  /\ Up
  /\ IF fd = STDERR_FILENO THEN UNCHANGED <<fd, fds, nerror, written>>
     ELSE OpenLog(Close(fds, fd), name)
  /\ UNCHANGED <<proc, level, name, inited, others>>

\* Each of these logs a line, whatever the level.
log_level_up == /\ Up /\ level < LOG_PVERB
                /\ level' = level + 1
                /\ _log
                /\ UNCHANGED <<proc, name, fd, inited, fds, others>>

log_level_down == /\ Up /\ level > LOG_EMERG
                  /\ level' = level - 1
                  /\ _log
                  /\ UNCHANGED <<proc, name, fd, inited, fds, others>>

log_level_set(lv) == /\ Up
                     /\ level' = Clamp(lv)
                     /\ _log
                     /\ UNCHANGED <<proc, name, fd, inited, fds, others>>

log_loggable(lv) == lv <= level

\* The macros log, log_error and log_warn.
log(lv) == /\ Up
           /\ IF log_loggable(lv) THEN _log ELSE UNCHANGED <<nerror, written>>
           /\ UNCHANGED <<proc, level, name, fd, inited, fds, others>>

\* log_panic: the abort comes after the early return of _log.
log_panic == /\ Up
             /\ log_loggable(LOG_EMERG)
             /\ _log
             /\ proc' = IF fd < 0 THEN "up" ELSE "abort"
             /\ UNCHANGED <<level, name, fd, inited, fds, others>>

\* The rest of the program opens and closes descriptors of its own.
other_open == /\ proc = "up" /\ Free(fds) # {}
              /\ fds' = [fds EXCEPT ![Lowest(fds)] = "other"]
              /\ others' = others \cup {Lowest(fds)}
              /\ UNCHANGED <<proc, level, name, fd, nerror, inited, written>>

other_close(d) == /\ proc = "up" /\ d \in others
                  /\ fds' = Close(fds, d)
                  /\ others' = others \ {d}
                  /\ UNCHANGED <<proc, level, name, fd, nerror, inited, written>>

Aborted == proc # "up" /\ UNCHANGED vars

Next == \/ \E lv \in Level : \/ \E nm \in {NULL, "file"} : log_init(lv, nm)
                             \/ log_level_set(lv)
                             \/ log(lv)
        \/ log_deinit
        \/ log_reopen
        \/ log_level_up
        \/ log_level_down
        \/ log_panic
        \/ other_open
        \/ \E d \in FD : other_close(d)
        \/ Aborted

Spec == Init /\ [][Next]_vars

-----------------------------------------------------------------------------
\* Type correctness; the level stays between LOG_EMERG and LOG_PVERB whatever
\* levels are set.
TypeOK == /\ proc \in {"up", "abort"}
          /\ level \in LOG_EMERG .. LOG_PVERB
          /\ name \in {NULL, "file"}
          /\ fd \in FD \cup {-1}
          /\ nerror \in 0 .. MaxError
          /\ inited \in BOOLEAN
          /\ fds \in [FD -> {"closed", "stdin", "stdout", "stderr", "log", "other"}]
          /\ others \subseteq FD
          /\ written \subseteq {"closed", "stdin", "stdout", "stderr", "log", "other"}

\* In a program that is not Careless a log line goes to the log file or to
\* stderr, and never into a descriptor of the rest of the program that has got
\* the number the logger holds.
LinesGoHome == written \subseteq {"log", "stderr"}

\* Closing and reopening the log never closes a descriptor of the rest of the
\* program, nor stderr.
OthersIntact == /\ \A d \in others : fds[d] = "other"
                /\ fds[STDERR_FILENO] = "stderr"

\* Reopening, however often and however it fails, leaks no descriptor.
OneLogFile == \A d, e \in FD : fds[d] = "log" /\ fds[e] = "log" => d = e

\* The logger's own state has its types, it closes no descriptor of the rest of
\* the program, and a failed or repeated log_reopen leaks none of its own.
DescriptorsSound == TypeOK /\ OthersIntact /\ OneLogFile
=============================================================================
