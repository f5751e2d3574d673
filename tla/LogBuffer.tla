----------------------------- MODULE LogBuffer -----------------------------
(***************************************************************************)
(* How _log, _log_stderr and _log_hexdump of cs_log.c fill their fixed     *)
(* buffer: a sequence of calls of _vscnprintf (cs_util.c), each of which   *)
(* is given the rest of the buffer.  A step is one such call.  The text is *)
(* abstracted to its length; what vsnprintf would write is any width in    *)
(* Width, and the hex dump's widths are those of its formats.              *)
(***************************************************************************)
EXTENDS Integers

CONSTANTS LOG_MAX_LEN,   \* 256 in cs_log.h
          Width,         \* possible results of vsnprintf, errors included
          MaxData        \* bound on the bytes that are dumped

ASSUME BufferAssumption == /\ LOG_MAX_LEN \in Nat \ {0}
                           /\ Width \subseteq Int
                           /\ MaxData \in Nat

VARIABLES pc,        \* the next call
          size, len, \* the buffer's size and how much of it is used
          given,     \* history: the size the last _vscnprintf was given
          stored,    \* history: the index of the '\n' stored last, or -1
          total,     \* the datalen argument of _log_hexdump
          datalen, savelen, off, i

vars == <<pc, size, len, given, stored, total, datalen, savelen, off, i>>
hex  == <<total, datalen, savelen, off, i>>

\* Mutant: the truncated length counts the '\0'.
TruncatesToSize(room, n) == IF n <= 0 THEN 0 ELSE IF n < room THEN n ELSE room

\* n is what vsnprintf returned for a buffer of room characters.
_vscnprintf(room, n) == IF n <= 0 THEN 0 ELSE IF n < room THEN n ELSE room - 1

Init == /\ pc = "idle" /\ size = 0 /\ len = 0 /\ given = 1 /\ stored = -1
        /\ total = 0 /\ datalen = 0 /\ savelen = 0 /\ off = 0 /\ i = 0

\* len += cs_scnprintf(buf + len, size - len, ...), then go on at next.
Format(n, next) == /\ given' = size - len
                   /\ len' = len + _vscnprintf(size - len, n)
                   /\ pc' = next

Start(next, sz) == /\ pc = "idle"
                   /\ pc' = next /\ size' = sz /\ len' = 0 /\ stored' = -1
                   /\ given' = given

-----------------------------------------------------------------------------
\* _log: the prefix, the message, the suffix, then the newline.
_log == Start("prefix", LOG_MAX_LEN) /\ UNCHANGED hex

_log_format == /\ \E n \in Width : \/ pc = "prefix" /\ Format(n, "message")
                                   \/ pc = "message" /\ Format(n, "suffix")
                                   \/ pc = "suffix" /\ Format(n, "newline")
               /\ UNCHANGED <<size, stored, hex>>

\* _log_stderr: the message, then the newline, in a larger buffer.
_log_stderr == Start("stderr", 4 * LOG_MAX_LEN) /\ UNCHANGED hex

_log_stderr_format == /\ pc = "stderr"
                      /\ \E n \in Width : Format(n, "newline")
                      /\ UNCHANGED <<size, stored, hex>>

\* buf[len++] = '\n' and the write.
newline == /\ pc = "newline"
           /\ stored' = len
           /\ len' = len + 1
           /\ pc' = "idle"
           /\ UNCHANGED <<size, given, hex>>

-----------------------------------------------------------------------------
\* _log_hexdump of n bytes.
_log_hexdump(n) == /\ Start("line", 8 * LOG_MAX_LEN)
                   /\ total' = n /\ datalen' = n /\ savelen' = 0 /\ off' = 0 /\ i' = 0

Sep == IF i = 7 THEN 2 ELSE 1

\* The condition of the loop over the lines.
More == datalen # 0 /\ len < size - 1

hexdump_end == /\ pc = "line" /\ ~More
               /\ pc' = "idle"
               /\ UNCHANGED <<size, len, given, stored, hex>>

hexdump_offset == /\ pc = "line" /\ More
                  /\ Format(10, "bytes")
                  /\ savelen' = datalen /\ i' = 0
                  /\ UNCHANGED <<size, stored, total, datalen, off>>

hexdump_byte == /\ pc = "bytes" /\ datalen # 0 /\ i < 16
                /\ Format(2 + Sep, "bytes")
                /\ datalen' = datalen - 1 /\ i' = i + 1
                /\ UNCHANGED <<size, stored, total, savelen, off>>

\* Mutant: the padding loop does not count.
PadWithoutStep == /\ pc = "bytes" /\ datalen = 0 /\ i < 16
                  /\ Format(2 + Sep, "bytes")
                  /\ UNCHANGED <<size, stored, hex>>

hexdump_pad == /\ pc = "bytes" /\ datalen = 0 /\ i < 16
               /\ Format(2 + Sep, "bytes")
               /\ i' = i + 1
               /\ UNCHANGED <<size, stored, total, datalen, savelen, off>>

\* Mutant: the characters continue where the bytes of the line ended.
BarWithoutRestore == /\ pc = "bytes" /\ i = 16
                     /\ Format(3, "chars")
                     /\ i' = 0
                     /\ UNCHANGED <<size, stored, total, datalen, savelen, off>>

\* data and datalen go back to the start of the line.
hexdump_bar == /\ pc = "bytes" /\ i = 16
               /\ Format(3, "chars")
               /\ datalen' = savelen /\ i' = 0
               /\ UNCHANGED <<size, stored, total, savelen, off>>

hexdump_char == /\ pc = "chars" /\ datalen # 0 /\ i < 16
                /\ Format(1, "chars")
                /\ datalen' = datalen - 1 /\ i' = i + 1
                /\ UNCHANGED <<size, stored, total, savelen, off>>

hexdump_newline == /\ pc = "chars" /\ (datalen = 0 \/ i = 16)
                   /\ Format(2, "line")
                   /\ off' = off + 16
                   /\ UNCHANGED <<size, stored, total, datalen, savelen, i>>

-----------------------------------------------------------------------------
Begin == _log \/ _log_stderr \/ \E n \in 0 .. MaxData : _log_hexdump(n)

Work == \/ _log_format \/ _log_stderr_format \/ newline
        \/ hexdump_end \/ hexdump_offset \/ hexdump_byte \/ hexdump_pad
        \/ hexdump_bar \/ hexdump_char \/ hexdump_newline

Next == Begin \/ Work

Spec == Init /\ [][Next]_vars

\* A call that has begun goes on: nothing in it blocks.
FairSpec == Spec /\ WF_vars(Work)

-----------------------------------------------------------------------------
\* Type correctness of the buffer's lengths and the loop counters.
TypeOK == /\ pc \in {"idle", "prefix", "message", "suffix", "stderr", "newline", "line",
                     "bytes", "chars"}
          /\ size \in Nat /\ len \in Int /\ given \in Int /\ stored \in Int
          /\ total \in Nat /\ datalen \in Int /\ savelen \in Int /\ off \in Nat
          /\ i \in 0 .. 16

\* However the widths of the formats add up, every _vscnprintf gets room for
\* at least one character (so that it never returns -1), what it reports as
\* used lies inside the buffer, and so does the '\n' that _log and
\* _log_stderr store after the last format.
Fits == /\ given >= 1
        /\ pc # "idle" => len < size
        /\ len <= size
        /\ stored < size

\* The two passes over a line of the dump read the same bytes of data, and
\* neither reads beyond its end.
ReadsData == /\ 0 <= datalen /\ datalen <= total
             /\ pc = "bytes" => /\ 0 < savelen /\ savelen = total - off
                                /\ datalen = IF i < savelen THEN savelen - i ELSE 0
             /\ pc = "chars" => savelen = total - off /\ datalen = savelen - i
             /\ pc = "line" => datalen = IF off < total THEN total - off ELSE 0

\* Every message and every dump is finished.
Finishes == pc # "idle" ~> pc = "idle"
=============================================================================
