------------------------------ MODULE Strings ------------------------------
(***************************************************************************)
(* struct string of cs_string.c, and cs_resolve, which takes one.  A       *)
(* string owns a copy on the heap (string_duplicate, string_copy) or       *)
(* refers to a constant text (string_set_text, string_set_raw).  The bytes *)
(* of a text are not 0; in memory a 0 follows them.                        *)
(***************************************************************************)
EXTENDS Naturals, Sequences

CONSTANTS Str,               \* the struct string variables of the program
          Text,              \* the texts it copies or refers to
          Block,             \* the addresses malloc can return
          Slash,             \* '/'
          M_UNIX_ADDRSTRLEN, \* the size of sun_path
          NULL

\* The nil pointer is no object, a text has no 0 inside.
StringsConstants ==
  /\ NULL \notin Str \cup Block \cup Seq(Nat) \cup [block : Block \cup {NULL}, text : Seq(Nat)]
  /\ \A t \in Text : t \in Seq(Nat) /\ \A i \in 1 .. Len(t) : t[i] # 0
  /\ M_UNIX_ADDRSTRLEN \in Nat

VARIABLES str,     \* len and data of every string
          heap,    \* the bytes of the allocated blocks
          holds,   \* history: the text a string stands for, NULL when it is empty
          si,      \* the sockinfo of the last cs_resolve
          ret,     \* the last comparison or resolution and its result
          halt     \* the call whose ASSERT failed, or NULL

vars == <<str, heap, holds, si, ret, halt>>

Empty        == [len |-> 0, data |-> NULL]
Constant(t)  == [block |-> NULL, text |-> Append(t, 0)]
Copy(b)      == [block |-> b, text |-> << >>]
Memory(p)    == IF p.block = NULL THEN p.text ELSE heap[p.block]
Bytes(m, n)  == SubSeq(m, 1, n)
Owned(s)     == str[s].data # NULL /\ str[s].data.block # NULL

Init == /\ str = [s \in Str |-> Empty]
        /\ heap = [b \in Block |-> NULL]
        /\ holds = [s \in Str |-> NULL]
        /\ si = NULL
        /\ ret = NULL
        /\ halt = NULL

\* len is 0 exactly when data is NULL.
Consistent(s) == str[s].len = 0 <=> str[s].data = NULL

\* ASSERT (ok) in function op on string s, which is to get a copy of text.
Assert(op, s, text, ok) ==
  \/ ok /\ halt' = halt
  \/ ~ok /\ halt' = [op |-> op, s |-> s, text |-> text] /\ UNCHANGED <<str, heap, holds, si, ret>>

-----------------------------------------------------------------------------
\* strndup copies up to n bytes, fewer when a 0 comes first, and adds a 0.
strndup(m, n) ==
  LET zeros == {i \in 1 .. Len(m) : m[i] = 0 /\ i <= n}
      k     == IF zeros = {} THEN n ELSE (CHOOSE i \in zeros : \A j \in zeros : i <= j) - 1
  IN  Append(Bytes(m, k), 0)

\* Mutant: the length is set before the allocation is known to have worked.
CopyKeepsLength(dst, m, n) ==
  \/ \E b \in Block : /\ heap[b] = NULL
                      /\ heap' = [heap EXCEPT ![b] = [strndup(m, n + 1) EXCEPT ![n + 1] = 0]]
                      /\ str' = [str EXCEPT ![dst] = [len |-> n, data |-> Copy(b)]]
                      /\ holds' = [holds EXCEPT ![dst] = Bytes(m, n)]
  \/ str' = [str EXCEPT ![dst].len = n] /\ UNCHANGED <<heap, holds>>

\* The copy of n bytes of m: data, len, and the 0 behind it, or M_ENOMEM.
CopyInto(dst, m, n) ==
  \/ \E b \in Block : /\ heap[b] = NULL
                      /\ heap' = [heap EXCEPT ![b] = [strndup(m, n + 1) EXCEPT ![n + 1] = 0]]
                      /\ str' = [str EXCEPT ![dst] = [len |-> n, data |-> Copy(b)]]
                      /\ holds' = [holds EXCEPT ![dst] = Bytes(m, n)]
  \/ UNCHANGED <<str, heap, holds>>

string_duplicate(dst, src) ==
  /\ halt = NULL
  /\ Assert("string_duplicate", dst, holds[src],
            str[dst] = Empty /\ str[src].len # 0 /\ str[src].data # NULL)
  /\ halt' = NULL => /\ CopyInto(dst, Memory(str[src].data), str[src].len)
                     /\ ret' = NULL /\ si' = si

\* A text, or the first part of one.
string_copy(dst, t, n) ==
  /\ halt = NULL
  /\ Assert("string_copy", dst, Bytes(t, n), str[dst] = Empty /\ n # 0)
  /\ halt' = NULL => /\ CopyInto(dst, Append(t, 0), n)
                     /\ ret' = NULL /\ si' = si

\* string_set_text and string_set_raw.  The rule for both: only a string that
\* owns nothing is set.
string_set(s, t) ==
  /\ halt = NULL /\ ~Owned(s)
  /\ str' = [str EXCEPT ![s] = [len |-> Len(t), data |-> Constant(t)]]
  /\ holds' = [holds EXCEPT ![s] = t]
  /\ ret' = NULL
  /\ UNCHANGED <<heap, si, halt>>

\* A string that only refers to a text is not freed, but initialised anew.
string_init(s) ==
  /\ halt = NULL /\ ~Owned(s)
  /\ str' = [str EXCEPT ![s] = Empty]
  /\ holds' = [holds EXCEPT ![s] = NULL]
  /\ ret' = NULL
  /\ UNCHANGED <<heap, si, halt>>

\* Mutant: the string is not initialised after the free.
DeinitKeepsData(s) ==
  /\ halt = NULL /\ (Owned(s) \/ str[s].data = NULL \/ str[s].len = 0)
  /\ Assert("string_deinit", s, NULL, Consistent(s))
  /\ halt' = NULL => /\ heap' = IF Owned(s) THEN [heap EXCEPT ![str[s].data.block] = NULL]
                                            ELSE heap
                     /\ holds' = [holds EXCEPT ![s] = NULL]
                     /\ ret' = NULL /\ UNCHANGED <<str, si>>

\* Such strings "don't have to be freed", and free takes no constant: with the
\* empty text the ASSERT stops it, with another one the call is left out.
string_deinit(s) ==
  /\ halt = NULL /\ (Owned(s) \/ str[s].data = NULL \/ str[s].len = 0)
  /\ Assert("string_deinit", s, NULL, Consistent(s))
  /\ halt' = NULL => /\ heap' = IF Owned(s) THEN [heap EXCEPT ![str[s].data.block] = NULL]
                                            ELSE heap
                     /\ str' = [str EXCEPT ![s] = Empty]
                     /\ holds' = [holds EXCEPT ![s] = NULL]
                     /\ ret' = NULL /\ si' = si

string_empty(s) ==
  /\ halt = NULL
  /\ Assert("string_empty", s, NULL, Consistent(s))
  /\ halt' = NULL => /\ ret' = [op |-> "empty", s |-> s, r |-> IF str[s].len = 0 THEN 1 ELSE 0]
                     /\ UNCHANGED <<str, heap, holds, si>>

\* The lengths are unsigned: their difference, if it is not 0, is above 0, and
\* the result for strings of different lengths is 1.  Otherwise the sign of
\* strncmp, here 0 or not.
compare(a, b) ==
  IF str[a].len # str[b].len THEN 1
  ELSE IF Bytes(Memory(str[a].data), str[a].len) = Bytes(Memory(str[b].data), str[b].len)
       THEN 0 ELSE 1

string_compare(a, b) ==
  /\ halt = NULL /\ str[a].data # NULL /\ str[b].data # NULL
  /\ ret' = [op |-> "compare", s |-> <<a, b>>, r |-> compare(a, b)]
  /\ UNCHANGED <<str, heap, holds, si, halt>>

-----------------------------------------------------------------------------
\* The path and a 0 in sun_path, or nothing when the name is too long.
cs_resolve_unix(m, n) ==
  IF n >= M_UNIX_ADDRSTRLEN THEN NULL
  ELSE [family |-> "AF_UNIX", path |-> Append(Bytes(m, n), 0)]

\* The first address getaddrinfo returns for the name, if it knows any.
cs_resolve_inet(known) == IF known THEN [family |-> "AF_INET", path |-> << >>] ELSE NULL

\* A failed resolution leaves the sockinfo as it was.
cs_resolve(s, known) ==
  LET m    == Memory(str[s].data)
      unix == m[1] = Slash
      a    == IF unix THEN cs_resolve_unix(m, str[s].len) ELSE cs_resolve_inet(known)
  IN  /\ halt = NULL /\ str[s].data # NULL
      /\ si' = IF a = NULL THEN si ELSE a
      /\ ret' = [op |-> "resolve", s |-> s, r |-> IF a = NULL THEN 1 ELSE 0]
      /\ UNCHANGED <<str, heap, holds, halt>>

Next == \/ \E s, u \in Str : string_duplicate(s, u) \/ string_compare(s, u)
        \/ \E s \in Str, t \in Text : \/ string_set(s, t)
                                      \/ \E n \in 0 .. Len(t) : string_copy(s, t, n)
        \/ \E s \in Str : \/ string_init(s) \/ string_deinit(s) \/ string_empty(s)
                          \/ \E known \in BOOLEAN : cs_resolve(s, known)

Spec == Init /\ [][Next]_vars

-----------------------------------------------------------------------------
\* Every string stands for its text with a 0 behind it, whatever happened to
\* the string it was copied from, and whether or not an allocation failed.
StringsHold ==
  \A s \in Str :
    IF str[s].data = NULL THEN holds[s] = NULL /\ str[s].len = 0
    ELSE /\ holds[s] # NULL /\ str[s].len = Len(holds[s])
         /\ Memory(str[s].data) # NULL
         /\ Bytes(Memory(str[s].data), str[s].len + 1) = Append(holds[s], 0)

\* The allocated blocks are those of the strings, one each: none leaks, none
\* is freed under a string or twice.
BlocksOwned ==
  /\ \A b \in Block : heap[b] # NULL <=> \E s \in Str : Owned(s) /\ str[s].data.block = b
  /\ \A s, u \in Str : s # u /\ Owned(s) /\ Owned(u) => str[s].data.block # str[u].data.block

\* An ASSERT blames the call it stops, whatever went before: the target of a
\* copy stands for something already, or there is nothing to copy, or a string
\* refers to the empty text, which has data but no length.  No failed malloc
\* and no call on another string leaves one behind that aborts later.
AssertsJustified ==
  halt # NULL =>
    IF halt.op \in {"string_duplicate", "string_copy"}
    THEN holds[halt.s] # NULL \/ halt.text \in {NULL, << >>}
    ELSE holds[halt.s] = << >>

\* string_compare tells whether two strings have the same text.
CompareSound == ret # NULL /\ ret.op = "compare" =>
                  (ret.r = 0 <=> holds[ret.s[1]] = holds[ret.s[2]])

\* The path of a resolved unix address and its 0 fit into sun_path.
PathFits == si # NULL => Len(si.path) <= M_UNIX_ADDRSTRLEN

\* The functions of cs_string.c, and cs_resolve on their strings, keep all of it.
StringsSound == StringsHold /\ BlocksOwned /\ CompareSound /\ PathFits
=============================================================================
