----------------------------- MODULE MCSockets -----------------------------
(***************************************************************************)
(* The helpers for sockets: the two ends of a stream, and the strings that *)
(* name addresses.  A behaviour is one of one of them (part).              *)
(***************************************************************************)
EXTENDS Stream

CONSTANTS Str, Text, Block, Slash, M_UNIX_ADDRSTRLEN, NULL   \* see Strings

VARIABLES part, str, heap, holds, si, ret, halt

S == INSTANCE Strings

ASSUME StringsAssumption == S!StringsConstants

strvars == <<str, heap, holds, si, ret, halt>>
all     == <<part, vars, strvars>>

MCInit == part \in {"stream", "strings"} /\ Init /\ S!Init

OnStream(A)  == part = "stream" /\ A /\ UNCHANGED <<part, strvars>>
OnStrings(A) == part = "strings" /\ A /\ UNCHANGED <<part, vars>>

MCSpec == /\ MCInit /\ [][OnStream(Next) \/ OnStrings(S!Next)]_all
          /\ WF_all(OnStream(Sender)) /\ WF_all(OnStream(Receiver))

\* Messages longer than what the socket holds, empty, and as long as it.
MessageStarts == <<1, 4, 4, 6>>

\* The empty text, a name, and paths: short, of the largest length that fits
\* into sun_path, and one longer.
Texts == {<< >>, <<97, 98>>, <<47>>, <<47, 97, 98>>, <<47, 97, 98, 97>>}

\* See Strings: strings stand for their texts and own their blocks.
StringsSound == S!StringsSound

\* See Strings: an ASSERT fails only in a call that is wrong by itself.
AssertsJustified == S!AssertsJustified
=============================================================================
