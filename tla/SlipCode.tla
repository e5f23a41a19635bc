------------------------------ MODULE SlipCode ------------------------------
(***************************************************************************)
(* The byte stuffing of slip_uart.c, as its comments define it:            *)
(*   SLIP_END      indicates end of frame                                  *)
(*   SLIP_ESC      indicates byte stuffing                                 *)
(*   SLIP_ESC_END  ESC ESC_END means END 'data'                            *)
(*   SLIP_ESC_ESC  ESC ESC_ESC means ESC 'data'                            *)
(* This is the reference the transmitter and the receiver are compared     *)
(* with; neither computes a frame this way.  Every byte with no role of    *)
(* its own is "data".                                                      *)
(***************************************************************************)
EXTENDS Integers, SequencesExt

Bytes == {"END", "ESC", "ESC_END", "ESC_ESC", "data"}

\* What one byte of a frame becomes on the wire.
Stuffed(c) ==
  CASE c = "END" -> <<"ESC", "ESC_END">>
    [] c = "ESC" -> <<"ESC", "ESC_ESC">>
    [] OTHER     -> <<c>>

Encode(frame) == FlattenSeq([k \in DOMAIN frame |-> Stuffed(frame[k])])

\* A frame on the wire is delimited on both sides.
Framed(frame) == <<"END">> \o Encode(frame) \o <<"END">>

Stream(frames) == FlattenSeq([k \in DOMAIN frames |-> Framed(frames[k])])

\* Where an ESC between two ENDs is an escape: one that is not itself escaped.
IsEscape(raw) ==
  LET isEsc[k \in 0 .. Len(raw)] == k > 0 /\ raw[k] = "ESC" /\ ~isEsc[k - 1]
  IN  isEsc

\* What the byte at k means: an escape only changes the meaning of the byte
\* after it, and a byte that needs no escape means itself after one as well.
Unstuffed(raw, k) ==
  IF ~IsEscape(raw)[k - 1] THEN raw[k]
  ELSE CASE raw[k] = "ESC_END" -> "END"
         [] raw[k] = "ESC_ESC" -> "ESC"
         [] OTHER              -> raw[k]

\* What a run of bytes between two ENDs means: its bytes without the escapes.
Meaning(raw) ==
  LET means[k \in 0 .. Len(raw)] ==
        IF k = 0 THEN <<>>
        ELSE IF IsEscape(raw)[k] THEN means[k - 1]
        ELSE Append(means[k - 1], Unstuffed(raw, k))
  IN  means[Len(raw)]

=============================================================================
