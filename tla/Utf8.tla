-------------------------------- MODULE Utf8 --------------------------------
(***************************************************************************)
(* The UTF-8 decoder of src/drivers/fb/fb.c and the table that finds a     *)
(* glyph for a code point.  Bytes and code points are numbers, as in the   *)
(* code; dec->buffer is written and never read, and left out.              *)
(***************************************************************************)
EXTENDS Integers, Sequences

Bytes == 0 .. 255
Replacement == 65533  \* 0xFFFD

(* The length a lead byte announces, and the bits it carries.              *)
LeadOf(b) ==
  IF b \in 192 .. 223 THEN 2 ELSE IF b \in 224 .. 239 THEN 3
  ELSE IF b \in 240 .. 247 THEN 4 ELSE 0
LeadBits(b) == b % (CASE LeadOf(b) = 2 -> 32 [] LeadOf(b) = 3 -> 16 [] OTHER -> 8)
IsContinuation(b) == b \in 128 .. 191

(* utf8_decoder_init.                                                      *)
Fresh == [codepoint |-> 0, expected |-> 0, received |-> 0]

(* What a byte does: the next decoder, and the code point that is complete *)
(* with it, if any, as a sequence.                                         *)
Complete(d, cp) == [dec |-> [d EXCEPT !.expected = 0, !.received = 0], out |-> <<cp>>]
Waiting(d) == [dec |-> d, out |-> << >>]

(* As Decode, but an ASCII byte leaves an unfinished sequence in place.    *)
DecodeKeeping(d, b) ==
  IF b < 128 THEN [dec |-> d, out |-> <<b>>]
  ELSE IF LeadOf(b) > 0
    THEN Waiting([codepoint |-> LeadBits(b), expected |-> LeadOf(b), received |-> 1])
  ELSE IF IsContinuation(b) /\ d.received > 0
    THEN LET n == [d EXCEPT !.codepoint = 64 * @ + (b % 64), !.received = @ + 1]
         IN  IF n.received = n.expected THEN Complete(n, n.codepoint) ELSE Waiting(n)
  ELSE Complete(d, Replacement)

(* utf8_decode.  A byte that cannot follow drops what was collected.       *)
Decode(d, b) ==
  IF b < 128 THEN Complete(d, b)
  ELSE IF LeadOf(b) > 0
    THEN Waiting([codepoint |-> LeadBits(b), expected |-> LeadOf(b), received |-> 1])
  ELSE IF IsContinuation(b) /\ d.received > 0 /\ d.received < d.expected
    THEN LET n == [d EXCEPT !.codepoint = 64 * @ + (b % 64), !.received = @ + 1]
         IN  IF n.received = n.expected THEN Complete(n, n.codepoint) ELSE Waiting(n)
  ELSE Complete(d, Replacement)

-----------------------------------------------------------------------------
(* unicode_to_font_index: the Turkish letters, then Latin-1, else '?'.     *)
Turkish ==
  [cp \in {199, 286, 214, 220, 304, 350, 231, 287, 246, 252, 305, 351} |->
     CASE cp = 199 -> 167 [] cp = 286 -> 176 [] cp = 214 -> 182 [] cp = 220 -> 188
       [] cp = 304 -> 189 [] cp = 350 -> 190 [] cp = 231 -> 199 [] cp = 287 -> 208
       [] cp = 246 -> 214 [] cp = 252 -> 220 [] cp = 305 -> 221 [] cp = 351 -> 222]

FontIndex(cp) ==
  IF cp \in DOMAIN Turkish THEN Turkish[cp]
  ELSE IF cp \in 32 .. 255 THEN cp - 32 ELSE 31

-----------------------------------------------------------------------------
(* What a text of bytes means, for comparison: byte i closes a code point  *)
(* if it is the last of a sequence of the length its lead byte announces,  *)
(* and only continuations lie between.                                     *)
RunUpTo(s, i) ==  \* the continuation bytes that end at i
  CHOOSE k \in 0 .. i : /\ \A j \in i - k + 1 .. i : IsContinuation(s[j])
                        /\ i = k \/ ~IsContinuation(s[i - k])
Announced(s, i) == LET j == i - RunUpTo(s, i) IN IF j = 0 THEN 0 ELSE LeadOf(s[j])

ValueOf(s, i) ==
  LET k == RunUpTo(s, i)
      bits[j \in 0 .. k] == IF j = 0 THEN LeadBits(s[i - k])
                            ELSE 64 * bits[j - 1] + (s[i - k + j] % 64)
  IN  bits[k]

Meaning(s, i) ==
  CASE s[i] < 128 -> <<s[i]>>
    [] LeadOf(s[i]) > 0 -> << >>
    [] IsContinuation(s[i]) /\ RunUpTo(s, i) + 1 = Announced(s, i) -> <<ValueOf(s, i)>>
    [] IsContinuation(s[i]) /\ RunUpTo(s, i) + 1 < Announced(s, i) -> << >>
    [] OTHER -> <<Replacement>>
=============================================================================
