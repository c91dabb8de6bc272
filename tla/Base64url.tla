------------------------------ MODULE Base64url ------------------------------
(***************************************************************************)
(* The conversions at the boundary of vend/passkey.js: WebAuthn in the     *)
(* browser takes byte strings, the JSON of vend carries them in base64url  *)
(* without padding.  A text is a sequence of characters; the characters    *)
(* both alphabets share are their values 0..61, those after them are named *)
(* below.                                                                  *)
(***************************************************************************)
EXTENDS Integers, Sequences

Byte == 0 .. 255

Plus == 62        \* the last two digits of base64 ...
Slash == 63
Minus == 64       \* ... and of base64url
Underscore == 65
Pad == 66         \* "="

\* What atob does with a text it cannot read: it throws.
Throws == <<256>>

-----------------------------------------------------------------------------
(***************************************************************************)
(* Three bytes make four digits.                                           *)
(***************************************************************************)
At(s, i) == IF i <= Len(s) THEN s[i] ELSE 0

Sextet(b, j) ==
    LET g == 3 * ((j - 1) \div 4)
        r == (j - 1) % 4
    IN  CASE r = 0 -> At(b, g + 1) \div 4
          [] r = 1 -> 16 * (At(b, g + 1) % 4) + At(b, g + 2) \div 16
          [] r = 2 -> 4 * (At(b, g + 2) % 16) + At(b, g + 3) \div 64
          [] r = 3 -> At(b, g + 3) % 64

Octet(s, i) ==
    LET g == 4 * ((i - 1) \div 3)
        r == (i - 1) % 3
    IN  CASE r = 0 -> 4 * s[g + 1] + s[g + 2] \div 16
          [] r = 1 -> 16 * (s[g + 2] % 16) + s[g + 3] \div 4
          [] r = 2 -> 64 * (s[g + 3] % 4) + s[g + 4]

DigitCount(n) == (4 * n + 2) \div 3
ByteCount(n) == (3 * n) \div 4

\* Pads up to the next multiple of four.
PadCount(n) == (4 - (n % 4)) % 4

\* The text in front of the pads at its end.
Unpadded(s) ==
    SubSeq(s, 1, CHOOSE n \in 0 .. Len(s) :
                    /\ \A i \in n + 1 .. Len(s) : s[i] = Pad
                    /\ n > 0 => s[n] # Pad)

Padded(s) == s \o [i \in 1 .. PadCount(Len(s)) |-> Pad]

btoa(b) == Padded([j \in 1 .. DigitCount(Len(b)) |-> Sextet(b, j)])

atob(s) ==
    LET d == Unpadded(s)
    IN  IF (\A i \in 1 .. Len(d) : d[i] \in 0 .. 63) /\ Len(d) % 4 # 1
        THEN [i \in 1 .. ByteCount(Len(d)) |-> Octet(d, i)]
        ELSE Throws

\* s.replace(/from/g, to)
Replace(s, from, to) == [i \in 1 .. Len(s) |-> IF s[i] = from THEN to ELSE s[i]]

\* What the server writes, and reads back: base64.RawURLEncoding.
Url(d) == IF d = Plus THEN Minus ELSE IF d = Slash THEN Underscore ELSE d

RawURLEncoding(b) == [j \in 1 .. DigitCount(Len(b)) |-> Url(Sextet(b, j))]

-----------------------------------------------------------------------------
\* Mutant: the digits of base64url are taken for those of base64.
pkB64uToBufPlain(v) == atob(Padded(v))

pkB64uToBuf(v) == atob(Padded(Replace(Replace(v, Minus, Plus), Underscore, Slash)))

pkBufToB64u(b) == Unpadded(Replace(Replace(btoa(b), Plus, Minus), Slash, Underscore))
=============================================================================
