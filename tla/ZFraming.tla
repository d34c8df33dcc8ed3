------------------------------- MODULE ZFraming -------------------------------
(***************************************************************************)
(* The bytes of a ZMODEM frame (zmodem_proto.go, zmodem_link.go): what     *)
(* zEscaper makes of a byte of data and what zdlread and zUnescapeN make of*)
(* it, hexadecimal headers, and file positions in headers.                 *)
(*                                                                         *)
(* A byte is a number. The masks of the code are remainders: b & 0x7f is   *)
(* b % 128, b & 0x60 = 0 is b % 128 < 32, and b ^ 0x40 is Flip(b).         *)
(***************************************************************************)
EXTENDS Naturals, Sequences

Byte == 0 .. 255

CAN  == 24
ZDLE == 24

Control(b)     == b % 128 < 32
FlowControl(b) == b % 128 \in {17, 19}                  \* isXonXoff
Flip(b)        == IF b % 128 < 64 THEN b + 64 ELSE b - 64

FrameEnds == {104, 105, 106, 107}                       \* zCRCE, zCRCG, zCRCQ, zCRCW

-----------------------------------------------------------------------------
(* The writer. ctl: the peer wants every control character escaped.        *)

\* ZDLE, DLE, XON, XOFF; a CR after '@'; with ctl every control character.
needs(b, last, ctl) ==
    \/ b % 128 \in {ZDLE, 16, 17, 19}
    \/ b % 128 = 13 /\ last % 128 = 64
    \/ ctl /\ Control(b)

put(b, last, ctl) == IF needs(b, last, ctl) THEN <<ZDLE, Flip(b)>> ELSE <<b>>

\* encodeSubpacket: the end of the data. The CRC follows, escaped as data is,
\* and after zCRCW an XON, which readHeader passes over.
frameEnd(end) == <<ZDLE, end>>

-----------------------------------------------------------------------------
(* The reader, one byte after the other. ignore: raw control characters    *)
(* are noise. "skip" leaves the reader where it is, "can" counts one more. *)

Value(b) == [kind |-> "value", byte |-> b]
Is(k)    == [kind |-> k, byte |-> 0]

plain(c, ignore) ==
    IF c = ZDLE THEN Is("escape")
    ELSE IF FlowControl(c) \/ (ignore /\ Control(c)) THEN Is("skip")
    ELSE Value(c)

\* After ZDLE and cans - 1 more CAN: five in all cancel the session, fewer are
\* a bad CRC.
escaped(c, cans, ignore) ==
    IF c = CAN THEN Is(IF cans + 1 >= 5 THEN "cancel" ELSE "can")
    ELSE IF cans > 1 THEN Is("bad")
    ELSE IF c \in FrameEnds THEN Is("end")
    ELSE IF c = 108 THEN Value(127)
    ELSE IF c = 109 THEN Value(255)
    ELSE IF FlowControl(c) \/ (ignore /\ Control(c)) THEN Is("skip")
    ELSE IF c % 128 \in 64 .. 95 THEN Value(Flip(c))
    ELSE Is("bad")

-----------------------------------------------------------------------------
(* Headers: a hexadecimal digit, with or without a parity bit, and a file  *)
(* position in four bytes, the low one first.                              *)

hexDigit(n) == IF n < 10 THEN 48 + n ELSE 87 + n
zHexValue(c) ==
    IF c \in 48 .. 57 THEN c - 48
    ELSE IF c \in 97 .. 102 THEN c - 87
    ELSE IF c \in 65 .. 70 THEN c - 55
    ELSE 16
encodeHex(b)       == <<hexDigit(b \div 16), hexDigit(b % 16)>>
decodeHex(hi, lo)  == 16 * zHexValue(hi % 128) + zHexValue(lo % 128)

Upper(n)      == n \div 256
zPosHeader(n) == <<n % 256, Upper(n) % 256, Upper(Upper(n)) % 256, Upper(Upper(Upper(n))) % 256>>
pos(data)     == data[1] + 256 * (data[2] + 256 * (data[3] + 256 * data[4]))
Wrap          == 256 * 256 * 256 * 256                  \* of uint32

-----------------------------------------------------------------------------
(* A reader that ignores raw control characters has told the writer to     *)
(* escape them (zEscCtl in its ZRINIT).                                    *)
Agreed(ignore, ctl) == ignore => ctl
=============================================================================
