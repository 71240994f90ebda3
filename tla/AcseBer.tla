------------------------------- MODULE AcseBer -------------------------------
(***************************************************************************)
(* The byte-level collaborators the ACSE core calls but does not define:   *)
(* the csm_array cursor, the BER header reader and length/integer writers, *)
(* the A-XDR null reader and the fixed-prefix object identifier reader.    *)
(* Their code is not part of the modelled source; each operator follows    *)
(* the collaborator contracts of the specification (section 6).            *)
(*                                                                         *)
(* A packet is a sequence of byte values; a read position p counts the    *)
(* bytes already consumed, so the next byte is b[p+1].                     *)
(***************************************************************************)
EXTENDS Integers, Sequences

Byte == 0..255

\* Enough bytes remain after position p for a read of n bytes.
Avail(b, p, n) == p + n <= Len(b)

\* csm_array_read_u8 / csm_array_read_u16 (big endian): the value read, or
\* ok = FALSE (and the cursor unmoved) on an underrun.
ReadU8(b, p)  == IF Avail(b, p, 1) THEN [ok |-> TRUE, v |-> b[p+1], p |-> p + 1]
                                   ELSE [ok |-> FALSE, v |-> 0, p |-> p]
ReadU16(b, p) == IF Avail(b, p, 2) THEN [ok |-> TRUE, v |-> b[p+1] * 256 + b[p+2], p |-> p + 2]
                                   ELSE [ok |-> FALSE, v |-> 0, p |-> p]

\* csm_axdr_rd_null: one byte that must be the A-XDR null tag (0x00).
ReadNull(b, p) == LET r == ReadU8(b, p) IN [ok |-> r.ok /\ r.v = 0, p |-> r.p]

(***************************************************************************)
(* csm_ber_decode: one tag/length header.  The tag byte gives the class   *)
(* and the primitive bit (0x20 clear); a low tag number 31 announces one   *)
(* extension byte.  A length byte below 0x80 is the short form; 0x81 and  *)
(* 0x82 announce one or two length bytes.  The header fails only when its *)
(* own bytes are missing or the length form is longer than two bytes.     *)
(***************************************************************************)
\* The tag's extension byte, read only when the low tag number is 31.
BerTagExtension(b, t) ==
  IF t.ok /\ t.v % 32 = 31 THEN ReadU8(b, t.p) ELSE [ok |-> TRUE, v |-> 0, p |-> t.p]

\* The one or two length bytes announced by a long-form length byte l.
BerLongLength(b, l) ==
  CASE l.v - 128 = 1 -> ReadU8(b, l.p)
    [] l.v - 128 = 2 -> ReadU16(b, l.p)
    [] OTHER         -> [ok |-> FALSE, v |-> 0, p |-> l.p]

\* The header read at p from its tag byte t, extension x, length byte l and
\* long-form length bytes long.
BerHeader(p, t, x, l, long) ==
  LET short == l.v < 128
      ok    == t.ok /\ x.ok /\ l.ok /\ (short \/ long.ok)
  IN [ok     |-> ok,
      tag    |-> t.v,
      ext    |-> x.v,
      id     |-> IF t.ok /\ t.v % 32 = 31 THEN x.v ELSE t.v % 32,
      prim   |-> (t.v \div 32) % 2 = 0,
      length |-> IF short THEN l.v ELSE long.v,
      p      |-> IF ~ok THEN p ELSE IF short THEN l.p ELSE long.p]

BerDecode(b, p) ==
  LET t == ReadU8(b, p)
      x == BerTagExtension(b, t)
      l == ReadU8(b, x.p)
  IN BerHeader(p, t, x, l, BerLongLength(b, l))

\* csm_ber_decode_object_identifier with the fixed DLMS-UA prefix: reads the
\* prefix, then the name selector and the id; it is not given the header's
\* length, so it always reads exactly Len(prefix) + 2 bytes.
OidRead(b, p, prefix) ==
  LET n == Len(prefix)
  IN IF Avail(b, p, n + 2)
     THEN [ok   |-> \A i \in 1..n : b[p + i] = prefix[i],
           name |-> b[p + n + 1], id |-> b[p + n + 2], p |-> p + n + 2]
     ELSE [ok |-> FALSE, name |-> 0, id |-> 0, p |-> p]

\* csm_ber_write_len in the single-byte form this profile assumes, and
\* csm_ber_write_integer: length 3, INTEGER tag, length 1, the value.
BerLen(n) == << n % 256 >>
BerInteger(v) == << 3, 2, 1, v >>

\* csm_array_write_*: appends to a buffer of capacity cap, or fails whole.
Write(out, bytes, cap) ==
  IF Len(out) + Len(bytes) <= cap THEN [ok |-> TRUE, out |-> out \o bytes]
                                  ELSE [ok |-> FALSE, out |-> out]
==============================================================================
