------------------------------- MODULE Base64 --------------------------------
(***************************************************************************)
(* record_b64_decode() of src/record.c, quartet by quartet.  A symbol is    *)
(* three units wide and a byte four: a unit has four values in the code,    *)
(* where it is two bits, and two where the domain is to be enumerated.      *)
(***************************************************************************)
EXTENDS Naturals, FiniteSets, SequencesExt

CONSTANT Unit       \* 4 in the code

ASSUME Base64Assumption == Unit \in Nat \ {0, 1}

Radix == Unit * Unit * Unit
Byte == Unit * Radix
Pad == Radix              \* '='
Alien == Radix + 7        \* those above '=' are outside the alphabet: Fields
Symbol == 0..Alien        \* names the ones that mean something in a request

VARIABLES
    in,         \* the string
    cap,        \* room in out[]
    i,          \* the quartets decoded so far
    out,        \* the bytes decoded so far
    verdict     \* "idle", "decoding", "ok", or "bad" for a return of -1

decoder == <<in, cap, i, out, verdict>>

DecoderTypeOK ==
    /\ in \in Seq(Symbol) /\ cap \in Nat /\ i \in 0..Len(in)
    /\ out \in Seq(0..(Byte - 1)) /\ Len(out) <= cap
    /\ verdict \in {"idle", "decoding", "ok", "bad"}

DecoderIdle == in = <<>> /\ cap = 0 /\ i = 0 /\ out = <<>> /\ verdict = "idle"

record_b64_decode(text, room) ==
    in' = text /\ cap' = room /\ i' = 0 /\ out' = <<>> /\ verdict' = "decoding"
------------------------------------------------------------------------------
quartet == [k \in 1..4 |-> in[4 * i + k]]
isLast == 4 * i + 4 = Len(in)

\* The last `pad` symbols of the quartet are '=', which only the last quartet
\* may have, and all the others are in the alphabet.
Padded(pad) ==
    /\ pad > 0 => isLast
    /\ \A k \in 1..4 : IF k <= 4 - pad THEN quartet[k] < Radix ELSE quartet[k] = Pad

\* Mutant: left over bits are ignored.
CanonicalAlways(pad) == pad \in 0..2

\* The bits of the last symbol that belong to no byte are zero.
Canonical(pad) ==
    /\ pad = 1 => quartet[3] % Unit = 0
    /\ pad = 2 => quartet[2] % (Unit * Unit) = 0

\* The number that four symbols make, '=' being zero, and its bytes.
bits(v) == IF v = Pad THEN 0 ELSE v
triple(q) == ((bits(q[1]) * Radix + bits(q[2])) * Radix + bits(q[3])) * Radix + bits(q[4])
bytes(t, k) ==
    CASE k = 1 -> ((t \div Byte) \div Byte) % Byte
      [] k = 2 -> (t \div Byte) % Byte
      [] OTHER -> t % Byte

take(pad) == [k \in 1..(3 - pad) |-> bytes(triple(quartet), k)]

\* Mutant: the limit is tested after the bytes have been stored.
FitsBefore(pad) == Len(out) <= cap

Fits(pad) == Len(out) + 3 - pad <= cap

Decodes(pad) == Padded(pad) /\ Canonical(pad) /\ Fits(pad)

WholeQuartets == Len(in) > 0 /\ Len(in) % 4 = 0

Quartet ==
    /\ verdict = "decoding" /\ WholeQuartets /\ 4 * i < Len(in)
    /\ \E pad \in 0..2 : Decodes(pad) /\ out' = out \o take(pad)
    /\ i' = i + 1
    /\ UNCHANGED <<in, cap, verdict>>

Reject ==
    /\ verdict = "decoding"
    /\ \/ ~WholeQuartets
       \/ WholeQuartets /\ 4 * i < Len(in) /\ ~\E pad \in 0..2 : Decodes(pad)
    /\ verdict' = "bad"
    /\ UNCHANGED <<in, cap, i, out>>

Accept ==
    /\ verdict = "decoding" /\ WholeQuartets /\ 4 * i = Len(in)
    /\ verdict' = "ok"
    /\ UNCHANGED <<in, cap, i, out>>

Decode == Quartet \/ Reject \/ Accept
------------------------------------------------------------------------------
(* Properties *)

\* The reference: RFC 4648.  Three bytes, zero where there are none left, make a
\* number, its four digits are symbols, and those that hold no byte are '='.
Group(b, g) ==
    LET at(k) == IF 3 * g + k <= Len(b) THEN b[3 * g + k] ELSE 0
    IN  (at(1) * Byte + at(2)) * Byte + at(3)

Digit(t, k) ==
    CASE k = 1 -> (((t \div Radix) \div Radix) \div Radix) % Radix
      [] k = 2 -> ((t \div Radix) \div Radix) % Radix
      [] k = 3 -> (t \div Radix) % Radix
      [] OTHER -> t % Radix

Encoded(b, g, k) == IF 3 * g + k <= Len(b) + 1 THEN Digit(Group(b, g), k) ELSE Pad

Encode(b) ==
    [n \in 1..(4 * ((Len(b) + 2) \div 3)) |-> Encoded(b, (n - 1) \div 4, ((n - 1) % 4) + 1)]

\* The only bytes a string can be the encoding of.
Candidate(text) ==
    LET used == Cardinality({n \in DOMAIN text : text[n] # Pad})
        at(n) == IF n <= Len(text) THEN text[n] ELSE Pad
        group(g) == triple([k \in 1..4 |-> at(4 * g + k)])
    IN  [n \in 1..((3 * used) \div 4) |-> bytes(group((n - 1) \div 3), ((n - 1) % 3) + 1)]

\* record.h: what is accepted is the encoding of exactly the bytes returned, so
\* that two strings never decode to the same key; and what is refused is empty, or
\* no encoding of anything that would have fitted.
DecodesExactly ==
    /\ verdict = "ok" => Encode(out) = in
    /\ verdict = "bad" /\ in # <<>> =>
         Len(Candidate(in)) > cap \/ Encode(Candidate(in)) # in
==============================================================================
