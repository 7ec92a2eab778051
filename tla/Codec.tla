-------------------------------- MODULE Codec --------------------------------
(***************************************************************************)
(* From the text of a request to the record: the fields of POST /write go  *)
(* through json_get_string(), the device id rules, the base64 decoder and  *)
(* the comparisons of keystore_provision() into record_encode(), and come  *)
(* back through record_decode().  POST /sign ends with its fields.         *)
(***************************************************************************)
EXTENDS Fields

CONSTANTS
    KeyLen,       \* 32 bytes
    IdLimit,      \* RECORD_MAX_DEVICE_ID
    Fixed         \* RECORD_FIXED_LEN

ASSUME CodecAssumption ==
    /\ KeyLen \in Nat \ {0} /\ IdLimit \in Nat \ {0} /\ Fixed = 2 + 3 * KeyLen
    /\ {"pk", "sk", "device_id"} \subseteq Field
    /\ \A h \in Handlers : "device_id" \in ToSet(h) => ToSet(h) = {"pk", "sk", "device_id"}
    /\ Room["device_id"] = IdLimit
    /\ Room["pk"] % 4 = 3 /\ Room["pk"] >= 4 * ((KeyLen + 2) \div 3)        \* pk_b64[64]
    /\ Room["sk"] % 4 = 3 /\ Room["sk"] >= 4 * ((2 * KeyLen + 2) \div 3)    \* sk_b64[128]

VARIABLES
    stage,      \* "fields", "pk", "sk", "refused" or "done"
    pk,         \* the decoded public key
    stored      \* the payload record_encode() made, or Missing

vars == <<decoder, fields, stage, pk, stored>>

Key(n) == [1..n -> 0..(Byte - 1)]

TypeOK ==
    /\ DecoderTypeOK /\ FieldsTypeOK
    /\ stage \in {"fields", "pk", "sk", "refused", "done"}
    /\ pk \in Key(KeyLen) \cup {<<>>}
    /\ stored # Missing => stored.pk \in Key(KeyLen) /\ stored.sk \in Key(2 * KeyLen)

Init ==
    /\ DecoderIdle /\ FieldsInit
    /\ stage = "fields" /\ pk = <<>> /\ stored = Missing
------------------------------------------------------------------------------
AllFound == asked = Len(order) /\ FoundSoFar

\* Of the alphabet of base64 an id has everything but '+' and '/', its last two.
IdSymbol == {s \in Symbol : s < Radix - 2 \/ s = Dot}

record_device_id_valid(id) == Len(id) \in 1..IdLimit /\ \A k \in DOMAIN id : id[k] \in IdSymbol

\* Mutant: the total goes into the byte for the length of the id.
EncodeTotal(p, s, id) ==
    [idLen |-> Fixed + Len(id), len |-> Fixed + Len(id), pk |-> p, sk |-> s, id |-> id]

record_encode(p, s, id) ==
    [idLen |-> Len(id), len |-> Fixed + Len(id), pk |-> p, sk |-> s, id |-> id]

\* record_decode(): a payload whose lengths agree and whose id is a valid one.
record_decodes(p) ==
    /\ p.idLen \in 1..IdLimit /\ p.len = Fixed + p.idLen
    /\ record_device_id_valid(p.id)
------------------------------------------------------------------------------
Lookup ==
    /\ stage = "fields" /\ GetField
    /\ UNCHANGED <<decoder, stage, pk, stored>>

Decoding ==
    /\ stage \in {"pk", "sk"} /\ Decode
    /\ UNCHANGED <<fields, stage, pk, stored>>

\* handle_sign_post() has what it signs.
SignReady ==
    /\ stage = "fields" /\ AllFound /\ "device_id" \notin ToSet(order)
    /\ stage' = "done"
    /\ UNCHANGED <<decoder, fields, pk, stored>>

\* keystore_provision(): the id first, then the public key.
IdTaken ==
    /\ stage = "fields" /\ AllFound /\ "device_id" \in ToSet(order)
    /\ record_device_id_valid(got["device_id"].chars)
    /\ record_b64_decode(got["pk"].chars, KeyLen)
    /\ stage' = "pk"
    /\ UNCHANGED <<fields, pk, stored>>

PkTaken ==
    /\ stage = "pk" /\ verdict = "ok" /\ Len(out) = KeyLen
    /\ pk' = out
    /\ record_b64_decode(got["sk"].chars, 2 * KeyLen)
    /\ stage' = "sk"
    /\ UNCHANGED <<fields, stored>>

\* Mutant: a bare seed is taken as it is.
SecretShort == out

\* A bare seed gets the public half appended.
Secret == IF Len(out) = KeyLen THEN out \o pk ELSE out

\* The secret key has one of its two lengths, and the public half that was sent.
PairMatches == Len(Secret) = 2 * KeyLen /\ SubSeq(Secret, KeyLen + 1, 2 * KeyLen) = pk

PairTaken ==
    /\ stage = "sk" /\ verdict = "ok" /\ PairMatches
    /\ stored' = record_encode(pk, Secret, got["device_id"].chars)
    /\ stage' = "done"
    /\ UNCHANGED <<decoder, fields, pk>>

\* A 400, whatever the reason.
Refused ==
    /\ \/ stage = "fields" /\ ~FoundSoFar
       \/ /\ stage = "fields" /\ AllFound /\ "device_id" \in ToSet(order)
          /\ ~record_device_id_valid(got["device_id"].chars)
       \/ stage \in {"pk", "sk"} /\ verdict = "bad"
       \/ stage = "pk" /\ verdict = "ok" /\ Len(out) # KeyLen
       \/ stage = "sk" /\ verdict = "ok" /\ ~PairMatches
    /\ stage' = "refused"
    /\ UNCHANGED <<decoder, fields, pk, stored>>

Next == Lookup \/ Decoding \/ SignReady \/ IdTaken \/ PkTaken \/ PairTaken \/ Refused

Spec == Init /\ [][Next]_vars
------------------------------------------------------------------------------
(* Properties *)

\* What is between two quotes of the request, behind the quoted key.
Stands(f, t) ==
    \E k \in Hits(body.json, f), o \in DOMAIN body.json :
        /\ k < o /\ o + Len(t) + 1 <= Len(body.json)
        /\ SubSeq(body.json, o, o + Len(t) + 1) = <<Quote>> \o t \o <<Quote>>

\* What is filed is read back by record_decode(), and its keys stand in the request
\* as whole texts: a text that was cut to its buffer is never taken for a key.
FiledStandsInRequest ==
    stored # Missing =>
        /\ record_decodes(stored)
        /\ Stands("pk", Encode(stored.pk))
        /\ Stands("sk", Encode(stored.sk)) \/ Stands("sk", Encode(SubSeq(stored.sk, 1, KeyLen)))

Misled == \E f \in ToSet(order) : Astray(f)

\* record.h, README.md "POST /write": what provisioning files is what the client
\* meant, however it wrote its JSON, with escapes and newlines too: the very keys,
\* and an id within the limit as it is.  Unless a quoted key stands in front of its
\* member, what the search misreads is refused and never filed as something else.
FiledIsWhatWasSent ==
    /\ FiledStandsInRequest
    /\ stored # Missing /\ ~Misled =>
         /\ Encode(stored.pk) = Value("pk").chars
         /\ Value("sk").chars \in {Encode(stored.sk), Encode(SubSeq(stored.sk, 1, KeyLen))}
         /\ Len(Value("device_id").chars) <= IdLimit => stored.id = Value("device_id").chars

\* A pair of keys and an id as README.md "POST /write" asks for.
Sound(p, s, id) ==
    LET pBytes == Candidate(p.chars)
        sBytes == Candidate(s.chars)
    IN  /\ Missing \notin {p, s, id}
        /\ Len(pBytes) = KeyLen /\ Encode(pBytes) = p.chars
        /\ Len(sBytes) \in {KeyLen, 2 * KeyLen} /\ Encode(sBytes) = s.chars
        /\ Len(sBytes) > KeyLen => SubSeq(sBytes, KeyLen + 1, 2 * KeyLen) = pBytes
        /\ record_device_id_valid(id.chars)

\* README.md "POST /write": a request that is as it should be, and is written plainly,
\* is never answered with a 400, whatever the order of its members and whatever
\* others it has: no text that has to be accepted is cut or not found.
SoundIsFiled ==
    stage = "refused" /\ "device_id" \in ToSet(order)
      /\ (\A f \in ToSet(order) : Plainly(f)) /\ ~Misled =>
        ~Sound(Value("pk"), Value("sk"), Value("device_id"))
------------------------------------------------------------------------------
(* What the documentation says and the code does not keep *)

\* README.md "POST /write": device_id must be 1..32 characters of its alphabet, and
\* a bad one is answered with a 400; but json_get_string() cuts it to its buffer.
BadIdIsRefused ==
    stored # Missing /\ ~Misled => record_device_id_valid(Value("device_id").chars)
==============================================================================
