-------------------------------- MODULE Fields -------------------------------
(***************************************************************************)
(* json_get_string() of src/http_server.c, which searches the body of a    *)
(* request for a quoted key instead of parsing it.                         *)
(*                                                                         *)
(* What a client sends is modelled by the members of its JSON object and   *)
(* by the text that they make, which is all that the board sees: white     *)
(* space, escapes, members the handler does not know and values that are   *)
(* no strings, objects among them, are in it character by character.       *)
(***************************************************************************)
EXTENDS Base64, FiniteSetsExt

\* Characters outside the alphabet of base64 that are told apart from the others.
Quote == Radix + 1
Colon == Radix + 2
Blank == Radix + 3        \* a space or a tab
Line == Radix + 4         \* a newline or a carriage return
Backslash == Radix + 5
Dot == Radix + 6          \* '.', '_' or '-': in device ids, not in base64

CONSTANTS
    Handlers,   \* the keys a handler asks for, in its order, for each handler
    Spelling,   \* the characters of each key
    Bodies,     \* what clients send to each handler
    Room        \* characters that fit in the buffer for a field, without the NUL

Field == UNION {ToSet(h) : h \in Handlers}

\* A character of a value, written as it is or as an escape of JSON.
Letter == [is : Symbol, escaped : BOOLEAN]
Member == [key : Seq(Symbol), gap : Seq({Blank, Line}), quoted : BOOLEAN, letters : Seq(Letter)]
Body == [members : Seq(Member), json : Seq(Symbol)]

\* The text of an object: every escape begins with a backslash.
WrittenLetters(t) ==
    FlattenSeq([n \in DOMAIN t |-> (IF t[n].escaped THEN <<Backslash>> ELSE <<>>) \o <<t[n].is>>])
Written(m) ==
    LET quote == IF m.quoted THEN <<Quote>> ELSE <<>>
    IN  <<Quote>> \o m.key \o <<Quote, Colon>> \o m.gap \o quote \o WrittenLetters(m.letters) \o quote
JSON(members) == <<Alien>> \o FlattenSeq([n \in DOMAIN members |-> Written(members[n]) \o <<Alien>>])

ASSUME FieldsAssumption ==
    /\ Handlers \subseteq Seq(Field)
    /\ Spelling \in [Field -> Seq(Symbol)] /\ Room \in [Field -> Nat]
    /\ DOMAIN Bodies = Handlers /\ \A h \in Handlers : Bodies[h] \subseteq Body

\* What a JSON object is, and that its keys differ and are spelled plainly.
ASSUME BodiesAreJSON ==
    \A h \in Handlers : \A b \in Bodies[h] :
        /\ b.json = JSON(b.members)
        /\ \A m, n \in DOMAIN b.members : b.members[m].key = b.members[n].key => m = n
        /\ \A m \in DOMAIN b.members : /\ {Quote, Backslash} \cap ToSet(b.members[m].key) = {}
                                       /\ \A k \in DOMAIN b.members[m].letters :
                                            LET l == b.members[m].letters[k]
                                            IN  b.members[m].quoted /\ l.is \in {Quote, Backslash} => l.escaped

VARIABLES
    order,      \* the handler the request has reached
    body,       \* what the client sent
    asked,      \* how many fields the handler has read so far
    got         \* what json_get_string() returned for each

fields == <<order, body, asked, got>>

Missing == [found |-> FALSE, chars |-> <<>>]
Found(chars) == [found |-> TRUE, chars |-> chars]
Returned == [found : BOOLEAN, chars : Seq(Symbol)]

FieldsTypeOK ==
    /\ order \in Handlers /\ body \in Body /\ asked \in 0..Len(order)
    /\ got \in [ToSet(order) -> Returned]

FieldsInit ==
    /\ order \in Handlers /\ body \in Bodies[order] /\ asked = 0
    /\ got = [f \in ToSet(order) |-> Missing]
------------------------------------------------------------------------------
\* Where the quoted key stands in a text.
Quoted(f) == <<Quote>> \o Spelling[f] \o <<Quote>>
Hits(s, f) ==
    LET needle == Quoted(f)
    IN  {p \in 1..(Len(s) + 1 - Len(needle)) : SubSeq(s, p, p + Len(needle) - 1) = needle}

\* Mutant: the last place is taken.
strstrLast(s, f) == LET hits == Hits(s, f) IN IF hits = {} THEN 0 ELSE Max(hits)

\* The first one, and the first character of S from p on; 0 for NULL.
strstr(s, f) == LET hits == Hits(s, f) IN IF hits = {} THEN 0 ELSE Min(hits)
strchr(s, p, S) ==
    LET places == {n \in p..Len(s) : s[n] \in S} IN IF places = {} THEN 0 ELSE Min(places)

\* The colon behind the key, the quote behind it and the blanks, and the next quote.
ColonAt(s, f) == LET key == strstr(s, f) IN IF key = 0 THEN 0 ELSE strchr(s, key, {Colon})
OpenAt(s, f) == LET colon == ColonAt(s, f) IN IF colon = 0 THEN 0 ELSE strchr(s, colon + 1, Symbol \ {Blank})
CloseAt(s, f) ==
    LET open == OpenAt(s, f)
    IN  IF open = 0 \/ s[open] # Quote THEN 0 ELSE strchr(s, open + 1, {Quote})

\* Longer than the buffer: cut to fit, and nobody is told.
Cut(t, room) == [t EXCEPT !.chars = SubSeq(@, 1, Min({Len(@), room}))]

\* The characters between the two quotes, as they are.
json_get_string(s, f) ==
    LET close == CloseAt(s, f)
    IN  IF close = 0 THEN Missing ELSE Cut(Found(SubSeq(s, OpenAt(s, f) + 1, close - 1)), Room[f])

FoundSoFar == \A n \in 1..asked : got[order[n]] # Missing

\* The fields are looked up one after the other, until one is missing.
GetField ==
    /\ asked < Len(order) /\ FoundSoFar
    /\ asked' = asked + 1
    /\ got' = [got EXCEPT ![order[asked']] = json_get_string(body.json, order[asked'])]
    /\ UNCHANGED <<order, body>>
------------------------------------------------------------------------------
(* Properties *)

\* The member a client means, and its value as any reader of JSON understands it.
Own(f) == {m \in DOMAIN body.members : body.members[m].key = Spelling[f]}
Value(f) ==
    IF \E m \in Own(f) : body.members[m].quoted
    THEN LET t == body.members[Min(Own(f))].letters IN Found([k \in DOMAIN t |-> t[k].is])
    ELSE Missing

\* The quoted key stands in front of its member: as a value, inside an object, or
\* at the end of a text behind an escaped quote.
Astray(f) ==
    LET ahead == IF Own(f) = {} THEN body.members ELSE SubSeq(body.members, 1, Min(Own(f)) - 1)
    IN  Hits(JSON(ahead), f) # {}

\* Written as debug_tool.py and README.md write it: in one line, without escapes.
Plainly(f) == \A m \in Own(f) :
    /\ Line \notin ToSet(body.members[m].gap)
    /\ \A k \in DOMAIN body.members[m].letters : ~body.members[m].letters[k].escaped

\* The text search finds what a reader of JSON would have found, up to the size of
\* the buffer, whatever the order of the members and whatever else is in the body:
\* for a member that is written plainly, unless its quoted key stands earlier too.
FieldsAreFound ==
    \A n \in 1..asked : ~Astray(order[n]) /\ Plainly(order[n]) =>
        got[order[n]] = Cut(Value(order[n]), Room[order[n]])
==============================================================================
