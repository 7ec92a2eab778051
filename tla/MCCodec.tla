------------------------------- MODULE MCCodec -------------------------------
(* Codec for TLC at half the width of a symbol: every quartet as a public key,  *)
(* every pair of quartets over three telling symbols as a secret key, every      *)
(* order of members with texts that are right, too short, too long, cut,        *)
(* spelled like a key, not quoted, or absent; and a good pair whose members are *)
(* written in every way that JSON allows, next to members nobody asks for.      *)
EXTENDS Codec

Write == <<"pk", "sk", "device_id">>
Sign == <<"challenge", "context", "timestamp">>
WriteAndSign == {Write, Sign}

SpellingOf == [f \in ToSet(Write) \cup ToSet(Sign) |->
    CASE f = "pk" -> <<3, 0>> [] f = "sk" -> <<4, 0>> [] f = "device_id" -> <<5, Dot>>
      [] f = "challenge" -> <<1, 0>> [] f = "context" -> <<1, 1>> [] f = "timestamp" -> <<1, 2>>]

RoomFor == [f \in ToSet(Write) \cup ToSet(Sign) |->
              CASE f = "pk" -> 7 [] f = "sk" -> 11 [] OTHER -> 2]

Letters(chars) == [n \in DOMAIN chars |-> [is |-> chars[n], escaped |-> FALSE]]
Says(chars) == [gap |-> <<Blank>>, quoted |-> TRUE, letters |-> Letters(chars)]
Bare(chars) == [gap |-> <<>>, quoted |-> FALSE, letters |-> Letters(chars)]
Spelled(f) == Says(SpellingOf[f])
Named(key, v) == [key |-> key, gap |-> v.gap, quoted |-> v.quoted, letters |-> v.letters]
Is(f, v) == Named(SpellingOf[f], v)

\* The same value behind another gap, or with its letter n as an escape.
Behind(v, gap) == [v EXCEPT !.gap = gap]
Escaped(v, n) == [v EXCEPT !.letters[n].escaped = TRUE]
Ways(v) == {v} \cup {Behind(v, g) : g \in {<<>>, <<Blank, Blank>>, <<Line>>, <<Blank, Line, Blank>>}}
               \cup {Escaped(v, n) : n \in DOMAIN v.letters}

\* Members of no handler: an object with a key of ours inside, texts that spell it
\* from one escaped quote to another or to the end, a list of quotes and colons.
Others == {Named(<<7>>, v) : v \in {
    Bare(<<Alien, Quote, 3, 0, Quote, Colon, Quote, 1, 1, 1, 1, Quote, Alien>>),
    Bare(<<Alien, Quote, 3, Quote, Colon, Blank, Quote, Colon, Quote, Alien>>),
    Escaped(Escaped(Says(<<Quote, 3, 0, Quote>>), 1), 4),
    Escaped(Says(<<1, Quote, 3, 0>>), 2), Escaped(Says(<<Backslash, Colon>>), 1)}}

GoodPk == Says(Encode(<<1, 2>>))
GoodSk == Says(Encode(<<5, 6>>))
Write3(p, s, id) == <<Is("pk", p), Is("sk", s), Is("device_id", id)>>

Goods == {Write3(GoodPk, Says(s), Says(<<1>>)) :
             s \in [1..8 -> {1, 4, Pad}] \cup {Encode(<<a, 6, b, 2>>) : a, b \in 0..15}}
Quartets == {Write3(Says(q), GoodSk, Says(<<1>>)) :
               q \in {<<>>} \cup [1..4 -> 0..Pad] \cup [1..2 -> {1, Alien}] \cup [1..8 -> {1, Pad}]
                       \cup [1..4 -> {1, Pad, Colon, Blank, Dot, Alien}]}
Styles == {Write3(p, GoodSk, id) : p \in Ways(GoodPk), id \in
                UNION {Ways(Says(t)) : t \in {<<1>>, <<1, Dot>>, <<5, 6>>, <<1, 7, 1>>, <<1, 1, Alien>>}}}
            \cup {Write3(GoodPk, s, Says(<<1>>)) : s \in Ways(GoodSk)}
            \cup {Write3(GoodPk, Escaped(Says(<<1, Quote, 1>>), 2), Escaped(Says(<<1, Backslash>>), 2))}
Crowded == {<<m>> \o w : m \in Others, w \in {Write3(GoodPk, GoodSk, Says(<<1>>))}}
            \cup {<<Is("sk", GoodSk), m, Is("device_id", Says(<<1>>)), Is("pk", GoodPk)>> : m \in Others}

Texts(f) ==
    {Bare(<<1>>)} \cup
    CASE f = "pk" -> {Says(Encode(b)) : b \in {<<1>>, <<1, 2>>, <<3, 4>>, <<1, 2, 3, 4, 5, 6>>}}
                       \cup {Spelled("sk"), Spelled("device_id")}
      [] f = "sk" -> {Says(Encode(b)) : b \in {<<5, 6>>, <<5, 6, 1, 2>>, <<5, 6, 3, 4>>, <<5, 6, 1>>,
                                               <<5, 6, 1, 2, 5, 6, 1, 2, 1>>}}
                       \cup {Spelled("pk")}
      [] f = "device_id" -> {Says(t) : t \in {<<>>, <<1>>, <<1, 2>>, <<1, 2, 3>>, <<Alien>>}}
                              \cup {Spelled("pk"), Spelled("sk")}
      [] OTHER -> {Says(<<1>>), Says(<<1, 2, 3>>)} \cup {Spelled(g) : g \in ToSet(Sign)}

Shuffles(h) == UNION {[1..n -> UNION {{Is(f, t) : t \in Texts(f)} : f \in ToSet(h)}] : n \in 0..Len(h)}

Object(members) == \A m, n \in DOMAIN members : members[m].key = members[n].key => m = n
Sent(S) == {[members |-> b, json |-> JSON(b)] : b \in {b \in S : Object(b)}}

BodiesFor == Write :> Sent(Shuffles(Write) \cup Goods \cup Quartets \cup Styles \cup Crowded)
               @@ Sign :> Sent(Shuffles(Sign))
==============================================================================
