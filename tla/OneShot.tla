------------------------------- MODULE OneShot -------------------------------
(***************************************************************************)
(* What the provisioning store promises, whatever the flash and the cache  *)
(* do (README.md "POST /write", "POST /clear" and "Storage layout"):       *)
(* a record is filed only into an empty vault and exactly as submitted,    *)
(* it leaves only for a caller that presents its secret or for the bench   *)
(* wipe, and it can be damaged only while one of those two is under way.   *)
(***************************************************************************)
CONSTANTS
    Record,               \* what a vault can hold
    Secret,               \* what a caller can present
    Holds,                \* the pairs <<secret, record>> where the secret releases the record
    Empty, Damaged,       \* the vault holds nothing; holds something unusable
    Bench                 \* TRUE when the unauthenticated bench wipe is built in

VARIABLES 
    vault,      \* what POST /write and POST /clear see
    claim       \* the request being served

Claim(kind, r, s) == [kind |-> kind, rec |-> r, secret |-> s]
NoClaim == Claim("none", Empty, Empty)
Wipe == Claim("wipe", Empty, Empty)

Init == vault = Empty /\ claim = NoClaim

\* A request is taken up; the bench wipe only where it is built in.
Submit ==
    /\ claim = NoClaim
    /\ \/ \E r \in Record : claim' = Claim("file", r, Empty)
       \/ \E s \in Secret : claim' = Claim("release", Empty, s)
       \/ Bench /\ claim' = Wipe
    /\ UNCHANGED vault

\* The request was refused, failed or was cut off without effect.
Abandon == claim' = NoClaim /\ UNCHANGED vault

Provision ==
    /\ claim.kind = "file" 
    /\ vault = Empty
    /\ vault' = claim.rec
    /\ claim' = NoClaim

\* The claim that entitles its caller to erase the vault as it is now.
Entitled ==
    \/ claim.kind = "wipe"
    \/ claim.kind = "release" /\ vault \in Record /\ <<claim.secret, vault>> \in Holds

\* Completed, or cut off by a reset with the erase half done.
Erase == Entitled /\ vault' \in {Empty, Damaged} /\ claim' = NoClaim

Next == Submit \/ Abandon \/ Provision \/ Erase

Spec == Init /\ [][Next]_<<vault, claim>>
==============================================================================
