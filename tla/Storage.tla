------------------------------- MODULE Storage -------------------------------
(***************************************************************************)
(* The encrypted flash store (src/storage.c): one erasable sector, of      *)
(* which two 256 byte pages are programmed.  The module has no state of    *)
(* its own: it says what the readers of storage.c see in a given flash     *)
(* image, and what an erase or a page program leaves behind when it        *)
(* completes and when the board dies in the middle of it.                  *)
(*                                                                         *)
(* The sector is cut into the five fields the readers tell apart.  A cell  *)
(* holds the image it was programmed from, is erased, or is garbage left   *)
(* by an interrupted erase or program.  Ciphertext is abstracted to the    *)
(* image it was boxed from, and the Poly1305 check to equality of images.  *)
(***************************************************************************)
EXTENDS FiniteSets

CONSTANTS
    Seed,            \* 32 byte Ed25519 secret seeds
    Pub,             \* 32 byte Ed25519 public keys
    Id,              \* valid device ids
    BoxKey,          \* X25519 key pair and nonce, fresh on every write
    Nothing,         \* "no record", "no key": a null
    Erased,          \* a cell that reads 0xFF
    Torn,            \* a cell whose content is no valid field
    Stray,           \* a torn length that still lies in 1..STORAGE_MAX_PAYLOAD
    AscendingPage    \* TRUE: within a page, bytes land in address order

Record == [seed : Seed, pub : Pub, id : Id]

\* What storage_write() stages in storage_buf: a payload boxed under a fresh key.
Image == [box : BoxKey, rec : Record]

ASSUME StorageAssumption ==
    /\ AscendingPage \in BOOLEAN
    /\ Nothing \notin Record \cup BoxKey
    /\ {Erased, Torn, Stray} \cap Image = {}
    /\ Torn # Erased /\ Stray # Erased

Page0 == {"magic", "len", "keys"}
Page1 == {"box", "marker"}
Field == Page0 \cup Page1

\* Mutant: a layout with the marker in front of the ciphertext.
MarkerFirst(c, d) ==
    \/ c = "magic" /\ d \in {"len", "keys"}
    \/ c = "len" /\ d = "keys"
    \/ c = "marker" /\ d = "box"

\* Field c is programmed before field d of the same page (address order).
Before(c, d) ==
    \/ c = "magic" /\ d \in {"len", "keys"}
    \/ c = "len" /\ d = "keys"
    \/ c = "box" /\ d = "marker"

Cell == Image \cup {Erased, Torn, Stray}
Blank == [c \in Field |-> Erased]

\* An interrupted erase or program may leave a length that passes the range check.
Garbage(c) == IF c = "len" THEN {Torn, Stray} ELSE {Torn}
------------------------------------------------------------------------------
\* The stored flag: the "DONE" marker at the end of the second page.
storage_writen(f) == f["marker"] \in Image

\* Magic present and a length in 1..STORAGE_MAX_PAYLOAD.
storage_available(f) == f["magic"] \in Image /\ f["len"] \in Image \cup {Stray}

\* crypto_box_open() authenticates: length, keys and ciphertext of one write.
Opens(f) ==
    /\ storage_available(f)
    /\ f["box"] \in Image
    /\ f["len"] = f["box"]
    /\ f["keys"] = f["box"]

storage_read(f) == IF Opens(f) THEN f["box"].rec ELSE Nothing
------------------------------------------------------------------------------
\* NOR flash can only clear bits: programming over old bits yields garbage.
Programmed(f, page, img) ==
    [c \in Field |-> IF c \notin page THEN f[c]
                     ELSE IF f[c] = Erased THEN img ELSE Torn]

\* The board died while `page` was being programmed.
PartlyProgrammed(f, page, img) ==
    {[c \in Field |-> IF c \in page THEN m[c] ELSE f[c]] :
        m \in {n \in [page -> {Torn, Stray, img} \cup {f[c] : c \in page}] :
                 /\ \A c \in page :
                        n[c] \in {f[c], Programmed(f, page, img)[c]} \cup Garbage(c)
                 /\ AscendingPage =>
                        \A c, d \in page : 
                            Before(c, d) /\ n[d] # f[d] 
                               => n[c] = Programmed(f, page, img)[c]}}

\* The board died while the sector was being erased.
PartlyErased(f) ==
    {[c \in Field |-> IF c \in kept THEN f[c] 
                      ELSE IF c = "len" THEN len ELSE Torn] :
        kept \in SUBSET Field, len \in Garbage("len")}
==============================================================================
