-------------------------------- MODULE Stack --------------------------------
(***************************************************************************)
(* The stack gauge of src/stack.c: stack_init() paints the unused part of  *)
(* the stack from the bottom up, everything that runs afterwards loses     *)
(* paint, and stack_check() reads the depth off the first byte that has    *)
(* lost it.  A byte is a cell, 1 at the bottom; depth d reaches down to    *)
(* cell Size - d + 1.  Any call chain or interrupt may write any cell      *)
(* below the frame of app_main(), with any value.                          *)
(***************************************************************************)
EXTENDS Naturals, FiniteSetsExt

CONSTANTS
    Size,       \* sizeof(stack_ram)
    Entry,      \* depth of the frame of stack_init()
    Slack       \* STACK_PAINT_SLACK

ASSUME StackAssumption == {Size, Entry, Slack} \subseteq Nat /\ Entry + Slack < Size

Cell == 1..Size
Value == {"paint", "other"}

VARIABLES
    mem,        \* stack_ram
    next,       \* stack_init(): the cell to paint, 0 when it is over
    used_max,
    deepest,    \* history: the deepest byte written since stack_init()
    tainted,    \* history: an interrupt wrote to the stack while it was painted
    sampled     \* history: nothing was written since the last stack_check()

stackVars == <<mem, next, used_max, deepest, tainted, sampled>>

\* Mutant: the slack is subtracted twice.
LimitTooLow == Size - Entry - 2 * Slack

\* The last cell stack_init() paints.
Limit == Size - Entry - Slack

StackTypeOK ==
    /\ mem \in [Cell -> Value] /\ next \in 0..(Limit + 1)
    /\ used_max \in 0..Size /\ deepest \in 0..Size
    /\ tainted \in BOOLEAN /\ sampled \in BOOLEAN

\* SRAM holds anything at reset; the frames down to Entry are in use.
StackInit ==
    /\ mem \in [Cell -> Value]
    /\ next = 1 /\ used_max = 0 /\ deepest = 0
    /\ tainted = FALSE /\ sampled = FALSE
------------------------------------------------------------------------------
\* Mutant: the scan starts at the top, where the paint ends.
WatermarkFromTop(m) ==
    Min({n \in 0..Limit : \A c \in (n + 1)..Limit : m[c] = "paint"})

\* How many cells from the bottom up still hold the paint.
stack_watermark(m) == Max({n \in 0..Size : \A c \in 1..n : m[c] = "paint"})

Used(m) == Size - stack_watermark(m)

PaintCell ==
    /\ next \in 1..Limit
    /\ mem' = [mem EXCEPT ![next] = "paint"]
    /\ next' = next + 1
    /\ UNCHANGED <<used_max, deepest, tainted, sampled>>

\* The paint is on: used_max is reset and the first sample taken.
PaintDone ==
    /\ next > Limit
    /\ next' = 0
    /\ used_max' = Used(mem)
    /\ deepest' = 0
    /\ sampled' = TRUE
    /\ UNCHANGED <<mem, tainted>>

\* A call chain, or an interrupt, that reaches down to a cell.
Write(c, v) ==
    /\ c <= Size - Entry
    /\ mem' = [mem EXCEPT ![c] = v]
    /\ deepest' = Max({deepest, Size - c + 1})
    /\ tainted' = (tainted \/ next > 0)
    /\ sampled' = FALSE
    /\ UNCHANGED <<next, used_max>>

\* From the main loop, or before a POST /debug snapshot.
stack_check ==
    /\ next = 0
    /\ used_max' = Max({used_max, Used(mem)})
    /\ sampled' = TRUE
    /\ UNCHANGED <<mem, next, deepest, tainted>>

StackNext ==
    \/ PaintCell \/ PaintDone \/ stack_check
    \/ \E c \in Cell, v \in Value : Write(c, v)

StackSpec == StackInit /\ [][StackNext]_stackVars
------------------------------------------------------------------------------
(* Properties *)

\* README.md "Stack budget": the watermark is exact unless the deepest bytes
\* happen to equal the paint: it never reports less than the deepest byte that
\* differs from it, even if that byte was written only for a moment ...
NeverTooLow ==
    sampled /\ deepest > 0 /\ mem[Size - deepest + 1] = "other" => used_max >= deepest

\* ... and never more than was used, or than the frame of stack_init() and its
\* slack, unless an interrupt came while it was painting.
NeverTooHigh == ~tainted => used_max <= Max({deepest, Entry + Slack})
==============================================================================
