------------------------------ MODULE InputLog ------------------------------
(***************************************************************************)
(* What the reader promises to one application: a log of its L1 inputs in  *)
(* the order of the InputBox, which grows by whole ranges of blocks, and a *)
(* cursor that says how far it is.  Nothing else is ever in the log, and   *)
(* no other application has a part in it.                                  *)
(***************************************************************************)
EXTENDS Sequences, Integers

VARIABLES blocks,   \* L1: the block of each input of the application, in order
          log,      \* the numbers of the inputs that are stored, in their order
          cursor    \* the block up to which inputs are stored

logVars == <<blocks, log, cursor>>

\* The numbers of the inputs in first..last.
InputsOfRange(first, last) == {k \in DOMAIN blocks : blocks[k] \in first..last}

\* Each of S once, in ascending order.
Ascends(s, S) ==
    /\ {s[i] : i \in DOMAIN s} = S
    /\ \A i, j \in DOMAIN s : i < j => s[i] < s[j]

LogInit == log = <<>> /\ cursor = 0

ReadUpTo(block) ==
    /\ cursor < block
    /\ cursor' = block
    /\ LET added == SubSeq(log', Len(log) + 1, Len(log'))
       IN  log' = log \o added /\ Ascends(added, InputsOfRange(cursor + 1, block))
    /\ UNCHANGED blocks

LogNext == ReadUpTo(cursor')

LogSpec == LogInit /\ [][LogNext]_logVars
=============================================================================
