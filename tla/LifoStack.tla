------------------------------ MODULE LifoStack ------------------------------
(***************************************************************************)
(* What the users of stack.h rely on: a stack whose operations take effect *)
(* at one instant.  A block is either in the stack or out of it, in the    *)
(* hands of the program.  Results are kept in `ret`, so that a             *)
(* specification that implements this one also returns the right blocks    *)
(* and the right lengths (it is linearizable), not only the right          *)
(* sequence of contents.                                                   *)
(***************************************************************************)
EXTENDS Naturals, Sequences

CONSTANTS
  Threads,
  Nodes,      \* the blocks that may be pushed
  Null,       \* nullptr
  Discipline  \* "pool" (Push, Pop) or "remote" (PushReturnTag, PopAll)

VARIABLES
  contents,   \* the blocks in the stack, top first
  out,        \* the blocks outside of the stack
  ret         \* the result of the last completed operation of each thread

vars == << contents, out, ret >>

Result(value, len) == [value |-> value, len |-> len]

NoResult == Result(Null, 0)

Blocks(s) == { s[i] : i \in DOMAIN s }

Init ==
  /\ contents = << >>
  /\ out = Nodes
  /\ ret = [t \in Threads |-> NoResult]

(* PushReturnTag reports how many blocks the stack holds after the push.   *)
Push(t, n) ==
  /\ n \in out
  /\ contents' = << n >> \o contents
  /\ out' = out \ {n}
  /\ ret' = [ret EXCEPT ![t] =
               Result(n, IF Discipline = "remote" THEN Len(contents) + 1 ELSE 0)]

Pop(t) ==
  /\ contents # << >>
  /\ contents' = Tail(contents)
  /\ out' = out \cup {Head(contents)}
  /\ ret' = [ret EXCEPT ![t] = Result(Head(contents), 0)]

PopAll(t) ==
  /\ contents # << >>
  /\ contents' = << >>
  /\ out' = out \cup Blocks(contents)
  /\ ret' = [ret EXCEPT ![t] = Result(Head(contents), Len(contents))]

(* Pop and PopAll of an empty stack. *)
PopEmpty(t) ==
  /\ contents = << >>
  /\ ret' = [ret EXCEPT ![t] = NoResult]
  /\ UNCHANGED << contents, out >>

Next ==
  \E t \in Threads :
    \/ \E n \in Nodes : Push(t, n)
    \/ Discipline = "pool" /\ Pop(t)
    \/ Discipline = "remote" /\ PopAll(t)
    \/ PopEmpty(t)

Spec == Init /\ [][Next]_vars
=============================================================================
