------------------------------- MODULE Lifo -------------------------------
(***************************************************************************)
(* What a stack promises: the value popped is the last one pushed that is  *)
(* still there, and every value is popped at most once.                    *)
(***************************************************************************)
EXTENDS SequencesExt

CONSTANT Values

VARIABLES
  stack,  \* first to last
  taken   \* the values popped, in order

vars == <<stack, taken>>

Init == stack = <<>> /\ taken = <<>>

Push(v) ==
  /\ v \notin ToSet(stack) \cup ToSet(taken)
  /\ stack' = <<v>> \o stack
  /\ UNCHANGED taken

Pop ==
  /\ stack # <<>>
  /\ stack' = Tail(stack)
  /\ taken' = Append(taken, Head(stack))

Next == (\E v \in Values : Push(v)) \/ Pop

Spec == Init /\ [][Next]_vars
=============================================================================
