----------------------------- MODULE ObjectPool -----------------------------
(***************************************************************************)
(* What memoryPool<T> promises: a last-in first-out list of free blocks    *)
(* and a set of blocks in use.  Each call is one atomic step, with two     *)
(* exceptions.  A caller that saw the list empty is committed to create a  *)
(* block, even when blocks come back before it does; and a block given     *)
(* back is nobody's until it is on the list.                               *)
(***************************************************************************)
EXTENDS Integers, FiniteSets, SequencesExt

CONSTANTS Threads, Nodes

VARIABLES
  free,      \* the free blocks, first to last
  used,      \* the blocks in use
  returning, \* the blocks given back and not on the list yet
  growing    \* the callers committed to `new`

vars == <<free, used, returning, growing>>

Init ==
  /\ free = <<>>
  /\ used = {}
  /\ returning = {}
  /\ growing = {}

(* Alloc of a block of the list. *)
Take ==
  /\ free # <<>>
  /\ free' = Tail(free)
  /\ used' = used \cup {Head(free)}
  /\ UNCHANGED <<returning, growing>>

(* Alloc sees that there is no free block ... *)
Exhausted(t) ==
  /\ free = <<>>
  /\ t \notin growing
  /\ growing' = growing \cup {t}
  /\ UNCHANGED <<free, used, returning>>

(* ... and makes one that nobody has seen before. *)
Grow(t) ==
  /\ t \in growing
  /\ growing' = growing \ {t}
  /\ \E n \in Nodes \ (used \cup returning \cup ToSet(free)) : used' = used \cup {n}
  /\ UNCHANGED <<free, returning>>

(* The caller of Free gives its block up ... *)
Release(n) ==
  /\ n \in used
  /\ used' = used \ {n}
  /\ returning' = returning \cup {n}
  /\ UNCHANGED <<free, growing>>

(* ... and Free puts it first on the list. *)
Return(n) ==
  /\ n \in returning
  /\ returning' = returning \ {n}
  /\ free' = <<n>> \o free
  /\ UNCHANGED <<used, growing>>

(* The destructor deletes the free blocks. *)
Delete ==
  /\ growing = {} /\ returning = {}
  /\ free' = <<>>
  /\ UNCHANGED <<used, returning, growing>>

Next ==
  \/ Take
  \/ \E t \in Threads : Exhausted(t) \/ Grow(t)
  \/ \E n \in Nodes : Release(n) \/ Return(n)
  \/ Delete

Spec == Init /\ [][Next]_vars
=============================================================================
