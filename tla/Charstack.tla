----------------------------- MODULE Charstack -----------------------------
(***************************************************************************)
(* The string stack docmd_post() keeps while it walks the Newsgroups line, *)
(* to insert an article only once into a group that is named twice         *)
(* (src/src/charstack.c).  A stack is the sequence of the values reachable *)
(* from its first node through the next pointers.                          *)
(***************************************************************************)
EXTENDS Naturals, Sequences

\* A node with state STACK_EMPTY: no value is compared against it.
EmptyStack == <<>>

\* Mutant: a push that leaves the first node in state STACK_EMPTY.
PushOnLost(stack, value) == stack

(***************************************************************************)
(* charstack_push_on() fills the first node when it is empty and otherwise *)
(* stores the new node in stackp->next of that FIRST node, so what hung    *)
(* there before is no longer reachable: at most two values are kept.       *)
(***************************************************************************)
PushOn(stack, value) ==
    IF stack = EmptyStack THEN <<value>> ELSE <<stack[1], value>>

\* Mutant: the comparison with strcmp() taken for a Boolean.
CheckForAny(stack, value) == stack # EmptyStack

\* charstack_check_for() = STACK_FOUND: a walk from the first node.
CheckFor(stack, value) == \E i \in DOMAIN stack : stack[i] = value
=============================================================================
