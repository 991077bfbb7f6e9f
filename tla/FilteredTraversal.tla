---------------------------- MODULE FilteredTraversal ----------------------
(***************************************************************************)
(* What a search-term traversal promises (spec 2, SearchTerm): a forward-  *)
(* only walk over the terms whose action is the filter (all terms for the *)
(* undefined filter).  `count` is how many matching terms have been        *)
(* handed out, `exhausted` that the walk has reported its end; the current *)
(* term is the count-th match, and there is none before the first step or *)
(* after the end.                                                          *)
(***************************************************************************)
EXTENDS Naturals, Sequences

CONSTANT Undefined

VARIABLES
  terms,      \* the actions of the terms, fixed during a walk
  filter,     \* the action walked over
  count,
  exhausted

vars == <<terms, filter, count, exhausted>>

Matches ==
  SelectSeq([i \in 1 .. Len(terms) |-> i],
            LAMBDA i : filter = Undefined \/ terms[i] = filter)

\* The index of the current term, or 0 for none.
Current == IF count = 0 \/ exhausted THEN 0 ELSE Matches[count]

Init == count = 0 /\ exhausted = FALSE

Advance ==
  /\ IF count < Len(Matches)
     THEN count' = count + 1 /\ UNCHANGED exhausted
     ELSE exhausted' = TRUE /\ UNCHANGED count
  /\ UNCHANGED <<terms, filter>>

Spec == Init /\ [][Advance]_vars
=============================================================================
