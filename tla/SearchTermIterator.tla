--------------------------- MODULE SearchTermIterator -----------------------
(***************************************************************************)
(* SearchTermIterator (src/protocol/message/search.go) driven by a client  *)
(* that calls Next() and reads SearchTerm().  Terms are given by their     *)
(* actions; SearchTerm() returns a pointer into the slice, modelled as the *)
(* 1-based index of the term (0 for nil).                                  *)
(***************************************************************************)
EXTENDS Naturals, Sequences

CONSTANTS
  Actions,     \* SearchTermUndefined, Include, Exclude, Extension
  Undefined,   \* SearchTermUndefined, the zero value
  TermLists,   \* the SearchTerms slices a client may iterate over
  ExtraCalls   \* calls to Next() the client makes after it returned false

ASSUME Undefined \in Actions /\ ExtraCalls \in Nat

VARIABLES
  terms,        \* SearchTerms
  filter,       \* Filter
  initialised,  \* initialised
  pos,          \* pos (0-based)
  falses        \* Next() calls that returned false so far (client bound)

vars == <<terms, filter, initialised, pos, falses>>

\* The 0-based term at pos matches the filter (Go: s.SearchTerms[s.pos]).
MatchesAt(p) == terms[p + 1] = filter

RECURSIVE SkipTo(_)
\* for s.pos < len && SearchTerms[s.pos].TermAction != Filter { s.pos++ }
SkipTo(p) == IF p < Len(terms) /\ ~MatchesAt(p) THEN SkipTo(p + 1) ELSE p

\* Fault variant: SearchTerm() forgets the initialised check.
SearchTermUnguarded == IF pos >= Len(terms) THEN 0 ELSE pos + 1

\* SearchTerm(): nil before the first Next() or past the end.
SearchTerm == IF ~initialised \/ pos >= Len(terms) THEN 0 ELSE pos + 1

Init ==
  /\ terms \in TermLists
  /\ filter \in Actions
  /\ initialised = FALSE
  /\ pos = 0
  /\ falses = 0

\* Fault variant: Next() steps past the current term on the first call too.
NextAlwaysAdvance ==
  /\ falses <= ExtraCalls
  /\ LET p0 == pos + 1
         p1 == IF filter # Undefined THEN SkipTo(p0) ELSE p0
     IN  /\ pos' = p1
         /\ initialised' = TRUE
         /\ falses' = IF p1 >= Len(terms) THEN falses + 1 ELSE falses
  /\ UNCHANGED <<terms, filter>>

\* Fault variant: Next() steps two terms past the current one.
NextSkipsTwo ==
  /\ falses <= ExtraCalls
  /\ LET p0 == IF initialised THEN pos + 2 ELSE pos
         p1 == IF filter # Undefined THEN SkipTo(p0) ELSE p0
     IN  /\ pos' = p1
         /\ initialised' = TRUE
         /\ falses' = IF p1 >= Len(terms) THEN falses + 1 ELSE falses
  /\ UNCHANGED <<terms, filter>>

\* Next(): step past the current term (not on the first call), then skip
\* to the next match unless the filter is undefined; false past the end.
Next ==
  /\ falses <= ExtraCalls
  /\ LET p0 == IF initialised THEN pos + 1 ELSE pos
         p1 == IF filter # Undefined THEN SkipTo(p0) ELSE p0
     IN  /\ pos' = p1
         /\ initialised' = TRUE
         /\ falses' = IF p1 >= Len(terms) THEN falses + 1 ELSE falses
  /\ UNCHANGED <<terms, filter>>

\* The client is done with the iterator.
Done ==
  /\ falses > ExtraCalls
  /\ UNCHANGED vars

Spec == Init /\ [][Next \/ Done]_vars

-----------------------------------------------------------------------------
TypeOK ==
  /\ filter \in Actions
  /\ initialised \in BOOLEAN
  /\ pos \in 0 .. Len(terms) + ExtraCalls + 1
  /\ falses \in 0 .. ExtraCalls + 1

(***************************************************************************)
(* Refinement mapping: the matches handed out are those at or before pos; *)
(* the walk is over once pos has passed the last term.                     *)
(***************************************************************************)
Matching(i) == filter = Undefined \/ terms[i] = filter

HandedOut ==
  IF ~initialised THEN 0
  ELSE Len(SelectSeq([i \in 1 .. Len(terms) |-> i],
                     LAMBDA i : i <= pos + 1 /\ Matching(i)))

Traversal == INSTANCE FilteredTraversal
               WITH count <- HandedOut,
                    exhausted <- (initialised /\ pos >= Len(terms))

(***************************************************************************)
(* SearchTermIterator implements the filtered forward-only traversal:     *)
(* each Next() hands out the next matching term, skipping the others, or *)
(* reports the end, whatever the filter and the position of the matches.  *)
(***************************************************************************)
TraversalRefined == Traversal!Spec

(***************************************************************************)
(* SearchTerm() after any sequence of Next() calls is the traversal's     *)
(* current term: nil before the first call and after the end.             *)
(***************************************************************************)
CurrentAgrees == SearchTerm = Traversal!Current
=============================================================================
