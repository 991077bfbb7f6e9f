------------------------ MODULE MCSearchTermIterator ------------------------
(***************************************************************************)
(* Term lists of up to four terms over all four actions (the undefined    *)
(* one included), every filter, and one Next() call after the end.        *)
(***************************************************************************)
EXTENDS SearchTermIterator, SequencesExt

MCActions == {"Undefined", "Include", "Exclude", "Extension"}
MaxTerms == 4
MCTermLists == BoundedSeq(MCActions, MaxTerms)
=============================================================================
