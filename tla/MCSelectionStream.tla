-------------------------- MODULE MCSelectionStream --------------------------
(***************************************************************************)
(* Small instances of SelectionStream.                                     *)
(***************************************************************************)
EXTENDS SelectionStream, TLC

\* A stream whose batches mix all that can be settled, and one whose
\* fallback meets every outcome.
MCScenarios == {<<"plain", "rejected", "garbled">>, <<"duplicate", "rejected", "plain">>}

\* A message that violates a unique key travels with one that can be saved.
MCDuplicate == {<<"duplicate", "plain">>}
=============================================================================
