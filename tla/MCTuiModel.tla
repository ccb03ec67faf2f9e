----------------------------- MODULE MCTuiModel -----------------------------
(* Rows with and without a body; a body of two hex lines and three text     *)
(* lines, and one alone of the size of the budget.                          *)
EXTENDS TuiModel

MCRow == {[match |-> 2, body |-> 20, lines |-> 3],
          [match |-> 1, body |-> 0, lines |-> 0],
          [match |-> 0, body |-> 40, lines |-> 1]}
=============================================================================
