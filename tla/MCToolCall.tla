----------------------------- MODULE MCToolCall -----------------------------
(* Room for two console entries and two units of text, console calls nested  *)
(* twice, and one host call more than the budget.                            *)
EXTENDS ToolCall
=============================================================================
