--------------------------- MODULE MC_OperatorInbox ---------------------------
(* Small instances of OperatorInbox for TLC. *)
EXTENDS OperatorInbox

\* A request with a budget of one skill, or a question, and then a correction.
MCSorts ==
    << {[kind |-> "instruction", high |-> TRUE, bounded |-> TRUE],
        [kind |-> "question", high |-> FALSE, bounded |-> FALSE]},
       {[kind |-> "correction", high |-> FALSE, bounded |-> FALSE]} >>
=============================================================================
