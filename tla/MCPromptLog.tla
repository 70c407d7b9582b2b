---------------------------- MODULE MCPromptLog ----------------------------
\* A conversation for TLC: its first prompt, which has no
\* parent, and another
EXTENDS PromptLog

Conversation == [f \in Files |-> <<
  [type |-> "user", cwd |-> "workspace", content |-> "text", parent |-> FALSE],
  [type |-> "user", cwd |-> "workspace", content |-> "text", parent |-> TRUE]>>]
=============================================================================
