----------------------------- MODULE MCCollectors -----------------------------
(* Small instances of Collectors: a session with a subagent in one home, a  *)
(* session in another.                                                      *)
EXTENDS Collectors, TLC

TwoLanes == <<"claude", "codex">>
HomeOf == [root |-> "claude", agent |-> "claude", other |-> "codex"]
RootAgent == {<<"root", "agent">>}
=============================================================================
