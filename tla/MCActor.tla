------------------------------- MODULE MCActor -------------------------------
(* Small instances of Actor: rows of agents and of local servers.           *)
EXTENDS Actor, TLC

MCOpOf == [fork |-> "fork", merge |-> "merge", call |-> "call", kill |-> "kill",
           launch |-> "launch", relaunch |-> "launch"]
MCKeyOf == [fork |-> "a", merge |-> "b", call |-> "c", kill |-> "a",
            launch |-> "b", relaunch |-> "d"]
OpOfMenu == [i \in Intents |-> MCOpOf[i]]
KeyOfMenu == [i \in Intents |-> MCKeyOf[i]]
=============================================================================
