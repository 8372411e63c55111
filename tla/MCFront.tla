------------------------------ MODULE MCFront -------------------------------
(***************************************************************************)
(* The role endpoint and the chat, with limits that two sessions reach.    *)
(***************************************************************************)
EXTENDS FrontDoor, TLC

CONSTANTS c1, c2, c3, s1, s2

Counting(scope, pool) == [scope |-> scope, pool |-> pool]

MCScope == "promote" :> Counting("reviewer_role", "role") @@ "demote" :> Counting("reviewer_role", "role")
           @@ "chat" :> Counting("chat", "ai")
MCSettings ==
    {[limited |-> FALSE, kinds |-> {"promote", "demote", "create", "chat"},
      clients |-> {c1, c2, c3}, sessions |-> {s1}],
     [limited |-> TRUE, kinds |-> {"demote", "chat"}, clients |-> {c1}, sessions |-> {s1, s2}]}

MCSessionLimit == "reviewer_role" :> 1 @@ "chat" :> 2
MCGlobalLimit  == "role" :> 2 @@ "ai" :> 2

=============================================================================
