------------------------------ MODULE AgentTenure ------------------------------
(***************************************************************************)
(* What transfers promise about the owner of an agent: a transfer is opened, *)
(* agreed with a party, prepared by a snapshot of the agent's trust, and only *)
(* then moves the agent, to one of its parties.                               *)
(***************************************************************************)
CONSTANTS Transfers, Users, Creator

VARIABLES
  owner,     \* the user the agent's row names
  stage,     \* how far each transfer came
  parties    \* who may get the agent by each transfer

Init ==
  owner = Creator /\ stage = [t \in Transfers |-> "none"] /\ parties = [t \in Transfers |-> {}]

Open(t) ==
  /\ stage[t] = "none" /\ stage' = [stage EXCEPT ![t] = "open"]
  /\ UNCHANGED <<owner, parties>>

Agree(t, u) ==
  /\ stage[t] # "none"
  /\ stage' = [stage EXCEPT ![t] = IF @ = "open" THEN "agreed" ELSE @]
  /\ parties' = [parties EXCEPT ![t] = @ \union {u}]
  /\ UNCHANGED owner

Name(t, u) ==
  /\ stage[t] # "none" /\ parties' = [parties EXCEPT ![t] = @ \union {u}]
  /\ UNCHANGED <<owner, stage>>

Prepare(t) ==
  /\ stage[t] = "agreed" /\ stage' = [stage EXCEPT ![t] = "prepared"]
  /\ UNCHANGED <<owner, parties>>

Move(t, u) ==
  /\ stage[t] \in {"prepared", "moved"} /\ u \in parties[t]
  /\ stage' = [stage EXCEPT ![t] = "moved"] /\ owner' = u
  /\ UNCHANGED parties

Next ==
  \E t \in Transfers :
    Open(t) \/ Prepare(t) \/ \E u \in Users : Agree(t, u) \/ Name(t, u) \/ Move(t, u)

Spec == Init /\ [][Next]_<<owner, stage, parties>>
=============================================================================
