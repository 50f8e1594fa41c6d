-------------------------- MODULE DeliveryContract --------------------------
(***************************************************************************)
(* What a lane promises about message.deliver, whatever happens to Grok,   *)
(* the connection, the Run and the caller.  A message is handed to Grok at *)
(* most once and an answer is given once; an answer that lets the daemon   *)
(* submit the message again is given only for one that was and will be     *)
(* handed to nobody, "refused" only for one Grok will never take, and      *)
(* "injected" only for one it took.  LaneRun implements this.              *)
(***************************************************************************)
CONSTANT Messages

VARIABLES stage,    \* how far a message got: "unsent", "attempted" or "enqueued"
          answer    \* what the callback returned, or "none"

vars == <<stage, answer>>

Stages == {"unsent", "attempted", "enqueued"}
Answers == {"unsubmitted", "refused", "injected", "unknown"}

Init ==
  /\ stage = [m \in Messages |-> "unsent"]
  /\ answer = [m \in Messages |-> "none"]

\* From here on the frame may be on the wire, whether anybody waits or not.
Attempt(m) ==
  /\ stage[m] = "unsent" /\ answer[m] # "unsubmitted"
  /\ stage' = [stage EXCEPT ![m] = "attempted"]
  /\ UNCHANGED answer

\* Grok's actor takes the message.
Enqueue(m) ==
  /\ stage[m] = "attempted" /\ answer[m] # "refused"
  /\ stage' = [stage EXCEPT ![m] = "enqueued"]
  /\ UNCHANGED answer

\* What an answer says of the message; "unknown" says nothing.
Truthful(m, a) ==
  /\ a = "unsubmitted" => stage[m] = "unsent"
  /\ a = "refused" => stage[m] = "attempted"
  /\ a = "injected" => stage[m] = "enqueued"

Answer(m, a) ==
  /\ answer[m] = "none" /\ Truthful(m, a)
  /\ answer' = [answer EXCEPT ![m] = a]
  /\ UNCHANGED stage

Next == \E m \in Messages : Attempt(m) \/ Enqueue(m) \/ \E a \in Answers : Answer(m, a)

Spec == Init /\ [][Next]_vars
=============================================================================
