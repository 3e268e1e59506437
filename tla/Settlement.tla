----------------------------- MODULE Settlement -----------------------------
(***************************************************************************)
(* What consuming a message promises the broker, whatever happens between  *)
(* taking it and deciding about it.  A worker takes a message the broker   *)
(* holds, decides about it at most once, and lets it go, possibly without  *)
(* a decision.  The broker stops holding a message only because a decision *)
(* to acknowledge or to discard it was told, unless it forgets messages as *)
(* it delivers them; and such a broker is never asked to redeliver.        *)
(***************************************************************************)
CONSTANTS Msgs, Workers, NoMsg

VARIABLES
  forgets,  \* the broker keeps nothing it delivers
  held,     \* the messages it holds
  item,     \* the message each worker has
  phase     \* what the worker decided about it

vars == <<forgets, held, item, phase>>

Decisions == {"acked", "nacked", "discarded"}

TypeOK ==
  /\ forgets \in BOOLEAN
  /\ held \subseteq Msgs
  /\ item \in [Workers -> Msgs \cup {NoMsg}]
  /\ phase \in [Workers -> Decisions \cup {"free", "open"}]

Init ==
  /\ forgets \in BOOLEAN
  /\ held = Msgs
  /\ item = [w \in Workers |-> NoMsg]
  /\ phase = [w \in Workers |-> "free"]

Take(w, m) ==
  /\ phase[w] = "free"
  /\ m \in held
  /\ phase' = [phase EXCEPT ![w] = "open"]
  /\ item' = [item EXCEPT ![w] = m]
  /\ held' = IF forgets THEN held \ {m} ELSE held
  /\ UNCHANGED forgets

Decide(w, decision) ==
  /\ phase[w] = "open"
  /\ phase' = [phase EXCEPT ![w] = decision]
  /\ \/ held' = held /\ (decision = "nacked" => ~forgets)
     \/ held' = held \ {item[w]} /\ decision # "nacked"
  /\ UNCHANGED <<forgets, item>>

LetGo(w) ==
  /\ phase[w] # "free"
  /\ phase' = [phase EXCEPT ![w] = "free"]
  /\ item' = [item EXCEPT ![w] = NoMsg]
  /\ UNCHANGED <<forgets, held>>

Restart ==
  /\ phase' = [w \in Workers |-> "free"]
  /\ item' = [w \in Workers |-> NoMsg]
  /\ UNCHANGED <<forgets, held>>

Next ==
  \/ \E w \in Workers :
       \/ \E m \in Msgs : Take(w, m)
       \/ \E decision \in Decisions : Decide(w, decision)
       \/ LetGo(w)
  \/ Restart

Spec == Init /\ [][Next]_vars
=============================================================================
