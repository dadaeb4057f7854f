----------------------------- MODULE ScanTopics -----------------------------
(***************************************************************************)
(* What the node promises to those who listen to its topics, whatever its  *)
(* threads and callbacks do in between: the scans that getScan() returned  *)
(* are on offer; ever newer ones of them are shown, each once and as it    *)
(* was; one is passed over only for a newer one that is still on offer;    *)
(* and none survives into the next activation.                             *)
(***************************************************************************)
EXTENDS Integers

CONSTANT Kinds      \* the kinds of telegram

VARIABLES
  offered,      \* scans that may still be shown
  shown,        \* the scan shown last, and its messages
  activation    \* how many times the node was activated

topicVars == <<offered, shown, activation>>

Scans == [id : Nat, kind : Kinds]

NothingShown ==
  [tel |-> [id |-> 0, kind |-> "none"], in_standby |-> FALSE, laser |-> FALSE]

Init ==
  /\ offered = {}
  /\ shown = NothingShown
  /\ activation = 0

LaterThan(t) == {u \in offered : u.id > t.id}

Offer ==
  /\ \E t \in offered' :
       /\ t \in Scans
       /\ t.id > shown.tel.id
       /\ \A u \in offered : t.id > u.id
       /\ offered' = offered \cup {t}
  /\ UNCHANGED <<shown, activation>>

\* A LaserScan shows a measuring telegram; what the standby message says of a
\* telegram of a field that is not configured is left open.
Show ==
  /\ \E t \in offered :
       /\ offered' = LaterThan(t)
       /\ \E in_standby \in BOOLEAN :
            /\ t.kind # "foreign" => in_standby = (t.kind = "standby")
            /\ shown' = [tel |-> t, in_standby |-> in_standby,
                         laser |-> t.kind = "measuring"]
  /\ UNCHANGED activation

PassOver ==
  /\ \E t \in offered :
       /\ LaterThan(t) # {}
       /\ offered' = offered \ {t}
  /\ UNCHANGED <<shown, activation>>

Activate ==
  /\ offered' = {}
  /\ activation' = activation + 1
  /\ UNCHANGED shown

Next == Offer \/ Show \/ PassOver \/ Activate

Spec == Init /\ [][Next]_topicVars
=============================================================================
