---------------------------- MODULE DeliveryQueue ----------------------------
(***************************************************************************)
(* What the spool of radiochron-agent promises, without files, journals or *)
(* restarts: a queue of recorded events that is delivered at least once to *)
(* every exporter subscribed when the event is retired ("An event is       *)
(* deleted only after every configured event exporter acknowledges it",    *)
(* README.md, Data path).  Spool.tla implements it.                        *)
(***************************************************************************)
CONSTANTS
  Events,     \* identities of logical events
  Exporters   \* every exporter that can be configured

VARIABLES
  known,        \* events recorded so far
  pending,      \* recorded and not yet given up
  received,     \* received[x]: events exporter x has been handed
  shed,         \* events lost to the size limit or to a damaged medium
  subscribers   \* exporters of the current configuration

qvars == <<known, pending, received, shed, subscribers>>

QueueInit ==
  /\ known = {}
  /\ pending = {}
  /\ received = [x \in Exporters |-> {}]
  /\ shed = {}
  /\ subscribers = {}

Record(e) ==
  /\ e \notin known
  /\ known' = known \cup {e}
  /\ pending' = pending \cup {e}
  /\ UNCHANGED <<received, shed, subscribers>>

\* Repetition is allowed: an exporter may see an event again after a retry.
Receive(x, e) ==
  /\ x \in subscribers
  /\ e \in pending \cup shed
  /\ received' = [received EXCEPT ![x] = @ \cup {e}]
  /\ UNCHANGED <<known, pending, shed, subscribers>>

\* An event leaves the queue only when all current subscribers have had it.
Retire(e) ==
  /\ e \in pending
  /\ subscribers # {}
  /\ \A x \in subscribers : e \in received[x]
  /\ pending' = pending \ {e}
  /\ UNCHANGED <<known, received, shed, subscribers>>

Shed(e) ==
  /\ e \in pending
  /\ pending' = pending \ {e}
  /\ shed' = shed \cup {e}
  /\ UNCHANGED <<known, received, subscribers>>

Reconfigure(S) ==
  /\ subscribers' = S
  /\ UNCHANGED <<known, pending, received, shed>>

QueueNext ==
  \/ \E e \in Events : Record(e) \/ Retire(e) \/ Shed(e)
  \/ \E e \in Events, x \in Exporters : Receive(x, e)
  \/ \E S \in SUBSET Exporters : Reconfigure(S)

QueueSpec == QueueInit /\ [][QueueNext]_qvars
==============================================================================
