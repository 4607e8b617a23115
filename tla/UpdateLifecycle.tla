---------------------------- MODULE UpdateLifecycle ----------------------------
(***************************************************************************)
(* What the over-the-air updates of radiochron-agent promise, without      *)
(* processes, kills, downloads or timeouts: the life of the update on      *)
(* record, and what is installed at each point of it ("keeps the prior     *)
(* executable. If the new agent does not write its health marker within    *)
(* the manifest timeout/retry budget, the updater restores the previous    *)
(* binary", README.md).  OtaUpdate.tla implements it.                      *)
(***************************************************************************)
EXTENDS Naturals

CONSTANTS
  Revisions,  \* numbers of the fleet's revisions
  Binaries,   \* all agent executables
  Installed,  \* the one installed by hand
  Working,    \* those that reach mark_healthy
  None,       \* no update, or no file
  Torn        \* a file that is not whole

VARIABLES
  update,     \* the update on record
  installed,  \* the executable the service runs
  fallback,   \* the executable to go back to
  steady      \* the wall clock never steps back

lvars == <<update, installed, fallback, steady>>

On(p) == update # None /\ update.phase = p

LInit ==
  /\ update = None
  /\ installed = Installed /\ fallback = None
  /\ steady \in BOOLEAN

\* An update is recorded once per revision, in the order of the revisions, and
\* whatever became of the one before.
Offered(r, b) ==
  /\ update # None => r > update.rev
  /\ update' = [rev |-> r, bin |-> b, attempts |-> 0, phase |-> "pending"]
  /\ UNCHANGED <<installed, fallback, steady>>

\* The executable is copied aside, and the copy may be cut short.
PutAside ==
  /\ On("pending")
  /\ fallback' \in {installed, Torn}
  /\ UNCHANGED <<update, installed, steady>>

\* Nothing is overwritten before the copy is whole ...
Install ==
  /\ On("pending") /\ fallback \in Binaries
  /\ installed' = update.bin
  /\ UNCHANGED <<update, fallback, steady>>

\* ... and a trial begins when both are in place.
BeginTrial ==
  /\ On("pending") /\ fallback \in Binaries /\ installed = update.bin
  /\ update' = [rev |-> update.rev, bin |-> update.bin, attempts |-> 0, phase |-> "awaiting_health"]
  /\ UNCHANGED <<installed, fallback, steady>>

\* One more try, once.
TryAgain ==
  /\ On("awaiting_health") /\ update.attempts = 0
  /\ update' = [update EXCEPT !.attempts = 1]
  /\ UNCHANGED <<installed, fallback, steady>>

Restore ==
  /\ On("awaiting_health") /\ fallback \in Binaries
  /\ installed' = fallback
  /\ UNCHANGED <<update, fallback, steady>>

\* Given up is what is no longer installed.
GiveUp ==
  /\ On("awaiting_health") /\ installed = fallback
  /\ update' = [update EXCEPT !.phase = "rolled_back"]
  /\ UNCHANGED <<installed, fallback, steady>>

\* Accepted is what works: what is installed does, and with a steady clock that is
\* the update.
Accept ==
  /\ On("awaiting_health") /\ installed \in Working
  /\ steady => installed = update.bin
  /\ update' = [update EXCEPT !.phase = "healthy"]
  /\ UNCHANGED <<installed, fallback, steady>>

LNext ==
  \/ \E r \in Revisions, b \in Binaries : Offered(r, b)
  \/ PutAside \/ Install \/ BeginTrial \/ TryAgain \/ Restore \/ GiveUp \/ Accept

LSpec == LInit /\ [][LNext]_lvars
==============================================================================
