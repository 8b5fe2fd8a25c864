---------------------------- MODULE ActionServer ----------------------------
(***************************************************************************)
(* What an action server of this system promises its clients, whatever     *)
(* runs behind it: BtNavigator keeps two of these and Behaviors one.  A    *)
(* goal is accepted or rejected once; of the goals accepted one is served  *)
(* and one, the newest, may wait, so that no accepted goal is ever out of  *)
(* the server's hands before its client has an outcome; an outcome is      *)
(* final, only the goal that is served can succeed, and only a goal whose  *)
(* client asked for it ends canceled.                                      *)
(***************************************************************************)
EXTENDS Naturals

CONSTANT MaxGoals  \* bound on the goals clients send

Goals == 1 .. MaxGoals
None == 0

VARIABLES
  status,   \* the status of every goal, as its client sees it
  serving,  \* the goal the server works for
  waiting   \* the goal that replaces it at the next opportunity

serverVars == <<status, serving, waiting>>

Live == {g \in Goals : status[g] \in {"executing", "canceling"}}

Init ==
  /\ status = [g \in Goals |-> "new"]
  /\ serving = None
  /\ waiting = None

\* The goals of G are given up: canceled for a client that asked for it, aborted for any other.
GivenUp(G) ==
  [g \in Goals |-> IF g \notin G \cap Live THEN status[g]
                   ELSE IF status[g] = "canceling" THEN "canceled" ELSE "aborted"]

Reject(g) ==
  /\ status[g] = "new"
  /\ status' = [status EXCEPT ![g] = "rejected"]
  /\ UNCHANGED <<serving, waiting>>

\* The new goal is served at once when nothing is, else it takes the place of the one that waits.
Accept(g) ==
  /\ status[g] = "new"
  /\ status' = [GivenUp({waiting}) EXCEPT ![g] = "executing"]
  /\ \/ serving = None /\ serving' = g /\ waiting' = None
     \/ waiting' = g /\ UNCHANGED serving

AskToCancel(g) ==
  /\ status[g] = "executing"
  /\ status' = [status EXCEPT ![g] = "canceling"]
  /\ UNCHANGED <<serving, waiting>>

Succeed ==
  /\ serving # None
  /\ status' = [status EXCEPT ![serving] = "succeeded"]
  /\ serving' = None
  /\ UNCHANGED waiting

\* The goal served ends, the one that waits, or both; or the one that waits takes over.
GiveUpServed ==
  /\ serving # None
  /\ status' = GivenUp({serving})
  /\ serving' = None
  /\ UNCHANGED waiting

GiveUpWaiting ==
  /\ waiting # None
  /\ status' = GivenUp({waiting})
  /\ waiting' = None
  /\ UNCHANGED serving

GiveUpAll ==
  /\ serving # None /\ waiting # None
  /\ status' = GivenUp({serving, waiting})
  /\ serving' = None
  /\ waiting' = None

TakeOver ==
  /\ waiting # None
  /\ status' = GivenUp({serving})
  /\ serving' = waiting
  /\ waiting' = None

\* Most steps behind the server are none of its clients' business; TLC tries them first.
Unseen == UNCHANGED serverVars

Next ==
  \/ Unseen
  \/ \E g \in Goals : Reject(g) \/ Accept(g) \/ AskToCancel(g)
  \/ Succeed \/ GiveUpServed \/ GiveUpWaiting \/ GiveUpAll \/ TakeOver

Spec == Init /\ [][Next]_serverVars

-----------------------------------------------------------------------------
\* No goal is forgotten: whichever has been accepted and not answered is served or waits, and what
\* is served or waits has not been answered.
NothingOrphaned == Live = {serving, waiting} \ {None}
=============================================================================
