------------------------------ MODULE IkdTree ------------------------------
(***************************************************************************)
(* The incremental k-d tree of Point-LIO and its background rebuild        *)
(* (Point-LIO/include/ikd-Tree/ikd_Tree.cpp).                              *)
(*                                                                         *)
(* Two threads share the tree.  The LIO thread ("main") adds points,       *)
(* deletes boxes and searches neighbours; when a part of the tree with at  *)
(* least Multi_Thread_Rebuild_Point_Num nodes becomes unbalanced it points *)
(* Rebuild_Ptr at it.  The rebuild thread copies that part, builds a       *)
(* balanced one from the copy, replays the operations that were logged     *)
(* meanwhile, and hangs the new part in the place of the old.              *)
(*                                                                         *)
(* The model keeps one such part: how often it holds each point, the locks *)
(* and flags around it, and the reads the LIO thread makes without a lock. *)
(* The rest of the tree, the geometry and the criteria that call for a     *)
(* rebuild are abstracted: any update outside a rebuild may call for one.  *)
(***************************************************************************)
EXTENDS Integers, Sequences

CONSTANTS
    Points,      \* the points the part may hold
    MaxUpdates   \* bound: additions and deletions in a behaviour

ASSUME BoundsAssumption == MaxUpdates \in Nat

VARIABLES
    rebuildPtr,   \* Rebuild_Ptr # nullptr: the part waits for or is in a rebuild
    rebuildFlag,  \* rebuild_flag: updates of the part are to be logged
    logger,       \* Rebuild_Logger
    working,      \* holder of working_flag_mutex
    ptrLocked,    \* the rebuild thread holds rebuild_ptr_mutex_lock
    searches,     \* search_mutex_counter
    part,         \* how often the part holds each point not deleted
    node,         \* which of two node objects is the part's root
    oldFreed,     \* the other one has been given to delete_tree_nodes
    fresh,        \* new_root_node: the part being built
    lio,          \* where the LIO thread is
    op,           \* the operation it performs
    seen,         \* the root it last read from the father's son pointer
    rebuilder,    \* where the rebuild thread is
    updates,      \* additions and deletions begun
    crashed,      \* the process died of an access to freed or null memory
    wanted,       \* history: what the updates alone make of the part
    lapse         \* history: a copy was empty, or a rebuild left entries behind

vars == <<rebuildPtr, rebuildFlag, logger, working, ptrLocked, searches, part, node,
          oldFreed, fresh, lio, op, seen, rebuilder, updates, crashed, wanted, lapse>>
flags == <<rebuildPtr, rebuildFlag, logger, ptrLocked>>
tree == <<part, node, oldFreed, fresh>>
lioVars == <<lio, op, seen, updates>>
history == <<wanted, lapse>>

Search == [kind |-> "search"]
Updates == [kind : {"add"}, point : Points] \cup [kind : {"delete"}, box : SUBSET Points \ {{}}]

\* What an update makes of a part (Add_by_point; Delete_by_range).
Apply(p, o) ==
    IF o.kind = "add" THEN [p EXCEPT ![o.point] = @ + 1]
                      ELSE [q \in Points |-> IF q \in o.box THEN 0 ELSE p[q]]

Empty == [p \in Points |-> 0]

TypeOK ==
    /\ rebuildPtr \in BOOLEAN /\ rebuildFlag \in BOOLEAN /\ ptrLocked \in BOOLEAN
    /\ logger \in Seq(Updates)
    /\ working \in {"free", "lio", "rebuild"}
    /\ searches \in {-1, 0, 1}
    /\ part \in [Points -> Nat] /\ wanted \in [Points -> Nat] /\ fresh \in [Points -> Nat]
    /\ node \in {0, 1} /\ seen \in {0, 1} /\ oldFreed \in BOOLEAN
    /\ lio \in {"idle", "check", "read", "compare", "direct", "lock", "locked", "log",
                "enter", "visit", "visitCounted", "update", "deref"}
    /\ op \in Updates \cup {Search}
    /\ rebuilder \in {"idle", "stop", "flatten", "drain", "stopAgain",
                      "swap", "resume", "release", "lower", "free"}
    /\ updates \in 0 .. MaxUpdates
    /\ crashed \in BOOLEAN /\ lapse \in BOOLEAN

Init ==
    /\ rebuildPtr = FALSE /\ rebuildFlag = FALSE /\ ptrLocked = FALSE
    /\ logger = <<>>
    /\ working = "free"
    /\ searches = 0
    /\ part = Empty /\ fresh = Empty /\ node = 0 /\ oldFreed = TRUE
    /\ lio = "idle" /\ op = Search /\ seen = 0
    /\ rebuilder = "idle"
    /\ updates = 0
    /\ crashed = FALSE
    /\ wanted = Empty /\ lapse = FALSE

----------------------------------------------------------------------------
(* The LIO thread.  Every access to the part starts with the unlocked test *)
(*     Rebuild_Ptr == nullptr || *Rebuild_Ptr != root->left_son_ptr      *)
(* whose three reads are steps of their own.                               *)

\* Add_Points, Delete_Point_Boxes, or Push_Down of a deleted father.
BeginUpdate(o) ==
    /\ lio = "idle" /\ updates < MaxUpdates
    /\ op' = o /\ updates' = updates + 1 /\ lio' = "check"
    /\ UNCHANGED <<flags, working, searches, tree, seen, rebuilder, crashed, history>>

\* Search reads the son and then, through calc_box_dist, its ranges.
BeginSearch ==
    /\ lio = "idle"
    /\ op' = Search /\ seen' = node /\ lio' = "deref"
    /\ UNCHANGED <<flags, working, searches, tree, updates, rebuilder, crashed, history>>

\* The first read of the test.
Check ==
    /\ lio = "check"
    /\ lio' = IF rebuildPtr THEN "read" ELSE "direct"
    /\ UNCHANGED <<flags, working, searches, tree, op, seen, updates, rebuilder, crashed, history>>

\* The second: the father's son pointer.
ReadSon ==
    /\ lio = "read"
    /\ seen' = node /\ lio' = "compare"
    /\ UNCHANGED <<flags, working, searches, tree, op, updates, rebuilder, crashed, history>>

\* The third: *Rebuild_Ptr, which may have become null since the first.
Compare ==
    /\ lio = "compare"
    /\ IF ~rebuildPtr THEN crashed' = TRUE /\ lio' = lio
       ELSE /\ crashed' = crashed
            /\ lio' = IF seen # node THEN "direct" ELSE IF op = Search THEN "enter" ELSE "lock"
    /\ UNCHANGED <<flags, working, searches, tree, op, seen, updates, rebuilder, history>>

\* Rebuild_Ptr = nullptr by the LIO thread: the part it updated is the new one
\* and has fewer than Multi_Thread_Rebuild_Point_Num nodes.  The rebuild thread
\* resets the pointer too, and either may dereference it after the other did.
ResetPtr ==
    /\ rebuildPtr /\ rebuilder \in {"resume", "release"}
    /\ rebuildPtr' = FALSE /\ crashed' \in BOOLEAN

\* The update without a lock; allow_rebuild is true, so Criterion_Check may
\* call Rebuild, whose trylock needs rebuild_ptr_mutex_lock free.  A part
\* with no point left is not rebuilt: the deletion returns before the check.
UpdateDirectly ==
    /\ lio = "direct" /\ op # Search
    /\ part' = Apply(part, op) /\ wanted' = Apply(wanted, op)
    /\ \/ UNCHANGED <<rebuildPtr, crashed>>
       \/ ~ptrLocked /\ part' # Empty /\ rebuildPtr' = TRUE /\ crashed' = crashed
       \/ ResetPtr
    /\ lio' = "update"
    /\ UNCHANGED <<rebuildFlag, logger, ptrLocked, working, searches, node, oldFreed, fresh,
                   op, seen, updates, rebuilder, lapse>>

LockWorking ==
    /\ lio = "lock" /\ working = "free"
    /\ working' = "lio" /\ lio' = "locked"
    /\ UNCHANGED <<flags, searches, tree, op, seen, updates, rebuilder, crashed, history>>

UpdateLocked ==
    /\ lio = "locked"
    /\ part' = Apply(part, op) /\ wanted' = Apply(wanted, op)
    /\ UNCHANGED <<rebuildPtr, crashed>> \/ ResetPtr
    /\ lio' = "log"
    /\ UNCHANGED <<rebuildFlag, logger, ptrLocked, working, searches, node, oldFreed, fresh,
                   op, seen, updates, rebuilder, lapse>>

\* Variant: the log is not written when the update was a deletion.
LogAdditionsOnly ==
    /\ lio = "log"
    /\ logger' = IF rebuildFlag /\ op.kind = "add" THEN Append(logger, op) ELSE logger
    /\ working' = "free" /\ lio' = "update"
    /\ UNCHANGED <<rebuildPtr, rebuildFlag, ptrLocked, searches, tree, op, seen, updates,
                   rebuilder, crashed, history>>

\* if (rebuild_flag) Rebuild_Logger.push(...); then unlock.
LogAndUnlock ==
    /\ lio = "log"
    /\ logger' = IF rebuildFlag THEN Append(logger, op) ELSE logger
    /\ working' = "free" /\ lio' = "update"
    /\ UNCHANGED <<rebuildPtr, rebuildFlag, ptrLocked, searches, tree, op, seen, updates,
                   rebuilder, crashed, history>>

\* Update(father) reads the son pointer into a local variable ...
UpdateFather ==
    /\ lio = "update"
    /\ seen' = node /\ lio' = "deref"
    /\ UNCHANGED <<flags, working, searches, tree, op, updates, rebuilder, crashed, history>>

\* ... and then the fields behind it, as calc_box_dist does, without a lock.
Dereference ==
    /\ lio = "deref"
    /\ crashed' = (crashed \/ (seen # node /\ oldFreed))
    /\ lio' = IF op = Search THEN "check" ELSE "idle"
    /\ UNCHANGED <<flags, working, searches, tree, op, seen, updates, rebuilder, history>>

\* Search(root->left_son_ptr, ...) without the counter: the son is read again,
\* or the value the test loaded is used.
SearchDirectly ==
    /\ lio = "direct" /\ op = Search
    /\ seen' \in {seen, node}
    /\ lio' = "visit"
    /\ UNCHANGED <<flags, working, searches, tree, op, updates, rebuilder, crashed, history>>

\* The wait for search_mutex_counter # -1 and its increment.
EnterSearch ==
    /\ lio = "enter" /\ searches # -1
    /\ searches' = searches + 1 /\ seen' = node /\ lio' = "visitCounted"
    /\ UNCHANGED <<flags, working, tree, op, updates, rebuilder, crashed, history>>

LeaveSearch ==
    /\ lio \in {"visit", "visitCounted"}
    /\ searches' = IF lio = "visitCounted" THEN searches - 1 ELSE searches
    /\ crashed' = (crashed \/ (seen # node /\ oldFreed))
    /\ lio' = "idle"
    /\ UNCHANGED <<flags, working, tree, op, seen, updates, rebuilder, history>>

----------------------------------------------------------------------------
(* The rebuild thread: one iteration of multi_thread_rebuild.              *)

Start ==
    /\ rebuilder = "idle" /\ rebuildPtr /\ working = "free"
    /\ ptrLocked' = TRUE /\ working' = "rebuild" /\ rebuildFlag' = TRUE
    /\ rebuilder' = "stop"
    /\ UNCHANGED <<rebuildPtr, logger, searches, tree, lioVars, crashed, history>>

\* Variant: the counter is set to -1 without waiting for it to become 0.
StopSearchesAtOnce ==
    /\ rebuilder \in {"stop", "stopAgain"}
    /\ searches' = -1
    /\ rebuilder' = IF rebuilder = "stop" THEN "flatten" ELSE "swap"
    /\ UNCHANGED <<flags, working, tree, lioVars, crashed, history>>

\* The wait for search_mutex_counter = 0, before the copy and before the swap.
StopSearches ==
    /\ rebuilder \in {"stop", "stopAgain"} /\ searches = 0
    /\ searches' = -1
    /\ rebuilder' = IF rebuilder = "stop" THEN "flatten" ELSE "swap"
    /\ UNCHANGED <<flags, working, tree, lioVars, crashed, history>>

\* flatten; searches and updates go on.  An empty copy skips the drain, and
\* with it the second pthread_mutex_lock(&working_flag_mutex).
Flatten ==
    /\ rebuilder = "flatten"
    /\ fresh' = part
    /\ searches' = 0 /\ working' = "free"
    /\ rebuilder' = IF part = Empty THEN "stopAgain" ELSE "drain"
    /\ lapse' = (lapse \/ part = Empty)
    /\ UNCHANGED <<flags, part, node, oldFreed, lioVars, crashed, wanted>>

\* One entry of the log is run on the new part, outside the locks.
Replay ==
    /\ rebuilder = "drain" /\ working = "free" /\ logger # <<>>
    /\ fresh' = Apply(fresh, Head(logger)) /\ logger' = Tail(logger)
    /\ UNCHANGED <<rebuildPtr, rebuildFlag, ptrLocked, working, searches, part, node, oldFreed,
                   lioVars, rebuilder, crashed, history>>

\* Variant: the swap starts without working_flag_mutex.
EndDrainUnlocked ==
    /\ rebuilder = "drain" /\ logger = <<>>
    /\ rebuilder' = "stopAgain"
    /\ UNCHANGED <<flags, working, searches, tree, lioVars, crashed, history>>

\* The log is empty: working_flag_mutex is kept.
EndDrain ==
    /\ rebuilder = "drain" /\ working = "free" /\ logger = <<>>
    /\ working' = "rebuild" /\ rebuilder' = "stopAgain"
    /\ UNCHANGED <<flags, searches, tree, lioVars, crashed, history>>

\* The new part replaces the old.  With an empty copy new_root_node is null
\* and new_root_node->TreeSize is undefined: the unused value may or may not
\* be loaded.
Swap ==
    /\ rebuilder = "swap"
    /\ part' = fresh /\ node' = 1 - node /\ oldFreed' = FALSE
    /\ crashed' \in {crashed, crashed \/ fresh = Empty}
    /\ rebuilder' = "resume"
    /\ UNCHANGED <<flags, working, searches, fresh, lioVars, history>>

ResumeSearches ==
    /\ rebuilder = "resume"
    /\ searches' = 0 /\ rebuilder' = "release"
    /\ UNCHANGED <<flags, working, tree, lioVars, crashed, history>>

\* Variant: Rebuild_Ptr is not reset.
ReleaseKept ==
    /\ rebuilder = "release"
    /\ rebuildPtr' = rebuildPtr /\ working' = "free" /\ rebuilder' = "lower"
    /\ UNCHANGED <<rebuildFlag, logger, ptrLocked, searches, tree, lioVars, crashed, history>>

\* Rebuild_Ptr = nullptr, then unlock, whoever holds the mutex.
Release ==
    /\ rebuilder = "release"
    /\ rebuildPtr' = FALSE /\ working' = "free" /\ rebuilder' = "lower"
    /\ UNCHANGED <<rebuildFlag, logger, ptrLocked, searches, tree, lioVars, crashed, history>>

LowerFlag ==
    /\ rebuilder = "lower"
    /\ rebuildFlag' = FALSE /\ rebuilder' = "free"
    /\ UNCHANGED <<rebuildPtr, logger, ptrLocked, working, searches, tree, lioVars, crashed, history>>

FreeOld ==
    /\ rebuilder = "free"
    /\ oldFreed' = TRUE /\ ptrLocked' = FALSE /\ rebuilder' = "idle"
    /\ lapse' = (lapse \/ logger # <<>>)
    /\ UNCHANGED <<rebuildPtr, rebuildFlag, logger, working, searches, part, node, fresh,
                   lioVars, crashed, wanted>>

----------------------------------------------------------------------------
LioBegins == BeginSearch \/ \E o \in Updates : BeginUpdate(o)

LioGoesOn ==
    \/ Check \/ ReadSon \/ Compare \/ UpdateDirectly \/ LockWorking \/ UpdateLocked
    \/ LogAndUnlock \/ UpdateFather \/ Dereference \/ SearchDirectly \/ EnterSearch
    \/ LeaveSearch

RebuildGoesOn ==
    \/ Start \/ StopSearches \/ Flatten \/ Replay \/ EndDrain \/ Swap \/ ResumeSearches
    \/ Release \/ LowerFlag \/ FreeOld

\* After undefined behaviour nothing is said of the process.
Dead == crashed /\ UNCHANGED vars

Next == (~crashed /\ (LioBegins \/ LioGoesOn \/ RebuildGoesOn)) \/ Dead

Spec == Init /\ [][Next]_vars

\* Both threads go on with what they began.  The rebuild thread polls the
\* counter every microsecond and the mutex wakes it, and the LIO thread rests
\* between two scans, so a wait that is over again and again ends.
FairSpec ==
    /\ Spec
    /\ WF_vars(~crashed /\ LioGoesOn) /\ SF_vars(~crashed /\ (LockWorking \/ EnterSearch))
    /\ WF_vars(~crashed /\ RebuildGoesOn) /\ SF_vars(~crashed /\ (Start \/ StopSearches))
    /\ SF_vars(~crashed /\ (Replay \/ EndDrain))

----------------------------------------------------------------------------
\* A rebuild loses no update and performs none twice: the part holds what the
\* updates alone make of it, unless a copy was empty or an earlier rebuild
\* left entries in the log, the two cases the properties below show to happen
\* (Rebuild_Logger, rebuild_flag and working_flag_mutex together).
RebuildPreservesPart == ~lapse => part = wanted

\* No search is inside the part while its nodes are flattened (Push_Down
\* writes them) or taken out: search_mutex_counter is a readers' lock.
SearchesExcluded ==
    ~(lio \in {"visit", "visitCounted"} /\ rebuilder \in {"flatten", "swap"})

\* Updates of the part under rebuild and the copy or the swap of it exclude
\* one another, unless an empty copy made the thread skip the second lock.
UpdatesExcluded ==
    ~lapse => ~(lio \in {"locked", "log"} /\ rebuilder \in {"flatten", "swap"})

\* While the rebuild thread copies or swaps the part, neither a search nor an
\* update of the LIO thread is inside it (search_flag_mutex, working_flag_mutex).
PartExclusive == SearchesExcluded /\ UpdatesExcluded

\* A part handed to the rebuild thread is rebuilt: Rebuild_Ptr is null again.
RebuildEnds == rebuildPtr ~> (~rebuildPtr \/ crashed)

----------------------------------------------------------------------------
\* ikd_Tree.cpp:244: the thread prints ERROR!!! if the log is not empty when a
\* rebuild starts.  It can be: an update that waited for working_flag_mutex
\* gets it from Release and logs before LowerFlag.
LogEmptyAtStart == rebuilder = "stop" => logger = <<>>

\* ikd_Tree.cpp:279 "Rebuild and update missed operations": the new part has
\* every update made meanwhile.  An empty copy skips them.
MissedOperationsUpdated == [][node' # node => part' = wanted']_vars
=============================================================================
