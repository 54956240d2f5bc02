----------------------------- MODULE MCDelivery -----------------------------
(* What a lane's drainer does with a job, in two views of one destination:   *)
(* the gates, and the tracker of what was sent.  A behaviour runs one of     *)
(* them and leaves the other as it started.                                  *)
(*                                                                           *)
(* The jobs that take different ways through the gates: a raid card, which   *)
(* is an alert like any other while nothing is tracked under its edit key,   *)
(* an alert that comes too late, and a digest.  The jobs that meet in the    *)
(* tracker: a raid card (edited and answered, auto-deleted), a pokemon alert *)
(* (answered, auto-deleted) and a pokemon alert that stays.                  *)
EXTENDS Delivery

CONSTANTS e1, r1

VARIABLE focus

MCCard == [edit |-> TRUE, bypass |-> FALSE, stale |-> FALSE]
MCLate == [edit |-> FALSE, bypass |-> FALSE, stale |-> TRUE]
MCDigest == [edit |-> FALSE, bypass |-> TRUE, stale |-> FALSE]
MCKinds == {MCCard, MCLate, MCDigest}

MCTracked ==
    {[edit |-> e1, reply |-> r1, clean |-> TRUE], [edit |-> None, reply |-> r1, clean |-> TRUE],
     [edit |-> None, reply |-> r1, clean |-> FALSE]}

MCInit == focus \in {"gates", "tracker"} /\ Init /\ Tracker!Init

OfGates(A) == focus = "gates" /\ A /\ UNCHANGED <<focus, trackerVars>>
OfTracker(A) == focus = "tracker" /\ A /\ UNCHANGED <<focus, vars>>

GatesNext ==
    \/ \E job \in Kinds : OfGates(Dispatch(job))
    \/ OfGates(Hook) \/ OfGates(Pause) \/ OfGates(Resume) \/ OfGates(Tick) \/ OfGates(Evict)
    \/ OfGates(WindowEnds)
    \/ OfGates(Take) \/ OfGates(EditOk) \/ OfGates(EditFalls) \/ OfGates(Dropped)
    \/ OfGates(ToSender) \/ OfGates(Limited) \/ OfGates(Sent) \/ OfGates(SendFails)

TrackerNext ==
    \/ \E kind \in Tracked : OfTracker(Tracker!Dispatch(kind))
    \/ \E id \in Tracker!Ids : OfTracker(Tracker!Expire(id))
    \/ OfTracker(Tracker!Delete) \/ OfTracker(Tracker!Take) \/ OfTracker(Tracker!EditOk)
    \/ OfTracker(Tracker!Stamp) \/ OfTracker(Tracker!Post)
    \/ OfTracker(Tracker!TrackSet) \/ OfTracker(Tracker!TrackIndex)
    \/ \E k \in Tracker!Keys : OfTracker(Tracker!Evict(k))
    \/ \E c \in callbacks : OfTracker(Tracker!Unindex(c)) \/ OfTracker(Tracker!CleanDelete(c))
    \/ OfTracker(Tracker!QueueStop) \/ OfTracker(Tracker!CacheStop) \/ OfTracker(Tracker!Save)
    \/ OfTracker(Tracker!Crash) \/ OfTracker(Tracker!Restart)
    \/ OfTracker(Tracker!LoadEntry) \/ OfTracker(Tracker!Loaded)

MCNext == GatesNext \/ TrackerNext

MCSpec == MCInit /\ [][MCNext]_<<focus, vars, trackerVars>> /\ Fairness /\ Tracker!Fairness
=============================================================================
