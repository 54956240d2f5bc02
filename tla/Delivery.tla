------------------------------- MODULE Delivery -------------------------------
(* What a lane's drainer does with a job, in two views of one destination:   *)
(* the gates, and the tracker of what was sent.                              *)
EXTENDS ProcessJob

CONSTANTS EditKeys, ReplyKeys, Tracked, MaxSent, MaxStops

VARIABLES
    cache, replies, buffer, holder, callbacks, due, chat, phase, disk, todo, next, stops,
    owed, lost

trackerVars == <<cache, replies, buffer, holder, callbacks, due, chat, phase, disk, todo,
                 next, stops, owed, lost>>

Tracker == INSTANCE MessageTracker
    WITH Kinds <- Tracked, lane <- buffer, drainer <- holder

ASSUME TrackerAssumption == Tracker!ConstantsOK

\* The properties of the tracker, by their names.
NoOrphan == Tracker!NoOrphan
ReplyToVisible == Tracker!ReplyToVisible
NotBeforeDue == Tracker!NotBeforeDue
DueIsCleaned == Tracker!DueIsCleaned
===============================================================================
