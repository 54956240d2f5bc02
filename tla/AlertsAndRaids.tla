---------------------------- MODULE AlertsAndRaids ----------------------------
(* Who is alerted: the matchers of one webhook against a snapshot, and the   *)
(* raid handlers, whose alerts depend on the webhooks before.  They share no *)
(* state.                                                                    *)
EXTENDS AlertMatch

CONSTANTS
    Handlers, RaidHooks, RaidTables, RaidHumans, IgnoreLong, Refusals, MaxTime

VARIABLES
    rules, now, muted, raidCache, pc, hook, prev, first, refused, matched, jobs, shown,
    sent, firsts

raidVars == <<rules, now, muted, raidCache, pc, hook, prev, first, refused, matched, jobs,
              shown, sent, firsts>>

Raids == INSTANCE RaidAlerts
    WITH Webhooks <- RaidHooks, Tables <- RaidTables, Humans <- RaidHumans

ASSUME RaidsAssumption == Raids!ConstantsOK

\* The properties of the raid handlers, by their names.
RsvpAfterFull == Raids!RsvpAfterFull
DroppedWasAccepted == Raids!DroppedWasAccepted
ChangesAreNotified == Raids!ChangesAreNotified
FirstOnce == Raids!FirstOnce
===============================================================================
