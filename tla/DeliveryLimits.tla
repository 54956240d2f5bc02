---------------------------- MODULE DeliveryLimits ----------------------------
(* What holds messages back or repeats them on their way out: the alert      *)
(* limiter, and the senders of Discord and Telegram behind it, which share   *)
(* no state with it or with each other.                                      *)
EXTENDS RateLimiter

CONSTANTS
    Dests, Kind, Slots, MaxRetries, MaxTargets, Burst, Rate,
    RouteLimit, RouteWindow, BlockTime,
    Orders, Alerts, MaxIds

VARIABLES
    pc, job, attempt, wait, gated, answer, targets, bucket, opened, server,
    block, unseen, told, surprised, early, posted, twice,
    phase, order, parts, step, tries, ids, todo, chat, nextId, tracked, lost

discordVars == <<pc, job, attempt, wait, gated, answer, targets, bucket, opened, server,
                 block, unseen, told, surprised, early, posted, twice>>
telegramVars == <<phase, order, parts, step, tries, ids, todo, chat, nextId, tracked, lost>>

Discord == INSTANCE DiscordSender
Telegram == INSTANCE TelegramSender WITH pc <- phase, attempt <- tries

ASSUME SendersAssumption == Discord!ConstantsOK /\ Telegram!ConstantsOK

\* The senders' properties, by their names.
BlocksRespected == Discord!BlocksRespected
CopiesAreExplained == Discord!CopiesAreExplained
CleanDeletesEverything == Telegram!CleanDeletesEverything
===============================================================================
