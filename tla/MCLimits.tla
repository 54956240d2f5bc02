------------------------------ MODULE MCLimits ------------------------------
(* The alert rate limiter and the two senders.  A behaviour runs one of them *)
(* and leaves the others as they started, so that TLC explores the sum of    *)
(* their states and not the product.                                         *)
(*                                                                           *)
(* One destination with a limit of two alerts and one digest: the limiter    *)
(* keeps destinations apart by key.  A channel and a user who share the only *)
(* slot of Discord's bot.  Alerts of two or three parts, or none, to a chat, *)
(* in two orders of which one has a step twice.                              *)
EXTENDS DeliveryLimits, TLC

CONSTANTS user, c1, u1

VARIABLE focus

MCAlertLimit == [t \in Targets |-> 2]
MCDigestLimit == [t \in Targets |-> 1]
MCKind == (c1 :> "channel") @@ (u1 :> "user")
MCSlots == [p \in {"bot", "webhook"} |-> 1]
MCOrders == {<<"sticker", "text", "location">>, <<"text", "sticker", "text">>}
MCAlerts == {{"sticker", "text"}, {"text", "location"}, {}}

MCInit ==
    /\ focus \in {"limiter", "discord", "telegram"}
    /\ Init /\ Discord!Init /\ Telegram!Init

OfLimiter(A) == focus = "limiter" /\ A /\ UNCHANGED <<focus, discordVars, telegramVars>>
OfDiscord(A) == focus = "discord" /\ A /\ UNCHANGED <<focus, vars, telegramVars>>
OfTelegram(A) == focus = "telegram" /\ A /\ UNCHANGED <<focus, vars, discordVars>>

MCNext ==
    \/ \E t \in Targets :
         \/ OfLimiter(Match(t)) \/ OfLimiter(Post(t)) \/ OfLimiter(Deliver(t))
         \/ OfLimiter(Digest(t)) \/ OfLimiter(OnBan(t)) \/ OfLimiter(Enable(t))
         \/ \E match \in BOOLEAN : OfLimiter(Reset(t, match))
    \/ OfLimiter(Cleanup) \/ OfLimiter(Tick)
    \/ \E d \in {c1, u1} :
         \/ \E kind \in {"send", "edit", "delete"} : OfDiscord(Discord!Take(d, kind))
         \/ OfDiscord(Discord!Admit(d)) \/ OfDiscord(Discord!Call(d))
         \/ OfDiscord(Discord!Answer(d)) \/ OfDiscord(Discord!Retry(d))
         \/ OfDiscord(Discord!Open(d)) \/ OfDiscord(Discord!OpenDone(d))
    \/ OfDiscord(Discord!Tick) \/ OfDiscord(Discord!GlobalBlock)
    \/ OfTelegram(Telegram!Take) \/ OfTelegram(Telegram!Skip) \/ OfTelegram(Telegram!PartOk)
    \/ OfTelegram(Telegram!Sent) \/ OfTelegram(Telegram!EditFails)
    \/ OfTelegram(Telegram!Delete) \/ OfTelegram(Telegram!Deleted)
    \/ \E arrived \in BOOLEAN :
         OfTelegram(Telegram!PartAgain(arrived)) \/ OfTelegram(Telegram!PartFails(arrived))
    \/ \E s \in todo : OfTelegram(Telegram!DeletePart(s))

MCSpec == MCInit /\ [][MCNext]_<<focus, vars, discordVars, telegramVars>>
=============================================================================
