--------------------------- MODULE TelegramSender ---------------------------
(***************************************************************************)
(* internal/delivery/telegram.go: an alert to a chat is sent in parts, one *)
(* request each with its retries; the parts' message ids make the sent ID, *)
(* by which the lane later edits and deletes.  Telegram answers anything.  *)
(***************************************************************************)
EXTENDS Integers, Sequences

CONSTANTS
    Orders,      \* possible send orders, less the words that are no step
    Alerts,      \* possible messages: the steps they have something for
    MaxRetries,  \* const maxRetries
    MaxIds,      \* bound: messages in the chat
    None

\* defaultSendOrder
Steps == {"sticker", "photo", "text", "location", "venue"}

\* What is assumed of the constants.  parseSendOrder takes an order as it is
\* configured: a step may come twice.
ConstantsOK ==
    /\ Orders \subseteq Seq(Steps)
    /\ {MaxRetries, MaxIds} \subseteq Nat
    /\ \A S \in SUBSET Steps : None \notin [S -> Nat]

VARIABLES
    pc, order, parts,  \* where the job is, and the alert's order and steps
    step, attempt,     \* the step of the order under way, and its attempts
    ids,               \* the parts sent so far: [steps -> message ids], of a step
                       \* that comes twice the later, as the sent ID is read
    todo,              \* a deletion's steps still to do
    chat, nextId,      \* the messages that show, and the next id
    tracked,           \* the sent ID, or None
    lost               \* history: messages that no sent ID can name, or that
                       \* Telegram would not delete

vars == <<pc, order, parts, step, attempt, ids, todo, chat, nextId, tracked, lost>>

NoIds == [s \in {} |-> 0]

\* The messages that the sent ID names.
Named == IF tracked = None THEN {} ELSE {tracked[s] : s \in DOMAIN tracked}

Init ==
    /\ pc = "idle" /\ order = <<>> /\ parts = {}
    /\ step = 0 /\ attempt = 0 /\ ids = NoIds
    /\ todo = {}
    /\ chat = {} /\ nextId = 1
    /\ tracked = None /\ lost = {}

\* parseSendOrder and sanitizeTelegramMessage: the order, and the steps left
\* with something to send.
Take ==
    /\ pc = "idle" /\ tracked = None
    /\ order' \in Orders /\ parts' \in Alerts
    /\ step' = 1 /\ attempt' = 0 /\ ids' = NoIds
    /\ pc' = "part"
    /\ UNCHANGED <<todo, chat, nextId, tracked, lost>>

Skip ==
    /\ pc = "part" /\ step <= Len(order) /\ order[step] \notin parts
    /\ step' = step + 1
    /\ UNCHANGED <<pc, order, parts, attempt, ids, todo, chat, nextId, tracked, lost>>

\* callWithRetry with status 200.  The sent ID lists every part, but its reader
\* keeps them by step: an earlier part of the same step is lost to it.
PartOk ==
    /\ pc = "part" /\ step <= Len(order) /\ order[step] \in parts /\ nextId <= MaxIds
    /\ ids' = [s \in DOMAIN ids \cup {order[step]} |-> IF s = order[step] THEN nextId ELSE ids[s]]
    /\ lost' = lost \cup {ids[s] : s \in DOMAIN ids \cap {order[step]}}
    /\ chat' = chat \cup {nextId}
    /\ nextId' = nextId + 1
    /\ step' = step + 1 /\ attempt' = 0
    /\ UNCHANGED <<pc, order, parts, todo, tracked>>

\* A request without a good answer may be in the chat all the same.
Arrives(arrived, others) ==
    IF arrived
    THEN /\ nextId <= MaxIds
         /\ chat' = chat \cup {nextId} /\ lost' = lost \cup others \cup {nextId}
         /\ nextId' = nextId + 1
    ELSE lost' = lost \cup others /\ UNCHANGED <<chat, nextId>>

\* A request or its answer is lost, a 429 of a minute at most, another status.
PartAgain(arrived) ==
    /\ pc = "part" /\ step <= Len(order) /\ order[step] \in parts
    /\ attempt < MaxRetries
    /\ attempt' = attempt + 1
    /\ Arrives(arrived, {})
    /\ UNCHANGED <<pc, order, parts, step, ids, todo, tracked>>

\* Forbidden, an unreadable answer, a longer 429, or the retries are used up:
\* Send returns the error, and the parts sent before are in no sent ID.
PartFails(arrived) ==
    /\ pc = "part" /\ step <= Len(order) /\ order[step] \in parts
    /\ pc' = "idle"
    /\ Arrives(arrived, {ids[s] : s \in DOMAIN ids})
    /\ UNCHANGED <<order, parts, step, attempt, ids, todo, tracked>>

\* Mutant: only the part that edits go to is kept.
BugSentId == [s \in DOMAIN ids \cap {"text"} |-> ids[s]]

SentId == ids

\* An alert with nothing to send is an error, not a sent ID.  After an edit that
\* failed the new sent ID takes the place of the old one.
Sent ==
    /\ pc = "part" /\ step > Len(order)
    /\ \/ DOMAIN ids = {} /\ UNCHANGED <<tracked, lost>>
       \/ /\ DOMAIN ids # {}
          /\ tracked' = SentId
          /\ lost' = lost \cup Named
    /\ pc' = "idle"
    /\ UNCHANGED <<order, parts, step, attempt, ids, todo, chat, nextId>>

\* An edit goes to the text or any other part; one that fails is sent anew.
EditFails ==
    /\ pc = "idle" /\ tracked # None
    /\ order' \in Orders /\ parts' \in Alerts
    /\ step' = 1 /\ attempt' = 0 /\ ids' = NoIds
    /\ pc' = "part"
    /\ UNCHANGED <<todo, chat, nextId, tracked, lost>>

\* The tracker's entry has left the cache.
Delete ==
    /\ pc = "idle" /\ tracked # None
    /\ pc' = "deleting"
    /\ todo' = DOMAIN tracked
    /\ UNCHANGED <<order, parts, step, attempt, ids, chat, nextId, tracked, lost>>

\* The parts in the order of a Go map; an error does not keep it from the rest,
\* and 400 and 403 count as deleted.
DeletePart(s) ==
    /\ pc = "deleting" /\ s \in todo
    /\ todo' = todo \ {s}
    /\ \/ /\ chat' = chat \ {tracked[s]}
          /\ UNCHANGED lost
       \/ /\ lost' = lost \cup {tracked[s]}
          /\ UNCHANGED chat
    /\ UNCHANGED <<pc, order, parts, step, attempt, ids, nextId, tracked>>

Deleted ==
    /\ pc = "deleting" /\ todo = {}
    /\ pc' = "idle" /\ tracked' = None
    /\ UNCHANGED <<order, parts, step, attempt, ids, todo, chat, nextId, lost>>

Next ==
    \/ Take \/ Skip \/ PartOk \/ Sent \/ EditFails \/ Delete \/ Deleted
    \/ \E arrived \in BOOLEAN : PartAgain(arrived) \/ PartFails(arrived)
    \/ \E s \in todo : DeletePart(s)

Spec == Init /\ [][Next]_vars

-----------------------------------------------------------------------------
(* Properties                                                              *)

\* telegram.go: all message ids are stored so that clean deletes everything.
\* Between jobs a message that shows is named by the sent ID, or was lost in a
\* named way: its answer was lost, a later part failed, its edit failed, its step
\* came again later in the order, Telegram would not delete it.
CleanDeletesEverything ==
    pc = "idle" => chat \subseteq lost \cup Named
=============================================================================
