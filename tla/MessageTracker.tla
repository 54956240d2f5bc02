--------------------------- MODULE MessageTracker ---------------------------
(***************************************************************************)
(* internal/delivery/tracker.go with the callers that give it its hazards: *)
(* the lane drainer that edits, replies to, posts and tracks messages      *)
(* (queue.go, processJob), the cache's eviction goroutine and its          *)
(* asynchronous callbacks, the clean-delete jobs they put back on the lane *)
(* (dispatcher.go), and shutdown and restart around the saved file.        *)
(*                                                                         *)
(* One destination is modelled: an edit key ends in the destination's id,  *)
(* a clean key names it and the reply index is kept per destination, so    *)
(* destinations share no entry and each has one lane with one drainer.     *)
(* A message's time to live is an event, Expire, that sets it due.         *)
(***************************************************************************)
EXTENDS Integers, Sequences, FiniteSets, SequencesExt

CONSTANTS
    EditKeys,   \* edit keys of the destination
    ReplyKeys,  \* reply keys (encounter ids, raid windows)
    Kinds,      \* the jobs sent: records [edit, reply, clean]
    LaneCap,    \* PerRouteBuffer
    MaxSent,    \* bound: messages sent
    MaxStops,   \* bound: shutdowns and crashes
    None

Ids == 1..MaxSent
Keys == EditKeys \cup Ids    \* a clean key is named by its message
Entry == [id: Ids, reply: ReplyKeys \cup {None}, clean: BOOLEAN]
Sending == [op: {"send"}, id: Ids, kind: Kinds]
Deletion == [op: {"delete"}, id: Ids]
Saved == [key: Keys, id: Ids, reply: ReplyKeys \cup {None}, clean: BOOLEAN]
InHand == [at: {"lookup", "post", "set", "index"}, id: Ids, kind: Kinds, replyTo: Ids \cup {None}]

VARIABLES
    cache,      \* mt.cache: the entry under each key
    replies,    \* mt.replies: reply key -> cache key
    lane,       \* the lane's buffer
    drainer,    \* the job the drainer is in the middle of
    callbacks,  \* eviction callbacks under way
    due,        \* messages whose time to live is over
    chat,       \* messages the destination shows
    phase,      \* up, stopping, stopped, down, loading
    disk,       \* delivery-tracker.json
    todo,       \* what Load has still to read
    next,       \* id of the next message
    stops,      \* shutdowns and crashes so far
    owed,       \* history: clean messages not deleted yet
    lost        \* history: why a clean message will not be deleted

vars == <<cache, replies, lane, drainer, callbacks, due, chat, phase, disk,
          todo, next, stops, owed, lost>>
tracker == <<cache, replies, callbacks>>
life == <<phase, disk, todo, stops>>
history == <<owed, lost>>

Idle == [at |-> "idle"]
Reasons == {"refused", "not re-cleaned", "failed", "replaced", "expired unsaved", "crashed"}

\* What is assumed of the constants.
ConstantsOK ==
    /\ Kinds \subseteq [edit: EditKeys \cup {None}, reply: ReplyKeys \cup {None},
                        clean: BOOLEAN]
    /\ LaneCap \in Nat \ {0} /\ MaxSent \in Nat /\ MaxStops \in Nat
    /\ IsFiniteSet(EditKeys)
    /\ None \notin EditKeys \cup ReplyKeys /\ None \notin Ids /\ None \notin Reasons
    /\ \A e \in Entry : e # None

TypeOK ==
    /\ cache \in [Keys -> Entry \cup {None}]
    /\ replies \in [ReplyKeys -> Keys \cup {None}]
    /\ lane \in Seq(Sending \cup Deletion) /\ Len(lane) <= LaneCap
    /\ drainer \in {Idle} \cup InHand
    /\ callbacks \subseteq [at: {"index", "delete"}, key: Keys, entry: Entry]
    /\ {due, chat, owed} \subseteq SUBSET Ids
    /\ phase \in {"up", "stopping", "stopped", "down", "loading"}
    /\ disk \in Seq(Saved) /\ todo \in Seq(Saved)
    /\ next \in 1..MaxSent + 1 /\ stops \in 0..MaxStops
    /\ lost \in [Ids -> Reasons \cup {None}]

Init ==
    /\ cache = [k \in Keys |-> None]
    /\ replies = [r \in ReplyKeys |-> None]
    /\ lane = <<>>
    /\ drainer = Idle
    /\ callbacks = {}
    /\ due = {}
    /\ chat = {}
    /\ phase = "up"
    /\ disk = <<>>
    /\ todo = <<>>
    /\ next = 1
    /\ stops = 0
    /\ owed = {}
    /\ lost = [id \in Ids |-> None]

-----------------------------------------------------------------------------
(* Lookups                                                                 *)

\* cache.Get: an expired entry is not returned, evicted or not.
Live(k) == cache[k] # None /\ cache[k].id \notin due

\* LookupEdit.
LookupEdit(k) == IF k # None /\ Live(k) THEN cache[k].id ELSE None

\* LookupReply: the index, then the cache.
LookupReply(r) ==
    IF r # None /\ replies[r] # None /\ Live(replies[r])
    THEN cache[replies[r]].id ELSE None

\* Marks the clean messages of a set as given up.
GivenUp(ids, why) ==
    [id \in Ids |-> IF id \in ids \cap owed /\ lost[id] = None THEN why ELSE lost[id]]

-----------------------------------------------------------------------------
(* The lane and its drainer                                                *)

\* Dispatch: a render worker blocks while the lane is full.
Dispatch(kind) ==
    /\ phase = "up" /\ next <= MaxSent /\ Len(lane) < LaneCap
    /\ lane' = Append(lane, [op |-> "send", id |-> next, kind |-> kind])
    /\ next' = next + 1
    /\ UNCHANGED <<tracker, drainer, due, chat, life, history>>

\* The drainer takes a clean-delete job and performs it; an error is logged.
Delete ==
    /\ phase # "down" /\ drainer = Idle /\ lane # <<>> /\ Head(lane).op = "delete"
    /\ lane' = Tail(lane)
    /\ LET id == Head(lane).id
       IN  \/ chat' = chat \ {id} /\ owed' = owed \ {id} /\ UNCHANGED lost
           \/ lost' = GivenUp({id}, "failed") /\ UNCHANGED <<chat, owed>>
    /\ UNCHANGED <<tracker, drainer, due, life, next>>

\* The drainer takes a send.
Take ==
    /\ phase # "down" /\ drainer = Idle /\ lane # <<>> /\ Head(lane).op = "send"
    /\ drainer' = [at |-> "lookup", id |-> Head(lane).id, kind |-> Head(lane).kind,
                   replyTo |-> None]
    /\ lane' = Tail(lane)
    /\ UNCHANGED <<tracker, due, chat, life, next, history>>

\* The tracked message under the edit key is edited in place: nothing to do.
EditOk ==
    /\ drainer.at = "lookup"
    /\ LookupEdit(drainer.kind.edit) # None
    /\ drainer' = Idle
    /\ UNCHANGED <<tracker, lane, due, chat, life, next, history>>

\* Nothing to edit, or the edit failed: the message is sent anew, in reply to
\* what the reply key leads to.  The reply is chosen before the wire call.
Stamp ==
    /\ drainer.at = "lookup"
    /\ drainer' = [drainer EXCEPT !.at = "post",
                                  !.replyTo = LookupReply(drainer.kind.reply)]
    /\ UNCHANGED <<tracker, lane, due, chat, life, next, history>>

\* Send returns: an error drops the job.
Post ==
    /\ drainer.at = "post"
    /\ \/ /\ chat' = chat \cup {drainer.id}
          /\ owed' = IF drainer.kind.clean THEN owed \cup {drainer.id} ELSE owed
          /\ drainer' = IF drainer.kind = [edit |-> None, reply |-> None, clean |-> FALSE]
                        THEN Idle ELSE [drainer EXCEPT !.at = "set"]
       \/ drainer' = Idle /\ UNCHANGED <<chat, owed>>
    /\ UNCHANGED <<tracker, lane, due, life, next, lost>>

TrackKey == IF drainer.kind.edit # None THEN drainer.kind.edit ELSE drainer.id

\* Track, first half: cache.Set.  An entry already under the key is updated
\* in place, without an eviction.
TrackSet ==
    /\ drainer.at = "set"
    /\ cache' = [cache EXCEPT ![TrackKey] =
         [id |-> drainer.id, reply |-> drainer.kind.reply, clean |-> drainer.kind.clean]]
    /\ lost' = IF cache[TrackKey] = None THEN lost
               ELSE GivenUp({cache[TrackKey].id}, "replaced")
    /\ IF drainer.kind.reply = None
       THEN drainer' = Idle
       ELSE drainer' = [drainer EXCEPT !.at = "index"]
    /\ UNCHANGED <<replies, callbacks, lane, due, chat, life, next, owed>>

\* Track, second half: the reply index.
TrackIndex ==
    /\ drainer.at = "index"
    /\ replies' = [replies EXCEPT ![drainer.kind.reply] = TrackKey]
    /\ drainer' = Idle
    /\ UNCHANGED <<cache, callbacks, lane, due, chat, life, next, owed, lost>>

-----------------------------------------------------------------------------
(* Expiry                                                                  *)

\* A tracked message's time to live runs out, the process up or not.
Expire(id) ==
    /\ id \notin due
    /\ \/ \E k \in Keys : cache[k] # None /\ cache[k].id = id
       \/ \E i \in DOMAIN disk : disk[i].id = id
    /\ due' = due \cup {id}
    /\ UNCHANGED <<tracker, lane, drainer, chat, life, next, history>>

\* The cache's goroutine removes an expired entry and starts its callback in a
\* goroutine of its own.
Evict(k) ==
    /\ phase \in {"up", "stopping", "loading"}
    /\ cache[k] # None /\ ~Live(k)
    /\ callbacks' = callbacks \cup {[at |-> "index", key |-> k, entry |-> cache[k]]}
    /\ cache' = [cache EXCEPT ![k] = None]
    /\ UNCHANGED <<replies, lane, drainer, due, chat, life, next, history>>

\* Mutant: the callback is done when the index has moved on.
BugUnindex(c) ==
    /\ c.at = "index"
    /\ LET r == c.entry.reply
           ours == r # None /\ replies[r] = c.key
       IN  /\ replies' = IF ours THEN [replies EXCEPT ![r] = None] ELSE replies
           /\ callbacks' = (callbacks \ {c}) \cup
                 (IF c.entry.clean /\ ours THEN {[c EXCEPT !.at = "delete"]} ELSE {})
    /\ UNCHANGED <<cache, lane, drainer, due, chat, life, next, history>>

\* The callback drops the index pointer if it still names the evicted key, and
\* is done unless the message is clean.
Unindex(c) ==
    /\ c.at = "index"
    /\ LET r == c.entry.reply
       IN  replies' = IF r # None /\ replies[r] = c.key
                      THEN [replies EXCEPT ![r] = None] ELSE replies
    /\ callbacks' = (callbacks \ {c}) \cup
                    (IF c.entry.clean THEN {[c EXCEPT !.at = "delete"]} ELSE {})
    /\ UNCHANGED <<cache, lane, drainer, due, chat, life, next, history>>

\* Mutant: a full lane is not looked at.
BugAccepts == phase \in {"up", "loading"}

\* enqueueCleanDelete never blocks: a full or stopping lane refuses the job.
Accepts == phase \in {"up", "loading"} /\ Len(lane) < LaneCap

EnqueueCleanDelete(id, why) ==
    IF Accepts
    THEN lane' = Append(lane, [op |-> "delete", id |-> id]) /\ UNCHANGED lost
    ELSE lost' = GivenUp({id}, why) /\ UNCHANGED lane

\* Mutant: the callback calls the sender itself, beside the lane.
BugCleanDelete(c) ==
    /\ c.at = "delete"
    /\ chat' = chat \ {c.entry.id} /\ owed' = owed \ {c.entry.id}
    /\ callbacks' = callbacks \ {c}
    /\ UNCHANGED <<cache, replies, lane, drainer, due, life, next, lost>>

\* The callback of a clean message asks for its deletion.
CleanDelete(c) ==
    /\ c.at = "delete"
    /\ EnqueueCleanDelete(c.entry.id, "refused")
    /\ callbacks' = callbacks \ {c}
    /\ UNCHANGED <<cache, replies, drainer, due, chat, life, next, owed>>

-----------------------------------------------------------------------------
(* Shutdown, crash and restart                                             *)

\* Dispatcher.Stop: queue.Stop refuses new jobs and drains the lane ...
QueueStop ==
    /\ phase = "up" /\ stops < MaxStops
    /\ phase' = "stopping" /\ stops' = stops + 1
    /\ UNCHANGED <<tracker, lane, drainer, due, chat, disk, todo, next, history>>

\* ... then tracker.Stop ends eviction ...
CacheStop ==
    /\ phase = "stopping" /\ lane = <<>> /\ drainer = Idle
    /\ phase' = "stopped"
    /\ UNCHANGED <<tracker, lane, drainer, due, chat, disk, todo, stops, next, history>>

LiveEntries == {[key |-> k, id |-> cache[k].id, reply |-> cache[k].reply,
                 clean |-> cache[k].clean] : k \in {k \in Keys : Live(k)}}

Forget ==
    /\ cache' = [k \in Keys |-> None]
    /\ replies' = [r \in ReplyKeys |-> None]
    /\ callbacks' = {} /\ lane' = <<>> /\ drainer' = Idle /\ todo' = <<>>
    /\ phase' = "down"

IdsOf(entries) == {entries[i].id : i \in DOMAIN entries}

\* Mutant: the file is left as it was.
BugSave ==
    /\ phase = "stopped"
    /\ lost' = GivenUp({c.entry.id : c \in callbacks}, "refused")
    /\ Forget
    /\ UNCHANGED <<due, chat, disk, stops, next, owed>>

\* ... and Save writes the entries that have not expired, in the cache's own
\* order; the process exits.
Save ==
    /\ phase = "stopped"
    /\ \E order \in SetToSeqs(LiveEntries) : disk' = order
    /\ lost' = GivenUp({c.entry.id : c \in callbacks}
                         \cup {cache[k].id : k \in {k \in Keys : cache[k] # None /\ ~Live(k)}},
                       "expired unsaved")
    /\ Forget
    /\ UNCHANGED <<due, chat, stops, next, owed>>

\* The process dies: what is not in the last file is forgotten.
Crash ==
    /\ phase # "down" /\ stops < MaxStops
    /\ stops' = stops + 1
    /\ lost' = GivenUp(owed \ IdsOf(disk), "crashed")
    /\ Forget
    /\ UNCHANGED <<due, chat, disk, next, owed>>

\* NewDispatcher: the hook is in place before Load reads the file.
Restart ==
    /\ phase = "down"
    /\ phase' = "loading" /\ todo' = disk
    /\ UNCHANGED <<tracker, lane, drainer, due, chat, disk, stops, next, history>>

\* Mutant: every clean message of the file is deleted.
BugLoadEntry ==
    /\ phase = "loading" /\ todo # <<>>
    /\ todo' = Tail(todo)
    /\ IF Head(todo).clean THEN EnqueueCleanDelete(Head(todo).id, "not re-cleaned")
                           ELSE UNCHANGED <<lane, lost>>
    /\ UNCHANGED <<tracker, drainer, due, chat, phase, disk, stops, next, owed>>

\* Load, one entry: expired and clean goes to the lane, expired is dropped,
\* the rest is cached and indexed again.
LoadEntry ==
    /\ phase = "loading" /\ todo # <<>>
    /\ todo' = Tail(todo)
    /\ LET e == Head(todo)
       IN  IF e.id \in due
           THEN /\ UNCHANGED <<cache, replies>>
                /\ IF e.clean THEN EnqueueCleanDelete(e.id, "not re-cleaned")
                              ELSE UNCHANGED <<lane, lost>>
           ELSE /\ cache' = [cache EXCEPT ![e.key] =
                      [id |-> e.id, reply |-> e.reply, clean |-> e.clean]]
                /\ replies' = IF e.reply = None THEN replies
                              ELSE [replies EXCEPT ![e.reply] = e.key]
                /\ UNCHANGED <<lane, lost>>
    /\ UNCHANGED <<callbacks, drainer, due, chat, phase, disk, stops, next, owed>>

Loaded ==
    /\ phase = "loading" /\ todo = <<>>
    /\ phase' = "up"
    /\ UNCHANGED <<tracker, lane, drainer, due, chat, disk, todo, stops, next, history>>

-----------------------------------------------------------------------------
Drain == Delete \/ Take \/ EditOk \/ Stamp \/ Post \/ TrackSet \/ TrackIndex
Sweep ==
    \/ \E k \in Keys : Evict(k)
    \/ \E c \in callbacks : Unindex(c) \/ CleanDelete(c)
Lifecycle == QueueStop \/ CacheStop \/ Save \/ Crash \/ Restart \/ LoadEntry \/ Loaded

Next ==
    \/ \E kind \in Kinds : Dispatch(kind)
    \/ \E id \in Ids : Expire(id)
    \/ Drain \/ Sweep \/ Lifecycle

Spec == Init /\ [][Next]_vars

\* The drainer, the cache's goroutine, the callbacks and a Load or a Stop that
\* has begun all run; nobody has to send, restart or crash.
Fairness ==
    /\ WF_vars(Drain) /\ WF_vars(Sweep)
    /\ WF_vars(CacheStop \/ Save \/ LoadEntry \/ Loaded)

FairSpec == Spec /\ Fairness

-----------------------------------------------------------------------------
(* Properties                                                              *)

\* Where a message is still due to be deleted from.
Held(id) ==
    \/ drainer # Idle /\ drainer.id = id
    \/ \E k \in Keys : cache[k] # None /\ cache[k].id = id
    \/ \E c \in callbacks : c.entry.id = id
    \/ \E i \in DOMAIN lane : lane[i].op = "delete" /\ lane[i].id = id
    \/ id \in IdsOf(todo)
    \/ phase = "down" /\ id \in IdsOf(disk)

\* A clean message that still shows is always somebody's to delete: the
\* tracker's, a callback's, the lane's or the file's; or it was given up in one
\* of the named ways.
NoOrphan == \A id \in owed : Held(id) \/ lost[id] # None

\* A reply is never addressed to a message that has been deleted: the lookup
\* returns unexpired messages only, and a deletion asked for meanwhile waits
\* behind the reply on the same lane.
ReplyToVisible ==
    drainer.at = "post" /\ drainer.replyTo # None => drainer.replyTo \in chat

\* A clean message is not deleted before its time, whatever is edited,
\* replaced or restarted meanwhile.
NotBeforeDue == [][\A id \in owed \ owed' : id \in due]_vars

\* A clean message whose time is over is deleted, or given up, or the process
\* goes down first.
DueIsCleaned ==
    \A id \in Ids : id \in due /\ id \in owed
                      ~> id \notin owed \/ lost[id] # None \/ phase = "down"
=============================================================================
