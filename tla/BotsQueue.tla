------------------------------ MODULE BotsQueue ------------------------------
(***************************************************************************)
(* The announcement queue of bots_service (src/rust/bots_service/src/      *)
(* main.rs): /state/bots_queue.json, a JSON array that four tasks read,    *)
(* change in memory and write back whole, with no lock:                    *)
(*                                                                         *)
(*   admin_announce      read; push a new item; write; reply "queued";     *)
(*   delete_queue_item   read; retain the items of another id; write;      *)
(*   Discord fanout      read; remove(0); send it to every bound channel;  *)
(*                       write the rest;                                   *)
(*   oracle_alert_poller fetch the oracle flags after its in-memory        *)
(*                       cursor; per flag read, push, write; then write    *)
(*                       the cursor file if it moved.                      *)
(*                                                                         *)
(* Each read/write pair has awaits in between, so the tasks interleave     *)
(* between them.  A restart loses every in-memory copy; the poller reloads *)
(* its cursor from /state/oracle_alert_cursor.json.  Texts, channels and   *)
(* bindings are left out: an item is its id, and a send to the bound       *)
(* channels is one step.                                                   *)
(***************************************************************************)
EXTENDS Naturals, Sequences, SequencesExt

CONSTANTS
    Announcements,  \* ids of the admin_announce requests
    Alerts,         \* Alerts[k]: the k-th oracle flag of the feed (ts = k)
    MaxCrashes,     \* bound on process restarts
    NoItem          \* no item taken

AlertIds == Range(Alerts)
Items == Announcements \cup AlertIds

VARIABLES
    queue,       \* bots_queue.json
    annPc,       \* annPc[a]: "new", "read" (copy taken) or "done"
    annCopy,     \* annCopy[a]: the request's q
    delPc,       \* the delete request: "idle" or "read"
    delCopy,     \* its q
    delId,       \* the id it removes
    fanPc,       \* Discord fanout: "idle", "send" or "write"
    fanItem,     \* the item it took off the front
    fanRest,     \* the rest of its copy, written back
    pollPc,      \* oracle poller: "fetch", "read" or "write"
    cursor,      \* its in-memory cursor (ts of the last flag handled)
    cursorFile,  \* oracle_alert_cursor.json
    batch,       \* ts of the fetched flags not yet enqueued
    pollCopy,    \* its q
    delivered,   \* delivered[x]: times item x was sent, counted to 2
    acked,       \* ghost: items whose enqueue was written (the reply "queued")
    deleted,     \* ghost: ids a delete request has written out
    crashes

vars == <<queue, annPc, annCopy, delPc, delCopy, delId, fanPc, fanItem, fanRest,
          pollPc, cursor, cursorFile, batch, pollCopy, delivered, acked, deleted,
          crashes>>

TypeOK ==
    /\ queue \in Seq(Items)
    /\ annPc \in [Announcements -> {"new", "read", "done"}]
    /\ annCopy \in [Announcements -> Seq(Items)]
    /\ delPc \in {"idle", "read"} /\ delCopy \in Seq(Items) /\ delId \in Items \cup {NoItem}
    /\ fanPc \in {"idle", "send", "write"}
    /\ fanItem \in Items \cup {NoItem} /\ fanRest \in Seq(Items)
    /\ pollPc \in {"fetch", "read", "write"}
    /\ cursor \in 0..Len(Alerts) /\ cursorFile \in 0..Len(Alerts)
    /\ batch \subseteq 1..Len(Alerts) /\ pollCopy \in Seq(Items)
    /\ delivered \in [Items -> 0..2]
    /\ acked \subseteq Items /\ deleted \subseteq Items
    /\ crashes \in 0..MaxCrashes

Init ==
    /\ queue = <<>>
    /\ annPc = [a \in Announcements |-> "new"]
    /\ annCopy = [a \in Announcements |-> <<>>]
    /\ delPc = "idle" /\ delCopy = <<>> /\ delId = NoItem
    /\ fanPc = "idle" /\ fanItem = NoItem /\ fanRest = <<>>
    /\ pollPc = "fetch" /\ cursor = 0 /\ cursorFile = 0
    /\ batch = {} /\ pollCopy = <<>>
    /\ delivered = [x \in Items |-> 0]
    /\ acked = {} /\ deleted = {}
    /\ crashes = 0

-----------------------------------------------------------------------------
(* admin_announce (the JWT-gated definition): read_json_vec, push, write.  *)

AnnounceRead(a) ==
    /\ annPc[a] = "new"
    /\ annPc' = [annPc EXCEPT ![a] = "read"]
    /\ annCopy' = [annCopy EXCEPT ![a] = queue]
    /\ UNCHANGED <<queue, delPc, delCopy, delId, fanPc, fanItem, fanRest, pollPc,
                   cursor, cursorFile, batch, pollCopy, delivered, acked, deleted,
                   crashes>>

AnnounceWrite(a) ==
    /\ annPc[a] = "read"
    /\ queue' = Append(annCopy[a], a)
    /\ annPc' = [annPc EXCEPT ![a] = "done"]
    /\ acked' = acked \cup {a}
    /\ UNCHANGED <<annCopy, delPc, delCopy, delId, fanPc, fanItem, fanRest, pollPc,
                   cursor, cursorFile, batch, pollCopy, delivered, deleted, crashes>>

(* delete_queue_item: read, q.retain(x.id != id), write.                   *)

DeleteRead(x) ==
    /\ delPc = "idle"
    /\ x \notin deleted
    /\ delPc' = "read" /\ delCopy' = queue /\ delId' = x
    /\ UNCHANGED <<queue, annPc, annCopy, fanPc, fanItem, fanRest, pollPc, cursor,
                   cursorFile, batch, pollCopy, delivered, acked, deleted, crashes>>

DeleteWrite ==
    /\ delPc = "read"
    /\ queue' = SelectSeq(delCopy, LAMBDA y : y # delId)
    /\ deleted' = deleted \cup {delId}
    /\ delPc' = "idle"
    /\ UNCHANGED <<annPc, annCopy, delCopy, delId, fanPc, fanItem, fanRest, pollPc,
                   cursor, cursorFile, batch, pollCopy, delivered, acked, crashes>>

(* The Discord fanout task of discord_loop.                                *)

\* read_json_vec; an empty queue is a sleep; else q.remove(0).
FanRead ==
    /\ fanPc = "idle"
    /\ queue # <<>>
    /\ fanItem' = Head(queue) /\ fanRest' = Tail(queue)
    /\ fanPc' = "send"
    /\ UNCHANGED <<queue, annPc, annCopy, delPc, delCopy, delId, pollPc, cursor,
                   cursorFile, batch, pollCopy, delivered, acked, deleted, crashes>>

\* ch.say to every announcement, recent_articles and oracle_alerts binding.
FanSend ==
    /\ fanPc = "send"
    /\ delivered' = [delivered EXCEPT ![fanItem] = IF @ < 2 THEN @ + 1 ELSE 2]
    /\ fanPc' = "write"
    /\ UNCHANGED <<queue, annPc, annCopy, delPc, delCopy, delId, fanItem, fanRest,
                   pollPc, cursor, cursorFile, batch, pollCopy, acked, deleted, crashes>>

\* "persist updated queue": the copy without the item, over whatever is there.
FanWrite ==
    /\ fanPc = "write"
    /\ queue' = fanRest
    /\ fanPc' = "idle"
    /\ UNCHANGED <<annPc, annCopy, delPc, delCopy, delId, fanItem, fanRest, pollPc,
                   cursor, cursorFile, batch, pollCopy, delivered, acked, deleted,
                   crashes>>

(* oracle_alert_poller.                                                    *)

\* GET /api/feed/oracle_flags?after=cursor: the flags with a larger ts.
PollFetch ==
    /\ pollPc = "fetch"
    /\ cursor < Len(Alerts)
    /\ batch' = cursor + 1..Len(Alerts)
    /\ pollPc' = "read"
    /\ UNCHANGED <<queue, annPc, annCopy, delPc, delCopy, delId, fanPc, fanItem,
                   fanRest, cursor, cursorFile, pollCopy, delivered, acked, deleted,
                   crashes>>

\* Next flag of the batch: read_json_vec.  With the batch done, the cursor
\* moves to its largest ts and is written.
PollRead ==
    /\ pollPc = "read"
    /\ IF batch # {}
       THEN /\ pollCopy' = queue /\ pollPc' = "write"
            /\ UNCHANGED <<cursor, cursorFile>>
       ELSE /\ cursor' = Len(Alerts) /\ cursorFile' = Len(Alerts)
            /\ pollPc' = "fetch"
            /\ UNCHANGED pollCopy
    /\ UNCHANGED <<queue, annPc, annCopy, delPc, delCopy, delId, fanPc, fanItem,
                   fanRest, batch, delivered, acked, deleted, crashes>>

\* q.push(oracle-<id>-<ts>); write_json_vec.
PollWrite ==
    /\ pollPc = "write"
    /\ LET k == CHOOSE k \in batch : \A j \in batch : k <= j IN
         /\ queue' = Append(pollCopy, Alerts[k])
         /\ acked' = acked \cup {Alerts[k]}
         /\ batch' = batch \ {k}
    /\ pollPc' = "read"
    /\ UNCHANGED <<annPc, annCopy, delPc, delCopy, delId, fanPc, fanItem, fanRest,
                   cursor, cursorFile, pollCopy, delivered, deleted, crashes>>

\* The process restarts: requests in flight are lost (their clients may
\* retry), the tasks start over, the poller reloads its cursor file.
Crash ==
    /\ crashes < MaxCrashes
    /\ crashes' = crashes + 1
    /\ annPc' = [a \in Announcements |-> IF annPc[a] = "read" THEN "new" ELSE annPc[a]]
    /\ delPc' = "idle"
    /\ fanPc' = "idle"
    /\ pollPc' = "fetch" /\ cursor' = cursorFile /\ batch' = {}
    /\ UNCHANGED <<queue, annCopy, delCopy, delId, fanItem, fanRest, cursorFile,
                   pollCopy, delivered, acked, deleted>>

Next ==
    \/ \E a \in Announcements : AnnounceRead(a) \/ AnnounceWrite(a)
    \/ \E x \in Items : DeleteRead(x)
    \/ DeleteWrite
    \/ FanRead \/ FanSend \/ FanWrite
    \/ PollFetch \/ PollRead \/ PollWrite
    \/ Crash

Spec == Init /\ [][Next]_vars

-----------------------------------------------------------------------------
(* Properties.                                                             *)

\* admin_announce answers {"queued": true} and the poller moves its cursor
\* past a flag only once it is queued: an item whose enqueue was written and
\* that no admin deleted is still in bots_queue.json or has been sent.
NoLostAnnouncement ==
    \A x \in acked \ deleted : x \in Range(queue) \/ delivered[x] > 0

=============================================================================
