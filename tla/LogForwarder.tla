---------------------------- MODULE LogForwarder ----------------------------
(***************************************************************************)
(* How the owner ships one instance's log records to Analytics,            *)
(* packages/stack/src/host/LogForwarder.ts.  Analytics (Logflare) answers a *)
(* post once it queued the events, stores them later, and drops a whole    *)
(* batch that holds an id already stored; so the forwarder records a body  *)
(* before it posts it, asks which ids are stored, and posts again only     *)
(* what is missing once the launch that took the post cannot store it any  *)
(* more.  The owner may crash and Analytics may be launched again at any   *)
(* instant, an answer or a post may be lost, and retention deletes records. *)
(*                                                                         *)
(* Time is left out but for what its windows assume: that a launch that    *)
(* ended has stored or lost what it queued after flushWindowMillis, and    *)
(* that any launch has after stuckMillis (Quiet).  Events are numbered in  *)
(* the order of their records; the cursor is the last confirmed number.    *)
(* A poll that finds nothing new is a stuttering step.                     *)
(***************************************************************************)
EXTENDS Integers, Sequences, FiniteSets

CONSTANTS
  NumEvents,         \* records to ship
  BodySize,          \* the most events of one body
  Rejected,          \* events whose bodies Analytics answers with a 400
  Swallowed,         \* events whose batches it takes and never stores
  MaxLaunches,       \* bound on the launches of Analytics
  MaxTroubles        \* bound on crashes, exits, lost posts and the like, together

Events == 1..NumEvents
Launches == 1..MaxLaunches

ASSUME LogForwarderAssumption ==
  /\ NumEvents \in Nat \ {0} /\ BodySize \in Nat \ {0} /\ MaxLaunches \in Nat \ {0}
  /\ MaxTroubles \in Nat
  /\ Rejected \subseteq Events /\ Swallowed \subseteq Events

VARIABLES
  cursor,            \* cursor.json: the confirmed number and the pending body
  session,           \* the session of the running owner
  target,            \* what it ships to: the launch that serves, or 0
  launch,            \* the latest launch of Analytics
  own,               \* the first launch of this owner
  alive,             \* launches whose process runs, the left over ones included
  ownerUp,
  net,               \* the post under way
  queue,             \* what launches took and have not stored: [launch, ids]
  stored,            \* the ids in Analytics' tables
  gone,              \* the records retention deleted
  skipped,           \* the ids given up, for the properties
  lost,              \* ids posted alone that got lost on the way
  troubles

analytics == <<launch, own, alive>>
taken == <<queue, stored, lost>>
lfVars == <<cursor, session, target, launch, own, alive, ownerUp, net, queue, stored, gone,
            skipped, lost, troubles>>

None == -1
NoPending == [end |-> 0, ids |-> {}, launch |-> None]
NoPost == [launch |-> None, ids |-> {}, answer |-> "none"]

\* at: where the session is; stale: whether its target changed; end, ids: the
\* shipment and what remains of it; known: the events it can post; wanted: what
\* deliverAll is to have stored, missing: what the last check found unstored;
\* latest: the launch of the latest post, 0 when it was not queued, None when
\* there was none; posted: what it carried; isolating, group, groups: isolate, the
\* group it delivers and those to come; suspects: the groups of one left unstored,
\* the first proved of them before a post that was stored; out: rejected alone.
Asleep ==
  [at |-> "off", launch |-> None, stale |-> FALSE, end |-> 0, ids |-> {}, known |-> {},
   wanted |-> {}, missing |-> {}, latest |-> None, posted |-> {}, isolating |-> FALSE,
   group |-> {}, groups |-> <<>>, suspects |-> <<>>, proved |-> 0, out |-> {}]

Stages == {"off", "open", "check", "wait", "prepare", "post", "posting", "unpend", "paused",
           "next", "confirm"}

Ids == SUBSET Events

Session ==
  [at : Stages, launch : Launches \union {None}, stale : BOOLEAN, end : 0..NumEvents, ids : Ids,
   known : Ids, wanted : Ids, missing : Ids, latest : Launches \union {0, None}, posted : Ids,
   isolating : BOOLEAN, group : Ids, groups : Seq(Ids), suspects : Seq(Ids), proved : Nat, out : Ids]

Shipment == [end : 0..NumEvents, ids : Ids, launch : Launches \union {None}]

SessionTypeOK ==
  /\ session \in Session
  /\ session.missing \subseteq session.wanted
  /\ session.proved <= Len(session.suspects)

LogForwarderTypeOK ==
  /\ cursor \in [confirmed : 0..NumEvents, pending : Shipment]
  /\ SessionTypeOK
  /\ target \in Launches \union {0}
  /\ launch \in Launches /\ own \in 1..(MaxLaunches + 1) /\ alive \subseteq Launches
  /\ ownerUp \in BOOLEAN
  /\ net \in [launch : Launches \union {None}, ids : Ids,
              answer : {"none", "sent", "unsettled", "failed", "refused", "rejected"}]
  /\ queue \subseteq [launch : Launches, ids : Ids]
  /\ stored \union gone \union skipped \union lost \subseteq Events
  /\ troubles \in 0..MaxTroubles

LogForwarderInit ==
  /\ cursor = [confirmed |-> 0, pending |-> NoPending]
  /\ session = Asleep
  /\ target = 0
  /\ launch = 1 /\ own = 1 /\ alive = {1}
  /\ ownerUp = TRUE
  /\ net = NoPost
  /\ queue = {} /\ stored = {} /\ gone = {} /\ skipped = {} /\ lost = {}
  /\ troubles = 0

-----------------------------------------------------------------------------
\* Nothing of launch l is on its way or waiting to be stored any more.
Quiet(l) == net.launch # l /\ \A b \in queue : b.launch # l

\* The first half of a set of ids, the longer one.
FirstHalf(ids) ==
  {e \in ids : 2 * Cardinality({d \in ids : d < e}) < Cardinality(ids)}
Halves(ids) ==
  IF FirstHalf(ids) = ids THEN <<ids>> ELSE <<FirstHalf(ids), ids \ FirstHalf(ids)>>

\* What a launch takes of a post.
Batch(post) == [launch |-> post.launch, ids |-> post.ids]

Trouble == troubles < MaxTroubles /\ troubles' = troubles + 1
Alone(ids) == IF Cardinality(ids) = 1 THEN ids ELSE {}

Goes(at) == session' = [session EXCEPT !.at = at]
SessionStep(at) == ownerUp /\ session.at = at

-----------------------------------------------------------------------------
(* The session: forward, session, reconcile.                               *)

\* A session starts on a serving target, and starts with the saved body if there is one.
Open ==
  /\ SessionStep("off")
  /\ target # 0
  /\ session' = [Asleep EXCEPT !.at = "open", !.launch = target]
  /\ UNCHANGED <<cursor, target, analytics, ownerUp, net, taken, gone, skipped, troubles>>

\* The next body, read from the records after the cursor.
Fresh(ids) ==
  LET later == {e \in Events : e > cursor.confirmed} \ gone
  IN  /\ ids # {} /\ ids \subseteq later /\ Cardinality(ids) <= BodySize
      /\ \A d \in later, e \in ids : d < e => d \in ids

Settle(ids, end, known, latest) ==
  session' = [Asleep EXCEPT !.at = "check", !.launch = session.launch, !.stale = session.stale,
                            !.ids = ids, !.end = end, !.known = known, !.wanted = ids,
                            !.latest = latest]

Reconcile ==
  /\ SessionStep("open")
  /\ cursor.pending # NoPending
  /\ Settle(cursor.pending.ids, cursor.pending.end, cursor.pending.ids \ gone, cursor.pending.launch)
  /\ UNCHANGED <<cursor, target, analytics, ownerUp, net, taken, gone, skipped, troubles>>

NextBody ==
  /\ SessionStep("open")
  /\ cursor.pending = NoPending
  /\ \E ids \in SUBSET Events, end \in Events :
       /\ Fresh(ids)
       /\ end \in ids /\ \A e \in ids : e <= end
       /\ Settle(ids, end, ids, None)
  /\ UNCHANGED <<cursor, target, analytics, ownerUp, net, taken, gone, skipped, troubles>>

\* A changed target ends the session, but waits for a post in flight.
Interrupt ==
  /\ ownerUp
  /\ session.stale
  /\ session.at # "posting"
  /\ session' = Asleep
  /\ UNCHANGED <<cursor, target, analytics, ownerUp, net, taken, gone, skipped, troubles>>

-----------------------------------------------------------------------------
(* deliverAll.                                                             *)

ReturnsRejectedToSplit(left, rejected) ==   \* mutant: a lone rejected event is split again
  IF ~session.isolating
  THEN IF ~rejected /\ left = {} THEN [session EXCEPT !.at = "confirm"]
       ELSE [session EXCEPT !.at = "next", !.isolating = TRUE,
                            !.groups = Halves(IF rejected THEN session.posted ELSE left)]
  ELSE [session EXCEPT
         !.at = "next",
         !.suspects = IF ~rejected /\ left # {} /\ Cardinality(session.group) = 1 THEN Append(@, session.group) ELSE @,
         !.groups = CASE rejected -> Halves(session.group) \o @
                      [] ~rejected /\ left # {} /\ Cardinality(session.group) > 1 -> Halves(left) \o @
                      [] OTHER -> @]

\* What deliverAll returns: nothing left, the ids left unstored, or "rejected".
\* The first time it decides between confirming and isolating; then it is one of
\* the groups that isolate posts.
Returns(left, rejected) ==
  LET whole == session.group
      single == Cardinality(whole) = 1
      split == IF rejected THEN whole ELSE left
  IN  IF ~session.isolating
      THEN IF ~rejected /\ left = {}
           THEN [session EXCEPT !.at = "confirm"]
           ELSE [session EXCEPT !.at = "next", !.isolating = TRUE,
                                !.groups = Halves(IF rejected THEN session.posted ELSE left)]
      ELSE [session EXCEPT
             !.at = "next",
             !.out = IF rejected /\ single THEN @ \union whole ELSE @,
             !.suspects = IF ~rejected /\ left # {} /\ single THEN Append(@, whole) ELSE @,
             !.groups = IF single \/ (~rejected /\ left = {}) THEN @ ELSE Halves(split) \o @]

\* The stored ids are read; what the latest post carried and is stored proves
\* that the launch stores.
Check ==
  /\ SessionStep("check")
  /\ LET missing == session.wanted \ stored
         proof == session.posted \intersect session.wanted \intersect stored # {}
         seen == [session EXCEPT !.missing = missing,
                                 !.proved = IF proof THEN Len(session.suspects) ELSE @]
     IN  session' =
           IF missing = {} THEN [Returns({}, FALSE) EXCEPT !.proved = seen.proved]
           ELSE [seen EXCEPT !.at = IF session.latest = None THEN "prepare" ELSE "wait"]
  /\ UNCHANGED <<cursor, target, analytics, ownerUp, net, taken, gone, skipped, troubles>>

\* A later poll finds more of it stored.
Poll ==
  /\ SessionStep("wait")
  /\ session.missing \intersect stored # {}
  /\ Goes("check")
  /\ UNCHANGED <<cursor, target, analytics, ownerUp, net, taken, gone, skipped, troubles>>

\* The windows, as long as the launch that took the latest post may still store
\* it: stuckMillis for the serving launch and for another owner's, and
\* flushWindowMillis for an ended one of this owner or a post not queued.
StuckWindow(l) == Quiet(l)
FlushWindow(l) == l \notin Launches \/ l \in alive \/ Quiet(l)
DrainedAlike(l) == FlushWindow(l)   \* mutant: another owner's launch is taken for one of its own
Drained(l) == IF l = 0 \/ l >= own THEN FlushWindow(l) ELSE StuckWindow(l)

\* The serving launch left them unstored for too long.
Stuck ==
  /\ SessionStep("wait")
  /\ session.latest = session.launch
  /\ StuckWindow(session.latest)
  /\ session' = Returns(session.missing, FALSE)
  /\ UNCHANGED <<cursor, target, analytics, ownerUp, net, taken, gone, skipped, troubles>>

\* Another launch, or none, has the latest post, and its window is over.
Elapse ==
  /\ SessionStep("wait")
  /\ session.latest # session.launch
  /\ Drained(session.latest)
  /\ Goes("prepare")
  /\ UNCHANGED <<cursor, target, analytics, ownerUp, net, taken, gone, skipped, troubles>>

\* Mutant: a body already on record is not recorded again.
RecordOnce(ids) ==
  IF cursor.pending = NoPending
  THEN [cursor EXCEPT !.pending = [end |-> session.end, ids |-> ids, launch |-> session.launch]]
  ELSE cursor

\* persist, before a post.
Record(ids) == [cursor EXCEPT !.pending = [end |-> session.end, ids |-> ids, launch |-> session.launch]]

\* Deleted events are dropped; the body is on record before it is posted.
Prepare ==
  /\ SessionStep("prepare")
  /\ LET deleted == session.missing \ session.known
         kept == [session EXCEPT !.wanted = @ \ deleted, !.ids = @ \ deleted,
                                 !.missing = @ \ deleted]
     IN  IF session.missing = deleted
         THEN /\ session' = [Returns({}, FALSE) EXCEPT !.ids = kept.ids, !.missing = {}]
              /\ UNCHANGED cursor
         ELSE /\ session' = [kept EXCEPT !.at = "post"]
              /\ cursor' = Record(kept.ids)
  /\ UNCHANGED <<target, analytics, ownerUp, net, taken, gone, skipped, troubles>>

\* post: only to the target of the session; a slow cursor write leaves no time.
Post ==
  /\ SessionStep("post")
  /\ IF session.stale THEN session' = Asleep /\ UNCHANGED net
     ELSE /\ net = NoPost
          /\ net' = [launch |-> session.launch, ids |-> session.missing, answer |-> "none"]
          /\ session' = [session EXCEPT !.at = "posting", !.posted = session.missing]
  /\ UNCHANGED <<cursor, target, analytics, ownerUp, taken, gone, skipped, troubles>>

SlowWrite ==
  /\ SessionStep("post")
  /\ Trouble
  /\ Goes("check")
  /\ UNCHANGED <<cursor, target, analytics, ownerUp, net, taken, gone, skipped>>

Answer ==
  /\ SessionStep("posting")
  /\ net.answer # "none"
  /\ session' = CASE net.answer \in {"sent", "unsettled"} ->
                       [session EXCEPT !.at = "check", !.latest = session.launch]
                  [] net.answer = "failed" -> [session EXCEPT !.at = "check", !.latest = 0]
                  [] net.answer = "refused" -> [session EXCEPT !.at = "unpend"]
                  [] net.answer = "rejected" -> Returns({}, TRUE)
  /\ net' = NoPost
  /\ UNCHANGED <<cursor, target, analytics, ownerUp, taken, gone, skipped, troubles>>

UnpendShipped ==   \* mutant: the refused body is confirmed
  /\ SessionStep("unpend")
  /\ cursor' = [confirmed |-> session.end, pending |-> NoPending]
  /\ session' = [Asleep EXCEPT !.at = "paused", !.stale = session.stale]
  /\ UNCHANGED <<target, analytics, ownerUp, net, taken, gone, skipped, troubles>>

\* A refused target clears the pending body and pauses until the target changes.
Unpend ==
  /\ SessionStep("unpend")
  /\ cursor' = [cursor EXCEPT !.pending = NoPending]
  /\ session' = [Asleep EXCEPT !.at = "paused", !.stale = session.stale]
  /\ UNCHANGED <<target, analytics, ownerUp, net, taken, gone, skipped, troubles>>

-----------------------------------------------------------------------------
(* isolate, and the end of settle.                                         *)

NextGroupKept ==   \* mutant: what the last group left is not forgotten
  /\ SessionStep("next")
  /\ session.groups # <<>>
  /\ LET group == Head(session.groups)
     IN  session' = [session EXCEPT !.at = "check", !.group = group, !.wanted = group,
                                    !.latest = None, !.groups = Tail(@)]
  /\ UNCHANGED <<cursor, target, analytics, ownerUp, net, taken, gone, skipped, troubles>>

NextGroup ==
  /\ SessionStep("next")
  /\ session.groups # <<>>
  /\ LET group == Head(session.groups)
     IN  session' = [session EXCEPT !.at = "check", !.group = group, !.wanted = group,
                                    !.missing = {}, !.latest = None, !.groups = Tail(@)]
  /\ UNCHANGED <<cursor, target, analytics, ownerUp, net, taken, gone, skipped, troubles>>

Suspected(n) == UNION {session.suspects[i] : i \in 1..n}

Unproved == session.out \union Suspected(Len(session.suspects))   \* mutant: skipped without a proof

\* What a round gives up: what was rejected alone, and what was left unstored while
\* a later post was stored.
GivenUp == session.out \union Suspected(session.proved)

\* A round ends; the other suspects are posted alone again.
RoundEnds ==
  /\ SessionStep("next")
  /\ session.groups = <<>>
  /\ LET again == SubSeq(session.suspects, session.proved + 1, Len(session.suspects))
     IN  session' = [session EXCEPT !.at = IF again = <<>> THEN "confirm" ELSE "next",
                                    !.ids = @ \ GivenUp, !.groups = again,
                                    !.out = {}, !.suspects = <<>>, !.proved = 0]
  /\ skipped' = skipped \union GivenUp
  /\ UNCHANGED <<cursor, target, analytics, ownerUp, net, taken, gone, troubles>>

Confirm ==
  /\ SessionStep("confirm")
  /\ cursor' = [confirmed |-> session.end, pending |-> NoPending]
  /\ session' = [Asleep EXCEPT !.at = "open", !.launch = session.launch, !.stale = session.stale]
  /\ UNCHANGED <<target, analytics, ownerUp, net, taken, gone, skipped, troubles>>

-----------------------------------------------------------------------------
(* Analytics, the network and the owner.                                   *)

\* A post reaches its launch, which rejects it, takes it, or answers that it
\* cannot now; the answer may be lost.
Arrive ==
  /\ net.launch \in alive /\ net.answer = "none"
  /\ IF net.ids \intersect Rejected # {}
     THEN net' = [net EXCEPT !.answer = "rejected"] /\ UNCHANGED queue
     ELSE net' = [net EXCEPT !.answer = "sent"] /\ queue' = queue \union {Batch(net)}
  /\ UNCHANGED <<cursor, session, target, analytics, ownerUp, stored, lost, gone, skipped, troubles>>

TurnedAway ==
  /\ net # NoPost /\ net.answer = "none"
  /\ Trouble
  /\ \/ net.launch \in alive /\ net' = [net EXCEPT !.answer = "refused"]
     \/ net' = [net EXCEPT !.answer = "failed"]
  /\ UNCHANGED <<cursor, session, target, analytics, ownerUp, taken, gone, skipped>>

AnswerLost ==
  /\ net.answer = "sent"
  /\ Trouble
  /\ net' = [net EXCEPT !.answer = "unsettled"]
  /\ UNCHANGED <<cursor, session, target, analytics, ownerUp, taken, gone, skipped>>

\* A post that nobody takes: lost on the way, or sent to a launch that ended.
Vanish ==
  /\ net # NoPost /\ net.answer = "none"
  /\ IF net.launch \in alive THEN Trouble ELSE UNCHANGED troubles
  /\ net' = [net EXCEPT !.answer = "unsettled"]
  /\ lost' = lost \union Alone(net.ids)
  /\ UNCHANGED <<cursor, session, target, analytics, ownerUp, queue, stored, gone, skipped>>

\* A batch is stored, unless it holds an id already stored or one never stored.
Store(b) ==
  /\ b \in queue
  /\ queue' = queue \ {b}
  /\ stored' = IF b.ids \intersect (stored \union Swallowed) = {} THEN stored \union b.ids ELSE stored
  /\ UNCHANGED <<cursor, session, target, analytics, ownerUp, net, lost, gone, skipped, troubles>>

\* A launch that ended may not have stored it.
Drop(b) ==
  /\ b \in queue
  /\ b.launch \notin alive
  /\ queue' = queue \ {b}
  /\ UNCHANGED <<cursor, session, target, analytics, ownerUp, net, stored, lost, gone, skipped, troubles>>

\* rebind: the target is the serving launch of this owner, or none; another
\* target makes the session stale.
Retarget(l) ==
  /\ target' = l
  /\ session' = IF session.at = "off" THEN session
                ELSE IF session.at = "paused" THEN Asleep
                ELSE [session EXCEPT !.stale = TRUE]

Serves ==
  /\ ownerUp
  /\ target = 0 /\ launch >= own /\ launch \in alive
  /\ Retarget(launch)
  /\ UNCHANGED <<cursor, analytics, ownerUp, net, taken, gone, skipped, troubles>>

Unhealthy ==
  /\ ownerUp
  /\ target # 0
  /\ Trouble
  /\ Retarget(0)
  /\ UNCHANGED <<cursor, analytics, ownerUp, net, taken, gone, skipped>>

\* The process ends before the owner notices.
Exit(l) ==
  /\ l \in alive
  /\ IF l >= own THEN launch < MaxLaunches /\ Trouble ELSE UNCHANGED troubles
  /\ alive' = alive \ {l}
  /\ UNCHANGED <<cursor, session, target, launch, own, ownerUp, net, taken, gone, skipped>>

Noticed ==
  /\ ownerUp
  /\ target # 0 /\ target \notin alive
  /\ Retarget(0)
  /\ UNCHANGED <<cursor, analytics, ownerUp, net, taken, gone, skipped, troubles>>

\* The owner launches Analytics once its previous launch has ended.
Relaunch ==
  /\ ownerUp
  /\ launch < MaxLaunches
  /\ launch < own \/ launch \notin alive
  /\ target = 0
  /\ launch' = launch + 1
  /\ alive' = alive \union {launch'}
  /\ UNCHANGED <<cursor, session, target, own, ownerUp, net, taken, gone, skipped, troubles>>

OwnerCrashes ==
  /\ ownerUp
  /\ launch < MaxLaunches
  /\ Trouble
  /\ ownerUp' = FALSE
  /\ session' = Asleep
  /\ target' = 0
  /\ UNCHANGED <<cursor, analytics, net, taken, gone, skipped>>

\* The next owner's run names its launches anew.
OwnerStarts ==
  /\ ~ownerUp
  /\ ownerUp' = TRUE
  /\ own' = launch + 1
  /\ UNCHANGED <<cursor, session, target, launch, alive, net, taken, gone, skipped, troubles>>

\* A post whose owner crashed has nobody to answer.
Unheard ==
  /\ net.answer # "none"
  /\ session.at # "posting"
  /\ net' = NoPost
  /\ UNCHANGED <<cursor, session, target, analytics, ownerUp, taken, gone, skipped, troubles>>

\* Retention deletes the oldest record.
Retire ==
  /\ Trouble
  /\ \E e \in Events \ gone : (\A d \in Events : d < e => d \in gone) /\ gone' = gone \union {e}
  /\ UNCHANGED <<cursor, session, target, analytics, ownerUp, net, taken, skipped>>

-----------------------------------------------------------------------------
Forward ==
  \/ Open \/ Reconcile \/ NextBody \/ Interrupt
  \/ Check \/ Poll \/ Stuck \/ Elapse \/ Prepare \/ Post \/ Answer \/ Unpend
  \/ NextGroup \/ RoundEnds \/ Confirm

\* Analytics and the network.
Carries == Arrive \/ (net.launch \notin alive /\ Vanish) \/ Unheard
Stores == \E b \in queue : Store(b) \/ Drop(b)

\* The owner, its observation of Analytics, and its launches.
Owns == Serves \/ Noticed \/ Relaunch \/ OwnerStarts

Troubles ==
  \/ SlowWrite \/ TurnedAway \/ AnswerLost \/ (net.launch \in alive /\ Vanish) \/ Unhealthy
  \/ \E l \in alive : Exit(l)
  \/ OwnerCrashes \/ Retire

LogForwarderNext == Forward \/ Carries \/ Stores \/ Owns \/ Troubles

LogForwarderSpec == LogForwarderInit /\ [][LogForwarderNext]_lfVars

\* The forwarder's fiber, the network, Analytics and the owner each go on.
FairLogForwarderSpec ==
  /\ LogForwarderSpec
  /\ WF_lfVars(Forward) /\ WF_lfVars(Carries) /\ WF_lfVars(Stores) /\ WF_lfVars(Owns)

-----------------------------------------------------------------------------
(* What the session relies on.                                             *)

Settled == stored \union gone \union skipped

Shipping == session.at \notin {"off", "open", "paused"}
Delivering == session.at \in {"check", "wait", "prepare", "post", "posting"}

IdsOf(groups) == UNION {groups[i] : i \in DOMAIN groups}

\* What the session has yet to deliver, to post again or to give up.
Ahead ==
  IdsOf(session.groups) \union IdsOf(session.suspects) \union session.out
    \union (IF Delivering THEN session.wanted ELSE {})

\* The records up to the end of a shipment are in it or need no shipping.
Covers(ids, end) == \A e \in Events : cursor.confirmed < e /\ e <= end => e \in ids \union Settled

\* Every id of the shipment is settled or still ahead, whatever was split, set
\* aside or dropped on the way.
SessionIsComplete ==
  /\ Shipping => Covers(session.ids, session.end) /\ session.ids \ gone \subseteq session.known
  /\ Delivering \/ session.at = "next" => session.ids \subseteq Settled \union Ahead
  /\ session.at = "confirm" => session.ids \subseteq Settled

\* What a check found missing is all that was left unstored of what is delivered.
DeliveryIsComplete ==
  /\ session.at \in {"wait", "prepare", "post", "posting"} =>
       session.wanted \subseteq session.missing \union stored
  /\ session.at = "posting" => session.posted = session.missing
  /\ Delivering /\ session.isolating => session.wanted \subseteq session.group
  /\ ~session.isolating => session.groups = <<>> /\ session.suspects = <<>> /\ session.out = {}

\* What the cursor has passed is stored, was deleted by retention, or was given
\* up (settle confirms the whole shipment, LogForwarder.ts:737).
NothingIsLost ==
  \A e \in 1..cursor.confirmed : e \in stored \union gone \union skipped

\* So do the records up to the end of the body on record.
PendingIsComplete == cursor.pending # NoPending => Covers(cursor.pending.ids, cursor.pending.end)

LogForwarderInv ==
  /\ LogForwarderTypeOK
  /\ NothingIsLost
  /\ PendingIsComplete
  /\ SessionIsComplete
  /\ DeliveryIsComplete

-----------------------------------------------------------------------------
\* An event is given up only because Analytics rejects it or never stores it, or
\* because a post of it alone got lost while a later one was stored
\* (LogForwarder.ts:676-725).
SkipsAreJust == skipped \subseteq stored \union Rejected \union Swallowed \union lost

\* The batches on their way or queued, which Analytics has yet to store or drop.
Outstanding == queue \union {Batch(post) : post \in {net} \ {NoPost}}

\* No id is on its way or queued twice: Analytics would drop the second batch with
\* all it holds (the windows of LogForwarder.ts:604-623).
NothingIsQueuedTwice ==
  \A b, d \in Outstanding : b # d => b.ids \intersect d.ids = {}

\* Whatever may still be stored is on record with the launch that may store it, so
\* that an owner that crashes now leaves the next one to wait for it
\* (LogForwarder.ts:639-652).
PostsAreOnRecord ==
  \A b \in Outstanding :
    b.ids \ stored # {} => b.launch = cursor.pending.launch /\ b.ids \ stored \subseteq cursor.pending.ids

\* Only swallowed events of the pending body are left unstored: nothing proves
\* that Analytics stores, and the session posts them alone again and again.
HeldUp == cursor.pending.ids \ stored # {} /\ cursor.pending.ids \ stored \subseteq Swallowed

\* Every record is shipped in the end, unless Analytics refuses the owner for good
\* or stores nothing of the body that comes next (LogForwarder.ts:866-898).
LogsAreShipped ==
  <>[](Events \subseteq (1..cursor.confirmed) \union gone \/ session.at = "paused" \/ HeldUp)
-----------------------------------------------------------------------------
(* What the windows rely on.                                               *)

\* Launches serve one after the other: at most one of this owner runs, and what is
\* on record was posted to it or to an earlier one.
LaunchesInOrder ==
  /\ own <= launch + 1
  /\ \A l \in alive : l <= launch /\ (l >= own => l = launch)
  /\ target \in {0, launch} /\ (target # 0 => own <= target)
  /\ ~ownerUp => target = 0 /\ session.at = "off"
  /\ cursor.pending # NoPending => cursor.pending.launch \in 1..launch
  /\ session.at \notin {"off", "paused"} =>
       /\ session.launch \in own..launch /\ session.launch \in Launches
       /\ session.latest <= session.launch
       /\ cursor.pending # NoPending => cursor.pending.launch <= session.launch

Apart(groups) ==
  \A i, j \in 1..Len(groups) : i # j => groups[i] \intersect groups[j] = {}

\* isolate holds no event twice, and the shipment holds what it holds of the known
\* events, so that what is posted is part of the body on record.
GroupsAreApart ==
  /\ Apart(session.groups) /\ Apart(session.suspects)
  /\ IdsOf(session.groups) \intersect IdsOf(session.suspects) = {}
  /\ session.out \intersect (IdsOf(session.groups) \union IdsOf(session.suspects)) = {}
  /\ Delivering /\ session.isolating =>
       session.group \intersect
         (IdsOf(session.groups) \union IdsOf(session.suspects) \union session.out) = {}
  /\ (IdsOf(session.groups) \union IdsOf(session.suspects)) \intersect session.known
       \subseteq session.ids
  /\ Delivering =>
       (session.wanted \union (IF session.isolating THEN session.group ELSE {})) \intersect session.known
         \subseteq session.ids
  /\ session.at \in {"post", "posting"} => session.missing \subseteq session.known

\* Where the session goes on, what is on its way or queued is stored already; where
\* it waits, only the latest post may yet be stored.
WindowsHold ==
  /\ session.at \in {"next", "confirm", "unpend", "prepare", "post"} =>
       \A b \in Outstanding : b.ids \subseteq stored
  /\ session.at \in {"prepare", "post"} =>
       \A b \in Outstanding : b.ids \intersect session.missing = {}
  /\ session.at \in {"check", "wait"} =>
       \A b \in Outstanding :
         b.ids \subseteq stored \/ (b.launch = session.latest /\ b.ids \ stored \subseteq session.wanted)
  /\ session.at = "wait" =>
       \A b \in Outstanding : b.ids \intersect session.missing # {} => b.launch = session.latest
  /\ session.at = "wait" => session.latest # None
  /\ session.at = "posting" =>
       \A b \in Outstanding : b.ids \subseteq stored \/ b = Batch(net)

\* What is posted is on record, and is not queued before it is taken.
PostIsOnRecord ==
  /\ session.at \in {"post", "posting"} =>
       /\ session.missing # {}
       /\ cursor.pending = [end |-> session.end, ids |-> session.ids, launch |-> session.launch]
  /\ session.at = "posting" =>
       net # NoPost /\ net.launch = session.launch /\ net.ids = session.missing
  /\ net # NoPost /\ net.answer \notin {"sent", "unsettled"} => Batch(net) \notin queue

WindowsInv == WindowsHold /\ PostIsOnRecord /\ NothingIsQueuedTwice /\ PostsAreOnRecord

\* What keeps an event from being stored though its launch runs.
Accounted == stored \union Swallowed \union lost

\* The launch of the session ended before it stored anything of its latest post.
EndedUnstored ==
  /\ session.launch \notin alive
  /\ \A b \in queue : b.launch # session.launch
  /\ session.posted \intersect stored = {}

\* A post of a group of one that was taken, or got lost on the way.
TriedAlone ==
  /\ session.isolating /\ Cardinality(session.group) = 1
  /\ \/ session.at \in {"check", "wait"} /\ session.latest = session.launch
     \/ session.at = "posting" /\ net.answer \in {"sent", "unsettled"}

\* A suspect is left unstored for a reason of its own, unless the launch ended, and
\* then no later post proves that it stores.
SuspectsAreJust ==
  /\ session.out \subseteq Rejected
  /\ ~Shipping => session.suspects = <<>>
  /\ Suspected(session.proved) \subseteq Accounted
  /\ IdsOf(session.suspects) \subseteq Accounted \/ EndedUnstored

\* A group that isolate posts waits for its own launch only, and what became of a
\* post of one event is known.
LonePostsAddUp ==
  /\ net.answer = "rejected" => net.ids \intersect Rejected # {}
  /\ session.isolating /\ Delivering =>
       \/ /\ session.latest \in {None, 0}
          /\ session.at \in {"wait", "prepare", "post"} => session.missing \intersect stored = {}
       \/ /\ session.latest = session.launch /\ session.at \in {"check", "wait"}
          /\ session.posted \subseteq session.group
  /\ TriedAlone =>
       \/ session.group \subseteq Accounted
       \/ [launch |-> session.launch, ids |-> session.group] \in queue
       \/ session.launch \notin alive

GivingUpInv == SuspectsAreJust /\ LonePostsAddUp /\ SkipsAreJust

LogWindowsInv == LaunchesInOrder /\ GroupsAreApart /\ WindowsInv /\ GivingUpInv
=============================================================================
