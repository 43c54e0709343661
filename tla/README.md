# A verification project for Bloom

Bloom helps a student who drifts during a lecture: the desktop application and
the local workers notice it, the backend keeps the live transcript of the
lecture, and a recovery card summarises what was missed; the professor sees
what a group of students, never one of them, has found hard. This directory
holds TLA+ models of the parts of it where several things happen at once or one
after the other in an order nobody wrote down, the TLC configurations that check
them on small instances, and proofs, checked by TLAPS, of the statements that
matter most for every size of the system.

`PROJECT.json` is the index: which definition models which lines of the source,
which run checks which property, and, for every property, a *slip*: a mutated
definition, kept in the module beside the right one and marked `\* slip`, under
which TLC finds the property violated.

    cd tla
    tlasany M.tla                        # parse
    tlc -workers 2 -config X.cfg MCM.tla # check the run X of the module M
    tlapm MProofs.tla                    # check the proofs

## The system and its components

The backend (`src/backend/app`) is one process: FastAPI runs `def` handlers in a
thread pool and `async def` handlers, WebSocket routes and Zoom streams on one
asyncio loop. State is in `InMemoryStore`, whose mappings are dictionaries or,
with MongoDB, facades that decode a document at each read and replace the whole
document at each write. The desktop application (`src/frontend/src`) is an
Electron main process and a renderer that exchange ordered messages, with a
second window, the overlay, over Zoom. The local workers are programs of their
own that read a camera or a recording.

| Component | State | Operations | Interacts with | Modules |
| --- | --- | --- | --- | --- |
| Zoom RTMS streams (`integrations/zoom/service.py`) | a slot and a status for each session, a task for each stream | link, `rtms_started`, `rtms_stopped`, end, late transcript, shutdown | sessions, transcript | `ZoomStreams` |
| Zoom protocol (`join_link`, `protocol`, `rtms_client`) | the binding of a session to a meeting, two connections with their handshakes | bind, accept a webhook, connect, receive, lose | Zoom, transcript | `ZoomTranscript` |
| Sessions (`sessions`) | session records, join codes | create, resolve, end | Zoom, event stream, all that asks whether a session is active | `ZoomStreams`, `Catalogue` |
| Transcript (`transcript`) | chunks of each session with revisions | ingest a batch, read a window | recovery, Zoom, event stream, reports | `TranscriptBatches`, `AtomicBatches` |
| Recovery (`recovery`) | jobs, keys, cards, cache, owners, external consent, one execution lock | create job, read job and card, consent, revoke | transcript, signals, costs, providers | `RecoveryJobs`, `RecoveryContext` |
| Signals (`signals`, `professor/service.py`) | events with the student's verdict | ingest, confirm or deny, summary | recovery, reports | `SignalEvents` |
| Aggregation (`signals` participants, `professor/metrics*`) | consent of each participant, coverage | register, choose, coverage batch, report | sessions, recommendations | `AggregationConsent`, `ClassReport` |
| Delivery, recommendations, tools (`delivery`, `professor/recommendations`, `ai`) | delivery events, runs, reviews, the lock of the learning state | ingest, generate, review, run tools | reports, providers, transcript | `Insight` |
| Catalogue (`users`, `courses`, `lectures`, `enrollments`) | records by id | register, log in, create, delete, enrol, leave | sessions | `Catalogue`, `Campus` |
| Session documents (`timeline`, `dropbox`) | a document with a revision | compare-and-swap update, link, export | Dropbox | `SessionDocuments`, `AtomicLinks` |
| Event stream (`ws`) | a bounded queue for each connection | subscribe, publish, drain, unsubscribe | every publisher, the desktop | `EventStream` |
| Desktop stream (`main/session_events.ts`, renderer services) | socket, timer, active session, shown transcript | follow, reconnect, forward, join, render, load | event stream, REST reads | `DesktopStream` |
| Overlay (`main/drift_recovery.ts`, `zoom_overlay_window.ts`, `zoom_monitor.ts`, `renderer/overlay.mts`) | the pending interval, the window with its page and idle timer, whether Zoom runs | prompt, recover, retry, answer, dismiss, show, hide, poll | camera monitor, recovery | `StudentOverlay` |
| Camera of the desktop (`student_camera_monitor.mts`, `student_signal_tracker.mts`) | the monitor, its switch, conditions under way | start, tick, stop, report | overlay, signals | `CameraMonitor`, `DesktopSignals` |
| Local workers (`local_ml`, `scripts/run_*`) | conditions under way, the baseline, sampling | observe, skip, gap, flush, unavailable | signals | `StudentSignals`, `VisionSignals`, `LocalCapture` |

What makes each of them correct, in a sentence: a stream is reachable until it
is closed and closes when its session ends; what was streamed or accepted is in
the timeline, once; a card is its student's, answers what was asked and left the
process with consent only; what the professor sees stems from a group who allow
it; a consent is what was last chosen; who was told something may rely on it; a
record that was stored is reachable; a buffer is bounded and drained; the desktop
ends up where its user is; a camera that is on is shown to be; a reported
interval was seen, and what lasted is reported.

What is hard, and what the models are therefore about:

* threads of the pool and tasks of the loop interleave inside read-check-write
  sequences that hold no lock (`link_session`, `ingest_batch`, `ingest_events`,
  `register_participant`, `publish`, registration, lectures);
* a handler awaits, and the world has changed when it resumes (`_stop_stream`,
  the transcript read of the renderer, a recovery asked for by a prompt that has
  been replaced);
* with MongoDB a value read is a copy: whoever saves last wins;
* a store may fail, or the process restart, between two writes of one request;
* clients retry with the same idempotency key, event id or batch while the
  first request is under way;
* a consent is withdrawn while something that needs it is running;
* connections drop, half of a pair drops, and what was announced meanwhile is
  lost, sent again or reordered;
* a window is closing while its successor is shown, a page still loading, a
  listing of processes slower than the next one;
* samples come early, late or not at all, while conditions begin, pause and end;
* a queue, a map or a number of attempts is at its bound.

`PROJECT.json` lists these under "hazards", each at the line where it bites and
with the properties that would notice.

## The modules

`MC<Module>` extends a module for TLC: it gives values to the constants that a
configuration cannot write down, or names the symmetry. It holds nothing else.
All data that the properties do not tell apart is abstracted to model values or
small sets; all control (guards, early returns, the order of writes, the points
where others may run) is kept. `CHECK_DEADLOCK FALSE` stands in every
configuration because every system here may stop: the requests of the run are
used up, and nothing obliges a client to send another.

Three conventions recur. *Choices of `Init`*: whether the stores are MongoDB
(`durable`, `mongo`), whether a provider is live, whether people wait for their
answers (`calm`, `patient`, `setting`) are variables that never change, so that one run covers
all of them. *Remembered facts*: variables such as `choice`, `answered`,
`denied`, `receipts` record what was answered to whom, and others which overlaps
have taken place (`overlapped`, `overtaken`, `raced`, `torn`); no guard of an
action reads them. *Overlaps*: where the code is known to lose an update when
two handlers overlap, the behaviours are in the model, the property names the
overlap that does it, and claims what is left: only the stream, the student or
the utterance that the overlap was about is excepted.

### ZoomStreams (`integrations/zoom/service.py`, `rtms_client.py`, the two routes)

A step is the code between two awaits. `states` is `_states` (status, stream id
and the slot), `streams` the stream objects with the phase of their task,
`proc` the program counter of each request, of each background `stop_session`
task and of the shutdown hook. `_stop_stream` is three steps: `TakeStream`
empties the slot, `CloseStream` is `stream.stop()`, `Joined` the join of the
cancelled task; `StreamEnds` is the end of `_run_stream` with its `finally`.
`link_session` runs in the thread pool and is cut after its checks, after its
save and before it marks the stream state. Webhooks overlap each other and all
else, as nothing in the routes puts them in a row; a session may have been bound
to a meeting when it was created; `mongo` says whether a session is a copy.
Requests are numbered in the order in which they arrive, since nothing else
tells two of them apart. Two facts are remembered: `overtaken`, the links that
had read a session active and not written it when it ended, and `raced`, the
streams launched while another `rtms_started` of the session waited for the stop
of an older one.

### TranscriptBatches, AtomicBatches (`transcript/service.py`) and ZoomTranscript (`zoom/join_link.py`, `protocol.py`, `rtms_client.py`)

A batch is taken chunk by chunk. In memory a request first walks the shared list,
a position at a time, to learn the revisions of its ids (`LookUp`), then acts on
it, and what replaces a prior chunk is removed (`RemovePrior`) and appended
(`AppendChunk`) in two steps, between which others look, remove and append; with
MongoDB the batch works on its copy and writes it at the end (`Stored`).
`overlapped` records whether two batches ever ran at once, `torn` the ids of the
batches that were looked up while a text was being replaced. `AtomicBatches` is what
`ingest_batch` documents: an accepted batch takes effect at one instant and a
rejected one leaves no trace. `BatchesAreAtomic` is the refinement, claimed
where it holds: MongoDB, as long as batches do not overlap.

`ZoomTranscript` composes the ingestion with what feeds it. The owner binds the
session to a typed meeting id or a link (`CanBind`, `Bound`), a signed webhook is
accepted for it (`Verified`, `Concerns`), the client opens
the signalling connection, then the media connection, each with a handshake that
may be refused or time out, and turns messages into chunks whose id is derived
from speaker and time, so that a message sent again is a duplicate. The pump is
one of the requests of `TranscriptBatches` and shares its chunk-by-chunk steps
with uploads in other threads. `lost` says which connections are gone: the loss
of the one the client waits on ends the stream (`LossEndsStream`). An upload
that carries the id of a Zoom chunk is taken to be a correction: its revision is
not the one Zoom's chunks have.

### RecoveryJobs (`recovery/service.py`, `validated.py`, `cache.py`, `consent_routes.py`) and RecoveryContext (`intervals.py`, `evidence_matching.py`, the bounds of a window)

A request waits for the execution lock (`MayEnter`), finds an earlier job under
its key (`Replay`) or stores a queued job (`StoreJob`), binds the key, reads the
window, uses the cache or generates, stores the card, the cache entry and the
completed job, one step for each write to the store. With `durable`, `Fault` may
end a request at any store access and `Restart` clears what lives in the
process, the owners of jobs among it: `MayReadJob` and `MayReadCard` are what the
reads then allow. A revocation holds the lock over several steps: it withdraws
the consent (`RevokeBegin`), drops the cache entries of the student's cards one
by one (`DropEntry`) and is answered (`RevokeDone`), unless the store fails
(`RevokeFault`) or a restart cuts it short; `revoked` are the cards that an
answered revocation covers. Transcript corrections (`Transcribe`) and consent changes
happen at any time. `Deployments` are the stores and providers explored: a live
provider over both stores, and the mock in memory.

`RecoveryContext` is the pure part, as operators: the interval that was asked
for merged with those of its source events (`Merged`), padded and clipped to the
lecture, the chunks that meet it limited in number and in characters, and which facts of a draft survive
the matching of quotes. `ContextsAreWhole` checks every request there can be on
the short lecture clock, not only those of the run; the behaviours use the same
operators for the windows they read. The reference is one context, from the first
moment of what it is about to the last, with the others left apart.

### SignalEvents (`signals/service.py`, `professor/service.py`) and Insight (`delivery`, `professor/recommendations.py`, `recovery/consent_routes.py`, `ai`)

`SignalEvents` has the list of events, which nothing locks: in memory one list
that requests append to after their duplicate check, with MongoDB a copy that is
written back. `ConfirmStore` corrects the event that it
finds first. A demo summary
counts the students, then reads everything again for the buckets and for the
intervals (`SummaryCount` to `SummaryIntervals`). What each of these reads shows
is a `Part`: the students it shows, and the denials that were answered by then.
Nothing ties the parts to the count, so a part may show fewer students than were
counted.

`Insight` adds `LearningState.lock`, which is held over a call of the provider:
delivery batches with their conflicts and repeats, the consent of the professor
and the students to external text, recommendations over the released report,
their reviews, and tool runs with rounds, calls, failures and grounding. The
events and the participants of a report are not under that lock. Each student
has one event and each lecture one bucket. `setting.pace` says whether requests
follow each other (`serial`), each person waits for answers (`calm`), or
anything goes (`free`).

### AggregationConsent (`signals/service.py`, `professor/metrics.py`, `metrics_routes.py`) and ClassReport (`professor/metrics.py`)

With MongoDB the participants of a session are one document that registrations
and consent changes read and write back. In memory they are shared, but a
consent is set on the record that was fetched before the lock (`record`), which
another registration of the student may have replaced by then (`Detached`); the
registration that comes last brings its own consent. `raced` are the students
whose choice may be lost so: one of whom two registrations were under way at
once, and with MongoDB everybody once two handlers have the document. Joining is
a choice for who has made none yet, and for nobody else.

Coverage is checked against the consent and stored
later, under the lock; a report reads the consents, then the coverage of each
bucket. `ClassReport` is what a report computes from intervals: the union of each
student's coverage, the groups and their suppression, the ratios, signals that
are counted for a student once however often they were sent, hotspots and the
deliveries near them. `ReportsAreSafe` evaluates it for every combination of the
histories, signals and deliveries of the configuration against a reference that
looks at every moment of the lecture.

### Catalogue (`courses`, `enrollments`, join codes of `sessions`) and Campus (`users`, `lectures`, the deletion of a course)

Check and write of each handler are two steps, with two requests at a time.
`answered` remembers what a student was last told about a course. Two draws of
one join code at the same instant are left out (there are 32^6 codes); the
reuse of a code after its session has ended is in. `Campus` adds accounts, whose
email is looked up before the password is hashed and the account stored, logging
in, and lectures, which a deleted course takes with it in a sweep of several
steps. Accounts, lectures and the catalogue share no record that two of them
write, so a behaviour is in one of the three (`part`). In `calm` use a person
waits for each answer and no store fails.

### SessionDocuments and AtomicLinks (`timeline/repository.py`, `dropbox/service.py`)

`Load` and `Replace`/`LoseReplace` are the two halves of compare-and-swap; the
in-memory repository is the sub-behaviour where they are adjacent. An export
reads the folder of its actor and writes the file after an await. `AtomicLinks`
is the abstract specification: a link takes effect once or is refused without a
trace; `LinksAreAtomic` is the refinement. The repository's `delete`, which
would restart the revision, is called by no code and left out.

### EventStream (`ws/publisher.py`, `ws/routes.py`)

`publish` runs in threads, the route on the loop, and they share an
`asyncio.Queue` that is not made for it, so `put_nowait` and `get_nowait` are
split into the test and the act. A connection is accepted, subscribed, welcomed
(outside the `try` whose `finally` unsubscribes), and then alternates between
the verification of its token, a drain of its queue and a short wait.

### DesktopStream, StudentOverlay and DesktopMain (`main`, renderer services, `overlay.mts`)

`DesktopStream`: the main process holds the socket, the timer and the session it
follows; the renderer the active session, the session it asked main to follow,
the shown transcript, a join and a transcript read that may be under way.
Commands and frames are ordered channels. The backend appears as what the
desktop sees of it: sessions end, revisions are stored and announced in any
order, nothing is replayed to a socket that opens late.

`StudentOverlay`: `pending` is the interval the main process would recover,
`page` what the overlay's page shows, `loading` the page that has not reported
back; a request, a click on its way, windows that are closing and listings of
processes may be under way at once. An action is a handler with all that it calls: a
prompt remembers the interval, opens or reuses the window and sends the page a
message, which is lost if the page is being replaced. Electron's `close()` is
taken to be asynchronous, up to `MaxClosing` windows. `strays` is what those
windows show that the process has forgotten while they were open: they go on
offering their buttons, whose clicks arrive, and are never told anything. From
the first such loss on, windows close at once (bound). In `calm` use windows
close at once, no new drift is reported while a click or a request is under way,
and nobody clicks on a page that is loading.

`DesktopMain` is both. They share the client of the backend and no state, so a
behaviour takes place in one of them.

### CameraMonitor (`student_camera_monitor.mts`, the switch in `index.mts`)

The renderer is single-threaded: an action is the code up to the next await.
The state of both modules is the record `app`, and the functions of the code
that call each other (a render stops a camera, a failed stop shows an error,
showing it renders) are operators from record to record, so each action is the
whole chain the code runs. `stop` is `stopPromise` and `waiting` the handlers
that await it. The tracker is abstracted to what it yields: nothing, an event,
or the exception for a clock that has not moved. `patient` says that people wait
for what is in progress.

### StudentSignals, VisionSignals, DesktopSignals and LocalCapture (`local_ml`, `scripts/run_student_signals.py`, `run_vision_on_video.py`, `student_signal_tracker.mts`)

Each of the three trackers of conditions is a module of operators on the
tracker's record: what one observation does to the conditions that are running,
which intervals it reports, what a gap, an unavailable source and a flush do. The
student's worker bridges short pauses and judges the turn of a head by a
baseline, the presenter's slows its sampling down and waits a cooldown, the
desktop's reports at once and only once. `LocalCapture` has the programs that
call them: strides of a recording, frames that are not analysed, hidden tiles,
lost cameras, failed inferences, a clock that does not advance or passes eight
hours, Ctrl-C between and during analyses, a monitor that is stopped. `samples` is
the history of samples, and the properties are a definition of a backed report
in terms of it. `PoliciesInUse` is what the default policies have in common, which
every program builds (`StudentSignalPolicy()`, `VisionPolicy` with its profile
only): no sampling is slower than the gap that ends a condition (334 and, slowed
down, 2000 against 2000 ms), and the merge gap (1000 ms) is no longer than it. Scores are levels below, at and above the threshold; medians are
whole because a yaw is 0 or 2.

## The runs

| Run | Shows | Bounds |
| --- | --- | --- |
| `zoom` | overlapping webhooks, links and ends over both stores: a slot holds a running stream (`SlotIsLive`); every running stream is in its slot or held by a handler that closes it, unless it raced (`NoOrphan`); the shutdown tells the others to stop (`ShutdownStopsAll`); a session's end is announced once, and once more at most for each link it overtook in MongoDB (`AnnouncedOnce`); no handler waits for ever (`HandlersFinish`); an ended session's streams close, unless they raced (`EndedSessionDrains`) | 1 session, 1 meeting, 2 stream ids, 4 requests, 1 stop task at a time |
| `zoom_announced` | violated: `session.ended` is published once (`EndPublishedOnce`), as the docstring of `end_session` has it | 2 sessions, 1 meeting, 1 stream id, 3 requests |
| `transcript` | an utterance is in the timeline once, however often it is sent again, unless it was looked up while a text was being replaced, and in memory what was streamed stays there until a newer revision replaces it (`UtterancesStoredOnce`); atomic batches in MongoDB while they do not overlap (`BatchesAreAtomic`), a stream ends with either connection (`LossEndsStream`) | the stream and 2 uploads, each of one of 7 batches of up to 2 chunks, 2 revisions |
| `recovery` | a card answers the window its job has read and only its student reads it (`CardsAnswerTheirJob`), generation needs consent (`GeneratesWithConsent`), one job for a key (`OneAnswerPerKey`), cards of before an answered revocation are not reused (`RevokedNotReused`), contexts are what the reference says (`ContextsAreWhole`) | 3 requests, 2 students, 1 key, up to 2 events on a lecture of 6 ticks, 2 chunks, faults and restarts anywhere, within a revocation too |
| `insight` | denials reach every copy of an event (`DenialsHold`), no part of a summary shows who had denied before it was read (`SummaryOmitsDenied`), receipted deliveries stay (`DeliveryIsKept`), text is out with consent only (`AskedWithConsent`), reviews are of the stored run (`ReviewsBelong`), the lock is released (`LockIsReleased`) | 2 students and a professor, 3 requests, 2 at a time, minimum group 2, 2 rounds |
| `consent` | what is stored is what was chosen (`ConsentIsHonoured`) and reports leave out who withdrew (`ReportsOmitWithdrawn`), but for the students who raced, every report is safe and counts what the reference counts (`ReportsAreSafe`) | 3 students, 2 requests at a time, minimum group 2; a lecture of 6 ticks in buckets of 4, 4 histories, 3 sets of signals and 3 of deliveries |
| `folders` | compare-and-swap implements atomic links (`LinksAreAtomic`), a conflict is real contention (`ConflictMeansContention`) | 4 requests, 3 actors, 2 folders, capacity 2, 2 attempts |
| `stream` | the queue's overshoot is bounded (`OvershootBounded`), who must leave does (`ExpiredLeaves`), what is queued is sent (`QueuedIsDrained`) | 2 threads, 1 connection, depth 1, 4 envelopes |
| `desktop` | one socket for the session followed (`FollowsOneSession`), the live session is followed in the end and an ended one left (`FollowsActive`); the overlay keeps its promises in calm use (`OverlayStandsReady`), a request is answered unless a window that waits was lost (`AskedIsAnswered`), Zoom that comes or goes is noticed (`ZoomIsNoticed`) | 2 sessions, 1 fault, 3 visits; 2 intervals, 1 closing window |
| `camera` | one camera stream at most, which someone can still close (`NoStrayStream`); in calm use a watching camera is shown to be (`WatchingIsShown`) | 2 starts, 2 sessions |
| `observers` | what is reported was seen and is reported once (`ReportsAreBacked`), what lasted is reported (`SustainedIsReported`) | steps of 0 to 3 ticks up to tick 10; 4 kinds of frames of the student, 3 of the presenter, 3 findings of the desktop |
| `catalogue` | a live session's code leads to it (`ReachableByCode`), what a student was told of an enrolment is so (`AnswersHold`), accounts and lectures stay reachable (`RecordsAreReachable`) | 2 students and a professor, 2 courses, 2 sessions, 2 codes, 2 emails, 3 accounts, 2 lectures, 2 requests at a time |

Why the bounds are enough: each hazard needs two actors that interleave and a
third whose step falls between them (three requests, a stream and two uploads,
two threads and a connection); a capacity of one or two is full after as many
steps; one restart or fault at any point is a crash between any two writes.
Sessions, students and folders come in pairs because the properties relate one
to another, and a minimum group of two loses its quorum by one withdrawal. (The
streams of `zoom` are those of one session: handlers of different sessions share
no slot, and its theorems hold for any number.) In
`observers` the durations are 2 to 4 ticks, so that samples come early, at and
beyond each limit, and ten ticks hold a condition that is reported, its pause or
cooldown, and another one. Bounds on counters are constants named `Max...` and
are marked `(bound)`.

### Fairness

Only what the scheduling of the code justifies. `ZoomStreams`: the loop runs
whatever is ready (weak fairness of each handler's continuation, of a task that
was cancelled or is in a handshake, whose receives have timeouts), and Zoom
delivers transcript on an open stream again and again, which the code relies on
to reap a stream that outlived its session. `ZoomTranscript`: the ingestion goes
on and a handshake that gets no answer times out (weak); the end of a stream
whose connection is lost is scheduled in the end although ingestions come in
between (strong fairness of `StreamOver`). `EventStream`: each handler is
resumed; a client that is gone is noticed by the receive it is gone from (strong
fairness of `SeeDisconnect`, because the wait and the drain alternate).
Publishers stop at `MaxNumber`, so the liveness properties say what happens once
publishing pauses: `_drain_queued_envelope` goes on while there is something in
the queue and the token is looked at in between only when it is empty.
`Insight`: a call of the provider returns or fails (clients have timeouts).
`DesktopStream`: both processes handle their messages and timers and a
connection attempt that nothing cuts is accepted. `StudentOverlay`: windows
finish closing, pages finish loading, messages between the processes arrive, a
request of the backend is answered or fails, the interval of the monitor ticks
and a listing of processes returns or times out; that the user opens or closes
Zoom for good is the premise of `ZoomIsNoticed`, not assumed. Users, faults,
clients and requests are never obliged to do anything.

## Where the code and its documentation disagree

Met while modelling, each found by TLC when the condition of a property is
dropped or a property is added; the properties above are what remains true.

* Shown transcript: the read for one lecture is shown under another
  (`lecture_workspace.mts:186`: `setTranscriptChunks` does not look at the
  session again). No property of the project covers this hazard.
* Camera: a start that is opening the camera is neither cancelled nor checked
  again, so it opens although its switch was turned off or reset meanwhile, and
  `stopStudentCameraMonitor` finds no monitor to stop. A stop that comes while an
  earlier stop is posting leaves the newer monitor on; the failure of a stale
  analysis stops the newer monitor; a stop that fails aborts the logout; an event
  of a stopped monitor prompts for the session it left. Hence `patient`.
* Desktop tracker: a stop long after the last analysed sample reports an
  interval through time nobody saw, because the flush does not look at the gap
  (`student_signal_tracker.mts:139`) that `maximumSampleGapMs` would end it by.
* Overlay: a card that is answered clears a newer pending interval, so that the
  newer prompt is answered "lost track" (`drift_recovery.ts:188`); the late
  `closed` event of an older window makes the process forget the newer one, which
  then can neither be informed nor closed (`zoom_overlay_window.ts:57-60`, `84-88`):
  a student who waits for a card in it waits for ever; a newer
  prompt starts the idle timer again, and the card of the older one is closed
  while it is read; a click on its way to a page that has just become ready
  overwrites the card by the failure. Listings of processes overlap only when
  they outlast the interval, which two commands of four seconds do.
* Desktop stream: a change of the active session without a render is not
  followed (`index.mts:121`).
* Zoom: a webhook that is stopping an older stream launches its new stream after
  the end route has found nothing to stop, although the route documents that it
  closes the stream (`service.py:403`). Two `rtms_started` of one session that
  overlap both launch: the one that resumes last overwrites the slot
  (`service.py:403-404`, `479`), and the stream of the other runs on where neither
  the end, nor late transcript, nor the shutdown finds it; it ends when Zoom ends
  it. With MongoDB `link_session` writes back
  a session it read before the end (`service.py:259`), which is then active again
  and announced a second time when it ends, against "Publishes one
  `session.ended` event ... the first time the session transitions to ended"
  (`sessions/service.py:182-184`): the run `zoom_announced`. The timeout of a handshake is
  for each frame that is received, so other frames prolong it; a chunk's id
  ignores its text, so another text of that speaker and time is dropped; a typed
  meeting id with spaces is compared unstripped with the number of a link
  (`join_link.py:149`); a store that fails during ingestion ends the media pump,
  and the stream is shown as stopped; a signed webhook is accepted again as long
  as it is within the tolerance.
* Transcript: in memory a rejected batch leaves its first chunks, and two batches
  that both found no prior chunk store it twice, as do a replay of Zoom and a
  batch that look a chunk up between its removal and the append of its successor
  (`transcript/service.py:165-169`); with MongoDB overlapping batches lose chunks
  and corrections.
* Consent: a coverage batch that passed its consent check stores its records
  after the withdrawal has erased the others (`metrics.py:83`), and only the
  reports leave them out. "Withdrawal removes coverage and affects every subsequent
  report" (`metrics_routes.py:56`) does not hold of a student of whom two
  registrations overlap: an answered withdrawal may have landed on the record
  that the later one replaces (`metrics_routes.py:65`, `70`), or is undone by it
  when it comes after (`signals/service.py:233-238`), and later reports count the
  student. With MongoDB overlapping registrations and consent changes of any two
  students undo each other.
* Report: a bucket below the coverage ratio is suppressed but still shows its
  ratio (`metrics.py:186`); the events of each bucket are read without a lock.
* Signals: two first attempts with one event id both pass the duplicate check,
  and a denial reaches one copy; with MongoDB overlapping batches or
  confirmations lose one of the two. A summary counts, then reads again
  (`professor/service.py:184`): who withdraws or denies in between is left out, so
  what is released may show fewer students than the minimum, against "Aggregates
  are released only after the configured minimum group-size threshold is met"
  (`professor/service.py:1-8`).
* Recommendations: a review may attach to a run that was regenerated in a second
  window; a run is cached by the report's revision, which a correction of the
  transcript does not change, so it may quote text that was replaced; tool runs
  check quotes against a transcript that is read again after the lock.
* Event stream: two threads exceed the bound of a queue, and the newer envelope
  may be the one dropped; a client that is gone before its welcome leaves its
  queue subscribed.
* Recovery: a restart between the store of a job and its execution leaves it
  queued for every retry; after a restart a student may not read the own job
  until the key is tried again (`validated.py:157`). A revocation that the store
  or a restart interrupts (`consent_routes.py:43-54`) has withdrawn the consent and
  left cards that the cache still names: a student who allows the provider again
  may be answered with one of them.
* Workers: at the slowest sampling the presenter's gap limit is reached by every
  sample, so nothing lasts (`vision.py:325`); at 24 frames a second the stride of
  a recording is 333 ms against a sampling of 334, so every second frame is
  skipped; an interval that is open when the lecture clock ends, or when a gap
  had just finished it during an interrupted analysis, is lost;
  `local_ml/worker.py` never flushes.
* Catalogue: two overlapping requests of a student enrol twice, against
  "Enrolling twice in the same course is idempotent" (`enrollments/service.py:92`);
  `update_enrollment` writes its copy back after the record was deleted;
  overlapping registrations of one email store a second account that no login
  reaches; a lecture created, or a store that fails, while its course is being
  deleted outlives the course; `list_courses` documents the newest first and
  returns the order of insertion (`courses/service.py:101`).

## The proofs

`tlapm` checks every leaf; nothing is assumed but the named assumptions on
constants. Each module has type correctness; the rest is:

**ZoomStreamsProofs**, for any number of sessions, meetings, stream ids,
requests and stop tasks:

* `TypeCorrect`: `TypeInv` is `TypeOK` with the fact that only a request waits
  to launch a stream; without it a stop task could build a stream and the slot
  would not have its type.
* `AnnouncementsBounded`: an active session has been announced no more often
  than links that its ends had overtaken have written it back (`WrittenBack`), an
  ended one once more. A link writes once, and each of these is a different
  request, so their number bounds the announcements; in memory a write leaves the
  end alone and there is one.
* `SlotHoldsLiveStream`: `SlotInv` adds that a request that has not finished has
  built no stream, so a launch never overwrites the object of another.
* `NoStreamOrphaned`: a handler that waits holds a stream of its own session, and
  so long as it does the slot is empty or holds a stream that was launched since,
  which a waiting `rtms_started` would mark as raced: whatever a launch overwrites
  had raced already (`OverlapInv`).
* `ShutdownReachesStreams`: the hook begins when no request is under way and none
  is served later, so every slot that holds a stream is one it has still to visit
  or the stream of a slot it holds (`ShutdownInv`); with `NoStreamOrphaned`, only
  what a stop task holds and what raced is left.

**RecoveryJobsProofs**, for any students, keys, requests, drafts and timelines.
The execution lock is the argument: a request that runs holds it (`Serial`), so
what it has read of consents (`ConsentedGeneration`), keys (`Keyed`, for
`OneJobPerKey`), stored cards (`Stored`, `Completed`) and the cache (`Unrevoked`,
`CachedCards`, for `RevocationHolds`) is still so when it writes. A revocation holds the
lock too while it drops entry by entry, and is answered when none is left; until
then, or when it is cut short, no card counts as revoked. `OwnCard` adds
`Attributed`: a job is attributed once, when its request leaves the queue, and
what is bound, owned or answered is that student's own. Faults and restarts end
a job where it stands and leave no wrong answer.

`ContextsMerge` is about what a request computes, for any lecture length (a
natural number, `ContextAssumption`), merge gap and events: the recursion over the
intervals keeps that the parts are apart and in order, that what is left begins in
the last part or after it, that each interval taken lies in a part, and that a
part is made of intervals taken (`Joined`). At its end the parts are what the
reference asks of a context (`MergedParts`, `MergedIsOne`).

**SessionDocumentsProofs**, for any actors, folders, requests, capacity and
attempts:

* `OneFolder`: links in the document and in every snapshot are functional in
  the actor (`Safe`).
* `ConflictNeedsContention`: every lost attempt was lost to a later revision
  (`LossesCounted`), which needs that a snapshot is a past state of the document,
  and its present one when the revisions agree (`SeenIsPast`).
* `LinksAtomic`: with the same facts each step maps to a step of `AtomicLinks`
  or to a stutter; `Replace` is the instant at which a link takes effect.

**CatalogueProofs**, for any students, courses, sessions, codes and requests:

* `CodesReach`: a code belongs to one session from its draw to the end
  (`CodesOwned`). While the session is created its request holds the code and the
  table has no entry for it; later the entry leads to the session. So an ending
  session releases its own code, and one that has ended before must release none.
  Drawing a code that another request has just drawn is left out of the model,
  and with it of the theorem.
* `StudentsAreToldTheTruth`: with one request of a student at a time, what a
  request has found of the student's enrolments still holds when it writes
  (`FindingsHold`), so a student has at most one record in a course.

* `CampusKeepsCatalogue`: each step of the campus is one of the catalogue or
  leaves it alone, so both hold there too, beside accounts and lectures.
* `RecordsAreReached`: an email's first account is never displaced, because a
  store appends (`AccountsInv`); in calm use an email being registered has no
  account and no second registration. In calm use the professor has one request
  under way, so a lecture whose course is gone is one that this request is about
  to collect or has still to sweep (`LecturesInv`).

**AggregationConsentProofs**, for any students and coverage batches:
`ChoiceIsStored` and `WithdrawnAreOmitted`, with the exceptions that the properties
make. Until handlers overlap on MongoDB the one under way holds a copy that is
the document still (`Copies`); in memory a student who has not raced has one
registration, before which there is nothing to decide, and decides in the stored
record (`Joining`). So what is stored and what was chosen move together
(`Honoured`), and a report begins from a student who had withdrawn only if that
student had raced (`Omitting`).

`ReportsCountGroups` is about the report itself, for any histories, signals and
deliveries that are finite sets of intervals, and any bucket length and minimum
group (`ReportAssumption`: what `LectureInterval` and `MetricsPolicy` validate).
The sweep of `CoveredDuration` keeps its cursor where the furthest interval taken
ends and its total at the number of moments covered so far, each counted once
(`Tallied`); so a sum that equals a bucket's length means a student observed
throughout, and a count shown is that of a group that is large enough.

**InsightProofs**, for any students, delivery ids, requests and rounds. All rests
on requests taking turns as far as the pace says (`Turns`). `ReceiptsStand`
needs no more than the shape of delivery records; `ConsentOutlastsTheCall`: who
is asked for holds the lock that a revocation waits for (`Asking`);
`SummariesOmitTheDenied`: whoever is denied has no other copy that a part could
show when it is read, and what it read stays as it was (`Omitting`);
`ReviewsFollowRuns`: a professor who waits has no review pending
while a run is made (`Advised`); `DenialsReachTheEvent`: a student who waits has
one copy of the event (`Single`).

**LiveLectureProofs**, what a meeting says and what reaches its members, for any
batches, replays, corrections, connections, users, threads and depth:

* `UtterancesAreStoredOnce`: `TranscriptInv` follows a chunk through a request.
  In memory the list holds whatever was announced or taken, or a handler is about
  to append a successor of it (`ThereInv`). Of an utterance that was looked up in
  peace, a walk along the list has found what it has passed (`WalkInv`), an upload
  knows the text it corrects (`UploadInv`), what the pump does not know is neither
  there nor about to be (`PumpInv`), and what is about to be there has one handler
  and no other copy (`OnceInv`); together they are `SharedInv`. With
  MongoDB each handler's knowledge describes its own copy exactly (`CopiesInv`).
  The lemmas say what editing the list does to the places of an id. That Zoom's
  utterances have ids of the model is an assumption (`IngestAssumption`).
* `IngestionImplementsBatches`: the only handler under way has a copy that is the
  document with what it took of its batch, all of it newer (`AloneInv`), so its
  write is a step of `AtomicBatches`, and every other step is a stutter.
* `BuffersAreBounded`: a thread that found room counts as if it had put its
  envelope (`Room`); whoever finds room finds less than the depth.

**DesktopProofs**, for any sessions, revisions, faults, visits, starts of the
camera and windows:

* `OneSessionIsFollowed`: a timer runs only while there is no socket, so the
  socket that a reconnection overwrites is none. It holds beside the overlay too.
* `OverlayIsReady`: in calm use a page is loaded only over a pending interval, a
  click on "recover" arrives before anything else is asked, and what is in flight
  stays pending (`OverlayInv`).
* `NoStreamStrays`: each function of the renderer, a chain of calls of the others,
  keeps the record's types and opens nothing (`Keeps`, which is transitive); a live
  stream is that of the active monitor or of the start in progress, and there are
  never both (`Held`). A stop that settles resumes any number of handlers one
  after the other; that the recursion over them is defined and keeps all this is
  an induction over their number.
* `WatchingCameraIsShown`: in calm use whatever is started or watches has its
  switch on, for the session that was rendered last (`Steady`), and nothing watches
  while a stop or a logout is under way.
* `ReportsStand`, for any frames, steps, latencies and durations within
  `PoliciesInUse`. The invariant (`SoundInv` of `CaptureInvariant`) ties what a
  worker holds to the samples: a condition under way begins at a sample that showed
  it, is joined to the last one and has bridged only short pauses (`Rooted`); the
  angles of the baseline are no more than the faces seen (`Judging`); a turn is
  timed from its beginning or the baseline is empty (`Turning`); what was reported
  lies the merge gap before the last sample and before what is under way, and the
  cooldown covers it. A sample, a skip and each end keep this, worker by worker
  (`StudentRead`, `PresenterRead`, `TrackerRead`).
* `WhatLastsIsReported`, under the same assumption, is the converse (`FullInv`):
  every run of samples up to the last is held from its beginning or before, one
  that has paused is held with its pause or was told when the pause could not be
  bridged any more (`StudentFollows`), a cooldown is that of a report
  (`PresenterFollows`), and the tracker's mark is that of a report
  (`DesktopFollows`). Whatever a sample or an end makes due is then among the
  reports of that step; what was due before stays told, as reports are never
  withdrawn (`PaidBefore`).

Where a proof needs induction over data, a set of natural numbers carries it: the
library's induction theorems take an operator, but that a set of naturals with 0
and every successor holds all of them can be proved (`LeastNatural`,
`InductiveSet`) and cited.

Each proof has one step per action. With TLC stays liveness, as fairness and
`ENABLED` are out of the prover's reach. `PoliciesInUse` is needed: with `MergeGap`
far above `MaxGap`, say, a report that a gap in the samples ended and the next one
are closer than the merge gap. The policies validate each field alone, so the
assumption is about the programs, which all take the defaults, and about
`observers.cfg`, where TLC evaluates it.

## What is not modelled

* The numeric analysis of frames: what a frame shows is a choice.
* Text: prompts, wording, quotes beyond whether they are contained, and the
  characters of Zoom's messages and links.
* Requests that are refused before they change anything, among them malformed
  ones; the checks of tokens and membership, pure functions of a request, except
  where a check is repeated or goes stale.
* Pages, components, preload, the dashboard's own prompt beside the overlay, the
  tray and the main window: markup and request plumbing.
* Settings and wiring, exports, costs and demos, contracts: pure or synthetic
  data. Provider clients succeed or fail by choice;
  `integrations/openai/adapter.py` is used by its own tests only.
* Capacities of `LearningState` and the removal of its sessions
  (`delete_session` is called by no code).

Deliberate simplifications: a window read takes chunks and revision at once,
though the code reads the timeline several times without a lock; in `Insight` a
change of the aggregation consent is one step, as `AggregationConsent` has its
parts; an overlay that is lost while it loads a page has loaded it at once.

## Plan

1. The rest of the main process: the tray, the join link, and what the main
   window and the overlay both show of one recovery.
2. Teaching moments and the view models, as operators over bounded inputs.
3. The shown transcript as a property of its own once the renderer checks the
   session of an answer again.
