# Verification of the CodeTracer JavaScript recorder

This directory models the core of the repository in TLA+: what the page's
recorder writes while callbacks re-enter it, how the frames it wrote leave the
page and when, what each seam writes of the platform and how its replay gives it
back, how a replay brings a loading page back to where it was recorded, what is
put into its pages and held of its requests, how a range of it becomes a trace,
what is masked of a visitor's typing, and how the tracing recorder instruments a
program and gets its events into a trace, in Node and in the browser.
TLC checks the modules on small instances; TLAPS proves part of them for every
value of the constants. `PROJECT.json` lists the runs, the source
lines each definition stands for, the hazards and the theorems.

## 1. The system

CodeTracer records JavaScript in two ways. The **boundary recorder** runs in a
browser page: it patches the platform's functions (the *seams*), and writes a
log of everything that crosses the boundary between the page and the browser, so
that a **replay** can run the page again against the log. The **tracing
recorder** instruments the program's source: calls to `__ct` in the
instrumented program go to a runtime, in Node through a native addon, in the
browser to a WebSocket.

| Part | State it keeps | Operations | Talks to |
|---|---|---|---|
| Recorder (`boundary-shim/src/browser/recorder.ts`) | `state`, `inFault`, `nextSeq`, checkpoint ordinal and counters, frames | `start`, `emit`, `task`, `end`, `halt`, `fault`, `guard`, `log` | the seams call it; it calls the sanitizer, the checkpoint's hash and digest providers and its sink, all of which may call it back |
| Document progress (`document-progress.ts`, `parse-census.ts`) | the scripts announced and settled, the loading phase, a census of parsed nodes | `beforeRecord`, `macrotask`, `checkpointsAllowed`, load and error events | writes `Loading` and `DocTask` through the recorder |
| HttpBatchTransport (`runtime-browser/src/batch-transport.ts`) | the ring, the batch in flight, timers, gates, counters | `append`, `end`, `halt`, `consent`, `flush`, timers, answers, pagehide | the recorder's sink; `fetch` to the ingest; tells the installation when it is off |
| Installation (`install.ts`) | the one installed control, the scrub lists | install, `stop`, `consent`, `ct.mark`, `ct.declassify` | wires recorder, transport, seams |
| Recording seams (`seams-*.ts`) | handles of timers, requests, observers | each patched platform function | call `rec.guard`, `rec.task`, `rec.emit` |
| Fetch bodies (`stream-body.ts`, `fetch-*.ts`) | a body being read, its clones, its abort | read, cancel, clone, abort | the network seam |
| Log format (`boundary-format`) | none | encode, decode, batches, checkpoint index | all of the above |
| Replay runtime (`boundary-replay/src/browser/runtime.ts`) | a cursor over the log, pending reads, held tasks, buffered effects, the latched divergence | `read`, `call`, task registration, the scheduler's loop | the replay seams, the runner |
| Replay runner (`runner.ts`, `gates.ts`, `edit.ts`) | a browser page, its gates' results | load a log, drive a page, judge it | the replay runtime |
| Node runtime (`runtime/src`) | the event buffer, the async context table, open spans | `step`, `enter`, `ret`, `write`, flush | the native addon |
| Native recorder (`crates/recorder_native`) | traces and the span table | record a batch, open and close spans, finish | an external trace writer |
| Express (`express/src`) | a span per request | open, close on finish, close or error | the Node runtime |
| Sensitive fields (`runtime-browser/src/sensitive.ts`) | the declared fields, closed trees seen, keys in flight, values remembered | which fields are sensitive, masking a keystroke, holing what leaves | the seams of the document; the replay applies what they wrote |
| Browser runtime (`runtime-browser/src/index.ts`) | an event queue, its timer, a socket | as the Node runtime, over a WebSocket | the recording daemon |
| Error reports (`runtime-browser/src/error-report.ts`) | its counters, the keys seen | capture, consent, upload, stop | the page's consent callback, `fetch` |
| Instrumenter (`instrumenter/src`) | none between modules | find the names a step may read (`scopes.ts`), rewrite (`visitor.ts`) | the program, whose `__ct` calls go to a runtime |
| Shim deployment (`boundary-shim/src/placement.ts`) | none between pages | put the bootstrap into a page, take it out | the runner's gates share its tokenizer |
| Command line, conformance suite | none between calls | sequential file and process work; tests | files |

### What is hard in it

* **Re-entrancy.** The page has one thread, but the recorder calls out while it
  is in the middle of a record. A sanitizer may write, end or fault the session;
  a sink may throw before or after it took a frame; the provider of a
  checkpoint's hash may stop the session it is asked for.
* **Failure everywhere.** Every seam runs in the page's own calls: nothing the
  recorder does may throw into them, and a log that stops must say why, once.
* **A network that answers late or never**, a page that is hidden at any moment
  and may come back, consent and configuration that arrive in any order, and a
  ring that must drop records, yet never lose one silently.
* **Time.** Flush and retry timers, a request's timeout, a checkpoint's clock.
* **Replay order.** A replay must release tasks in the order recorded and match
  reads that may settle in another order than they were made.
* **Two programs that must agree.** A seam and its replay are different code in
  different files; whatever the platform did in between, the one must ask for
  what the other wrote, at the same place.
* **Source that must mean the same.** An instrumented program, a deployed page
  and a gated page must do what the originals did.

### What would make each part correct

* Recorder: the log is always one a replay can trust (dense numbers, one
  terminal record that says how far it goes); nothing thrown reaches the page;
  the sink hears exactly once of a fault.
* Document progress: a script's records follow the position it ran at; no
  checkpoint hashes a document the parser is still building.
* Transport: every record has one fate; batches keep the order; a waiting frame
  is always awaited by a timer or a request; nothing precedes its gate; once off,
  silence; `end()` settles.
* Replay: what a replay delivers is what was recorded, or it stops at the first
  divergence; it never waits for a task nothing can register.
* Node runtime: every event reaches the native recorder once and in order, with
  its values beside it; thread switches name the context of the next event.
* Spans: a span holds the events of its request's flight, and what it says it
  measured is so.
* Seams: the replay gives each turn of the page what the turn was given, and one
  that ends with the log ran all of it.
* Sensitive fields: nothing typed into one leaves in clear.
* Runner: a range's trace is what a full trace holds there; a replay that fails
  leaves nothing running and no trace at the path asked for.
* Instrumenter: the program does what it did, and the trace is the run's.
* Deployment: the page is the author's but for the bootstrap.
* Error reports: a report leaves by the page's own yes.

## 2. The plan

| Order | Modules | Composes | Reference or abstract specification | Theorems |
|---|---|---|---|---|
| 1 | `BatchTransport` | ring, batches, gates, leaving, end | `RecordFate`, through `BatchTransportFate` | types, wake-ups, gates, silence; one fate, order, scrubbing, nothing stranded; implements `RecordFate` |
| 2 | `FlushTimer`, `KeepaliveBudget` | the transport's timing and budget, which 1 leaves open | | the deadline; a batch leaves once |
| 3 | `Recorder` | recorder and document progress | `BoundaryLog` | faults contained, the document told; implements `BoundaryLog` |
| 4 | `LoadingPage`, `PageRecording`, `ReplayRuntime` | a recording and its replay | what ran when it was recorded | |
| 5 | `NodeTrace`, `SpanResolver` | runtime, buffer, async context, Express, native recorder | a sequence of events delivered once | types, the recording kept |
| 6 | `SensitiveInput` | recording and replay of typing | what was typed where | types, secrets withheld, the replay masks alike |
| 7 | `SeamSession`, `PlatformSeams`, `MessageSeams` | the seams and their replays | the turns of the recording | types; refusals end replays; replayed as recorded, and whole |
| 8 | `FetchSeams`, `XhrSeams`, `SocketSeams` | the network's seams and their replays | the same | |
| 9 | `RequestGates`, `PageMarkup`, `RangeReplay` | runner, gates, placement | `HtmlTree`; the log's order; the full trace | |
| 10 | `Instrumenter`, `BrowserTrace`, `ErrorReports` | the tracing recorder in the browser | `ScriptRun`; the page's run | the stream whole; consent and counts |

All of it is done. What could come next: the rest of `KeepaliveBudget` (a sum
over the bodies in flight) and the messages proved; resource events
and dynamic imports in `ReplayRuntime`; asynchronous functions in
`Instrumenter`.

The order puts first what loses data when it is wrong: the upload, then the log,
then the replay of the log, then what surrounds the page. A property of a run is
often a conjunction of named parts about one concern; each part is defined, with
a comment, where the module's properties are, and each has a mutant of its own
where it could break on its own.

## 3. `BatchTransport`: the upload

`t` is the object: its state, the ring (`queue`), every batch ever built (`made`,
so that a retry sends the same bytes), the batch in flight, whether its request
is pending, the two timers, the counters, the requests on the wire. The gates
(`config`, `consent`, `consentRequired`, `siteLists`, `ringBytes`) and `halted`
are variables of their own. `written` and `stored` are the outside: what the
recorder appended and what the ingest stored. The set `t.refused` of batches
given up is kept for the properties only.

The handlers share many helpers (`pump`, `afterAnswer`, `failed`, `refused`,
`off`). Each is an operator from the old value of `t` to the new one, so a
handler is the composition the code's calls are. A handler is one step, since
the page runs it to completion. The exception is the sending loop of
`drainNow`, which makes one request an iteration: its iterations are steps
(`DrainStep`) and `draining` keeps every other handler out until it ends.

A frame is a kind, its number and a size. A drop marker holds the set of the
records dropped, of which the code keeps the count; the set is what lets
`OneFate` say *which* record is lost. `throws` is a `fetch` that throws at once
(over the document's keepalive budget); `aged` is the flush deadline having
passed while a batch was in flight. `Faults` is `guard`: whatever a handler throws,
wherever it has got to, turns the transport off (what it had done by then no
longer matters, since `off` drops all that waits and nothing follows it).

`RecordFate` says what an upload promises of each record: unwritten, held, sent,
dropped, reported or forgotten, and which of those may follow which.
`BatchTransportFate` maps the transport onto it and checks the implementation.

| Run | Question | Answer |
|---|---|---|
| `transport_delivery` | Has every record one fate and is it counted once (`Accounted`), in order (`BatchesInOrder`), whatever fails; is something always awaited (`OneWakeUp`, `NeverStranded`); does the transport implement `RecordFate` (`KeepsFates`)? | yes |
| `transport_gates` | In which order can consent, configuration and frames come, and does anything pass a gate early or unscrubbed (`GatesRespected`, `NothingUnscrubbed`, `SilentOnceOff`)? | none does; only the configuration takes the ring over its cap (`CapKept`) |
| `transport_liveness` | Does every record leave an open transport's ring, and does `end()` settle (`RecordsLeaveTheRing`, `EndSettles`)? | yes, for sessions that did not halt |
| `tools` | Do records wait no longer than the deadline (`Timely`), and does a batch outlive the page at most once (`LeavesOnce`)? | yes, see below |

Disagreements between the code and its comments that the models show, beside
these runs:

* a batch whose answers were all lost is given up as refused ("The batch will
  never be accepted", "which the ingest never saw"), but the ingest may have
  stored it: its records are then both stored and reported dropped;
* `end()` "Resolves once the final batch is answered, or the transport is off";
  when a fault stopped a session whose page had been hidden, and only a drop
  marker is left at the ring's end, no final batch is made and it never
  resolves (`EndSettles` excludes halted sessions);
* a *no* turns the transport off also where no consent is required;
  `control.stop()` after a halt makes a final batch; batches sent as the page is
  hidden may overtake an earlier one; scrubbing held frames may grow the ring
  over its cap (`CapKept` says that nothing else does); a batch pending when the
  session ended and refused afterwards is never reported;
* `FLUSH_DEADLINE_MS` says "No record of the first batches waits longer", which
  holds only while a batch can be sent: behind a slow request they wait for it;
* `pump` names the batches sent before their oldest record's deadline, "the
  configuration just arrived, or a timer armed for a record a full batch already
  took". The second cannot be, since a batch cancels the timer; but `drainNow`
  leaves it armed, so that a page that comes back may have a later batch cut
  early by it.

**Bounds.** Two records (`MaxSeq`) beside Header, Env and End give five frames
and up to five batches, enough for two batches and a later one to be in every
state at once; with `FlushRecords = 2` and sizes of 1 and 3 against a ring of 3,
a batch of 2 and a largest frame of 2, the instance has batches cut by count,
by bytes and by the deadline, eviction, and a frame too large for any batch.
`MaxRetries = 1` reaches the last retry. The gates' run has one record, since
its question is the order of the gates, but every answer of the callback and
every way scrubbing may change two sizes. The liveness run has one record as
well: Header, Env, one record and End still make batches that wait for one
another, and a ring with frames behind a batch in flight.

**Fairness.** `FairSpec` assumes weak fairness of what ends by itself: a request
settles since `AbortSignal.timeout` bounds it, a timer that is armed fires, a
loop that began goes on. It assumes nothing of the network (every copy may be
lost), of the user (consent), or of the configuration request, which has no
timeout. The liveness properties start from an open transport for that reason.

`FlushTimer` is the transport's clock, which `BatchTransport` leaves open (its
timers fire at any time): the age of each waiting record, whether their bytes
make a batch, the deadline, the timer in its two steps, and how late a browser
may run a long timer and a precise one. `Tick` is a millisecond and may not pass
a timer's latest moment. Everything that calls `pump` is an action: a frame that
fills a batch or overfills the ring (`Enqueue`), the configuration and a consent
given after it (`Configure`, `Consent`), `flush`, `End`, `Halt`, the timer, an
answer. How many records a batch's bytes hold, how many of them an eviction
drops and whether what is left still makes a batch are any the queue allows.

`WithinDeadline` says how long a record may wait while a batch can be sent, and
that less than a batch's worth waits then; `NotEarly` that no batch is cut before
the deadline's aim (or a page would make a request for every few records), but
for the cuts the code means to be early: a bound reached in records, in bytes or
by the ring, the transport's opening, `flush()`, the end or the halt of the
session, and the stray timer of a drain. The ghost `cut` tells of the last step's
batch, and whether it was one of these. The retry of a batch is its flight going
on. The run's times are scaled down (a first deadline of 4, a longest of 9 that
is no doubling of it, leads and lateness of 1 and 2), with a ring of three and
batches of two; the theorem is about all values, a deadline of 0 included.

`KeepaliveBudget` is what may outlive the page: the document's budget, shared by
the transport's keepalive requests, its beacons and what the page itself has in
flight, of which the transport counts its own requests. `LeavesOnce` says that the
browser takes a batch at most once as the page leaves; `SurvivesLeaving` that a
batch is lost with the page only if the budget had no room. Three batches of
sizes around a budget of 3, and a page body of 0 or 1, make budgets that fit,
that are exceeded by another's body and that are too small alone. A browser
without keepalive loses what is in flight, and the answer to a beacon is never
seen; the properties say so by their premises.

**Not modelled.** The status counters no decision reads; the bytes of a batch;
the back-off's length.

## 4. `Recorder`: the log

The recorder's public calls run alone, but call out. `stack` is what is left to
do of the calls under way, the next thing first: an item is a step of a method
or a call to the outside that has not returned. A step takes the first item away
and puts its continuation in its place; `thrown` unwinds up to `guard`, or to a
callback that catches it. Every place the code checks `recording` again is a
step of its own, since a callback may have changed it in between.

The outside (`CallBack`) may write a record, fault, halt or end the session,
return or throw, from the sanitizer, the checkpoint's hash and digest, the
error's conversion to text and the sink. `Read` stands for all the seams that
write one record, `Task` for those that begin a task; an import's task, whose
platform task ran page code before (`taskWithoutCheckpoint`), takes no checkpoint
though one is due. `ripe` is the checkpoint's clock: the time has passed, or not.

Assumed of the outside, and where the code says so:

* a sink that throws from `append` either rejected the frame at once, or had
  taken it and changed the session ("A sink that rejected the frame without…" in
  `emit` tells the two apart by exactly that);
* no sink ends the session from its `append` (a sink that did, under a
  checkpoint's frame, would make the final checkpoint repeat its ordinal; none
  in the repository does);
* nothing writes before `Header` and `Env`: `start` runs before any seam is
  patched.

`microtask`, which a mutation observer's callback calls, is in no module: it may
announce the running script and write where the document is before the callback's
own records, as a task's `macrotask` does.

The in-memory recorder, without a sink, is the sink that never calls back.

`BoundaryLog` is the abstract log: Header, Env, records numbered densely from
one, checkpoints numbered densely from zero among them, and at most one terminal
record that tells the last number used. `KeepsLog` checks that the recorder
implements it with `phase` read off its state.

`MCRecording` checks the recorder in one run with the network's seams of section 9,
each session being of the one or of the other.

| Run | Question | Answer |
|---|---|---|
| `recording` | With every interleaving of two nested callbacks: is the log one of `BoundaryLog`'s (`KeepsLog`), is the page never thrown into and the sink halted once (`FaultsContained`), are scripts announced once and before their records, tasks located, and checkpoints of parsed documents only (`DocumentTold`)? | yes |

**Bounds.** Three numbered records, callbacks two deep (`MaxDepth` counts the
calls that may be made from inside another), one external script, and a
checkpoint every two records. Three records hold a checkpoint between two
records, and a script's own record after its announcement; a callback inside a
callback is the deepest nesting in which one call's check is overtaken by
another's effect.

## 5. `NodeTrace` and `SpanResolver`: the trace in Node

`rt` is the runtime's state with the native recorder's: the window of the event
buffer (`buffer`, `attached`), the tracker (`known`, `lastCtx`, `tracking`), the
vector of events and the spans. `checkContext`, `push`, `flush` and the span
functions are operators from `rt` to `rt`, and an action composes them as the
code does.

A recording call is two steps, `CallBegins` (the check of the context) and
`CallEnds` (the push), since between them it encodes values, which may run
getters of the instrumented program: other recording calls, console writes, a
flush, or the session's stop. `CallFails` is a conversion that throws. Contexts
take turns in any order, a request may settle in another context than it came
in, and any batch may be one `appendEvents` fails on (`failing`); such a batch
is lost, which the code accepts and reports. The number of a call stands for its
site and for its values, so `ValuesOwn` sees a value on the wrong event.
`recorded` is a history for the properties only.

`SpanResolver` is the pass of `spans.rs` as a fold over the finished vector. A
mark is a length of the vector, and a step number is what the writer's counter
says when the pass reaches the mark. The writer is an external crate; here every
event but a value takes one number (in the code a step with a column takes two,
which stretches ranges without changing which of them overlap).

| Run | Question | Answer |
|---|---|---|
| `node_trace` | Does every event arrive once, in order, with its own values, on its thread and in the spans of the requests in flight, however calls nest and windows are cut (`EventsKept`)? Are the two measured bits of a span true (`SpansMeasured`)? | yes, but for a batch that failed: its events are lost, and what follows may be on a thread the trace never started; and for concurrency, when each span holds an event |

A span without events is given the next event's number (`.max(start_step)` in
`spans.rs`), and so overlaps, and is marked concurrent with, a span that opens
where it settled; `docs/web-request-spans.md` says only requests in flight
together are. `ConcurrencyMeasured` has the premise that each span holds an
event.

A console write checks no context, and is on the thread of the last event that
did; no text says otherwise, and `OnItsThread` leaves writes out.

**Bounds.** A window of two events makes the tracker's two events for a new
context fill one, and cuts a nested call from the call around it. `node_trace`
has two calls, one nested in the other or after it, two requests, so that each
span may hold an event, share one, or hold none, and one failing
batch of the first two. Batches are counted up to `MaxBatches` only.

**Not modelled.** Values and their encoding limits; the manifest, and events it
has no site for, which are skipped; batches kept in `flushedBatches`; what
happened in the runtime before recording started.

## 6. `LoadingPage`, `PageRecording` and `ReplayRuntime`: replaying a load

A page that loads is where a replay is hardest: the parser, scripts from the
network, timers and inputs come in an order nobody controls, and the code they
run changes the very document their order is told by. `LoadingPage` has what
both sides share: the document and the position `DocumentProgress` measures in
it. A page is a sequence of tokens (text, an element, an inline, blocking, async
or deferred script) and the code of its callbacks, of a few operations each.
`PageRecording` is the recorded session: every order the browser may choose, and
the records it leaves, whole task by whole task. `ReplayRuntime` loads the same
page again against that log, and the browser chooses again.

`rp` is the replay's state: the cursor `at`, the latched divergence `failed`,
what was let go and is waited for (`awaiting`), the gate that holds the parser,
the scripts and events still held, and the replayed document. The scheduler's
step is one action for each kind of record at the cursor, and each reads the
document anew, as `step` does after each `quiesce`. Records that run no page
code are taken in a row in the code; `row` keeps the page still between them.
The page's own steps (`GateRuns`, `ReplayParser`, `ReplayInline`,
`ReplayScript`, `ReplayDcl`, `ReplayLoad`) come at any other moment that nothing
holds them. What the page believes is held (`HeldByRunner`, from
`recordsLoading`) and what the runner holds (`Held`, from `documentPlan`) are
kept apart, as they are in the code.

`ran`, on either side, is a history for the properties: who ran, and what it
found in the document. `between` notes that a position was measured where no
gate can be: inside a run of text, which `gates.ts` names, or at an inline
script that follows another.

| Run | Question | Answer |
|---|---|---|
| `replay_order` | When a replay is done, did the same tasks run in the same order, each against the same document (`ReplaysTheSession`)? Does a complete recording of a loaded page ever diverge (`Completes`)? | they did; it does not |
| `replay_ends` | Can the scheduler and the document wait for each other for good, wherever the session ended or faulted (`ReplayEnds`)? | no |

**What the passing runs leave out, and why.** Each inline script of theirs makes
a boundary read, since the code orders tasks around an inline script by its
reads: around one without, the positions before and after it coincide, the parser
is held before it, and an asynchronous task may run before it, so that the replay
is done with the two in the wrong order. Each completes normally: where one
throws, the scheduler may take the `Error` at the cursor for one the page failed
to raise, before the parser has reached the script. An async script reads before anything
else: one that inserts first may be at a position some later token also makes,
and the replay then diverges (the tests of script starts expect it to). The
order is claimed only for a log from which the runner holds anything
(`RunnerHolds`): without a `DocTask` or a position in the parsing phase the
runner holds no script, and one the session never ran may run. Completeness is
claimed for sessions that outlived the loading, since where a session ended
before, the parser's next script may read before or after the scheduler takes
`End`. A log that lost records is in no run: one that ends in a Gap after a
position of the second phase makes the replay wait, until the runner's timeout,
for a deferred script that it holds itself.

**Bounds.** Three tokens of seven kinds, two of which run code, one input, a
timer for each `timer` operation, and a checkpoint, or none, at every task. Three
tokens put a token between two scripts, before, or after both; two scripts is
the least at which one can be let go for another; the callbacks of `DOMContentLoaded`,
timers and inputs read, that of `load` does not, so that a `DocTask` is followed
by a read, or by the next task. The liveness run has two tokens, each a
script of one of the four kinds.

**Fairness.** `FairSpec` is weak fairness of the replay as a whole: the
scheduler looks again after ten milliseconds (`documentMoved`), the browser's
parser goes on when nothing holds it, and the local build answers requests. It
assumes nothing of the order in which these happen.

**Not modelled.** Marks, the effects buffered before an input, resource events,
dynamic imports, handlers that return a promise, several executions of one URL,
cancelled tasks, a gate the page's policy refuses, level 1 (see `RequestGates`).

## 7. `SensitiveInput`: what a visitor types

Which fields are sensitive, what is masked of a keystroke's events, and what the
replay makes of it. A keystroke is several events (`KeyDown`, `Input`, …) and
the page's code runs between them: it moves the focus, cancels the keystroke,
declares fields, reads values and sends them. Several keys may be down at once,
so that a key that went down at one element may come up at another. A value is
its length and whether it holds a secret; a secret is a character of a keystroke
made at a sensitive field. The replay follows record by record, with a table of
fields of its own (`rTainted`), which only the records fill.

`NoSecretInClear` is about every record written, and what the page sends later.
Its exceptions are the ones the code has: a value shorter than
`MIN_HOLED_LENGTH`; whatever comes after a value was forgotten for a later one
(`MAX_REMEMBERED`) or a key that is still down for another
(`MAX_KEYS_IN_FLIGHT`), both of which `lost` notes; and, in a tree the shim
cannot see into, the value of a field it is never told of. There the shim learns
a value only as the page reads it, and of what the page reads it patches only the
`value` of inputs and textareas that are sensitive by themselves
(`RemembersRead`): the text of an editable, or of a field no type or declaration
of its own makes sensitive, is not remembered (`Untold`). `MasksAlike` says that the replay
takes the same fields for sensitive when it comes to an event, with values as
long, and watches the property a page could read a masked key from.

| Run | Question | Answer |
|---|---|---|
| `sensitive_typed` | Does anything typed into a sensitive field leave in clear (`NoSecretInClear`)? Does the replay mask the same (`MasksAlike`)? | no; it does |

**Bounds.** A password field, a number field, and an element with a closed tree
the recorder never saw attached, with a field in it; one declaration (of the
tree's host); two keys, of which the second is used only while the focus is in
one of the first two fields and the page holds no value it read (`SecondKey`, so
that the run stays short). Two keys
down at once, one of them held as the focus moves, and a value of one character
are the least at which an event reaches another element than its keystroke began
at and another key's events come in between; two values remembered are the least
at which one is forgotten for another, where the run stops following a session.
The bound of keys in flight is the number of keys here, so that the run loses no
key; the theorem (section 11) is about every bound.

**Left out.** The type of an input changing while it is used; a field inside an
unseen closed tree that is itself declared public; keyboards that send no key
code and change the key between a keystroke's events; removal of fields from the
document. One disagreement lies outside the run's page: a field in an *open*
shadow tree that an input makes sensitive gets no `Scrubbed` record of its own,
though `recordInput` says "An `input` writes its own `Scrubbed`".

## 8. `SeamSession`, `PlatformSeams`, `MessageSeams`: the seams

`SeamSession` is what all the seams have in common. A session is recorded as
turns of the page, each a list of what the page did in it, and the log the seams
wrote; then it is replayed: the page, the same program, does in each turn what it
did as long as it is given the same, and each seam asks the cursor for the record
it would have written. `verdict` is the outcome: `diverged` when a seam asks for
another record than the cursor's, `astray` when the page was given what it was
not given on record.

`PlatformSeams` has the seams that read (clocks, random bytes, state, storage,
cookies, media, timeline, counts), the timers of four kinds, observers, promises
of the platform (outcomes the log carries, and plain ones it does not), imports,
files of the user, and what the recorder refuses. The platform answers as it
likes, runs timers when it likes, and settles promises, several in one task. On
replay it settles its own at other times. `MessageSeams` has ports, moved by the
messages they carry, posts to the window, and events from elsewhere, which the
platform delivers in any order that keeps each port's. The two share their
session (`SeamSession`), and the run's invariants are about it: they hold of both.

| Run | Question | Answer |
|---|---|---|
| `seams` | Does each seam's replay ask for what the seam wrote, and give each turn what it got (`ReplaysAsRecorded`)? Has a replay that ends with the log run all the page did (`FollowsWhole`)? Does one ever go on past something refused (`NeverPastRefusal`)? | yes; yes; no |

**Bounds.** Nine pages, each of up to three kinds of use chosen to meet (a clock
with a timer and a refusal, state with two kinds of promise, …), four turns and
four steps; two channels and one event from elsewhere. Two promises that settle
in one task, a timer cleared in the turn it was due, and a port moved twice fit.

**Left out of the passing run, with what happens there.** Two cases are
constants, and one is a choice of pages, since the replay is known to go wrong in
them:

* `Apart`: an import with a top-level `await` settles apart from its module's
  evaluation, and the replay ends in `MissingRead`, against the comment in
  `seams-import.ts`;
* `MovesBusy`: a message that waits at a port when it is moved is dispatched at
  the moved port on replay, though `replay/message.ts` says "A port a post moved
  is followed to the port the receiver gets, as on record";
* a page of `Uses` that imports and also does what is refused (found when
  `UneditedPageReplays` could not be proved without it): the module reads or
  registers something and then uses what is refused, so that the import is never
  settled and its `Task` never written. On replay `workAfter` comes to the
  `Refusal` first and finds no work to let go (`case "Refusal": return undefined`
  in `boundary-replay`'s `runtime.ts`), so the module is not begun, and its
  first read is reported as missing: a divergence where the log is only not
  replayable;
* layout reads, history, injected input, and the comparison of the mutation
  observers' records are in no module.

Smaller disagreements seen on the way: `transferOf` ignores iterables that are no
arrays; `deliver` indexes `ev.ports` by the position in `moved` before filtering
it; a timer whose `timeout` is an object converts it twice on record;
`document.fonts.load` of no font is recorded with the index -1; timers and
animation frames share one map of handles on replay; a user's file read through
`new FormData(form).get(name)` is not marked as one, though `patchUserFiles` says
"wherever the page gets them, and every object made from their contents"
(`seams-platform.ts:193`). Nor is what is made of a file by an iterable that is
no array (`fromParts` looks at an array's parts alone) or by a `Response`'s or
`Request`'s `clone`: with `"iterable"` or `"clone"` in `Ways`, which the run does
not have, `ReplaysAsRecorded` fails, since the contents are read without a
refusal and no record has them. The run has the ways that are marked: an input,
a drop, an array of parts, a slice, the body of a `Response` or `Request`.

## 9. `FetchSeams`, `XhrSeams`, `SocketSeams`: the network

Three modules over `SeamSession`. In `FetchSeams` a response is a head, pieces
and an end; the page reads by pieces or whole, also a clone, cancels, aborts, or
waits out a timeout. Where the code writes a piece in the page's own turn when it
was there already and in a task of its own when it came later, so does the
model. `XhrSeams` is one request's states and events; what the shim's listeners
write before the page's run, and what the replay dispatches from these records
alone. `SocketSeams` has WebSockets, event streams and beacons; on replay there
is no connection, and the event is told by the record after its task.

| Run | Question | Answer |
|---|---|---|
| `recording` (the rest of it is section 4's) | Is the page given on replay, in each turn, what the network gave it (`NetReplayed`)? Is all of it run (`NetFollowed`)? Does a response end once in the log, whatever raced (`ResponsesEndOnce`)? | yes, outside the edges below |

**Bounds.** One fetch of two pieces, with a signal, a timeout, or an answer the
page may not read, and six steps; two fetches of one piece at once; one
XMLHttpRequest of each kind with two pieces, and progress; two connections with
three events each and a beacon. A piece, a cancel or abort, and the end in three
different turns is where the races are.

**Edges.** Each module's `Edges` names the cases in which its replay is known to
diverge. They are off in the run, and each is a disjunct of the model, so that
turning it on shows the trace:

| Edge | What happens |
|---|---|
| `idle failure` | the body fails with no read pending: the failure's task has no read to answer on replay |
| `unawaited read` | `read()` is called, another record is written, then the promise is awaited |
| `settled out of order` | whole reads of a response and its clone are released in the order made, not the order settled |
| `abort at once` | `abort()` in a `readystatechange` listener before any other record |
| `text of a failure` | `responseText` and headers after a failure are not reset on replay |
| `abort at its failure`, `stop at its failure` | `abort()`, or the session's end, among the events of a failure |
| `send too early`, `send at an error`, `state after an error` | a WebSocket used while connecting, in its error's listener, or read after one |
| `named close` | an event stream's event named "close" is taken for its end |
| `refused message` | a message the recorder refuses |

In no module: `open()` again from a request's own last event, responses that are
no text or are refused, page listeners that capture (they run before the shim's),
a WebSocket constructor that throws, an abort whose reason is a native
`DOMException` named TimeoutError.

## 10. Around the page

`MCTools` checks eight more modules in one run. Each part has its bounds, named
at its INSTANCE; in one behaviour only one part moves.

**`RequestGates`**: the runner answers a replayed page's requests, but holds
those of scripts and resources the log has a task of until the scheduler comes
to it. A page is up to two elements of five kinds; requests, answers, gates and
the scheduler interleave freely. `RequestsFollowTheLog`: scripts run and events
are dispatched in the log's order, at level 0 nothing else runs, and the replay
stops only when all the log has run. Edges: two elements of one URL (opening a
held resource releases every request waiting under its key), a log with nothing
to hold (an unlogged script runs), a module imported from a held script's URL
(may stall).

**`PageMarkup`** over **`HtmlTree`**: where deployment puts the bootstrap and
the runner its gates. `HtmlTree` is the reference, the insertion modes of the
HTML standard for the tokens that matter. `PagesKept`: the deployed page has the
author's tree and encoding, nothing runs before the bootstrap, taking it out
gives the page back; the gated page has the recorded page's tree. All pages of up
to four tokens out of three alphabets (modes; tables and `pre`; what may stand
before a head). Edge: an `<html>` tag again after `</body>` or inside a
`colgroup`, whose attributes the scanner misplaces a gate by.

**`RangeReplay`**: a replay's steps, any of which may fail; the range widened to
checkpoints with no frame open, found by a first replay and used by a second.
`TraceIsTheRange`: the trace is exactly what a full trace holds there, the second
replay finds the same bounds, and whatever failed nothing is left running and the
path holds no part of a trace. Frames are counted only where a trace is asked for,
so that a range without one is never replayed twice. Up to
four items of a session, frames two deep. A runner whose browser cannot be
launched leaves its temporary directory, which `EndsClean` excepts; a copy that
fails leaves the file it was writing beside the path (`<out>.partial`,
`out.partial` here), of which no property speaks.

**`Instrumenter`** over **`ScriptRun`**: programs are written statement by
statement, instrumented as `scopes.ts` and `visitor.ts` do, and run twice with
the same choices. `ScriptRun` says what a program does, from the language's
definition. `SameBehaviour`: the calls out, the values stored and the way it ends
are those of the original. `TracesTheRun`: each statement is stepped just before
it runs, in the frame that runs it, with the names readable there; frames close
once; writes are told. Five families of programs (scopes, kinds of function,
returns, constructors, jumps), of two to four statements. Edges: `shadowed later`
(its own run, below), `labelled return` and `guarded return` (a return under a
label is not rewritten; one in a `try` with a `finally` lets the clause's steps
fall outside the frame).

| Run | Question | Answer |
|---|---|---|
| `instrument_shadowed` | Does instrumenting a program ever change what it does? | yes: a step reads, for the debugger, a name that a `let` further down the same block declares again, and throws |

Also seen: a destructuring property with the key 0, and a pattern in a rest
element, get no write; frames are not closed by exceptions; an `export` of a
declaration is stepped without names, where `walkModuleItem` says it has no step;
`LineColMapper.resolve` clamps to the last line's start; functions in computed
members, parameters' defaults and case tests are not instrumented.

**`BrowserTrace`**: the queue, its timer and the socket of the browser runtime.
`StreamWhole`: the daemon hears the session from its start, in order, each event
once, and misses only batches whose send threw; nothing waits in an open
socket's queue without a timer, where the runtime has a flush interval
(`flushIntervalMs`; one of 0 or less arms no timer, and what waits then leaves
with a full queue, a hidden page or `stop()`). Six calls, a threshold of three, every moment of
opening, closing, hiding and stopping. While the socket is not open the queue
has no bound, and `stop()` while it connects loses everything; a correlation key
that cannot be serialised throws into the page (edge `unwritable key`).

**`ErrorReports`**: capture, consent, upload. `SendsByConsent`: a report leaves
only by its own yes, holed, with no privacy signal on, and
every report and upload is counted once. Answers may be given at once, settled
late, or be of the wrong type; signals and `stop` come at any time. Two reports,
three errors, four events of the outside. The guard's own failures count in
`failed`, beside the uploads'.

| Run | Question | Answer |
|---|---|---|
| `report_stopped` | Is a report the page was asked about before `stop()`, and allows after it, still sent, as the comment on `stop()` says it may be? | no: `upload` looks at the reporter's state again and declines it |

`SendsByConsent` takes neither side: it asks of what leaves that it was allowed,
stopped or not.

**`FlushTimer`** and **`KeepaliveBudget`** are in section 3.

## 11. What is proved

TLAPS proves for every value of the constants that satisfies the modules'
`ASSUME`s:

| Module | Theorem | Statement |
|---|---|---|
| `BatchTransportProofs` | `TypeCorrect` | `Spec => []TypeOK`: every handler leaves the ring, the batches and the set in flight well formed |
| | `OneWakeUpAlways` | a batch in flight has exactly one of a pending request and a retry timer |
| | `GatesAlwaysRespected` | no configuration is requested and no batch built before the consents they need |
| | `SilentForGood` | an action property: once off, no batch is built or sent |
| `RecordFateProofs` | `RecordsAccounted` | `Accounted`: every record has one fate, and the drops are counted |
| | `BatchesKeepOrder` | `BatchesInOrder`: the batches hold the log in its order, without holes |
| | `NothingLeavesUnscrubbed` | with the site's lists known, every batch was scrubbed by them |
| | `NothingStranded` | what waits in an open transport has the flush timer armed for it |
| | `TransportKeepsFates` | the refinement: `BatchTransport` implements `RecordFate` |
| `RecorderProofs` | `RecorderContainsFaults` | nothing throws into the page, the sink is halted once for a fault |
| | `RecorderTellsDocument` | scripts, tasks and checkpoints are where the document was |
| | `RecorderKeepsLog` | the refinement: `Recorder` implements `BoundaryLog` |
| `NodeTraceProofs` | `NodeTyped` | `Spec => []TypeOK`: the window is never full between two calls |
| | `RecordingKept` | `EventsKept`: events once, in order, with their values, on their threads, in their spans |
| `SensitiveProofs` | `InputsTyped` | `Spec => []TypeOK`: no key is in flight twice, the bounds are kept |
| | `SecretsWithheld` | `NoSecretInClear`: no record carries a secret in clear, but one too short to hole or of a field the shim is never told of |
| | `ReplayMasksAlike` | `MasksAlike`: the replay masks what the record masked |
| `FlushTimerProofs` | `AlwaysTimely` | `FlushSpec => []Timely`: the deadline, in both directions, whichever of the transport's handlers sends |
| `SeamProofs` | `RefusalsEndReplays` | `NeverPastRefusal`: a replay ends where the session did what is refused |
| | `SeamsTyped` | `Spec => []TypeOK`: a replay runs no task the session did not register and mints no id past its |
| | `UneditedPageReplays` | `ReplaysAsRecorded`: an unedited page is given and sees what it was and saw, no divergence is reported |
| | `ReplayEndsWithPage` | `FollowsWhole`: a replay that ends with the log has run the whole page |
| `BrowserProofs` | `StreamIsWhole` | `RuntimeSpec => [](StreamWhole /\ NeverThrowsIntoPage)`: the trace arrives whole and in order, nothing is stranded |
| | `HeardAlwaysInOrder` | the order and the wholeness where a flush may throw |
| | `AlwaysByConsent` | `ReporterSpec => SendsByConsent`: consent, and the counts |
| | `BatchesLeaveOnce` | `BudgetSpec => []LeavesOnce`: a leaving page's batch is taken at most once |

None of these is inductive alone. Beside them stand the invariants they rest on:
`Invariance`, `RecordsInvariance`, `InvHolds`, `NodeInvariance`,
`InputInvariance`.

### The transport

`BatchTransportProofs` strengthens to `Invariance`, a conjunction of named parts:
the types; *Disciplined*, which ties the batch in flight, the request, the retry
timer and `off` together (a transport that is off has neither; a batch in flight
is one of `made`); *GatesInv*, which ties the transport's state to the gates (a
transport is open only with a configuration and the consent required, waits for
consent only without it); and *DrainInv*, what holds while the drain's loop runs.
The helpers get a lemma each (what `pump`, `failed`, `refused`, `off` preserve),
and a handler is proved from the lemmas of the helpers it composes, in their
order. Its assumptions: bounds are naturals, the retry and flush bounds not zero,
sizes positive.

`RecordFateProofs` builds on it. *Sound* says where each record is: the ring is
ordered, and without a hole where no drop lies; batches are runs of records, one
after the other, and the ring comes after them; what the drop markers and the
batches not given up report are sets that do not meet. What changes this is six
moves (a frame is appended, some that wait are dropped, all are scrubbed again, a
batch is cut, a batch is given up, the transport turns off). A lemma for each
says that *Sound* is kept and that no record's fate goes back (*Fated*); whatever
else a handler does leaves the records alone (*Steady*). A handler composes them,
and *Fated* is transitive. *Armed*, that a waiting frame has its timer, is shown
at the end of each handler and not between its parts, where it does not hold.
The refinement follows: *Fated* says of one record which of `RecordFate`'s steps
happened to it, and *Sound* that those sent together are in order.

`FlushTimerProofs` needs to know of a waiting record not only its age but when
the timer armed for it will look at it: the invariant ties the age of the oldest
record to what is left of the timer and to the step it is in (they add up to the
deadline's aim, less a precise step while the timer is coarse; a timer a drain
left behind may only be earlier), and says that a transport that may send has
the timer armed for what waits and less than a batch waiting. A deadline no longer
than the lead asks for a batch at once (*Reach*). The invariant is in two parts:
what every helper keeps (*Loose*), and what is so again at the end of a handler
(*Ready*), once `armFlushTimer` has run; so `pump`, `evictToCap`, `armFlushTimer`
and `drainNow` have one lemma each, and a handler composes them. The assumptions
are `FlushAssumption`: the first deadline is no longer than the longest (the
constructor sees to it), and a long timer is late by no more than the precise
step that follows it. The last is what makes the timer's two steps enough.

### The recorder

Nearly all of `Recorder`'s state is its stack of calls under way. Each action of
the module is one of twenty moves, which say what takes the place of the first
item and which variables change (`NextMoves`); every part of the invariant is
then kept by every move. The part the others lean on is the shape of the stack:
which item may lie on which (*Follows*), down to the guard of the outermost call.
Over it: what is thrown is on its way through calls that may throw; a fault under
way has its `haltSink` on the stack, and only one; a script's announcement is in the log or about to be, before its records; a task
waiting to be recorded has its position just before it; numbers are dense, those
of records on their way included. The three theorems read off the log with an
empty or any stack. The bound of nesting is not used: callbacks may nest as deep
as they like. Assumed are natural bounds, a checkpoint interval that is not zero,
and of the calls what section 4 names.

### The trace in Node

What the native recorder holds is not what was recorded: the rest is in the
window. *Due* is both as one vector, its events and what the window will lower to.
*Tells* says, in named parts, that this vector tells the history: each call of
the program is in it once, in order, or was lost with a batch; values follow
their own event; the marks of spans cut it where their requests were; the thread
markers put each event on its context's thread. `push` adds to *Due* (and may flush, which
leaves it as it is); a batch that fails makes *Due* one of its own prefixes and
adds its calls to the lost; `checkContext` adds the markers. Over the actions, the
invariant adds that the calls under way have numbers nobody has recorded, in
the context last checked, and that the spans, the requests and the history agree
on who is in flight. *Lower* goes through `FlattenSeq`, of which the lemmas needed
(what it appends, and where an element of it comes from) are proved from its
definition. Assumed: the window holds at least one event, contexts are positive
numbers, bounds are naturals.

### What a visitor types

`SensitiveProofs`' invariant says what is known as long as nothing was
forgotten (*Withheld*): a key held down at a sensitive field is in flight; the
keystroke being dispatched, if it is secret, is the last one masked; a field that
holds a secret is sensitive, and its value remembered; a value the page keeps to
send later would be holed in what it sends. Beside it, always: a field outside the shim's sight
is never in the table of sensitive fields, and the tables of record and replay
are the same for every field a record can name. The actions that write a record
share one lemma about it (what `recordInput` decides of an event), the others
leave what was written alone. Assumed: a host
of a shadow tree is an element that can have one (here `div` or `body`), and
elements and keys are none of the model's own words; sizes are naturals, and the
bounds of keys and values are not zero.

### The seams

`NeverPastRefusal` is about where the replay is: if its cursor stood one record
off, a refused call would find another record and go on. `SeamProofs` says where
every step of the recorded page wrote: there is a function from the steps to
places in the log, each place following from the one before by what the step is
(*Placed*: a read wrote one record, a first read of a ready promise two, a call
one and its refusal, a refused call its `Refusal` or, later, nothing; a turn
opens with what its task's handler reads). The replay, while it runs, has its
cursor at the place of the page's next step, one further while the task it
released waits for the platform, and then a `Task` lies between (*Follows*); it
has moved over no `Refusal` (*Passed*). So where the page comes to what is
refused the cursor is at a `Refusal`, whether it was the first use or a later
one. On record a step extends the function (`PlacedStep`, `PlacedTurn`); on
replay it stays as it is, and a step that took another number of records than
its place allows is a contradiction. The theorem has no assumption on `Apart`: it
holds too where imports settle apart from their modules' evaluation, which the
run leaves out. Nor has the one on types: beside the places it needs that an
import the replay runs or waits for is one it holds (*ReplayBounds*), which is
known of a registered task because its record stands at a step that made it.
Assumed: a page uses kinds of thing the module knows, and there is a ready
promise.

`UneditedPageReplays` and `ReplayEndsWithPage` compare what the records carry.
Their invariant, *ReplayInv*, adds four things to the places:

* of the session (*Turned*): each turn could follow those before it: a task runs
  once unless its kind repeats, and not after the page cleared it; a module is
  evaluated once, and its import's turn is the next;
* of the recorder (*RecorderTold*): what is pending has not run in a turn it may
  have but once, and what has settled and waits to be told is of distinct tasks
  that are no longer live;
* of the replay while it runs (*ReplayTold*): its next id is the number of
  registrations in the log before the cursor, its handlers are those of the tasks
  registered there that may still run, the imports it has begun are those whose
  modules are among the turns replayed, the promises it has handed out are those
  the log says, and what it waits for is the task at the cursor;
* that no divergence was reported (*Verdict*).

A record of the log determines what was written there, so what a step asks for is
what stands at its place, with the value it saw (`WroteReads`, `TurnReads`). The
scheduler's side is `NextTurn`: between turns the log goes on with the page's
next one, or with its end or a refusal, so that whatever the scheduler begins is
that turn and it is given what it was. An import whose module writes before its
`Task` is found by `WorkAfter` (`WorkFound`). That the handlers of the replay are
those that may run (`StepTells`, `TurnTells`) is shown on record, for every step
that makes, clears or runs a task, and then read by the replay
(`PageReplayedTold`, `ScheduledTold`).

The two theorems assume `Replayable`: no import settles apart from its module, no
user's file is read through a form, an iterable or a clone (section 8 says what
happens then), and no page that imports also does what is refused. Each was met as a step that could not be
proved, and TLC shows a replay that diverges without it. Every set of pages the
run checks satisfies it. The whole module takes the prover about seven minutes.

### The browser's smaller parts

`HeardAlwaysInOrder` follows what the runtime knows of: what it sent and what waits,
as one sequence, and what was lost with a batch. Its invariant (*Streams*,
*HasCalls*, *Below*) says that the sequence is in the page's order and holds
nothing that was lost, that no call is missing from the two until `stop()`, and
that all they hold comes before the next call's event. A flush, whether it sends,
loses or throws, keeps all of it (`FlushStreams`), and an event that is queued
extends it (`EnqueueStreams`). It holds for every threshold, and with the edge
`unwritable key` too. `StreamIsWhole` adds that nothing is stranded, which needs
that edge away: a flush that throws leaves the queue without a timer. Assumed:
`MaxCalls \in Nat`.

`AlwaysByConsent` counts: the invariant says that the counters are the sizes of
two sets of reports (those that wait for an answer, the uploads in flight) plus
what was decided, that errors of reports are distinct because `seen` holds them
all, and that an unanswered report has not gone. Each step adds or removes one
member of one set. Its assumption is `maxReports \in Nat`.

`BatchesLeaveOnce` rests on the order in which batches are cut: the one to be cut
was not sent before, and the one in flight, which a leaving page sends only if it
waits for its retry, was not sent by a leaving page. Assumed: batches have a size.
The other two conjuncts of the run's `LeavesOnce` are about the sum of the bodies
in flight, and stay with TLC.

## 12. What is only model-checked

On the bounds above, and for no others:

* of the transport, `CapKept` (it bounds a sum over the ring, a fold), and of
  `KeepaliveBudget` that the bodies in flight stay within the budget and that a
  batch is lost only for want of room (a sum over those bodies);
* `SpansMeasured`: what the pass of `spans.rs` computes is a fold over the
  vector, and the provers have no induction for it;
* `ReplaysAsRecorded` and `FollowsWhole` of a page that posts messages: the
  theorems are about `PlatformSeams`;
* the replay of a load, the other seams and their replays, the runner with its
  gates and ranges: `ReplayRuntime`, `MessageSeams`, `FetchSeams`, `XhrSeams`,
  `SocketSeams`, `RequestGates`, `RangeReplay`;
* what `HtmlTree`, `PageMarkup`, `ScriptRun` and `Instrumenter` compute, which are
  recursive over data;
* liveness, since the prover handles neither fairness nor ENABLED.

Where a proof needs induction over the numbers it takes a least counterexample
(`NatMin` in `NodeTraceProofs`); the library's induction theorems, whose
parameter is an operator, cannot be used.

## 13. What is not modelled

The parts with status `not_modelled` in `PROJECT.json`, each with the reason, and
in the parts with status `partly` what their note leaves out. In general:

* encoders, decoders, hashing, the text of records and the lists of the privacy
  configuration are data that no property here tells apart;
* the runtime's protocol of resource events, dynamic imports and asynchronous
  handlers; generators, asynchronous functions, source maps and manifests in the
  instrumenter; the import seam's rewriting of scripts;
* what the replay's comparisons of layout, history and mutations read;
* the command line, the conformance suite, and the packages of examples: one
  process at a time, files in and files out.
