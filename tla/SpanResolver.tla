---------------------------- MODULE SpanResolver ----------------------------
(***************************************************************************)
(* How the native recorder turns the marks of its spans into step numbers  *)
(* (crates/recorder_native/src/spans.rs).  A mark is a length of the       *)
(* buffered event vector; the numbers are those of the exec stream, which  *)
(* the writer gives out while the vector is replayed into it.  The events  *)
(* are records with a kind and an id; "value" events belong to the event   *)
(* before them and take no number of their own, every other event takes    *)
(* one (the writer's column moves, which take one more, are left out).     *)
(***************************************************************************)
EXTENDS Integers, SequencesExt

Unclosed == -1    \* the end mark of a span that is still open

(* What the pass knows: the next number, the thread, a record per span. *)
Unresolved ==
  [start |-> 0, end |-> 0, thread |-> 0, crossed |-> FALSE,
   startResolved |-> FALSE, endResolved |-> FALSE]
Resolver(spans) ==
  [next |-> 0, thread |-> 0, open |-> {},
   of |-> [s \in DOMAIN spans |-> Unresolved]]

(* at_event_index: the starts marked here, then the ends marked here. *)
Started(spans, idx, r) ==
  LET here == {s \in DOMAIN spans : spans[s].opened = idx}
  IN [r EXCEPT !.open = @ \cup here,
               !.of = [s \in DOMAIN @ |->
                 IF s \in here
                 THEN [@[s] EXCEPT !.start = r.next, !.thread = r.thread,
                                   !.startResolved = TRUE]
                 ELSE @[s]]]
Ended(spans, idx, r) ==
  LET here == {s \in DOMAIN spans : spans[s].closed = idx}
  IN [r EXCEPT !.open = @ \ here,
               !.of = [s \in DOMAIN @ |->
                 IF s \in here
                 THEN [@[s] EXCEPT !.end = Max({r.next - 1, r.of[s].start}),
                                   !.endResolved = TRUE]
                 ELSE @[s]]]
AtEventIndex(spans, idx, r) == Ended(spans, idx, Started(spans, idx, r))

(* observe_thread: the open spans learn that another thread runs. *)
ObserveThread(thread, r) ==
  [r EXCEPT !.thread = thread,
            !.of = [s \in DOMAIN @ |->
              IF s \in r.open /\ @[s].thread # thread
              THEN [@[s] EXCEPT !.crossed = TRUE] ELSE @[s]]]

(* An event is handed to the writer. *)
Register(e, r) ==
  LET q == [r EXCEPT !.next = IF e.kind = "value" THEN @ ELSE @ + 1]
  IN IF e.kind \in {"start", "switch"} THEN ObserveThread(e.id, q) ELSE q

(* finish: a span is concurrent if another's numbers overlap its own. *)
Settled(span) == span.startResolved /\ span.endResolved
(* Mutated: numbers that only touch are taken to overlap. *)
OverlapTouching(a, b) == a.start <= b.end + 1 /\ b.start <= a.end + 1
Overlap(a, b) == a.start <= b.end /\ b.start <= a.end
Concurrent(resolved, s) ==
  /\ Settled(resolved[s])
  /\ \E t \in DOMAIN resolved \ {s} :
       Settled(resolved[t]) /\ Overlap(resolved[s], resolved[t])

(* The pass over the whole vector, with one more sample at its end. *)
Resolve(events, spans) ==
  AtEventIndex(spans, Len(events),
    FoldLeftDomain(LAMBDA r, i : Register(events[i], AtEventIndex(spans, i - 1, r)),
                   Resolver(spans), events)).of
=============================================================================
