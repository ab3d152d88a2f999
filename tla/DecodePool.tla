----------------------------- MODULE DecodePool -----------------------------
(***************************************************************************)
(* DecodeManager (common/rfb/DecodeManager.cxx): the main thread reads     *)
(* encoded rectangles from the connection and queues them, worker threads  *)
(* decode them into the framebuffer, out of order where that cannot be     *)
(* seen.  One mutex protects the queue and the free buffers; a section     *)
(* between lock and unlock (or wait) is one action, and the decoding       *)
(* itself, outside the mutex, is split where other threads can interfere.  *)
(*                                                                         *)
(* A rectangle is a record                                                 *)
(*   encoding  which decoder it belongs to                                 *)
(*   dest      the pixels it writes                                        *)
(*   from      for a copy, the pixel each of them is copied from           *)
(*   streams   the zlib streams it uses or resets                          *)
(* and is known by its number in the order of arrival.  A pixel shows the  *)
(* number of the rectangle whose data it was painted with.                 *)
(***************************************************************************)
EXTENDS Integers, Sequences, FiniteSets, Functions

CONSTANTS
  Workers,           \* decoder threads
  Pixels,            \* the framebuffer
  Streams,           \* zlib streams
  Rects,             \* rectangles a server may send
  Ordered,           \* encodings whose decoder has DecoderOrdered set
  PartiallyOrdered,  \* encodings whose decoder has DecoderPartiallyOrdered set
  MaxRects           \* bound: rectangles in one behaviour

ASSUME PoolAssumption == Workers # {} /\ IsFiniteSet(Workers) /\ MaxRects \in Nat

ASSUME RectAssumption ==
  \A r \in Rects : r.dest \subseteq Pixels /\ r.streams \subseteq Streams
                   /\ DOMAIN r.from \subseteq r.dest /\ Range(r.from) \subseteq Pixels

(* A zlib stream belongs to one decoder, and a decoder that has any asks   *)
(* for an order.                                                           *)
ASSUME StreamAssumption ==
  \A r, t \in Rects : r.streams \cap t.streams # {} =>
    r.encoding = t.encoding /\ r.encoding \in Ordered \cup PartiallyOrdered

Buffers == 1 .. 2 * Cardinality(Workers)
Garbage == -1   \* what a decoder produces from a zlib stream in the wrong state

VARIABLES
  main,            \* where the main thread is
  mainWaits,       \* it waits on producerCond
  reading,         \* the rectangle and buffer it is working with
  freeBuffers,     \* buffers without an entry, in order
  workQueue,       \* entries in order of arrival; after and result are history:
                   \* the streams and pixels had all before been decoded at once
  worker,          \* where each worker is
  job,             \* its entry, with the pixels it is about to write
  stopRequested,   \* workers asked to stop
  threadException, \* a worker's exception, not yet thrown to the main thread
  img,             \* the framebuffer
  stream,          \* the last rectangle each zlib stream was used for
  arrived,         \* history: rectangles queued so far
  expected,        \* history: the framebuffer, had they been decoded at once
  lastUse,         \* history: per stream, the last rectangle that uses it
  unreported       \* history: failed rectangles the main thread does not know of

queueVars == <<freeBuffers, workQueue>>
history == <<arrived, expected, lastUse>>
vars == <<main, mainWaits, reading, queueVars, worker, job, stopRequested,
          threadException, img, stream, history, unreported>>

Affected(r) == r.dest \cup Range(r.from)   \* getAffectedRegion
Without(queue, n) ==
  LET at == CHOOSE i \in DOMAIN queue : queue[i].id = n
  IN  SubSeq(queue, 1, at - 1) \o SubSeq(queue, at + 1, Len(queue))
InQueue(n) == \E i \in DOMAIN workQueue : workQueue[i].id = n

\* what decoding a rectangle writes, its own data being `data'
Decoded(r, data, source) ==
  [p \in r.dest |-> IF p \in DOMAIN r.from THEN source[r.from[p]] ELSE data]
Paint(pixels, image) ==
  [p \in Pixels |-> IF p \in DOMAIN pixels THEN pixels[p] ELSE image[p]]

-----------------------------------------------------------------------------
(* The main thread: decodeRect.                                            *)
DecodeRect(r) ==
  /\ main = "idle" /\ arrived < MaxRects
  /\ main' = "buffer"
  /\ reading' = [rect |-> r, buffer |-> 0]
  /\ UNCHANGED <<mainWaits, queueVars, worker, job, stopRequested,
                 threadException, img, stream, history, unreported>>

\* the front buffer is used but stays in the list while reading may fail
GetBuffer ==
  /\ main = "buffer" /\ ~mainWaits
  /\ IF freeBuffers = <<>>
     THEN mainWaits' = TRUE /\ UNCHANGED <<main, reading>>
     ELSE /\ main' = "check"
          /\ reading' = [reading EXCEPT !.buffer = Head(freeBuffers)]
          /\ UNCHANGED mainWaits
  /\ UNCHANGED <<queueVars, worker, job, stopRequested, threadException,
                 img, stream, history, unreported>>

\* failures whose exception the workers have handed over
Recorded == {n \in unreported : \A w \in Workers :
                                  ~(worker[w] = "throw" /\ job[w].id = n)}

\* throwThreadException, on the way to `next' if there is nothing to throw
Throw(from, next, caught) ==
  /\ main = from
  /\ IF threadException
     THEN main' = caught /\ unreported' = unreported \ Recorded
     ELSE main' = next /\ UNCHANGED unreported
  /\ threadException' = FALSE
  /\ UNCHANGED <<mainWaits, reading, queueVars, worker, job, stopRequested,
                 img, stream, history>>

CheckThreads == Throw("check", "read", "failed")

ReadFails ==
  /\ main = "read"
  /\ main' = "failed"
  /\ UNCHANGED <<mainWaits, reading, queueVars, worker, job, stopRequested,
                 threadException, img, stream, history, unreported>>

\* consumerCond->signal() wakes one waiting worker, if there is one
Signalled(w) == IF \E v \in Workers : worker[v] = "wait"
                THEN worker[w] = "wait" /\ worker' = [worker EXCEPT ![w] = "look"]
                ELSE UNCHANGED worker

QueueReading(left) ==
  LET r == reading.rect
      n == arrived + 1
  IN  /\ main = "read"
      /\ freeBuffers' = left
      /\ workQueue' = Append(workQueue,
           [id |-> n, rect |-> r, buffer |-> reading.buffer, active |-> FALSE,
            after |-> [s \in r.streams |-> lastUse[s]],
            result |-> Decoded(r, n, expected)])
      /\ main' = "idle"
      /\ arrived' = n
      /\ expected' = Paint(Decoded(r, n, expected), expected)
      /\ lastUse' = [s \in Streams |-> IF s \in r.streams THEN n ELSE lastUse[s]]
      /\ UNCHANGED <<mainWaits, reading, job, stopRequested, threadException,
                     img, stream, unreported>>

\* seeded faults: the buffer stays free; no worker is told of the entry
EnqueueKeepingBuffer(w) == QueueReading(freeBuffers) /\ Signalled(w)
EnqueueWithoutSignal(w) == QueueReading(Tail(freeBuffers)) /\ UNCHANGED worker

Enqueue(w) == QueueReading(Tail(freeBuffers)) /\ Signalled(w)

-----------------------------------------------------------------------------
(* The main thread: flush, at the end of an update and before the          *)
(* framebuffer is replaced, and the destructors, which flush as well.      *)
Flush(from, flushing) ==
  /\ main = from
  /\ main' = flushing
  /\ UNCHANGED <<mainWaits, reading, queueVars, worker, job, stopRequested,
                 threadException, img, stream, history, unreported>>

Drain(flushing, drained) ==
  /\ main = flushing /\ ~mainWaits
  /\ IF workQueue # <<>> THEN mainWaits' = TRUE /\ UNCHANGED main
                         ELSE main' = drained /\ UNCHANGED mainWaits
  /\ UNCHANGED <<reading, queueVars, worker, job, stopRequested,
                 threadException, img, stream, history, unreported>>

FlushUpdate == Flush("idle", "flush")
DrainUpdate == Drain("flush", "drained")
EndUpdate == Throw("drained", "idle", "failed")

(* ~CConnection flushes while replacing the framebuffer by none; an        *)
(* exception leaving a destructor ends the process.                        *)
Destroy == Flush("idle", "close") \/ Flush("failed", "close")
DrainClose == Drain("close", "closing")
EndClose == Throw("closing", "stopping", "aborted")

\* ~DecodeManager stops and joins the workers one after the other
StopWorker(w) ==
  /\ main = "stopping" /\ worker[w] # "exited"
  /\ \A v \in stopRequested : worker[v] = "exited"
  /\ stopRequested' = stopRequested \cup {w}
  /\ worker' = [v \in Workers |-> IF worker[v] = "wait" THEN "look" ELSE worker[v]]
  /\ UNCHANGED <<main, mainWaits, reading, queueVars, job, threadException,
                 img, stream, history, unreported>>

Closed ==
  /\ main = "stopping" /\ \A w \in Workers : worker[w] = "exited"
  /\ main' = "closed"
  /\ UNCHANGED <<mainWaits, reading, queueVars, worker, job, stopRequested,
                 threadException, img, stream, history, unreported>>

-----------------------------------------------------------------------------
(* A worker.                                                               *)

(* findEntry: the first entry nobody works on that does not touch what an  *)
(* earlier entry reads or writes and does not overtake an entry its        *)
(* decoder needs decoded before it.                                        *)
MayDecode(i, blocking) ==
  LET e == workQueue[i]
      earlier == {workQueue[j] : j \in 1 .. i - 1}
      sameDecoder == {f \in earlier : f.rect.encoding = e.rect.encoding}
  IN  /\ ~e.active
      /\ e.rect.encoding \in Ordered => sameDecoder = {}
      /\ e.rect.encoding \in PartiallyOrdered =>
           \A f \in sameDecoder : e.rect.streams \cap f.rect.streams = {}
      /\ \A f \in earlier : f.active \in blocking =>
           Affected(e.rect) \cap Affected(f.rect) = {}

\* seeded fault: overlap with entries that still wait is ignored
EligibleIgnoringWaiting(i) == MayDecode(i, {TRUE})

Eligible(i) == MayDecode(i, BOOLEAN)

FindEntry ==
  {i \in DOMAIN workQueue : Eligible(i) /\ \A j \in 1 .. i - 1 : ~Eligible(j)}

Exit(w) ==
  /\ worker[w] = "look" /\ w \in stopRequested
  /\ worker' = [worker EXCEPT ![w] = "exited"]
  /\ UNCHANGED <<main, mainWaits, reading, queueVars, job, stopRequested,
                 threadException, img, stream, history, unreported>>

Wait(w) ==
  /\ worker[w] = "look" /\ w \notin stopRequested /\ FindEntry = {}
  /\ worker' = [worker EXCEPT ![w] = "wait"]
  /\ UNCHANGED <<main, mainWaits, reading, queueVars, job, stopRequested,
                 threadException, img, stream, history, unreported>>

Take(w) ==
  /\ worker[w] = "look" /\ w \notin stopRequested
  /\ \E i \in FindEntry :
       /\ workQueue' = [workQueue EXCEPT ![i].active = TRUE]
       /\ job' = [job EXCEPT ![w] = workQueue[i]]
  /\ worker' = [worker EXCEPT ![w] = "decode"]
  /\ UNCHANGED <<main, mainWaits, reading, freeBuffers, stopRequested,
                 threadException, img, stream, history, unreported>>

(* Decoding reads the stream state and a copy's source, then writes.       *)
BeginDecode(w) ==
  LET e == job[w]
      data == IF \A s \in e.rect.streams : stream[s] = e.after[s]
              THEN e.id ELSE Garbage
  IN  /\ worker[w] = "decode"
      /\ job' = [job EXCEPT ![w] = [id |-> e.id, buffer |-> e.buffer,
                                    pixels |-> Decoded(e.rect, data, img)]]
      /\ stream' = [s \in Streams |-> IF s \in e.rect.streams THEN e.id ELSE stream[s]]
      /\ worker' = [worker EXCEPT ![w] = "write"]
      /\ UNCHANGED <<main, mainWaits, reading, queueVars, stopRequested,
                     threadException, img, history, unreported>>

EndDecode(w) ==
  /\ worker[w] = "write"
  /\ img' = Paint(job[w].pixels, img)
  /\ worker' = [worker EXCEPT ![w] = "finish"]
  /\ UNCHANGED <<main, mainWaits, reading, queueVars, job, stopRequested,
                 threadException, stream, history, unreported>>

DecodeFails(w) ==
  /\ worker[w] = "decode"
  /\ worker' = [worker EXCEPT ![w] = "throw"]
  /\ unreported' = unreported \cup {job[w].id}
  /\ UNCHANGED <<main, mainWaits, reading, queueVars, job, stopRequested,
                 threadException, img, stream, history>>

SetThreadException(w) ==
  /\ worker[w] = "throw"
  /\ threadException' = TRUE
  /\ worker' = [worker EXCEPT ![w] = "finish"]
  /\ UNCHANGED <<main, mainWaits, reading, queueVars, job, stopRequested,
                 img, stream, history, unreported>>

Broadcast(w) == [v \in Workers |-> IF v = w \/ worker[v] = "wait" THEN "look" ELSE worker[v]]

Release(w) ==
  /\ freeBuffers' = Append(freeBuffers, job[w].buffer)
  /\ workQueue' = Without(workQueue, job[w].id)
  /\ job' = [job EXCEPT ![w] = <<>>]
  /\ worker' = IF Len(workQueue') > 1 THEN Broadcast(w)
                                      ELSE [worker EXCEPT ![w] = "look"]
  /\ UNCHANGED <<main, reading, stopRequested, threadException, img, stream,
                 history, unreported>>

\* seeded faults: the entry is removed before its failure is recorded; the
\* main thread is not told of the buffer
FinishBeforeRecording(w) ==
  worker[w] \in {"finish", "throw"} /\ Release(w) /\ mainWaits' = FALSE
FinishUnnoticed(w) == worker[w] = "finish" /\ Release(w) /\ UNCHANGED mainWaits

Finish(w) == worker[w] = "finish" /\ Release(w) /\ mainWaits' = FALSE

SpuriousWakeup(w) ==
  /\ worker[w] = "wait"
  /\ worker' = [worker EXCEPT ![w] = "look"]
  /\ UNCHANGED <<main, mainWaits, reading, queueVars, job, stopRequested,
                 threadException, img, stream, history, unreported>>

-----------------------------------------------------------------------------
Init ==
  /\ main = "idle" /\ mainWaits = FALSE
  /\ reading = [rect |-> <<>>, buffer |-> 0]
  /\ freeBuffers = [b \in Buffers |-> b]
  /\ workQueue = <<>>
  /\ worker = [w \in Workers |-> "look"]
  /\ job = [w \in Workers |-> <<>>]
  /\ stopRequested = {}
  /\ threadException = FALSE
  /\ img = [p \in Pixels |-> 0] /\ expected = img
  /\ stream = [s \in Streams |-> 0] /\ lastUse = stream
  /\ arrived = 0
  /\ unreported = {}

MainSteps ==
  \/ GetBuffer \/ CheckThreads \/ \E w \in Workers : Enqueue(w)
  \/ DrainUpdate \/ EndUpdate \/ DrainClose \/ EndClose
  \/ \E w \in Workers : StopWorker(w)
  \/ Closed

WorkerSteps(w) ==
  /\ main # "aborted"
  /\ \/ Exit(w) \/ Wait(w) \/ Take(w) \/ BeginDecode(w) \/ EndDecode(w)
     \/ SetThreadException(w) \/ Finish(w)

Environment ==
  \/ \E r \in Rects : DecodeRect(r)
  \/ ReadFails \/ FlushUpdate \/ Destroy
  \/ main # "aborted" /\ \E w \in Workers : DecodeFails(w) \/ SpuriousWakeup(w)

Ended == main \in {"closed", "aborted"} /\ UNCHANGED vars

Next == MainSteps \/ Environment \/ Ended \/ \E w \in Workers : WorkerSteps(w)

(* The threads are scheduled fairly: a thread that can run does run.       *)
Spec == /\ Init /\ [][Next]_vars
        /\ WF_vars(MainSteps)
        /\ \A w \in Workers : WF_vars(WorkerSteps(w))

-----------------------------------------------------------------------------
(* Type correctness.                                                       *)
TypeOK ==
  /\ main \in {"idle", "buffer", "check", "read", "failed", "flush", "drained",
               "close", "closing", "stopping", "closed", "aborted"}
  /\ mainWaits \in BOOLEAN /\ threadException \in BOOLEAN
  /\ worker \in [Workers -> {"look", "wait", "decode", "write", "throw",
                             "finish", "exited"}]
  /\ stopRequested \subseteq Workers
  /\ freeBuffers \in Seq(Buffers)
  /\ arrived \in 0 .. MaxRects /\ unreported \subseteq 1 .. MaxRects
  /\ img \in [Pixels -> {Garbage} \cup 0 .. MaxRects]
  /\ \A i \in DOMAIN workQueue : workQueue[i].id \in 1 .. arrived

(* A buffer is either free or belongs to exactly one entry ("the workers   *)
(* add buffers to the end so it's safe to assume the front is still the    *)
(* same buffer"), so no rectangle is read over data still to be decoded.   *)
BuffersOwned ==
  LET used == [i \in DOMAIN workQueue |-> workQueue[i].buffer]
      all == freeBuffers \o used
  IN  /\ \A i, j \in DOMAIN all : i # j => all[i] # all[j]
      /\ Range(all) = Buffers
      /\ main = "read" => reading.buffer = Head(freeBuffers)

(* When the queue has drained and no decoder has failed, the framebuffer   *)
(* shows what decoding the rectangles one by one in the order of their     *)
(* arrival would have shown: copies saw the right source, zlib streams     *)
(* were used in order, and no earlier rectangle was painted over a later.  *)
SequentialResult ==
  /\ workQueue = <<>> /\ unreported = {}
  /\ main \in {"idle", "buffer", "check", "read", "flush", "drained"}
  => img = expected

(* flush returns normally only if every rectangle of the update has been   *)
(* decoded: a failure on a worker is not noticed an update too late.       *)
FlushReports == [][main = "drained" /\ main' = "idle" => unreported = {}]_vars

(* No wakeup is lost: every queued rectangle is decoded eventually.        *)
EntriesDecoded ==
  \A n \in 1 .. MaxRects : InQueue(n) ~> ~InQueue(n) \/ main = "aborted"

(* The main thread never waits for a buffer forever, however slowly the    *)
(* workers return them, and the destructor terminates: a worker asked to   *)
(* stop does so wherever it was waiting.                                   *)
MainWaitsEnd ==
  /\ main = "buffer" ~> main # "buffer" \/ main = "aborted"
  /\ main = "stopping" ~> main = "closed"
=============================================================================
