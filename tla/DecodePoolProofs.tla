-------------------------- MODULE DecodePoolProofs --------------------------
(***************************************************************************)
(* Theorems about DecodePool, for any number of threads, rectangles, pixels *)
(* and zlib streams: whatever the threads do, the framebuffer is that of    *)
(* decoding one rectangle after the other.                                  *)
(*                                                                         *)
(* The argument is about the set of entries rather than the queue.  An      *)
(* entry that a worker has taken shares no pixel and no stream with any     *)
(* entry before it.  Hence the value a pixel should have in the end is the  *)
(* one its last writer in the queue is to paint, or the one it has if every *)
(* writer in the queue has painted; and likewise, for an entry that has not *)
(* begun, the value that it should copy or the stream that it should find.  *)
(*                                                                          *)
(* And no wakeup is lost, although a single thread is signalled for a new   *)
(* entry: either all threads are awake, or as many are about to look into   *)
(* the queue as there are entries that may be decoded.                      *)
(***************************************************************************)
EXTENDS DecodePool, FiniteSetTheorems, TLAPS

Values == {Garbage} \cup 0 .. MaxRects

Entry == [ id : 1 .. MaxRects, rect : Rects, buffer : Buffers, active : BOOLEAN,
           after : UNION {[S -> 0 .. MaxRects] : S \in SUBSET Streams},
           result : UNION {[S -> Values] : S \in SUBSET Pixels} ]

(* An entry without what changes while it is in the queue.                 *)
Core(e) == [id |-> e.id, rect |-> e.rect, after |-> e.after, result |-> e.result]
Cores(queue) == {Core(queue[i]) : i \in DOMAIN queue}
Pending == Cores(workQueue)

BusyStates == {"decode", "write", "throw", "finish"}
Jobs(states) == {job[w].id : w \in {v \in Workers : worker[v] \in states}}
Taken == Jobs(BusyStates)
Begun == Jobs({"write", "finish"})
Written == Jobs({"finish"})

-----------------------------------------------------------------------------
(* The inductive invariant.                                                *)

Typed ==
  /\ TypeOK
  /\ workQueue \in Seq(Entry)
  /\ reading \in [rect : Rects \cup {<<>>}, buffer : Buffers \cup {0}]
  /\ main \in {"buffer", "check", "read"} => reading.rect \in Rects /\ arrived < MaxRects
  /\ main \in {"check", "read"} => freeBuffers # <<>> /\ reading.buffer = Head(freeBuffers)
  /\ DOMAIN job = Workers
  /\ expected \in [Pixels -> Values]
  /\ stream \in [Streams -> 0 .. MaxRects] /\ lastUse \in [Streams -> 0 .. MaxRects]

(* Entries are in the order of their arrival.                              *)
Sorted(queue) == \A i, j \in DOMAIN queue : i < j => queue[i].id < queue[j].id

(* A worker that is busy has an entry of its own.                          *)
Fits(w, e) ==
  /\ e.id = job[w].id /\ e.active /\ job[w].buffer = e.buffer
  /\ worker[w] = "decode" => job[w] = [e EXCEPT !.active = FALSE]
  /\ worker[w] = "write" => job[w].pixels \in [e.rect.dest -> Values]
JobsFit ==
  /\ \A w \in Workers : worker[w] \in BusyStates =>
       \E i \in DOMAIN workQueue : Fits(w, workQueue[i])
  /\ \A v, w \in Workers : worker[v] \in BusyStates /\ worker[w] \in BusyStates
                            /\ job[v].id = job[w].id => v = w

(* What has been taken is apart from everything before it.                 *)
Separate(E, T) ==
  \A e, f \in E : e.id \in T /\ f.id < e.id =>
    Affected(e.rect) \cap Affected(f.rect) = {} /\ e.rect.streams \cap f.rect.streams = {}

(* Failures that are not reported are about to be.                         *)
FailuresKnown ==
  /\ \A w \in Workers : worker[w] = "throw" => job[w].id \in unreported
  /\ \A n \in unreported :
       threadException \/ \E w \in Workers : worker[w] = "throw" /\ job[w].id = n
  /\ main \in {"drained", "closing"} => workQueue = <<>>

(* e is the last of E before n to write the pixel p, or to use the stream s. *)
LastWriter(E, e, p, n) ==
  e.id < n /\ p \in e.rect.dest /\ \A g \in E : e.id < g.id /\ g.id < n => p \notin g.rect.dest
LastUser(E, e, s, n) ==
  e.id < n /\ s \in e.rect.streams /\ \A g \in E : e.id < g.id /\ g.id < n => s \notin g.rect.streams

(* Where the pixels come from: those of the framebuffer in the end, and    *)
(* those that entries copy.  B have begun and W been written.              *)
EndsRight(E, W, im, ex) ==
  /\ \A e \in E, p \in Pixels : LastWriter(E, e, p, MaxRects + 1) => ex[p] = e.result[p]
  /\ \A p \in Pixels : (\A e \in E : p \in e.rect.dest => e.id \in W) => im[p] = ex[p]
CopiesRight(E, B, W, im) ==
  \A e \in E : e.id \notin B =>
    \A p \in DOMAIN e.rect.from :
      /\ \A f \in E : LastWriter(E, f, e.rect.from[p], e.id) => e.result[p] = f.result[e.rect.from[p]]
      /\ (\A f \in E : f.id < e.id /\ e.rect.from[p] \in f.rect.dest => f.id \in W)
           => e.result[p] = im[e.rect.from[p]]
DataRight(E) == \A e \in E : \A p \in e.rect.dest \ DOMAIN e.rect.from : e.result[p] = e.id

(* Likewise for the streams.                                               *)
StreamsRight(E, B, st, lu) ==
  /\ \A e \in E, s \in Streams : LastUser(E, e, s, MaxRects + 1) => lu[s] = e.id
  /\ \A s \in Streams : (\A e \in E : s \in e.rect.streams => e.id \in B) => st[s] = lu[s]
  /\ \A e \in E : e.id \notin B => \A s \in e.rect.streams :
       /\ \A f \in E : LastUser(E, f, s, e.id) => e.after[s] = f.id
       /\ (\A f \in E : f.id < e.id /\ s \in f.rect.streams => f.id \in B) => e.after[s] = st[s]

(* No rectangle has failed.                                                *)
Healthy == /\ unreported = {}
           /\ main \in {"idle", "buffer", "check", "read", "flush", "drained"}

WritesRight ==
  \A w \in Workers, e \in Pending :
    worker[w] = "write" /\ job[w].id = e.id =>
      \A p \in e.rect.dest : job[w].pixels[p] = e.result[p]

OnCourse ==
  Healthy => /\ EndsRight(Pending, Written, img, expected)
             /\ CopiesRight(Pending, Begun, Written, img)
             /\ DataRight(Pending)
             /\ StreamsRight(Pending, Begun, stream, lastUse)
             /\ WritesRight

(* Every buffer is free or belongs to one entry.                           *)
Shared(queue, free) ==
  /\ \A i, j \in DOMAIN free : i # j => free[i] # free[j]
  /\ \A i, j \in DOMAIN queue : i # j => queue[i].buffer # queue[j].buffer
  /\ \A i \in DOMAIN free, j \in DOMAIN queue : free[i] # queue[j].buffer
  /\ \A b \in Buffers : (\E i \in DOMAIN free : free[i] = b)
                        \/ \E j \in DOMAIN queue : queue[j].buffer = b

IInv == /\ Typed /\ Sorted(workQueue) /\ JobsFit /\ FailuresKnown
        /\ Separate(Pending, Taken) /\ OnCourse /\ Shared(workQueue, freeBuffers)

-----------------------------------------------------------------------------
(* What single steps do to sets of entries.                                *)

(* Entries have rectangles and are told apart by their numbers.            *)
Numbered(E) == /\ \A e \in E : e.id \in 1 .. MaxRects /\ e.rect \in Rects
               /\ \A e, f \in E : e.id = f.id => e = f

(* A copy reads within the framebuffer.                                    *)
LEMMA RectFacts ==
  ASSUME NEW r \in Rects
  PROVE  /\ r.dest \subseteq Pixels /\ r.streams \subseteq Streams
         /\ DOMAIN r.from \subseteq r.dest
         /\ \A p \in DOMAIN r.from : r.from[p] \in Pixels /\ r.from[p] \in Affected(r)
         /\ r.dest \subseteq Affected(r)
  BY RectAssumption DEF Affected, Range

(* An entry arrives.                                                       *)
LEMMA ArrivalEnds ==
  ASSUME NEW E, NEW W, NEW im, NEW ex, NEW c, Numbered(E \cup {c}),
         \A e \in E : e.id < c.id, c.id \notin W,
         EndsRight(E, W, im, ex)
  PROVE  EndsRight(E \cup {c}, W, im,
                   [p \in Pixels |-> IF p \in c.rect.dest THEN c.result[p] ELSE ex[p]])
<1> DEFINE F == E \cup {c}
           ey == [p \in Pixels |-> IF p \in c.rect.dest THEN c.result[p] ELSE ex[p]]
<1>1. ASSUME NEW e \in F, NEW p \in Pixels, LastWriter(F, e, p, MaxRects + 1)
      PROVE  ey[p] = e.result[p]
  <2>1. CASE e = c
    BY <1>1, <2>1 DEF LastWriter
  <2>2. CASE e # c
    <3>1. e \in E /\ e.id < c.id /\ c.id < MaxRects + 1
      BY <2>2, PoolAssumption DEF Numbered
    <3>2. p \notin c.rect.dest
      BY <1>1, <3>1 DEF LastWriter
    <3>3. LastWriter(E, e, p, MaxRects + 1)
      BY <1>1 DEF LastWriter
    <3> QED BY <3>1, <3>2, <3>3 DEF EndsRight
  <2> QED BY <2>1, <2>2
<1>2. ASSUME NEW p \in Pixels, \A e \in F : p \in e.rect.dest => e.id \in W
      PROVE  im[p] = ey[p]
  BY <1>2 DEF EndsRight
<1> QED BY <1>1, <1>2 DEF EndsRight

LEMMA ArrivalCopies ==
  ASSUME NEW E, NEW B, NEW W, NEW im, NEW ex, NEW c, Numbered(E \cup {c}),
         \A e \in E : e.id < c.id, c.id \notin W,
         EndsRight(E, W, im, ex), CopiesRight(E, B, W, im),
         \A p \in DOMAIN c.rect.from : c.result[p] = ex[c.rect.from[p]]
  PROVE  CopiesRight(E \cup {c}, B, W, im)
<1> DEFINE F == E \cup {c}
<1> SUFFICES ASSUME NEW e \in F, e.id \notin B, NEW p \in DOMAIN e.rect.from
             PROVE  LET x == e.rect.from[p] IN
                    /\ \A f \in F : LastWriter(F, f, x, e.id) => e.result[p] = f.result[x]
                    /\ (\A f \in F : f.id < e.id /\ x \in f.rect.dest => f.id \in W)
                         => e.result[p] = im[x]
  BY DEF CopiesRight
<1> DEFINE x == e.rect.from[p]
<1>1. x \in Pixels /\ e.id \in 1 .. MaxRects /\ c.id \in 1 .. MaxRects
      /\ \A f \in E : f.id \in 1 .. MaxRects
  BY RectFacts DEF Numbered
<1>2. CASE e = c
  <2>1. \A f \in F : f.id < e.id => f \in E
    BY <1>1, <1>2
  <2>2. \A f \in F : LastWriter(F, f, x, e.id) => LastWriter(E, f, x, MaxRects + 1)
    BY <1>1, <1>2, <2>1, PoolAssumption DEF LastWriter
  <2>3. \A f \in F : LastWriter(F, f, x, e.id) => ex[x] = f.result[x]
    BY <1>1, <2>1, <2>2 DEF EndsRight, LastWriter
  <2>4. (\A f \in F : f.id < e.id /\ x \in f.rect.dest => f.id \in W) => ex[x] = im[x]
    BY <1>1, <1>2 DEF EndsRight
  <2> QED BY <1>2, <2>3, <2>4
<1>3. CASE e # c
  <2>1. e \in E /\ ~(c.id < e.id)
    BY <1>1, <1>3
  <2>2. \A f \in F : LastWriter(F, f, x, e.id) => f \in E /\ LastWriter(E, f, x, e.id)
    BY <2>1 DEF LastWriter
  <2> QED BY <2>1, <2>2 DEF CopiesRight
<1> QED BY <1>2, <1>3

LEMMA ArrivalStreams ==
  ASSUME NEW E, NEW B, NEW st, NEW lu, NEW c, Numbered(E \cup {c}),
         \A e \in E : e.id < c.id, c.id \notin B,
         StreamsRight(E, B, st, lu),
         \A s \in c.rect.streams : c.after[s] = lu[s]
  PROVE  StreamsRight(E \cup {c}, B, st,
                      [s \in Streams |-> IF s \in c.rect.streams THEN c.id ELSE lu[s]])
<1> DEFINE F == E \cup {c}
           lv == [s \in Streams |-> IF s \in c.rect.streams THEN c.id ELSE lu[s]]
<1>0. c.id \in 1 .. MaxRects /\ \A f \in E : f.id \in 1 .. MaxRects
  BY DEF Numbered
<1>1. ASSUME NEW e \in F, NEW s \in Streams, LastUser(F, e, s, MaxRects + 1)
      PROVE  lv[s] = e.id
  <2>1. CASE e = c
    BY <1>1, <2>1 DEF LastUser
  <2>2. CASE e # c
    <3>1. e \in E /\ e.id < c.id /\ c.id < MaxRects + 1
      BY <2>2, <1>0, PoolAssumption
    <3>2. s \notin c.rect.streams
      BY <1>1, <3>1 DEF LastUser
    <3>3. LastUser(E, e, s, MaxRects + 1)
      BY <1>1 DEF LastUser
    <3> QED BY <3>1, <3>2, <3>3 DEF StreamsRight
  <2> QED BY <2>1, <2>2
<1>2. ASSUME NEW s \in Streams, \A e \in F : s \in e.rect.streams => e.id \in B
      PROVE  st[s] = lv[s]
  BY <1>2 DEF StreamsRight
<1>3. ASSUME NEW e \in F, e.id \notin B, NEW s \in e.rect.streams
      PROVE  /\ \A f \in F : LastUser(F, f, s, e.id) => e.after[s] = f.id
             /\ (\A f \in F : f.id < e.id /\ s \in f.rect.streams => f.id \in B)
                  => e.after[s] = st[s]
  <2>0. s \in Streams
    BY RectFacts DEF Numbered
  <2>1. CASE e = c
    <3>1. \A f \in F : f.id < e.id => f \in E
      BY <1>0, <2>1
    <3>2. \A f \in F : LastUser(F, f, s, e.id) => LastUser(E, f, s, MaxRects + 1)
      BY <1>0, <2>1, <3>1, PoolAssumption DEF LastUser
    <3>3. \A f \in F : LastUser(F, f, s, e.id) => lu[s] = f.id
      BY <2>0, <3>1, <3>2 DEF StreamsRight, LastUser
    <3>4. (\A f \in F : f.id < e.id /\ s \in f.rect.streams => f.id \in B) => lu[s] = st[s]
      BY <2>0, <2>1 DEF StreamsRight
    <3> QED BY <2>1, <3>3, <3>4
  <2>2. CASE e # c
    <3>1. e \in E /\ ~(c.id < e.id)
      BY <1>0, <2>2
    <3>2. \A f \in F : LastUser(F, f, s, e.id) => f \in E /\ LastUser(E, f, s, e.id)
      BY <3>1 DEF LastUser
    <3> QED BY <1>3, <3>1, <3>2 DEF StreamsRight
  <2> QED BY <2>1, <2>2
<1> QED BY <1>1, <1>2, <1>3 DEF StreamsRight

(* An entry is written.  Nothing later that shares one of its pixels has    *)
(* been taken, and nothing earlier that does is left.                      *)
LEMMA LastOfWritten ==
  ASSUME NEW E, NEW T, NEW W, NEW k \in E, NEW p \in k.rect.dest, NEW n \in Int,
         Numbered(E), Separate(E, T), W \subseteq T, k.id < n,
         \A f \in E : f.id < n /\ p \in f.rect.dest => f.id \in W \cup {k.id}
  PROVE  LastWriter(E, k, p, n)
<1> SUFFICES ASSUME NEW g \in E, k.id < g.id, g.id < n, p \in g.rect.dest
             PROVE  FALSE
  BY DEF LastWriter
<1>1. g.id \in W /\ g.id \in T
  BY DEF Numbered
<1>2. p \in Affected(g.rect) /\ p \in Affected(k.rect)
  BY RectFacts DEF Numbered
<1> QED BY <1>1, <1>2 DEF Separate

LEMMA PaintEnds ==
  ASSUME NEW E, NEW T, NEW W, NEW im, NEW ex, NEW k \in E,
         Numbered(E), Separate(E, T), W \subseteq T, EndsRight(E, W, im, ex)
  PROVE  EndsRight(E, W \cup {k.id},
                   [p \in Pixels |-> IF p \in k.rect.dest THEN k.result[p] ELSE im[p]], ex)
<1> DEFINE iy == [p \in Pixels |-> IF p \in k.rect.dest THEN k.result[p] ELSE im[p]]
<1>1. ASSUME NEW p \in Pixels, \A e \in E : p \in e.rect.dest => e.id \in W \cup {k.id}
      PROVE  iy[p] = ex[p]
  <2>1. CASE p \in k.rect.dest
    <3>1. k.id < MaxRects + 1 /\ MaxRects + 1 \in Int
      BY PoolAssumption DEF Numbered
    <3>2. LastWriter(E, k, p, MaxRects + 1)
      BY <1>1, <2>1, <3>1, LastOfWritten
    <3> QED BY <2>1, <3>2 DEF EndsRight
  <2>2. CASE p \notin k.rect.dest
    <3>1. \A e \in E : p \in e.rect.dest => e.id \in W
      BY <1>1, <2>2 DEF Numbered
    <3> QED BY <2>2, <3>1 DEF EndsRight
  <2> QED BY <2>1, <2>2
<1> QED BY <1>1 DEF EndsRight

LEMMA PaintCopies ==
  ASSUME NEW E, NEW T, NEW B, NEW W, NEW im, NEW k \in E,
         Numbered(E), Separate(E, T), W \subseteq T, k.id \in T, k.id \in B,
         CopiesRight(E, B, W, im)
  PROVE  CopiesRight(E, B, W \cup {k.id},
                     [p \in Pixels |-> IF p \in k.rect.dest THEN k.result[p] ELSE im[p]])
<1> DEFINE iy == [p \in Pixels |-> IF p \in k.rect.dest THEN k.result[p] ELSE im[p]]
<1>1. ASSUME NEW e \in E, e.id \notin B, NEW p \in DOMAIN e.rect.from,
             \A f \in E : f.id < e.id /\ e.rect.from[p] \in f.rect.dest => f.id \in W \cup {k.id}
      PROVE  e.result[p] = iy[e.rect.from[p]]
  <2> DEFINE x == e.rect.from[p]
  <2>1. x \in Pixels /\ x \in Affected(e.rect) /\ e.id \in Int /\ k.id \in Int /\ e.id # k.id
        /\ (x \in k.rect.dest => x \in Affected(k.rect))
    BY <1>1, RectFacts DEF Numbered
  <2>2. CASE x \in k.rect.dest
    <3>1. k.id < e.id
      BY <2>1, <2>2 DEF Separate
    <3>2. LastWriter(E, k, x, e.id)
      BY <1>1, <2>1, <2>2, <3>1, LastOfWritten
    <3> QED BY <1>1, <2>1, <2>2, <3>2 DEF CopiesRight
  <2>3. CASE x \notin k.rect.dest
    <3>1. \A f \in E : f.id < e.id /\ x \in f.rect.dest => f.id \in W
      BY <1>1, <2>3 DEF Numbered
    <3> QED BY <1>1, <2>1, <2>3, <3>1 DEF CopiesRight
  <2> QED BY <2>2, <2>3
<1> QED BY <1>1 DEF CopiesRight

(* An entry is begun: it uses its streams.                                 *)
LEMMA LastOfBegun ==
  ASSUME NEW E, NEW T, NEW B, NEW k \in E, NEW s \in k.rect.streams, NEW n \in Int,
         Separate(E, T), B \subseteq T, k.id < n, Numbered(E),
         \A f \in E : f.id < n /\ s \in f.rect.streams => f.id \in B \cup {k.id}
  PROVE  LastUser(E, k, s, n)
<1> SUFFICES ASSUME NEW g \in E, k.id < g.id, g.id < n, s \in g.rect.streams
             PROVE  FALSE
  BY DEF LastUser
<1>1. g.id \in B /\ g.id \in T
  BY DEF Numbered
<1> QED BY <1>1 DEF Separate

LEMMA BeginStreams ==
  ASSUME NEW E, NEW T, NEW B, NEW st, NEW lu, NEW k \in E,
         Numbered(E), Separate(E, T), B \subseteq T, k.id \in T, StreamsRight(E, B, st, lu)
  PROVE  StreamsRight(E, B \cup {k.id},
                      [s \in Streams |-> IF s \in k.rect.streams THEN k.id ELSE st[s]], lu)
<1> DEFINE su == [s \in Streams |-> IF s \in k.rect.streams THEN k.id ELSE st[s]]
           C == B \cup {k.id}
<1>1. ASSUME NEW s \in Streams, \A e \in E : s \in e.rect.streams => e.id \in C
      PROVE  su[s] = lu[s]
  <2>1. CASE s \in k.rect.streams
    <3>1. k.id < MaxRects + 1 /\ MaxRects + 1 \in Int
      BY PoolAssumption DEF Numbered
    <3>2. LastUser(E, k, s, MaxRects + 1)
      BY <1>1, <2>1, <3>1, LastOfBegun
    <3> QED BY <2>1, <3>2 DEF StreamsRight
  <2>2. CASE s \notin k.rect.streams
    <3>1. \A e \in E : s \in e.rect.streams => e.id \in B
      BY <1>1, <2>2 DEF Numbered
    <3> QED BY <2>2, <3>1 DEF StreamsRight
  <2> QED BY <2>1, <2>2
<1>2. ASSUME NEW e \in E, e.id \notin C, NEW s \in e.rect.streams,
             \A f \in E : f.id < e.id /\ s \in f.rect.streams => f.id \in C
      PROVE  e.after[s] = su[s]
  <2>1. s \in Streams /\ e.id \in Int /\ k.id \in Int /\ e.id # k.id /\ e.id \notin B
    BY <1>2, RectFacts DEF Numbered
  <2>2. CASE s \in k.rect.streams
    <3>1. k.id < e.id
      BY <2>1, <2>2 DEF Separate
    <3>2. LastUser(E, k, s, e.id)
      BY <1>2, <2>1, <2>2, <3>1, LastOfBegun
    <3> QED BY <2>1, <2>2, <3>2 DEF StreamsRight
  <2>3. CASE s \notin k.rect.streams
    <3>1. \A f \in E : f.id < e.id /\ s \in f.rect.streams => f.id \in B
      BY <1>2, <2>3 DEF Numbered
    <3> QED BY <2>1, <2>3, <3>1 DEF StreamsRight
  <2> QED BY <2>2, <2>3
<1>3. \A e \in E : e.id \notin C => \A s \in e.rect.streams :
        \A f \in E : LastUser(E, f, s, e.id) => e.after[s] = f.id
  BY DEF StreamsRight
<1> QED BY <1>1, <1>2, <1>3 DEF StreamsRight

(* What an entry that has been taken finds when it begins.                 *)
LEMMA BeginFinds ==
  ASSUME NEW E, NEW T, NEW B, NEW W, NEW im, NEW st, NEW lu, NEW k \in E,
         Numbered(E), Separate(E, T), k.id \in T, k.id \notin B,
         CopiesRight(E, B, W, im), DataRight(E), StreamsRight(E, B, st, lu)
  PROVE  /\ \A s \in k.rect.streams : st[s] = k.after[s]
         /\ \A p \in k.rect.dest : Decoded(k.rect, k.id, im)[p] = k.result[p]
<1>1. ASSUME NEW s \in k.rect.streams
      PROVE  st[s] = k.after[s]
  <2>1. \A f \in E : ~(f.id < k.id /\ s \in f.rect.streams)
    BY DEF Separate
  <2> QED BY <2>1 DEF StreamsRight
<1>2. ASSUME NEW p \in k.rect.dest
      PROVE  Decoded(k.rect, k.id, im)[p] = k.result[p]
  <2>1. CASE p \in DOMAIN k.rect.from
    <3>1. k.rect.from[p] \in Affected(k.rect)
      BY <2>1, RectFacts DEF Numbered
    <3>2. \A f \in E : f.rect.dest \subseteq Affected(f.rect)
      BY RectFacts DEF Numbered
    <3>3. \A f \in E : ~(f.id < k.id /\ k.rect.from[p] \in f.rect.dest)
      BY <3>1, <3>2 DEF Separate
    <3>4. k.result[p] = im[k.rect.from[p]]
      BY <2>1, <3>3 DEF CopiesRight
    <3> QED BY <2>1, <3>4 DEF Decoded
  <2>2. CASE p \notin DOMAIN k.rect.from
    BY <2>2 DEF Decoded, DataRight
  <2> QED BY <2>1, <2>2
<1> QED BY <1>1, <1>2

(* An entry that has been written leaves.                                  *)
LEMMA RemoveEnds ==
  ASSUME NEW E, NEW T, NEW W, NEW im, NEW ex, NEW k \in E,
         Numbered(E), Separate(E, T), k.id \in W, k.id \in T, EndsRight(E, W, im, ex)
  PROVE  EndsRight(E \ {k}, W \ {k.id}, im, ex)
<1>1. ASSUME NEW e \in E \ {k}, NEW p \in Pixels, LastWriter(E \ {k}, e, p, MaxRects + 1)
      PROVE  ex[p] = e.result[p]
  <2>1. e.rect.dest \subseteq Affected(e.rect) /\ k.rect.dest \subseteq Affected(k.rect)
    BY RectFacts DEF Numbered
  <2>2. ~(e.id < k.id /\ p \in k.rect.dest)
    BY <1>1, <2>1 DEF Separate, LastWriter
  <2>3. LastWriter(E, e, p, MaxRects + 1)
    BY <1>1, <2>2 DEF LastWriter
  <2> QED BY <2>3 DEF EndsRight
<1>2. ASSUME NEW p \in Pixels, \A e \in E \ {k} : p \in e.rect.dest => e.id \in W \ {k.id}
      PROVE  im[p] = ex[p]
  BY <1>2 DEF EndsRight
<1> QED BY <1>1, <1>2 DEF EndsRight

LEMMA RemoveCopies ==
  ASSUME NEW E, NEW T, NEW B, NEW W, NEW im, NEW k \in E,
         Numbered(E), Separate(E, T), k.id \in W, k.id \in T, CopiesRight(E, B, W, im)
  PROVE  CopiesRight(E \ {k}, B \ {k.id}, W \ {k.id}, im)
<1> SUFFICES ASSUME NEW e \in E \ {k}, e.id \notin B \ {k.id}, NEW p \in DOMAIN e.rect.from
             PROVE  LET x == e.rect.from[p] IN
                    /\ \A f \in E \ {k} : LastWriter(E \ {k}, f, x, e.id) => e.result[p] = f.result[x]
                    /\ (\A f \in E \ {k} : f.id < e.id /\ x \in f.rect.dest => f.id \in W \ {k.id})
                         => e.result[p] = im[x]
  BY DEF CopiesRight
<1> DEFINE x == e.rect.from[p]
<1>1. e.id \notin B
  BY DEF Numbered
<1>2. ASSUME NEW f \in E \ {k}, LastWriter(E \ {k}, f, x, e.id)
      PROVE  e.result[p] = f.result[x]
  <2>1. f.rect.dest \subseteq Affected(f.rect) /\ k.rect.dest \subseteq Affected(k.rect)
    BY RectFacts DEF Numbered
  <2>2. ~(f.id < k.id /\ x \in k.rect.dest)
    BY <1>2, <2>1 DEF Separate, LastWriter
  <2>3. LastWriter(E, f, x, e.id)
    BY <1>2, <2>2 DEF LastWriter
  <2> QED BY <1>1, <2>3 DEF CopiesRight
<1>3. ASSUME \A f \in E \ {k} : f.id < e.id /\ x \in f.rect.dest => f.id \in W \ {k.id}
      PROVE  e.result[p] = im[x]
  BY <1>1, <1>3 DEF CopiesRight
<1> QED BY <1>2, <1>3

LEMMA RemoveStreams ==
  ASSUME NEW E, NEW T, NEW B, NEW st, NEW lu, NEW k \in E,
         Numbered(E), Separate(E, T), k.id \in B, k.id \in T, StreamsRight(E, B, st, lu)
  PROVE  StreamsRight(E \ {k}, B \ {k.id}, st, lu)
<1> DEFINE F == E \ {k}
<1>0. ASSUME NEW f \in F, NEW s, NEW n, LastUser(F, f, s, n)
      PROVE  LastUser(E, f, s, n)
  <2>1. ~(f.id < k.id /\ s \in k.rect.streams)
    BY <1>0 DEF Separate, LastUser
  <2> QED BY <1>0, <2>1 DEF LastUser
<1>1. \A e \in F, s \in Streams : LastUser(F, e, s, MaxRects + 1) => lu[s] = e.id
  BY <1>0 DEF StreamsRight
<1>2. ASSUME NEW s \in Streams, \A e \in F : s \in e.rect.streams => e.id \in B \ {k.id}
      PROVE  st[s] = lu[s]
  BY <1>2 DEF StreamsRight
<1>3. ASSUME NEW e \in F, e.id \notin B \ {k.id}, NEW s \in e.rect.streams
      PROVE  /\ \A f \in F : LastUser(F, f, s, e.id) => e.after[s] = f.id
             /\ (\A f \in F : f.id < e.id /\ s \in f.rect.streams => f.id \in B \ {k.id})
                  => e.after[s] = st[s]
  <2>1. e.id \notin B
    BY <1>3 DEF Numbered
  <2>2. \A f \in F : LastUser(F, f, s, e.id) => e.after[s] = f.id
    BY <1>0, <1>3, <2>1 DEF StreamsRight
  <2>3. ASSUME \A f \in F : f.id < e.id /\ s \in f.rect.streams => f.id \in B \ {k.id}
        PROVE  e.after[s] = st[s]
    BY <1>3, <2>1, <2>3 DEF StreamsRight
  <2> QED BY <2>2, <2>3
<1> QED BY <1>1, <1>2, <1>3 DEF StreamsRight

-----------------------------------------------------------------------------
(* What single steps do to the queue.                                      *)

LEMMA EntryFacts ==
  ASSUME NEW e \in Entry
  PROVE  /\ e.id \in 1 .. MaxRects /\ e.id \in Int /\ e.rect \in Rects
         /\ e.buffer \in Buffers /\ e.active \in BOOLEAN
  BY PoolAssumption DEF Entry

LEMMA CoreParts ==
  ASSUME NEW e
  PROVE  /\ Core(e).id = e.id /\ Core(e).rect = e.rect
         /\ Core(e).after = e.after /\ Core(e).result = e.result
  BY DEF Core

(* An entry is queued: it comes last.                                      *)
LEMMA Queued ==
  ASSUME NEW q \in Seq(Entry), NEW e \in Entry, Sorted(q),
         \A i \in DOMAIN q : q[i].id < e.id
  PROVE  /\ Append(q, e) \in Seq(Entry)
         /\ Cores(Append(q, e)) = Cores(q) \cup {Core(e)}
         /\ Sorted(Append(q, e))
<1>1. Append(q, e) \in Seq(Entry) /\ DOMAIN Append(q, e) = DOMAIN q \cup {Len(q) + 1}
      /\ Append(q, e)[Len(q) + 1] = e /\ \A i \in DOMAIN q : Append(q, e)[i] = q[i]
  OBVIOUS
<1>2. Cores(Append(q, e)) = Cores(q) \cup {Core(e)}
  BY <1>1 DEF Cores
<1>3. Sorted(Append(q, e))
  BY <1>1 DEF Sorted
<1> QED BY <1>1, <1>2, <1>3

(* An entry is taken: only its mark changes.                               *)
LEMMA Marked ==
  ASSUME NEW q \in Seq(Entry), NEW i \in DOMAIN q, Sorted(q)
  PROVE  LET r == [q EXCEPT ![i].active = TRUE]
         IN  /\ r \in Seq(Entry) /\ DOMAIN r = DOMAIN q
             /\ \A j \in DOMAIN q : j # i => r[j] = q[j]
             /\ r[i] = [q[i] EXCEPT !.active = TRUE] /\ q[i] \in Entry
             /\ Cores(r) = Cores(q) /\ Sorted(r)
<1> DEFINE r == [q EXCEPT ![i].active = TRUE]
<1>1. q[i] \in Entry
  OBVIOUS
<1>2. [q[i] EXCEPT !.active = TRUE] \in Entry
  BY <1>1 DEF Entry
<1>3. r \in Seq(Entry) /\ DOMAIN r = DOMAIN q /\ (\A j \in DOMAIN q : j # i => r[j] = q[j])
      /\ r[i] = [q[i] EXCEPT !.active = TRUE]
  BY <1>2
<1>4. \A j \in DOMAIN q : Core(r[j]) = Core(q[j]) /\ r[j].id = q[j].id
  BY <1>1, <1>3 DEF Core, Entry
<1>5. Cores(r) = Cores(q)
  <2> HIDE DEF r
  <2> QED BY <1>3, <1>4 DEF Cores
<1>6. Sorted(r)
  BY <1>3, <1>4 DEF Sorted
<1> QED BY <1>1, <1>3, <1>5, <1>6

(* An entry leaves: those behind it move up.                               *)
LEMMA Left ==
  ASSUME NEW q \in Seq(Entry), NEW at \in DOMAIN q, Sorted(q)
  PROVE  LET r == Without(q, q[at].id)
         IN  /\ r \in Seq(Entry) /\ Len(r) = Len(q) - 1
             /\ \A i \in DOMAIN r : r[i] = IF i < at THEN q[i] ELSE q[i + 1]
             /\ Cores(r) = Cores(q) \ {Core(q[at])} /\ Sorted(r)
<1> DEFINE r == Without(q, q[at].id)
<1>1. \A i \in DOMAIN q : q[i] \in Entry /\ q[i].id \in Int
  BY EntryFacts
<1>2. \A i \in DOMAIN q : q[i].id = q[at].id => i = at
  BY <1>1 DEF Sorted
<1>3. (CHOOSE i \in DOMAIN q : q[i].id = q[at].id) = at
  BY <1>2
<1> DEFINE a == SubSeq(q, 1, at - 1)
           b == SubSeq(q, at + 1, Len(q))
<1>4. r = a \o b
  BY <1>3 DEF Without
<1>5. at \in 1 .. Len(q) /\ Len(q) \in Nat
  OBVIOUS
<1>6. /\ a \in Seq(Entry) /\ Len(a) = at - 1 /\ b \in Seq(Entry) /\ Len(b) = Len(q) - at
      /\ \A i \in 1 .. at - 1 : a[i] = q[i]
      /\ \A i \in 1 .. Len(q) - at : b[i] = q[i + at]
  BY <1>5
<1> HIDE DEF a, b, r
<1>7. r \in Seq(Entry) /\ Len(r) = Len(q) - 1
  BY <1>4, <1>5, <1>6
<1>8. ASSUME NEW i \in DOMAIN r
      PROVE  r[i] = IF i < at THEN q[i] ELSE q[i + 1]
  <2>1. i \in 1 .. Len(q) - 1
    BY <1>5, <1>7
  <2>2. CASE i < at
    BY <1>4, <1>5, <1>6, <2>1, <2>2
  <2>3. CASE ~(i < at)
    <3>1. r[i] = b[i - Len(a)] /\ i - Len(a) \in 1 .. Len(q) - at
      BY <1>4, <1>5, <1>6, <2>1, <2>3
    <3>2. (i - (at - 1)) + at = i + 1
      BY <1>5, <2>1
    <3> QED BY <1>6, <2>3, <3>1, <3>2
  <2> QED BY <2>2, <2>3
<1>9. DOMAIN r = 1 .. Len(q) - 1 /\ DOMAIN q = 1 .. Len(q)
  BY <1>7
<1>10. Sorted(r)
  BY <1>5, <1>8, <1>9 DEF Sorted
<1>11. Cores(r) = Cores(q) \ {Core(q[at])}
  <2>1. ASSUME NEW i \in DOMAIN r
        PROVE  \E j \in DOMAIN q : j # at /\ r[i] = q[j]
    BY <1>5, <1>8, <1>9
  <2>2. ASSUME NEW j \in DOMAIN q, j # at
        PROVE  \E i \in DOMAIN r : r[i] = q[j]
    <3>1. CASE j < at
      BY <3>1, <1>5, <1>8, <1>9
    <3>2. CASE j > at
      <4>1. j - 1 \in DOMAIN r /\ ~(j - 1 < at) /\ (j - 1) + 1 = j
        BY <3>2, <1>5, <1>9
      <4> QED BY <4>1, <1>8
    <3> QED BY <2>2, <3>1, <3>2, <1>5
  <2>3. \A j \in DOMAIN q : j # at => Core(q[j]) # Core(q[at])
    BY <1>2, CoreParts
  <2> QED BY <2>1, <2>2, <2>3 DEF Cores
<1> QED BY <1>7, <1>8, <1>10, <1>11 DEF r

-----------------------------------------------------------------------------
(* The initial state, and facts about every state.                         *)

LEMMA InitIInv == Init => IInv
<1> SUFFICES ASSUME Init PROVE IInv
  OBVIOUS
<1> USE DEF Init
<1>0. MaxRects \in Nat /\ 2 * Cardinality(Workers) \in Nat /\ Buffers = 1 .. 2 * Cardinality(Workers)
  BY PoolAssumption, FS_CardinalityType DEF Buffers
<1>1. freeBuffers \in Seq(Buffers) /\ Len(freeBuffers) = 2 * Cardinality(Workers)
  BY <1>0
<1>2. workQueue \in Seq(Entry) /\ DOMAIN workQueue = {}
  OBVIOUS
<1>3. Pending = {} /\ Sorted(workQueue)
  BY <1>2 DEF Pending, Cores, Sorted
<1>4. TypeOK
  <2>1. img \in [Pixels -> {Garbage} \cup 0 .. MaxRects] /\ arrived \in 0 .. MaxRects
    BY <1>0
  <2>2. \A i \in DOMAIN workQueue : workQueue[i].id \in 1 .. arrived
    BY <1>2
  <2> QED BY <1>1, <2>1, <2>2 DEF TypeOK
<1>5. Typed
  BY <1>0, <1>2, <1>4 DEF Typed, Values, Garbage
<1>6. \A w \in Workers : worker[w] = "look"
  OBVIOUS
<1>7. JobsFit /\ FailuresKnown
  BY <1>6 DEF JobsFit, FailuresKnown, BusyStates
<1>8. Separate(Pending, Taken)
  BY <1>3 DEF Separate
<1>9. OnCourse
  <2>1. EndsRight({}, Written, img, expected)
    BY DEF EndsRight
  <2>2. CopiesRight({}, Begun, Written, img) /\ DataRight({})
    BY DEF CopiesRight, DataRight
  <2>3. StreamsRight({}, Begun, stream, lastUse)
    BY DEF StreamsRight
  <2> QED BY <1>3, <2>1, <2>2, <2>3 DEF OnCourse, WritesRight
<1>10. Shared(workQueue, freeBuffers)
  <2>1. DOMAIN freeBuffers = Buffers
    OBVIOUS
  <2>2. \A b \in Buffers : freeBuffers[b] = b
    OBVIOUS
  <2> QED BY <1>2, <2>1, <2>2 DEF Shared
<1> QED BY <1>3, <1>5, <1>7, <1>8, <1>9, <1>10 DEF IInv

(* The numbers of taken entries.                                           *)
LEMMA JobsOf ==
  ASSUME NEW states, NEW n
  PROVE  n \in Jobs(states) <=> \E w \in Workers : worker[w] \in states /\ n = job[w].id
  BY DEF Jobs

LEMMA JobsNested == Written \subseteq Begun /\ Begun \subseteq Taken
  BY DEF Written, Begun, Taken, Jobs, BusyStates

LEMMA PendingOf ==
  ASSUME NEW c
  PROVE  c \in Pending <=> \E i \in DOMAIN workQueue : c = Core(workQueue[i])
  BY DEF Pending, Cores

LEMMA PendingNumbered ==
  ASSUME IInv
  PROVE  Numbered(Pending)
<1>1. \A i \in DOMAIN workQueue : workQueue[i] \in Entry
  BY DEF IInv, Typed
<1>2. \A i \in DOMAIN workQueue : workQueue[i].id \in 1 .. MaxRects /\ workQueue[i].rect \in Rects
  BY <1>1, EntryFacts
<1>3. \A i, j \in DOMAIN workQueue : workQueue[i].id = workQueue[j].id => i = j
  <2>1. \A i \in DOMAIN workQueue : i \in Int /\ workQueue[i].id \in Int
    BY <1>1, EntryFacts DEF IInv, Typed
  <2> QED BY <2>1 DEF IInv, Sorted
<1>4. \A c \in Pending : \E i \in DOMAIN workQueue : c = Core(workQueue[i])
  BY PendingOf
<1>5. \A c \in Pending : c.id \in 1 .. MaxRects /\ c.rect \in Rects
  BY <1>2, <1>4, CoreParts
<1>6. \A c, d \in Pending : c.id = d.id => c = d
  BY <1>3, <1>4, CoreParts
<1> QED BY <1>5, <1>6 DEF Numbered

(* The entry of a busy worker, and no other's.                             *)
LEMMA BusyEntry ==
  ASSUME IInv, NEW w \in Workers, worker[w] \in BusyStates
  PROVE  \E i \in DOMAIN workQueue :
           /\ Fits(w, workQueue[i]) /\ workQueue[i] \in Entry
           /\ workQueue[i].id = job[w].id /\ Core(workQueue[i]) \in Pending
           /\ workQueue[i].id \in 1 .. arrived
           /\ job[w].id \in Taken
           /\ \A v \in Workers : worker[v] \in BusyStates /\ v # w => job[v].id # job[w].id
           /\ \A j \in DOMAIN workQueue : workQueue[j].id = job[w].id => j = i
<1>1. PICK i \in DOMAIN workQueue : Fits(w, workQueue[i])
  BY DEF IInv, JobsFit
<1>2. workQueue[i] \in Entry /\ workQueue[i].id = job[w].id /\ workQueue[i].id \in 1 .. arrived
  BY <1>1 DEF IInv, Typed, TypeOK, Fits
<1>3. job[w].id \in Taken
  BY JobsOf DEF Taken
<1>4. Core(workQueue[i]) \in Pending
  BY PendingOf
<1>5. \A v \in Workers : worker[v] \in BusyStates /\ v # w => job[v].id # job[w].id
  BY DEF IInv, JobsFit
<1>6. ASSUME NEW j \in DOMAIN workQueue, workQueue[j].id = job[w].id
      PROVE  j = i
  <2>1. i \in Int /\ j \in Int /\ workQueue[i].id \in Int
    BY <1>2, EntryFacts DEF IInv, Typed
  <2> QED BY <1>2, <1>6, <2>1 DEF IInv, Sorted
<1> QED BY <1>1, <1>2, <1>3, <1>4, <1>5, <1>6

-----------------------------------------------------------------------------
(* Steps that take no entry any further.                                   *)

(* Workers that are not busy may go from one state to another.             *)
Idling == \A v \in Workers : \/ worker'[v] = worker[v]
                             \/ worker[v] \notin BusyStates /\ worker'[v] \notin BusyStates

LEMMA IdlingJobs ==
  ASSUME Idling, job' = job
  PROVE  Taken' = Taken /\ Begun' = Begun /\ Written' = Written
<1>1. \A v \in Workers : \A st \in BusyStates : (worker'[v] = st) <=> (worker[v] = st)
  BY DEF Idling
<1>2. \A v \in Workers : (worker'[v] \in BusyStates <=> worker[v] \in BusyStates)
                          /\ (worker'[v] \in {"write", "finish"} <=> worker[v] \in {"write", "finish"})
                          /\ (worker'[v] \in {"finish"} <=> worker[v] \in {"finish"})
  BY <1>1 DEF BusyStates
<1> QED BY <1>2 DEF Taken, Begun, Written, Jobs

LEMMA IdlingFits ==
  ASSUME IInv, Idling, job' = job, workQueue' = workQueue
  PROVE  JobsFit'
<1>1. \A v \in Workers : worker'[v] \in BusyStates => worker'[v] = worker[v]
  BY DEF Idling
<1>2. ASSUME NEW w \in Workers, worker'[w] \in BusyStates
      PROVE  \E i \in DOMAIN workQueue' : Fits(w, workQueue[i])'
  <2>1. PICK i \in DOMAIN workQueue : Fits(w, workQueue[i])
    BY <1>1, <1>2 DEF IInv, JobsFit
  <2> QED BY <1>1, <1>2, <2>1 DEF Fits
<1>3. \A v, w \in Workers : worker'[v] \in BusyStates /\ worker'[w] \in BusyStates
                             /\ job'[v].id = job'[w].id => v = w
  BY <1>1 DEF IInv, JobsFit
<1> QED BY <1>2, <1>3 DEF JobsFit

LEMMA QuietStep ==
  ASSUME IInv, Idling, Typed', FailuresKnown', Healthy' => Healthy,
         UNCHANGED <<freeBuffers, workQueue, job, img, stream, expected, lastUse>>
  PROVE  IInv'
<1>1. Taken' = Taken /\ Begun' = Begun /\ Written' = Written
  BY IdlingJobs
<1>2. Pending' = Pending
  BY DEF Pending
<1>3. JobsFit'
  BY IdlingFits
<1>4. Sorted(workQueue)' /\ Shared(workQueue, freeBuffers)'
  BY DEF IInv, Sorted, Shared
<1>5. Separate(Pending, Taken)'
  BY <1>1, <1>2 DEF IInv, Separate
<1>6. OnCourse'
  <2>1. SUFFICES ASSUME Healthy' PROVE OnCourse'
    BY DEF OnCourse
  <2>2. /\ EndsRight(Pending, Written, img, expected) /\ CopiesRight(Pending, Begun, Written, img)
        /\ DataRight(Pending) /\ StreamsRight(Pending, Begun, stream, lastUse) /\ WritesRight
    BY <2>1 DEF IInv, OnCourse
  <2>3. EndsRight(Pending, Written, img, expected)'
    BY <1>1, <1>2, <2>2 DEF EndsRight, LastWriter
  <2>4. CopiesRight(Pending, Begun, Written, img)'
    BY <1>1, <1>2, <2>2 DEF CopiesRight, LastWriter
  <2>5. DataRight(Pending)'
    BY <1>2, <2>2 DEF DataRight
  <2>6. StreamsRight(Pending, Begun, stream, lastUse)'
    BY <1>1, <1>2, <2>2 DEF StreamsRight, LastUser
  <2>7. WritesRight'
    <3>1. \A w \in Workers : worker'[w] = "write" => worker[w] = "write"
      BY DEF Idling, BusyStates
    <3> QED BY <1>2, <2>2, <3>1 DEF WritesRight
  <2> QED BY <2>3, <2>4, <2>5, <2>6, <2>7 DEF OnCourse
<1> QED BY <1>3, <1>4, <1>5, <1>6 DEF IInv

LEMMA DecodeRectKeeps ==
  ASSUME IInv, NEW r \in Rects, DecodeRect(r)
  PROVE  IInv'
<1>1. Idling
  BY DEF DecodeRect, Idling
<1>2. TypeOK'
  BY DEF IInv, Typed, TypeOK, DecodeRect, queueVars, history
<1>3. Typed'
  BY <1>2 DEF IInv, Typed, DecodeRect, queueVars, history
<1>4. FailuresKnown'
  BY DEF IInv, FailuresKnown, DecodeRect, queueVars
<1> QED BY <1>1, <1>3, <1>4, QuietStep DEF DecodeRect, queueVars, history, Healthy

LEMMA GetBufferKeeps ==
  ASSUME IInv, GetBuffer
  PROVE  IInv'
<1>1. Idling
  BY DEF GetBuffer, Idling
<1>2. TypeOK'
  BY DEF IInv, Typed, TypeOK, GetBuffer, queueVars, history
<1>3. Typed'
  <2>1. CASE freeBuffers = <<>>
    BY <1>2, <2>1 DEF IInv, Typed, GetBuffer, queueVars, history
  <2>2. CASE freeBuffers # <<>>
    <3>1. Head(freeBuffers) \in Buffers
      BY <2>2 DEF IInv, Typed, TypeOK
    <3>2. reading' = [reading EXCEPT !.buffer = Head(freeBuffers)] /\ main' = "check"
      BY <2>2 DEF GetBuffer
    <3>3. reading' \in [rect : Rects \cup {<<>>}, buffer : Buffers \cup {0}]
          /\ reading'.rect = reading.rect /\ reading'.buffer = Head(freeBuffers)
      BY <3>1, <3>2 DEF IInv, Typed
    <3> QED BY <1>2, <2>2, <3>2, <3>3 DEF IInv, Typed, GetBuffer, queueVars, history
  <2> QED BY <2>1, <2>2
<1>4. FailuresKnown'
  BY DEF IInv, FailuresKnown, GetBuffer, queueVars
<1> QED BY <1>1, <1>3, <1>4, QuietStep DEF GetBuffer, queueVars, history, Healthy

(* An exception is passed on with the failures that have been recorded.    *)
LEMMA ThrowKeeps ==
  ASSUME IInv, NEW from, NEW next, NEW caught, Throw(from, next, caught),
         <<from, next, caught>> \in
           {<<"check", "read", "failed">>, <<"drained", "idle", "failed">>,
            <<"closing", "stopping", "aborted">>}
  PROVE  IInv'
<1>0. UNCHANGED <<mainWaits, reading, freeBuffers, workQueue, worker, job, stopRequested,
                  img, stream, arrived, expected, lastUse>>
      /\ threadException' = FALSE /\ main = from
  BY DEF Throw, queueVars, history
<1>1. Idling
  BY <1>0 DEF Idling
<1>2. unreported' \subseteq unreported /\ main' \in {next, caught}
  BY DEF Throw
<1>3. TypeOK'
  BY <1>0, <1>2 DEF IInv, Typed, TypeOK
<1>4. Typed'
  BY <1>0, <1>2, <1>3 DEF IInv, Typed
<1>5. FailuresKnown'
  <2>1. \A w \in Workers : worker[w] = "throw" => job[w].id \in unreported'
    BY DEF IInv, FailuresKnown, Throw, Recorded
  <2>2. \A n \in unreported' : \E w \in Workers : worker[w] = "throw" /\ job[w].id = n
    BY DEF IInv, FailuresKnown, Throw, Recorded
  <2>3. main' \notin {"drained", "closing"}
    BY <1>2
  <2> QED BY <1>0, <2>1, <2>2, <2>3 DEF FailuresKnown
<1>6. Healthy' => Healthy
  BY <1>0 DEF Throw, Healthy
<1> QED BY <1>0, <1>1, <1>4, <1>5, <1>6, QuietStep

LEMMA FlushKeeps ==
  ASSUME IInv, NEW from, NEW flushing, Flush(from, flushing),
         <<from, flushing>> \in {<<"idle", "flush">>, <<"idle", "close">>, <<"failed", "close">>}
  PROVE  IInv'
<1>0. UNCHANGED <<mainWaits, reading, freeBuffers, workQueue, worker, job, stopRequested,
                  threadException, img, stream, arrived, expected, lastUse, unreported>>
      /\ main = from /\ main' = flushing
  BY DEF Flush, queueVars, history
<1>1. Idling
  BY <1>0 DEF Idling
<1>2. TypeOK'
  BY <1>0 DEF IInv, Typed, TypeOK
<1>3. Typed'
  BY <1>0, <1>2 DEF IInv, Typed
<1>4. FailuresKnown'
  BY <1>0 DEF IInv, FailuresKnown
<1>5. Healthy' => Healthy
  BY <1>0 DEF Healthy
<1> QED BY <1>0, <1>1, <1>3, <1>4, <1>5, QuietStep

LEMMA DrainKeeps ==
  ASSUME IInv, NEW flushing, NEW drained, Drain(flushing, drained),
         <<flushing, drained>> \in {<<"flush", "drained">>, <<"close", "closing">>}
  PROVE  IInv'
<1>0. UNCHANGED <<reading, freeBuffers, workQueue, worker, job, stopRequested,
                  threadException, img, stream, arrived, expected, lastUse, unreported>>
      /\ main = flushing /\ mainWaits' \in BOOLEAN
      /\ (main' = main \/ (main' = drained /\ workQueue = <<>>))
  <2>1. mainWaits \in BOOLEAN
    BY DEF IInv, Typed, TypeOK
  <2>2. mainWaits' \in BOOLEAN
    BY <2>1, Zenon DEF Drain
  <2>3. main = flushing /\ (main' = main \/ (main' = drained /\ workQueue = <<>>))
    <3>1. CASE workQueue = <<>>
      BY <3>1 DEF Drain
    <3>2. CASE workQueue # <<>>
      BY <3>2 DEF Drain
    <3> QED BY <3>1, <3>2
  <2>4. UNCHANGED <<reading, freeBuffers, workQueue, worker, job, stopRequested,
                    threadException, img, stream, arrived, expected, lastUse, unreported>>
    BY DEF Drain, queueVars, history
  <2> QED BY <2>2, <2>3, <2>4
<1>1. Idling
  BY <1>0 DEF Idling
<1>2. TypeOK'
  BY <1>0 DEF IInv, Typed, TypeOK
<1>3. Typed'
  BY <1>0, <1>2 DEF IInv, Typed
<1>4. FailuresKnown'
  BY <1>0 DEF IInv, FailuresKnown
<1>5. Healthy' => Healthy
  BY <1>0 DEF Healthy
<1> QED BY <1>0, <1>1, <1>3, <1>4, <1>5, QuietStep

(* Reading fails, or all workers have been joined.                         *)
LEMMA EndingKeeps ==
  ASSUME IInv, ReadFails \/ Closed
  PROVE  IInv'
<1>0. UNCHANGED <<mainWaits, reading, freeBuffers, workQueue, worker, job, stopRequested,
                  threadException, img, stream, arrived, expected, lastUse, unreported>>
      /\ main' \in {"failed", "closed"}
  BY DEF ReadFails, Closed, queueVars, history
<1>1. Idling
  BY <1>0 DEF Idling
<1>2. TypeOK'
  BY <1>0 DEF IInv, Typed, TypeOK
<1>3. Typed'
  BY <1>0, <1>2 DEF IInv, Typed
<1>4. FailuresKnown'
  BY <1>0 DEF IInv, FailuresKnown
<1>5. Healthy' => Healthy
  BY <1>0 DEF Healthy
<1> QED BY <1>0, <1>1, <1>3, <1>4, <1>5, QuietStep

(* A worker stops, waits or wakes up, or is asked to stop.                 *)
LEMMA IdleWorkerKeeps ==
  ASSUME IInv, NEW w \in Workers, Exit(w) \/ Wait(w) \/ SpuriousWakeup(w) \/ StopWorker(w)
  PROVE  IInv'
<1>0. UNCHANGED <<main, mainWaits, reading, freeBuffers, workQueue, job,
                  threadException, img, stream, arrived, expected, lastUse, unreported>>
      /\ stopRequested' \subseteq stopRequested \cup {w}
  BY DEF Exit, Wait, SpuriousWakeup, StopWorker, queueVars, history
<1>1. /\ worker' \in [Workers -> {"look", "wait", "decode", "write", "throw", "finish", "exited"}]
      /\ \A v \in Workers : worker'[v] = worker[v]
           \/ (worker[v] \in {"look", "wait"} /\ worker'[v] \in {"look", "wait", "exited"})
  <2>1. worker \in [Workers -> {"look", "wait", "decode", "write", "throw", "finish", "exited"}]
    BY DEF IInv, Typed, TypeOK
  <2>2. CASE Exit(w) \/ Wait(w) \/ SpuriousWakeup(w)
    <3>1. worker[w] \in {"look", "wait"} /\ \E to \in {"look", "wait", "exited"} :
            worker' = [worker EXCEPT ![w] = to]
      BY <2>2 DEF Exit, Wait, SpuriousWakeup
    <3>2. worker' \in [Workers -> {"look", "wait", "decode", "write", "throw", "finish", "exited"}]
      BY <2>1, <3>1
    <3>3. worker'[w] \in {"look", "wait", "exited"} /\ \A v \in Workers \ {w} : worker'[v] = worker[v]
      BY <2>1, <3>1
    <3> QED BY <3>1, <3>2, <3>3
  <2>3. CASE StopWorker(w)
    <3>1. worker' = [v \in Workers |-> IF worker[v] = "wait" THEN "look" ELSE worker[v]]
      BY <2>3 DEF StopWorker
    <3>2. worker' \in [Workers -> {"look", "wait", "decode", "write", "throw", "finish", "exited"}]
      BY <2>1, <3>1
    <3>3. \A v \in Workers : worker'[v] = worker[v] \/ (worker[v] = "wait" /\ worker'[v] = "look")
      BY <3>1
    <3> QED BY <3>2, <3>3
  <2> QED BY <2>2, <2>3
<1>2. Idling
  BY <1>1 DEF Idling, BusyStates
<1>3. TypeOK'
  BY <1>0, <1>1 DEF IInv, Typed, TypeOK
<1>4. Typed'
  BY <1>0, <1>3 DEF IInv, Typed
<1>5. FailuresKnown'
  <2>1. \A v \in Workers : worker'[v] = "throw" <=> worker[v] = "throw"
    BY <1>1
  <2> QED BY <1>0, <2>1 DEF IInv, FailuresKnown
<1>6. Healthy' => Healthy
  BY <1>0 DEF Healthy
<1> QED BY <1>0, <1>2, <1>4, <1>5, <1>6, QuietStep

-----------------------------------------------------------------------------
(* A rectangle is queued.                                                  *)

(* The front buffer goes to the entry.                                     *)
LEMMA BufferUsed ==
  ASSUME NEW q \in Seq(Entry), NEW e \in Entry, NEW free \in Seq(Buffers), free # <<>>,
         Shared(q, free), e.buffer = Head(free)
  PROVE  Shared(Append(q, e), Tail(free)) /\ Tail(free) \in Seq(Buffers)
<1> DEFINE left == Tail(free)
           r == Append(q, e)
<1>1. /\ left \in Seq(Buffers) /\ Len(free) \in Nat /\ Len(free) > 0 /\ Len(left) = Len(free) - 1
      /\ \A i \in 1 .. Len(free) - 1 : left[i] = free[i + 1]
      /\ e.buffer = free[1]
  OBVIOUS
<1>2. /\ DOMAIN r = DOMAIN q \cup {Len(q) + 1} /\ Len(q) + 1 \notin DOMAIN q
      /\ r[Len(q) + 1] = e /\ \A i \in DOMAIN q : r[i] = q[i]
  OBVIOUS
<1>3. DOMAIN free = 1 .. Len(free) /\ DOMAIN left = 1 .. Len(free) - 1
  BY <1>1
<1> HIDE DEF left, r
<1>31. \A i \in DOMAIN left : /\ i \in Int /\ i + 1 \in DOMAIN free /\ i + 1 # 1
                              /\ left[i] = free[i + 1]
  BY <1>1, <1>3
<1>32. 1 \in DOMAIN free
  BY <1>1, <1>3
<1>4. \A i, j \in DOMAIN left : i # j => left[i] # left[j]
  <2>1. \A i, j \in DOMAIN left : i # j => i + 1 # j + 1
    BY <1>31
  <2> QED BY <1>31, <2>1 DEF Shared
<1>5. \A i, j \in DOMAIN r : i # j => r[i].buffer # r[j].buffer
  BY <1>1, <1>2, <1>3 DEF Shared
<1>6. ASSUME NEW i \in DOMAIN left, NEW j \in DOMAIN r
      PROVE  left[i] # r[j].buffer
  <2>1. CASE j \in DOMAIN q
    BY <1>2, <1>31, <2>1 DEF Shared
  <2>2. CASE j = Len(q) + 1
    <3>1. free[i + 1] # free[1]
      BY <1>31, <1>32 DEF Shared
    <3> QED BY <1>1, <1>2, <1>31, <2>2, <3>1
  <2> QED BY <1>2, <2>1, <2>2
<1>7. ASSUME NEW b \in Buffers
      PROVE  (\E i \in DOMAIN left : left[i] = b) \/ \E j \in DOMAIN r : r[j].buffer = b
  <2>1. CASE \E i \in DOMAIN free : free[i] = b
    <3>1. PICK i \in DOMAIN free : free[i] = b
      BY <2>1
    <3>2. CASE i = 1
      BY <1>1, <1>2, <3>1, <3>2
    <3>3. CASE i # 1
      <4>1. i - 1 \in DOMAIN left /\ (i - 1) + 1 = i
        BY <1>1, <1>3, <3>3
      <4> QED BY <1>1, <1>3, <3>1, <4>1
    <3> QED BY <3>2, <3>3
  <2>2. CASE \E j \in DOMAIN q : q[j].buffer = b
    BY <1>2, <2>2
  <2> QED BY <2>1, <2>2 DEF Shared
<1> QED BY <1>1, <1>4, <1>5, <1>6, <1>7 DEF left, r, Shared

LEMMA DecodedType ==
  ASSUME NEW r \in Rects, NEW n \in Values, NEW source \in [Pixels -> Values]
  PROVE  Decoded(r, n, source) \in [r.dest -> Values]
<1>1. \A p \in DOMAIN r.from : r.from[p] \in Pixels
  BY RectFacts
<1> QED BY <1>1 DEF Decoded

LEMMA PaintType ==
  ASSUME NEW S \in SUBSET Pixels, NEW f \in [S -> Values], NEW g \in [Pixels -> Values]
  PROVE  /\ Paint(f, g) \in [Pixels -> Values]
         /\ Paint(f, g) = [p \in Pixels |-> IF p \in S THEN f[p] ELSE g[p]]
  BY DEF Paint

LEMMA EnqueueKeeps ==
  ASSUME IInv, NEW w \in Workers, Enqueue(w)
  PROVE  IInv'
<1> DEFINE r == reading.rect
           n == arrived + 1
           e == [id |-> n, rect |-> r, buffer |-> reading.buffer, active |-> FALSE,
                 after |-> [s \in r.streams |-> lastUse[s]],
                 result |-> Decoded(r, n, expected)]
           c == Core(e)
<1>1. /\ main = "read" /\ main' = "idle" /\ arrived' = n
      /\ freeBuffers' = Tail(freeBuffers) /\ workQueue' = Append(workQueue, e)
      /\ expected' = Paint(Decoded(r, n, expected), expected)
      /\ lastUse' = [s \in Streams |-> IF s \in r.streams THEN n ELSE lastUse[s]]
      /\ UNCHANGED <<mainWaits, reading, job, stopRequested, threadException,
                      img, stream, unreported>>
      /\ Signalled(w)
  BY DEF Enqueue, QueueReading
<1>2. /\ r \in Rects /\ n \in 1 .. MaxRects /\ arrived \in Nat /\ n \in Values /\ n \in 0 .. MaxRects
      /\ reading.buffer \in Buffers /\ reading.buffer = Head(freeBuffers) /\ freeBuffers # <<>>
      /\ workQueue \in Seq(Entry) /\ freeBuffers \in Seq(Buffers) /\ expected \in [Pixels -> Values]
      /\ lastUse \in [Streams -> 0 .. MaxRects]
      /\ \A i \in DOMAIN workQueue : workQueue[i].id \in 1 .. arrived
  BY <1>1, PoolAssumption DEF IInv, Typed, TypeOK, Values
<1>3. /\ Decoded(r, n, expected) \in [r.dest -> Values] /\ r.dest \in SUBSET Pixels
      /\ [s \in r.streams |-> lastUse[s]] \in [r.streams -> 0 .. MaxRects]
      /\ r.streams \in SUBSET Streams
  BY <1>2, DecodedType, RectFacts
<1>4. e \in Entry
  BY <1>2, <1>3 DEF Entry
<1>5. /\ e.id = n /\ e.rect = r /\ e.buffer = reading.buffer /\ c.id = n /\ c.rect = r
      /\ c.after = [s \in r.streams |-> lastUse[s]] /\ c.result = Decoded(r, n, expected)
  BY DEF Core
<1> HIDE DEF e, c
<1>6. \A i \in DOMAIN workQueue : workQueue[i].id < n
  BY <1>2
<1>7. workQueue' \in Seq(Entry) /\ Pending' = Pending \cup {c} /\ Sorted(workQueue)'
  BY <1>1, <1>2, <1>4, <1>5, <1>6, Queued DEF IInv, Pending, c
<1>8. /\ worker' \in [Workers -> {"look", "wait", "decode", "write", "throw", "finish", "exited"}]
      /\ \A v \in Workers : worker'[v] = worker[v] \/ (worker[v] = "wait" /\ worker'[v] = "look")
  <2>1. worker \in [Workers -> {"look", "wait", "decode", "write", "throw", "finish", "exited"}]
    BY DEF IInv, Typed, TypeOK
  <2> QED BY <1>1, <2>1 DEF Signalled
<1>9. Idling
  BY <1>8 DEF Idling, BusyStates
<1>10. Taken' = Taken /\ Begun' = Begun /\ Written' = Written
  BY <1>1, <1>9, IdlingJobs
<1>11. /\ DOMAIN workQueue' = DOMAIN workQueue \cup {Len(workQueue) + 1}
       /\ \A i \in DOMAIN workQueue : workQueue'[i] = workQueue[i]
       /\ workQueue'[Len(workQueue) + 1] = e
  BY <1>1, <1>2, <1>4
<1>12. Shared(workQueue, freeBuffers)' /\ freeBuffers' \in Seq(Buffers)
  BY <1>1, <1>2, <1>4, <1>5, BufferUsed DEF IInv
<1>13. Typed'
  <2>1. \A i \in DOMAIN workQueue' : workQueue'[i].id \in 1 .. arrived'
    BY <1>1, <1>2, <1>5, <1>11
  <2>2. TypeOK'
    BY <1>1, <1>2, <1>8, <1>12, <2>1 DEF IInv, Typed, TypeOK
  <2>3. expected' \in [Pixels -> Values] /\ lastUse' \in [Streams -> 0 .. MaxRects]
    BY <1>1, <1>2, <1>3, PaintType
  <2> QED BY <1>1, <1>7, <2>2, <2>3 DEF IInv, Typed
<1>14. JobsFit'
  <2>1. \A v \in Workers : worker'[v] \in BusyStates => worker'[v] = worker[v]
    BY <1>9 DEF Idling
  <2>2. ASSUME NEW v \in Workers, worker'[v] \in BusyStates
        PROVE  \E i \in DOMAIN workQueue' : Fits(v, workQueue[i])'
    <3>1. PICK i \in DOMAIN workQueue : Fits(v, workQueue[i])
      BY <2>1, <2>2 DEF IInv, JobsFit
    <3> QED BY <1>1, <1>11, <2>1, <2>2, <3>1 DEF Fits
  <2>3. \A v, u \in Workers : worker'[v] \in BusyStates /\ worker'[u] \in BusyStates
                               /\ job'[v].id = job'[u].id => v = u
    BY <1>1, <2>1 DEF IInv, JobsFit
  <2> QED BY <2>2, <2>3 DEF JobsFit
<1>15. FailuresKnown'
  <2>1. \A v \in Workers : worker'[v] = "throw" <=> worker[v] = "throw"
    BY <1>8
  <2> QED BY <1>1, <2>1 DEF IInv, FailuresKnown
<1>16. \A m \in Taken : m \in Int /\ m < n
  <2>1. ASSUME NEW v \in Workers, worker[v] \in BusyStates
        PROVE  job[v].id \in Int /\ job[v].id < n
    BY <1>2, <2>1, BusyEntry
  <2> QED BY <2>1, JobsOf DEF Taken
<1>17. \A f \in Pending : f.id \in Int /\ f.id < n
  BY <1>2, <1>6, PendingOf, CoreParts
<1>18. Separate(Pending, Taken)'
  <2>1. \A f, g \in Pending' : f.id \in Taken /\ g.id < f.id => f \in Pending /\ g \in Pending
    BY <1>5, <1>7, <1>16, <1>2
  <2> QED BY <1>7, <1>10, <2>1 DEF IInv, Separate
<1>19. Numbered(Pending \cup {c})
  BY <1>2, <1>5, <1>17, PendingNumbered DEF Numbered
<1>20. OnCourse'
  <2>1. SUFFICES ASSUME Healthy' PROVE OnCourse'
    BY DEF OnCourse
  <2>2. Healthy
    BY <1>1, <2>1 DEF Healthy
  <2>3. /\ EndsRight(Pending, Written, img, expected) /\ CopiesRight(Pending, Begun, Written, img)
        /\ DataRight(Pending) /\ StreamsRight(Pending, Begun, stream, lastUse) /\ WritesRight
    BY <2>2 DEF IInv, OnCourse
  <2>4. n \notin Taken /\ n \notin Begun /\ n \notin Written
    BY <1>16, JobsNested
  <2>5. expected' = [p \in Pixels |-> IF p \in c.rect.dest THEN c.result[p] ELSE expected[p]]
    <3>1. Paint(Decoded(r, n, expected), expected)
            = [p \in Pixels |-> IF p \in r.dest THEN Decoded(r, n, expected)[p] ELSE expected[p]]
      <4>1. DOMAIN Decoded(r, n, expected) = r.dest
        BY <1>3
      <4> QED BY <4>1 DEF Paint
    <3> QED BY <1>1, <1>5, <3>1
  <2>6. EndsRight(Pending, Written, img, expected)'
    <3>1. EndsRight(Pending \cup {c}, Written, img,
                    [p \in Pixels |-> IF p \in c.rect.dest THEN c.result[p] ELSE expected[p]])
      BY <1>5, <1>17, <1>19, <2>3, <2>4, ArrivalEnds
    <3> QED BY <1>1, <1>7, <1>10, <2>5, <3>1
  <2>7. CopiesRight(Pending, Begun, Written, img)'
    <3>1. \A p \in DOMAIN c.rect.from : c.result[p] = expected[c.rect.from[p]]
      BY <1>2, <1>5, RectFacts DEF Decoded
    <3>2. CopiesRight(Pending \cup {c}, Begun, Written, img)
      BY <1>5, <1>17, <1>19, <2>3, <2>4, <3>1, ArrivalCopies
    <3> QED BY <1>1, <1>7, <1>10, <3>2
  <2>8. DataRight(Pending)'
    <3>1. \A p \in c.rect.dest \ DOMAIN c.rect.from : c.result[p] = c.id
      BY <1>5 DEF Decoded
    <3> QED BY <1>7, <2>3, <3>1 DEF DataRight
  <2>9. StreamsRight(Pending, Begun, stream, lastUse)'
    <3>1. \A s \in c.rect.streams : c.after[s] = lastUse[s]
      BY <1>5
    <3>2. StreamsRight(Pending \cup {c}, Begun, stream,
                       [s \in Streams |-> IF s \in c.rect.streams THEN c.id ELSE lastUse[s]])
      BY <1>5, <1>17, <1>19, <2>3, <2>4, <3>1, ArrivalStreams
    <3> QED BY <1>1, <1>5, <1>7, <1>10, <3>2
  <2>10. WritesRight'
    <3>1. \A v \in Workers : worker'[v] = "write" =>
            worker[v] = "write" /\ job[v].id \in Taken
      BY <1>8, JobsOf DEF Taken, BusyStates
    <3> QED BY <1>1, <1>5, <1>7, <2>3, <2>4, <3>1 DEF WritesRight
  <2> QED BY <2>6, <2>7, <2>8, <2>9, <2>10 DEF OnCourse
<1> QED BY <1>7, <1>12, <1>13, <1>14, <1>15, <1>18, <1>20 DEF IInv

-----------------------------------------------------------------------------
(* A worker takes an entry.                                                *)

(* What findEntry finds is apart from everything before it.                *)
LEMMA EligibleApart ==
  ASSUME IInv, NEW i \in DOMAIN workQueue, Eligible(i)
  PROVE  Separate(Pending, Taken \cup {workQueue[i].id})
<1> DEFINE e == workQueue[i]
<1>1. /\ e.rect.encoding \in Ordered =>
           \A j \in 1 .. i - 1 : workQueue[j].rect.encoding # e.rect.encoding
      /\ e.rect.encoding \in PartiallyOrdered =>
           \A j \in 1 .. i - 1 : workQueue[j].rect.encoding = e.rect.encoding
                                  => e.rect.streams \cap workQueue[j].rect.streams = {}
      /\ \A j \in 1 .. i - 1 : workQueue[j].active \in BOOLEAN
                                => Affected(e.rect) \cap Affected(workQueue[j].rect) = {}
  BY DEF Eligible, MayDecode
<1>2. \A j \in DOMAIN workQueue : /\ workQueue[j] \in Entry /\ j \in Int
                                  /\ workQueue[j].rect \in Rects /\ workQueue[j].active \in BOOLEAN
                                  /\ workQueue[j].id \in Int
  BY EntryFacts DEF IInv, Typed
<1>3. \A j \in DOMAIN workQueue : workQueue[j].id < e.id => j \in 1 .. i - 1
  <2>1. DOMAIN workQueue = 1 .. Len(workQueue) /\ Len(workQueue) \in Nat
    BY DEF IInv, Typed
  <2> QED BY <1>2, <2>1 DEF IInv, Sorted
<1>4. ASSUME NEW j \in DOMAIN workQueue, workQueue[j].id < e.id
      PROVE  /\ Affected(e.rect) \cap Affected(workQueue[j].rect) = {}
             /\ e.rect.streams \cap workQueue[j].rect.streams = {}
  <2>1. j \in 1 .. i - 1
    BY <1>3, <1>4
  <2>2. e.rect.streams \cap workQueue[j].rect.streams # {}
          => /\ e.rect.encoding = workQueue[j].rect.encoding
             /\ e.rect.encoding \in Ordered \cup PartiallyOrdered
    BY <1>2, StreamAssumption
  <2> QED BY <1>1, <1>2, <2>1, <2>2
<1>5. ASSUME NEW c \in Pending, NEW f \in Pending, c.id \in Taken \cup {e.id}, f.id < c.id
      PROVE  Affected(c.rect) \cap Affected(f.rect) = {} /\ c.rect.streams \cap f.rect.streams = {}
  <2>1. CASE c.id \in Taken
    BY <1>5, <2>1 DEF IInv, Separate
  <2>2. CASE c.id = e.id
    <3>1. c = Core(e)
      <4>1. Core(e) \in Pending /\ Core(e).id = e.id
        BY PendingOf, CoreParts
      <4> QED BY <2>2, <4>1, PendingNumbered DEF Numbered
    <3>2. PICK j \in DOMAIN workQueue : f = Core(workQueue[j])
      BY PendingOf
    <3> QED BY <1>4, <1>5, <2>2, <3>1, <3>2, CoreParts
  <2> QED BY <1>5, <2>1, <2>2
<1> QED BY <1>5 DEF Separate

LEMMA TakeKeeps ==
  ASSUME IInv, NEW w \in Workers, Take(w)
  PROVE  IInv'
<1>1. PICK i \in FindEntry : /\ workQueue' = [workQueue EXCEPT ![i].active = TRUE]
                             /\ job' = [job EXCEPT ![w] = workQueue[i]]
  BY DEF Take
<1> DEFINE e == workQueue[i]
<1>2. /\ UNCHANGED <<main, mainWaits, reading, freeBuffers, stopRequested, threadException,
                     img, stream, arrived, expected, lastUse, unreported>>
      /\ worker[w] = "look" /\ worker' = [worker EXCEPT ![w] = "decode"]
  BY DEF Take, history
<1>3. i \in DOMAIN workQueue /\ Eligible(i)
  BY DEF FindEntry
<1>4. ~e.active
  BY <1>3 DEF Eligible, MayDecode
<1>5. workQueue \in Seq(Entry) /\ Sorted(workQueue)
      /\ worker \in [Workers -> {"look", "wait", "decode", "write", "throw", "finish", "exited"}]
      /\ DOMAIN job = Workers
  BY DEF IInv, Typed, TypeOK
<1>6. /\ workQueue' \in Seq(Entry) /\ DOMAIN workQueue' = DOMAIN workQueue
      /\ \A j \in DOMAIN workQueue : j # i => workQueue'[j] = workQueue[j]
      /\ workQueue'[i] = [e EXCEPT !.active = TRUE] /\ e \in Entry
      /\ Cores(workQueue') = Cores(workQueue) /\ Sorted(workQueue')
  BY <1>1, <1>3, <1>5, Marked
<1>7. e.id \in Int /\ e.active = FALSE
  BY <1>4, <1>6, EntryFacts
<1>8. /\ workQueue'[i].id = e.id /\ workQueue'[i].active = TRUE /\ workQueue'[i].buffer = e.buffer
      /\ workQueue'[i].rect = e.rect /\ e = [workQueue'[i] EXCEPT !.active = FALSE]
  BY <1>6, <1>7 DEF Entry
<1>9. /\ worker'[w] = "decode" /\ job'[w] = e /\ DOMAIN job' = Workers
      /\ worker' \in [Workers -> {"look", "wait", "decode", "write", "throw", "finish", "exited"}]
      /\ \A v \in Workers \ {w} : worker'[v] = worker[v] /\ job'[v] = job[v]
  BY <1>1, <1>2, <1>5
<1>10. Pending' = Pending
  BY <1>6 DEF Pending
<1>11. \A j \in DOMAIN workQueue : workQueue'[j].id = workQueue[j].id /\ workQueue'[j].buffer = workQueue[j].buffer
  BY <1>6, <1>8
<1>12. Typed'
  <2>1. TypeOK'
    BY <1>2, <1>6, <1>9, <1>11 DEF IInv, Typed, TypeOK
  <2> QED BY <1>2, <1>6, <1>9, <2>1 DEF IInv, Typed
<1>13. ASSUME NEW v \in Workers \ {w}, worker[v] \in BusyStates
       PROVE  job[v].id # e.id /\ \E j \in DOMAIN workQueue' : Fits(v, workQueue[j])'
  <2>1. PICK j \in DOMAIN workQueue :
          /\ Fits(v, workQueue[j]) /\ workQueue[j].id = job[v].id
          /\ \A k \in DOMAIN workQueue : workQueue[k].id = job[v].id => k = j
    BY <1>13, BusyEntry
  <2>2. j # i
    BY <1>4, <2>1 DEF Fits
  <2> QED BY <1>3, <1>6, <1>9, <2>1, <2>2 DEF Fits
<1>14. JobsFit'
  <2>1. Fits(w, workQueue[i])'
    BY <1>8, <1>9 DEF Fits
  <2>2. \A v \in Workers : worker'[v] \in BusyStates =>
          \E j \in DOMAIN workQueue' : Fits(v, workQueue[j])'
    BY <1>3, <1>6, <1>9, <1>13, <2>1
  <2>3. \A v, u \in Workers : worker'[v] \in BusyStates /\ worker'[u] \in BusyStates
                               /\ job'[v].id = job'[u].id => v = u
    BY <1>9, <1>13 DEF IInv, JobsFit
  <2> QED BY <2>2, <2>3 DEF JobsFit
<1>15. FailuresKnown'
  <2>1. \A v \in Workers : (worker'[v] = "throw" <=> worker[v] = "throw")
                            /\ (worker[v] = "throw" => job'[v] = job[v])
    BY <1>2, <1>9
  <2>2. workQueue # <<>>
    BY <1>3
  <2> QED BY <1>2, <2>1, <2>2 DEF IInv, FailuresKnown
<1>16. Taken' = Taken \cup {e.id} /\ Begun' = Begun /\ Written' = Written
  <2>1. \A n : n \in Taken' <=> \E v \in Workers : worker'[v] \in BusyStates /\ n = job'[v].id
    BY DEF Taken, Jobs
  <2>2. \A n : n \in Taken <=> \E v \in Workers : worker[v] \in BusyStates /\ n = job[v].id
    BY JobsOf DEF Taken
  <2>3. Taken' = Taken \cup {e.id}
    BY <1>2, <1>9, <2>1, <2>2 DEF BusyStates
  <2>4. \A v \in Workers : (worker'[v] \in {"write", "finish"} <=> worker[v] \in {"write", "finish"})
                            /\ (worker'[v] \in {"finish"} <=> worker[v] \in {"finish"})
                            /\ (worker[v] \in {"write", "finish"} => job'[v] = job[v])
    BY <1>2, <1>9
  <2> QED BY <2>3, <2>4 DEF Begun, Written, Jobs
<1>17. Separate(Pending, Taken)'
  BY <1>3, <1>10, <1>16, EligibleApart DEF Separate
<1>18. OnCourse'
  <2>1. SUFFICES ASSUME Healthy' PROVE OnCourse'
    BY DEF OnCourse
  <2>2. /\ EndsRight(Pending, Written, img, expected) /\ CopiesRight(Pending, Begun, Written, img)
        /\ DataRight(Pending) /\ StreamsRight(Pending, Begun, stream, lastUse) /\ WritesRight
    BY <1>2, <2>1 DEF IInv, OnCourse, Healthy
  <2>3. WritesRight'
    <3>1. \A v \in Workers : worker'[v] = "write" => worker[v] = "write" /\ job'[v] = job[v]
      BY <1>9
    <3> QED BY <1>10, <2>2, <3>1 DEF WritesRight
  <2> QED BY <1>2, <1>10, <1>16, <2>2, <2>3 DEF OnCourse
<1>19. Shared(workQueue, freeBuffers)'
  BY <1>2, <1>6, <1>11 DEF IInv, Shared
<1> QED BY <1>6, <1>12, <1>14, <1>15, <1>17, <1>18, <1>19 DEF IInv

-----------------------------------------------------------------------------
(* A worker decodes its entry.                                             *)

(* It goes from one busy state to another and keeps its entry.             *)
Working(w, to) ==
  /\ worker[w] \in BusyStates /\ worker' = [worker EXCEPT ![w] = to]
  /\ DOMAIN job' = Workers /\ job'[w].id = job[w].id
  /\ \A v \in Workers \ {w} : job'[v] = job[v]
  /\ UNCHANGED <<main, mainWaits, reading, freeBuffers, workQueue, stopRequested,
                 arrived, expected, lastUse>>

LEMMA WorkingStates ==
  ASSUME IInv, NEW w \in Workers, NEW to \in BusyStates, Working(w, to)
  PROVE  /\ worker' \in [Workers -> {"look", "wait", "decode", "write", "throw", "finish", "exited"}]
         /\ worker'[w] = to
         /\ \A v \in Workers \ {w} : worker'[v] = worker[v]
         /\ Pending' = Pending /\ Taken' = Taken
<1>1. worker \in [Workers -> {"look", "wait", "decode", "write", "throw", "finish", "exited"}]
  BY DEF IInv, Typed, TypeOK
<1>2. worker' \in [Workers -> {"look", "wait", "decode", "write", "throw", "finish", "exited"}]
      /\ worker'[w] = to /\ \A v \in Workers \ {w} : worker'[v] = worker[v]
  BY <1>1 DEF Working, BusyStates
<1>3. Pending' = Pending
  BY DEF Pending, Working
<1>4. \A n : n \in Taken' <=> \E v \in Workers : worker'[v] \in BusyStates /\ n = job'[v].id
  BY DEF Taken, Jobs
<1>5. \A n : n \in Taken <=> \E v \in Workers : worker[v] \in BusyStates /\ n = job[v].id
  BY JobsOf DEF Taken
<1>6. \A v \in Workers : (worker'[v] \in BusyStates <=> worker[v] \in BusyStates)
                          /\ job'[v].id = job[v].id
  BY <1>2 DEF Working
<1>7. Taken' = Taken
  <2>1. \A n : n \in Taken' <=> n \in Taken
    BY <1>4, <1>5, <1>6
  <2> QED BY <2>1
<1> QED BY <1>2, <1>3, <1>7

LEMMA WorkingKeeps ==
  ASSUME IInv, NEW w \in Workers, NEW to \in BusyStates, Working(w, to),
         NEW i \in DOMAIN workQueue, Fits(w, workQueue[i])',
         stream' \in [Streams -> 0 .. MaxRects], img' \in [Pixels -> Values],
         threadException' \in BOOLEAN, unreported' \subseteq 1 .. MaxRects,
         FailuresKnown', OnCourse'
  PROVE  IInv'
<1> USE DEF Working
<1>1. /\ worker' \in [Workers -> {"look", "wait", "decode", "write", "throw", "finish", "exited"}]
      /\ worker'[w] = to /\ \A v \in Workers \ {w} : worker'[v] = worker[v]
      /\ Pending' = Pending /\ Taken' = Taken
  BY WorkingStates
<1>2. Typed'
  <2>1. TypeOK'
    BY <1>1 DEF IInv, Typed, TypeOK, Values
  <2> QED BY <2>1 DEF IInv, Typed
<1>3. JobsFit'
  <2>1. ASSUME NEW v \in Workers \ {w}, worker'[v] \in BusyStates
        PROVE  \E j \in DOMAIN workQueue' : Fits(v, workQueue[j])'
    <3>1. PICK j \in DOMAIN workQueue : Fits(v, workQueue[j])
      BY <1>1, <2>1 DEF IInv, JobsFit
    <3> QED BY <1>1, <2>1, <3>1 DEF Fits
  <2>2. \A v, u \in Workers : worker'[v] \in BusyStates /\ worker'[u] \in BusyStates
                               /\ job'[v].id = job'[u].id => v = u
    <3>1. \A v \in Workers : job'[v].id = job[v].id /\ (worker'[v] \in BusyStates => worker[v] \in BusyStates)
      BY <1>1
    <3> QED BY <3>1 DEF IInv, JobsFit
  <2> QED BY <2>1, <2>2 DEF JobsFit
<1>4. Sorted(workQueue)' /\ Shared(workQueue, freeBuffers)'
  BY DEF IInv, Sorted, Shared
<1>5. Separate(Pending, Taken)'
  BY <1>1 DEF IInv, Separate
<1> QED BY <1>2, <1>3, <1>4, <1>5 DEF IInv

(* It fails.                                                               *)
LEMMA FailingKeeps ==
  ASSUME IInv, NEW w \in Workers, DecodeFails(w) \/ SetThreadException(w)
  PROVE  IInv'
<1>1. worker[w] \in BusyStates
  BY DEF DecodeFails, SetThreadException, BusyStates
<1>2. PICK i \in DOMAIN workQueue : Fits(w, workQueue[i]) /\ workQueue[i].id = job[w].id
                                    /\ workQueue[i] \in Entry
  BY <1>1, BusyEntry
<1>3. job[w].id \in 1 .. MaxRects
  BY <1>2, EntryFacts
<1>4. PICK to \in {"throw", "finish"} : Working(w, to)
  BY <1>1 DEF DecodeFails, SetThreadException, queueVars, history, Working, IInv, Typed
<1>5. /\ to \in BusyStates /\ worker'[w] = to
      /\ \A v \in Workers \ {w} : worker'[v] = worker[v]
  BY <1>4, WorkingStates DEF BusyStates
<1>6. UNCHANGED <<job, img, stream>> /\ unreported' \subseteq unreported \cup {job[w].id}
  BY DEF DecodeFails, SetThreadException
<1>7. stream' \in [Streams -> 0 .. MaxRects] /\ img' \in [Pixels -> Values]
      /\ unreported' \subseteq 1 .. MaxRects
  BY <1>3, <1>6 DEF IInv, Typed, TypeOK, Values
<1>8. threadException' \in BOOLEAN
  <2>1. threadException \in BOOLEAN
    BY DEF IInv, Typed, TypeOK
  <2> QED BY <2>1, Zenon DEF DecodeFails, SetThreadException
<1>9. Fits(w, workQueue[i])'
  BY <1>2, <1>4, <1>5, <1>6 DEF Fits, Working
<1>10. job[w].id \in unreported'
  BY DEF DecodeFails, SetThreadException, IInv, FailuresKnown
<1>11. OnCourse'
  BY <1>10 DEF OnCourse, Healthy
<1>12. FailuresKnown'
  <2>1. main' = main /\ workQueue' = workQueue
    BY <1>4 DEF Working
  <2>2. CASE DecodeFails(w)
    <3>1. worker[w] = "decode" /\ worker'[w] = "throw" /\ threadException' = threadException
          /\ unreported' = unreported \cup {job[w].id}
      BY <1>5, <2>2, <1>4 DEF DecodeFails, Working, IInv, Typed, TypeOK
    <3> QED BY <1>5, <1>6, <2>1, <3>1 DEF IInv, FailuresKnown
  <2>3. CASE SetThreadException(w)
    <3>1. threadException' = TRUE /\ unreported' = unreported /\ worker'[w] = "finish"
      BY <1>4, <1>5, <2>3 DEF SetThreadException, IInv, Typed, TypeOK
    <3> QED BY <1>5, <1>6, <2>1, <3>1 DEF IInv, FailuresKnown
  <2> QED BY <2>2, <2>3
<1> QED BY <1>4, <1>5, <1>7, <1>8, <1>9, <1>11, <1>12, WorkingKeeps

(* It begins.                                                              *)
LEMMA BeginDecodeKeeps ==
  ASSUME IInv, NEW w \in Workers, BeginDecode(w)
  PROVE  IInv'
<1> DEFINE data == IF \A s \in job[w].rect.streams : stream[s] = job[w].after[s]
                   THEN job[w].id ELSE Garbage
           px == Decoded(job[w].rect, data, img)
<1>1. worker[w] = "decode" /\ worker[w] \in BusyStates
  BY DEF BeginDecode, BusyStates
<1>2. PICK i \in DOMAIN workQueue :
        /\ Fits(w, workQueue[i]) /\ workQueue[i].id = job[w].id /\ workQueue[i] \in Entry
        /\ Core(workQueue[i]) \in Pending /\ job[w].id \in Taken
        /\ \A v \in Workers : worker[v] \in BusyStates /\ v # w => job[v].id # job[w].id
  BY <1>1, BusyEntry
<1> DEFINE e == workQueue[i]
           k == Core(e)
<1>3. /\ job[w].id = e.id /\ job[w].rect = e.rect /\ job[w].after = e.after /\ job[w].buffer = e.buffer
      /\ e.rect \in Rects /\ e.id \in 1 .. MaxRects /\ e.active
  <2>1. job[w] = [e EXCEPT !.active = FALSE]
    BY <1>1, <1>2 DEF Fits
  <2>2. e \in Entry
    BY <1>2
  <2>3. job[w].id = e.id /\ job[w].rect = e.rect /\ job[w].after = e.after /\ job[w].buffer = e.buffer
    BY <2>1, <2>2 DEF Entry
  <2> QED BY <1>2, <2>2, <2>3, EntryFacts DEF Fits
<1>4. k.id = e.id /\ k.rect = e.rect /\ k.after = e.after /\ k.result = e.result
  BY CoreParts
<1>5. /\ job' = [job EXCEPT ![w] = [id |-> job[w].id, buffer |-> job[w].buffer, pixels |-> px]]
      /\ stream' = [s \in Streams |-> IF s \in e.rect.streams THEN e.id ELSE stream[s]]
      /\ worker' = [worker EXCEPT ![w] = "write"]
      /\ UNCHANGED <<main, mainWaits, reading, freeBuffers, workQueue, stopRequested,
                     threadException, img, arrived, expected, lastUse, unreported>>
  BY <1>3 DEF BeginDecode, queueVars, history
<1> HIDE DEF px, data
<1>6. /\ job'[w].id = job[w].id /\ job'[w].buffer = job[w].buffer /\ job'[w].pixels = px
      /\ DOMAIN job' = Workers /\ \A v \in Workers \ {w} : job'[v] = job[v]
  BY <1>5 DEF IInv, Typed
<1>7. Working(w, "write") /\ "write" \in BusyStates
  BY <1>1, <1>5, <1>6 DEF Working, BusyStates
<1>8. /\ worker'[w] = "write" /\ \A v \in Workers \ {w} : worker'[v] = worker[v]
      /\ Pending' = Pending /\ Taken' = Taken
  BY <1>7, WorkingStates
<1>9. px \in [e.rect.dest -> Values]
  <2>1. data \in Values
    BY <1>3, PoolAssumption DEF data, Values
  <2>2. img \in [Pixels -> Values]
    BY DEF IInv, Typed, TypeOK, Values
  <2> QED BY <1>3, <2>1, <2>2, DecodedType DEF px
<1>10. Fits(w, workQueue[i])'
  BY <1>2, <1>3, <1>5, <1>6, <1>8, <1>9 DEF Fits
<1>11. stream' \in [Streams -> 0 .. MaxRects] /\ img' \in [Pixels -> Values]
       /\ unreported' \subseteq 1 .. MaxRects
  BY <1>3, <1>5 DEF IInv, Typed, TypeOK, Values
<1>12. threadException' \in BOOLEAN
  BY <1>5 DEF IInv, Typed, TypeOK
<1>13. FailuresKnown'
  <2>1. \A v \in Workers : (worker'[v] = "throw" <=> worker[v] = "throw") /\ job'[v].id = job[v].id
    BY <1>1, <1>6, <1>8
  <2> QED BY <1>5, <2>1 DEF IInv, FailuresKnown
<1>14. Begun' = Begun \cup {k.id} /\ Written' = Written /\ k.id \notin Begun
  <2>1. \A n : n \in Begun' <=> \E v \in Workers : worker'[v] \in {"write", "finish"} /\ n = job'[v].id
    BY DEF Begun, Jobs
  <2>2. \A n : n \in Begun <=> \E v \in Workers : worker[v] \in {"write", "finish"} /\ n = job[v].id
    BY JobsOf DEF Begun
  <2>3. Begun' = Begun \cup {k.id}
    BY <1>1, <1>3, <1>4, <1>6, <1>8, <2>1, <2>2
  <2>4. \A v \in Workers : (worker'[v] \in {"finish"} <=> worker[v] \in {"finish"}) /\ job'[v].id = job[v].id
    BY <1>1, <1>6, <1>8
  <2>5. Written' = Written
    BY <2>4 DEF Written, Jobs
  <2>6. k.id \notin Begun
    BY <1>1, <1>2, <1>3, <1>4, <2>2 DEF BusyStates
  <2> QED BY <2>3, <2>5, <2>6
<1>15. OnCourse'
  <2>1. SUFFICES ASSUME Healthy' PROVE OnCourse'
    BY DEF OnCourse
  <2>2. /\ EndsRight(Pending, Written, img, expected) /\ CopiesRight(Pending, Begun, Written, img)
        /\ DataRight(Pending) /\ StreamsRight(Pending, Begun, stream, lastUse) /\ WritesRight
    BY <1>5, <2>1 DEF IInv, OnCourse, Healthy
  <2>3. Numbered(Pending) /\ Separate(Pending, Taken) /\ k \in Pending /\ k.id \in Taken
        /\ Begun \subseteq Taken
    BY <1>2, <1>4, PendingNumbered, JobsNested DEF IInv
  <2>4. StreamsRight(Pending, Begun, stream, lastUse)'
    <3>1. StreamsRight(Pending, Begun \cup {k.id},
                       [s \in Streams |-> IF s \in k.rect.streams THEN k.id ELSE stream[s]], lastUse)
      BY <2>2, <2>3, BeginStreams
    <3> QED BY <1>4, <1>5, <1>8, <1>14, <3>1
  <2>5. CopiesRight(Pending, Begun, Written, img)'
    <3>1. CopiesRight(Pending, Begun \cup {k.id}, Written, img)
      BY <2>2 DEF CopiesRight
    <3> QED BY <1>5, <1>8, <1>14, <3>1
  <2>6. /\ \A s \in k.rect.streams : stream[s] = k.after[s]
        /\ \A p \in k.rect.dest : Decoded(k.rect, k.id, img)[p] = k.result[p]
    BY <1>14, <2>2, <2>3, BeginFinds
  <2>7. \A p \in e.rect.dest : px[p] = k.result[p]
    BY <1>3, <1>4, <2>6 DEF px, data
  <2>8. WritesRight'
    <3>1. \A c \in Pending : c.id = job[w].id => c = k
      BY <1>3, <1>4, <2>3 DEF Numbered
    <3> QED BY <1>4, <1>6, <1>8, <2>2, <2>7, <3>1 DEF WritesRight
  <2> QED BY <1>5, <1>8, <1>14, <2>2, <2>4, <2>5, <2>8 DEF OnCourse
<1> QED BY <1>7, <1>10, <1>11, <1>12, <1>13, <1>15, WorkingKeeps

(* It writes.                                                              *)
LEMMA EndDecodeKeeps ==
  ASSUME IInv, NEW w \in Workers, EndDecode(w)
  PROVE  IInv'
<1>1. worker[w] = "write" /\ worker[w] \in BusyStates
  BY DEF EndDecode, BusyStates
<1>2. PICK i \in DOMAIN workQueue :
        /\ Fits(w, workQueue[i]) /\ workQueue[i].id = job[w].id /\ workQueue[i] \in Entry
        /\ Core(workQueue[i]) \in Pending /\ job[w].id \in Taken
        /\ \A v \in Workers : worker[v] \in BusyStates /\ v # w => job[v].id # job[w].id
  BY <1>1, BusyEntry
<1> DEFINE e == workQueue[i]
           k == Core(e)
<1>3. /\ k.id = job[w].id /\ k.rect = e.rect /\ k.result = e.result
      /\ e.rect \in Rects /\ job[w].pixels \in [e.rect.dest -> Values]
  BY <1>1, <1>2, CoreParts, EntryFacts DEF Fits
<1>4. /\ img' = Paint(job[w].pixels, img) /\ worker' = [worker EXCEPT ![w] = "finish"]
      /\ UNCHANGED <<main, mainWaits, reading, freeBuffers, workQueue, job, stopRequested,
                     threadException, stream, arrived, expected, lastUse, unreported>>
  BY DEF EndDecode, queueVars, history
<1>5. Working(w, "finish") /\ "finish" \in BusyStates
  BY <1>1, <1>4 DEF Working, BusyStates, IInv, Typed
<1>6. /\ worker'[w] = "finish" /\ \A v \in Workers \ {w} : worker'[v] = worker[v]
      /\ Pending' = Pending /\ Taken' = Taken
  BY <1>5, WorkingStates
<1>7. e.rect.dest \in SUBSET Pixels /\ img \in [Pixels -> Values]
  BY <1>3, RectFacts DEF IInv, Typed, TypeOK, Values
<1>8. /\ img' \in [Pixels -> Values]
      /\ img' = [p \in Pixels |-> IF p \in e.rect.dest THEN job[w].pixels[p] ELSE img[p]]
  <2>1. DOMAIN job[w].pixels = e.rect.dest
    BY <1>3
  <2> QED BY <1>3, <1>4, <1>7, <2>1 DEF Paint
<1>9. Fits(w, workQueue[i])'
  BY <1>2, <1>4, <1>6 DEF Fits
<1>10. stream' \in [Streams -> 0 .. MaxRects] /\ unreported' \subseteq 1 .. MaxRects
  BY <1>4 DEF IInv, Typed, TypeOK
<1>11. threadException' \in BOOLEAN
  BY <1>4 DEF IInv, Typed, TypeOK
<1>12. FailuresKnown'
  <2>1. \A v \in Workers : worker'[v] = "throw" <=> worker[v] = "throw"
    BY <1>1, <1>6
  <2> QED BY <1>4, <2>1 DEF IInv, FailuresKnown
<1>13. Written' = Written \cup {k.id} /\ Begun' = Begun /\ k.id \in Begun
  <2>1. \A n : n \in Written' <=> \E v \in Workers : worker'[v] \in {"finish"} /\ n = job'[v].id
    BY DEF Written, Jobs
  <2>2. \A n : n \in Written <=> \E v \in Workers : worker[v] \in {"finish"} /\ n = job[v].id
    BY JobsOf DEF Written
  <2>3. Written' = Written \cup {k.id}
    BY <1>1, <1>3, <1>4, <1>6, <2>1, <2>2
  <2>4. \A v \in Workers : worker'[v] \in {"write", "finish"} <=> worker[v] \in {"write", "finish"}
    BY <1>1, <1>6
  <2>5. Begun' = Begun
    BY <1>4, <2>4 DEF Begun, Jobs
  <2>6. k.id \in Begun
    BY <1>1, <1>3, JobsOf DEF Begun
  <2> QED BY <2>3, <2>5, <2>6
<1>14. OnCourse'
  <2>1. SUFFICES ASSUME Healthy' PROVE OnCourse'
    BY DEF OnCourse
  <2>2. /\ EndsRight(Pending, Written, img, expected) /\ CopiesRight(Pending, Begun, Written, img)
        /\ DataRight(Pending) /\ StreamsRight(Pending, Begun, stream, lastUse) /\ WritesRight
    BY <1>4, <2>1 DEF IInv, OnCourse, Healthy
  <2>3. Numbered(Pending) /\ Separate(Pending, Taken) /\ k \in Pending /\ k.id \in Taken
        /\ Written \subseteq Taken
    BY <1>2, <1>3, PendingNumbered, JobsNested DEF IInv
  <2>4. \A p \in k.rect.dest : job[w].pixels[p] = k.result[p]
    BY <1>1, <1>3, <2>2, <2>3 DEF WritesRight
  <2>5. img' = [p \in Pixels |-> IF p \in k.rect.dest THEN k.result[p] ELSE img[p]]
    BY <1>3, <1>8, <2>4
  <2>6. EndsRight(Pending, Written, img, expected)'
    <3>1. EndsRight(Pending, Written \cup {k.id},
                    [p \in Pixels |-> IF p \in k.rect.dest THEN k.result[p] ELSE img[p]], expected)
      BY <2>2, <2>3, PaintEnds
    <3> QED BY <1>4, <1>6, <1>13, <2>5, <3>1
  <2>7. CopiesRight(Pending, Begun, Written, img)'
    <3>1. CopiesRight(Pending, Begun, Written \cup {k.id},
                      [p \in Pixels |-> IF p \in k.rect.dest THEN k.result[p] ELSE img[p]])
      BY <1>13, <2>2, <2>3, PaintCopies
    <3> QED BY <1>6, <1>13, <2>5, <3>1
  <2>8. WritesRight'
    <3>1. \A v \in Workers : worker'[v] = "write" => worker[v] = "write"
      BY <1>6
    <3> QED BY <1>4, <1>6, <2>2, <3>1 DEF WritesRight
  <2> QED BY <1>4, <1>6, <1>13, <2>2, <2>6, <2>7, <2>8 DEF OnCourse
<1> QED BY <1>5, <1>8, <1>9, <1>10, <1>11, <1>12, <1>14, WorkingKeeps

-----------------------------------------------------------------------------
(* An entry leaves the queue.                                              *)

(* Its buffer is free again.                                               *)
LEMMA BufferFreed ==
  ASSUME NEW q \in Seq(Entry), NEW r \in Seq(Entry), NEW at \in DOMAIN q, NEW free \in Seq(Buffers),
         Shared(q, free), Len(r) = Len(q) - 1,
         \A i \in DOMAIN r : r[i] = IF i < at THEN q[i] ELSE q[i + 1]
  PROVE  Shared(r, Append(free, q[at].buffer)) /\ Append(free, q[at].buffer) \in Seq(Buffers)
<1> DEFINE more == Append(free, q[at].buffer)
           here(i) == IF i < at THEN i ELSE i + 1
<1>0. q[at].buffer \in Buffers
  BY EntryFacts
<1>1. /\ more \in Seq(Buffers) /\ DOMAIN more = DOMAIN free \cup {Len(free) + 1}
      /\ Len(free) + 1 \notin DOMAIN free
      /\ more[Len(free) + 1] = q[at].buffer /\ \A i \in DOMAIN free : more[i] = free[i]
  BY <1>0
<1>2. DOMAIN r = 1 .. Len(q) - 1 /\ DOMAIN q = 1 .. Len(q) /\ at \in 1 .. Len(q) /\ Len(q) \in Nat
  OBVIOUS
<1>3. /\ \A i \in DOMAIN r : here(i) \in DOMAIN q /\ here(i) # at /\ r[i] = q[here(i)]
      /\ \A i, j \in DOMAIN r : i # j => here(i) # here(j)
  BY <1>2
<1>4. \A j \in DOMAIN q : j # at => \E i \in DOMAIN r : r[i] = q[j]
  <2> SUFFICES ASSUME NEW j \in DOMAIN q, j # at PROVE \E i \in DOMAIN r : r[i] = q[j]
    OBVIOUS
  <2>1. CASE j < at
    BY <1>2, <2>1
  <2>2. CASE j > at
    <3>1. j - 1 \in DOMAIN r /\ ~(j - 1 < at) /\ (j - 1) + 1 = j
      BY <1>2, <2>2
    <3> QED BY <3>1
  <2> QED BY <1>2, <2>1, <2>2
<1> HIDE DEF more, here
<1>5. \A i, j \in DOMAIN more : i # j => more[i] # more[j]
  BY <1>1 DEF Shared
<1>6. \A i, j \in DOMAIN r : i # j => r[i].buffer # r[j].buffer
  BY <1>3 DEF Shared
<1>7. \A i \in DOMAIN more, j \in DOMAIN r : more[i] # r[j].buffer
  BY <1>1, <1>3 DEF Shared
<1>8. ASSUME NEW b \in Buffers
      PROVE  (\E i \in DOMAIN more : more[i] = b) \/ \E j \in DOMAIN r : r[j].buffer = b
  <2>1. CASE \E i \in DOMAIN free : free[i] = b
    BY <1>1, <2>1
  <2>2. CASE \E j \in DOMAIN q : q[j].buffer = b
    <3>1. PICK j \in DOMAIN q : q[j].buffer = b
      BY <2>2
    <3>2. CASE j = at
      BY <1>1, <3>1, <3>2
    <3>3. CASE j # at
      BY <1>4, <3>1, <3>3
    <3> QED BY <3>2, <3>3
  <2> QED BY <2>1, <2>2 DEF Shared
<1> QED BY <1>1, <1>5, <1>6, <1>7, <1>8 DEF more, Shared

LEMMA FinishKeeps ==
  ASSUME IInv, NEW w \in Workers, Finish(w)
  PROVE  IInv'
<1>1. worker[w] = "finish" /\ worker[w] \in BusyStates
  BY DEF Finish, BusyStates
<1>2. PICK at \in DOMAIN workQueue :
        /\ Fits(w, workQueue[at]) /\ workQueue[at].id = job[w].id /\ workQueue[at] \in Entry
        /\ Core(workQueue[at]) \in Pending /\ job[w].id \in Taken
        /\ \A v \in Workers : worker[v] \in BusyStates /\ v # w => job[v].id # job[w].id
  BY <1>1, BusyEntry
<1> DEFINE k == Core(workQueue[at])
<1>3. k.id = job[w].id /\ job[w].buffer = workQueue[at].buffer
  BY <1>2, CoreParts DEF Fits
<1>4. /\ freeBuffers' = Append(freeBuffers, workQueue[at].buffer)
      /\ workQueue' = Without(workQueue, workQueue[at].id)
      /\ job' = [job EXCEPT ![w] = <<>>] /\ mainWaits' = FALSE
      /\ UNCHANGED <<main, reading, stopRequested, threadException, img, stream,
                     arrived, expected, lastUse, unreported>>
  BY <1>2, <1>3 DEF Finish, Release, history
<1>5. /\ worker' \in [Workers -> {"look", "wait", "decode", "write", "throw", "finish", "exited"}]
      /\ worker'[w] = "look"
      /\ \A v \in Workers \ {w} : worker'[v] = worker[v] \/ (worker[v] = "wait" /\ worker'[v] = "look")
  <2>1. worker \in [Workers -> {"look", "wait", "decode", "write", "throw", "finish", "exited"}]
    BY DEF IInv, Typed, TypeOK
  <2>2. CASE worker' = Broadcast(w)
    BY <2>1, <2>2 DEF Broadcast
  <2>3. CASE worker' = [worker EXCEPT ![w] = "look"]
    BY <2>1, <2>3
  <2> QED BY <2>2, <2>3 DEF Finish, Release
<1>6. workQueue \in Seq(Entry) /\ Sorted(workQueue) /\ freeBuffers \in Seq(Buffers)
      /\ Shared(workQueue, freeBuffers)
      /\ DOMAIN job = Workers
  BY DEF IInv, Typed, TypeOK
<1>7. /\ workQueue' \in Seq(Entry) /\ Len(workQueue') = Len(workQueue) - 1
      /\ \A i \in DOMAIN workQueue' :
           workQueue'[i] = IF i < at THEN workQueue[i] ELSE workQueue[i + 1]
      /\ Pending' = Pending \ {k} /\ Sorted(workQueue')
  BY <1>4, <1>6, Left DEF Pending
<1>8. Shared(workQueue, freeBuffers)' /\ freeBuffers' \in Seq(Buffers)
  BY <1>4, <1>6, <1>7, BufferFreed
<1>9. job'[w] = <<>> /\ DOMAIN job' = Workers /\ \A v \in Workers \ {w} : job'[v] = job[v]
  BY <1>4, <1>6
<1>10. /\ DOMAIN workQueue = 1 .. Len(workQueue) /\ DOMAIN workQueue' = 1 .. Len(workQueue) - 1
       /\ Len(workQueue) \in Nat /\ at \in 1 .. Len(workQueue)
  BY <1>6, <1>7
<1>11. Typed'
  <2>1. \A i \in DOMAIN workQueue' : workQueue'[i].id \in 1 .. arrived'
    <3>1. \A i \in DOMAIN workQueue' : \E j \in DOMAIN workQueue : workQueue'[i] = workQueue[j]
      BY <1>7, <1>10
    <3> QED BY <1>4, <3>1 DEF IInv, Typed, TypeOK
  <2>2. threadException' \in BOOLEAN /\ mainWaits' \in BOOLEAN
    BY <1>4 DEF IInv, Typed, TypeOK
  <2>3. TypeOK'
    BY <1>4, <1>5, <1>8, <2>1, <2>2 DEF IInv, Typed, TypeOK
  <2>4. main \in {"check", "read"} => freeBuffers' # <<>> /\ Head(freeBuffers') = Head(freeBuffers)
    <3>1. workQueue[at].buffer \in Buffers
      BY <1>2, EntryFacts
    <3>2. main \in {"check", "read"} => freeBuffers # <<>>
      BY DEF IInv, Typed
    <3> QED BY <1>4, <1>6, <3>1, <3>2
  <2> QED BY <1>4, <1>7, <1>9, <2>3, <2>4 DEF IInv, Typed
<1>12. \A v \in Workers : worker'[v] \in BusyStates =>
         v # w /\ worker'[v] = worker[v] /\ job'[v] = job[v]
  BY <1>5, <1>9 DEF BusyStates
<1>13. JobsFit'
  <2>1. ASSUME NEW v \in Workers, worker'[v] \in BusyStates
        PROVE  \E i \in DOMAIN workQueue' : Fits(v, workQueue[i])'
    <3>1. PICK j \in DOMAIN workQueue : Fits(v, workQueue[j]) /\ workQueue[j].id = job[v].id
      BY <1>12, <2>1, BusyEntry
    <3>2. j # at
      BY <1>2, <1>12, <2>1, <3>1
    <3>3. PICK i \in DOMAIN workQueue' : workQueue'[i] = workQueue[j]
      <4>1. CASE j < at
        BY <1>7, <1>10, <4>1
      <4>2. CASE j > at
        <5>1. j - 1 \in DOMAIN workQueue' /\ ~(j - 1 < at) /\ (j - 1) + 1 = j
          BY <1>10, <4>2
        <5> QED BY <1>7, <5>1
      <4> QED BY <1>10, <3>2, <4>1, <4>2
    <3>4. Fits(v, workQueue[i])'
      BY <1>12, <2>1, <3>1, <3>3 DEF Fits
    <3> QED BY <3>4
  <2>2. \A v, u \in Workers : worker'[v] \in BusyStates /\ worker'[u] \in BusyStates
                               /\ job'[v].id = job'[u].id => v = u
    BY <1>12 DEF IInv, JobsFit
  <2> QED BY <2>1, <2>2 DEF JobsFit
<1>14. FailuresKnown'
  <2>1. \A v \in Workers : (worker'[v] = "throw" <=> worker[v] = "throw")
                            /\ (worker[v] = "throw" => job'[v] = job[v])
    BY <1>1, <1>5, <1>9
  <2>2. workQueue # <<>>
    BY <1>10
  <2> QED BY <1>4, <2>1, <2>2 DEF IInv, FailuresKnown
<1>15. Taken' = Taken \ {k.id} /\ Begun' = Begun \ {k.id} /\ Written' = Written \ {k.id}
  <2>1. ASSUME NEW S \in SUBSET BusyStates
        PROVE  Jobs(S)' = Jobs(S) \ {k.id}
    <3>1. \A n : n \in Jobs(S)' <=> \E v \in Workers : worker'[v] \in S /\ n = job'[v].id
      BY DEF Jobs
    <3>2. \A n : n \in Jobs(S) <=> \E v \in Workers : worker[v] \in S /\ n = job[v].id
      BY JobsOf
    <3>3. \A v \in Workers \ {w} : (worker'[v] \in S <=> worker[v] \in S) /\ job'[v] = job[v]
      BY <1>5, <1>9 DEF BusyStates
    <3>4. worker'[w] \notin S
      BY <1>5 DEF BusyStates
    <3>5. \A v \in Workers \ {w} : worker[v] \in S => job[v].id # k.id
      BY <1>2, <1>3
    <3>6. \A n : n \in Jobs(S)' <=> n \in Jobs(S) \ {k.id}
      BY <1>3, <3>1, <3>2, <3>3, <3>4, <3>5
    <3> QED BY <3>6
  <2> QED BY <2>1 DEF Taken, Begun, Written, BusyStates
<1>16. Separate(Pending, Taken)'
  BY <1>7, <1>15 DEF IInv, Separate
<1>17. OnCourse'
  <2>1. SUFFICES ASSUME Healthy' PROVE OnCourse'
    BY DEF OnCourse
  <2>2. /\ EndsRight(Pending, Written, img, expected) /\ CopiesRight(Pending, Begun, Written, img)
        /\ DataRight(Pending) /\ StreamsRight(Pending, Begun, stream, lastUse) /\ WritesRight
    BY <1>4, <2>1 DEF IInv, OnCourse, Healthy
  <2>3. Numbered(Pending) /\ Separate(Pending, Taken) /\ k \in Pending /\ k.id \in Taken
    BY <1>2, <1>3, PendingNumbered DEF IInv
  <2>4. k.id \in Written /\ k.id \in Begun
    BY <1>1, <1>3, JobsOf, JobsNested DEF Written
  <2>5. EndsRight(Pending, Written, img, expected)'
    <3>1. EndsRight(Pending \ {k}, Written \ {k.id}, img, expected)
      BY <2>2, <2>3, <2>4, RemoveEnds
    <3> QED BY <1>4, <1>7, <1>15, <3>1
  <2>6. CopiesRight(Pending, Begun, Written, img)'
    <3>1. CopiesRight(Pending \ {k}, Begun \ {k.id}, Written \ {k.id}, img)
      BY <2>2, <2>3, <2>4, RemoveCopies
    <3> QED BY <1>4, <1>7, <1>15, <3>1
  <2>7. StreamsRight(Pending, Begun, stream, lastUse)'
    <3>1. StreamsRight(Pending \ {k}, Begun \ {k.id}, stream, lastUse)
      BY <2>2, <2>3, <2>4, RemoveStreams
    <3> QED BY <1>4, <1>7, <1>15, <3>1
  <2>8. DataRight(Pending)'
    BY <1>7, <2>2 DEF DataRight
  <2>9. WritesRight'
    BY <1>7, <1>12, <2>2 DEF WritesRight, BusyStates
  <2> QED BY <2>5, <2>6, <2>7, <2>8, <2>9 DEF OnCourse
<1> QED BY <1>7, <1>8, <1>11, <1>13, <1>14, <1>16, <1>17 DEF IInv

-----------------------------------------------------------------------------
LEMMA NextKeeps ==
  ASSUME IInv, [Next]_vars
  PROVE  IInv'
<1>1. CASE MainSteps
  <2>1. CASE CheckThreads \/ EndUpdate \/ EndClose
    BY <2>1, ThrowKeeps DEF CheckThreads, EndUpdate, EndClose
  <2>2. CASE DrainUpdate \/ DrainClose
    BY <2>2, DrainKeeps DEF DrainUpdate, DrainClose
  <2> QED BY <1>1, <2>1, <2>2, GetBufferKeeps, EnqueueKeeps, IdleWorkerKeeps, EndingKeeps DEF MainSteps
<1>2. CASE Environment
  <2>1. CASE FlushUpdate \/ Destroy
    BY <2>1, FlushKeeps DEF FlushUpdate, Destroy
  <2> QED BY <1>2, <2>1, DecodeRectKeeps, EndingKeeps, FailingKeeps, IdleWorkerKeeps DEF Environment
<1>3. ASSUME NEW w \in Workers, WorkerSteps(w)
      PROVE  IInv'
  BY <1>3, IdleWorkerKeeps, TakeKeeps, BeginDecodeKeeps, EndDecodeKeeps, FailingKeeps, FinishKeeps
     DEF WorkerSteps
<1>4. CASE UNCHANGED vars
  <2>1. Idling
    BY <1>4 DEF vars, Idling
  <2>2. Typed'
    <3>1. TypeOK'
      BY <1>4 DEF vars, queueVars, history, IInv, Typed, TypeOK
    <3> QED BY <1>4, <3>1 DEF vars, queueVars, history, IInv, Typed
  <2>3. FailuresKnown'
    BY <1>4 DEF vars, queueVars, IInv, FailuresKnown
  <2> QED BY <1>4, <2>1, <2>2, <2>3, QuietStep DEF vars, queueVars, history, Healthy
<1> QED BY <1>1, <1>2, <1>3, <1>4 DEF Next, Ended

(* The inductive invariant holds.                                          *)
THEOREM Invariant == Spec => []IInv
  BY InitIInv, NextKeeps, PTL DEF Spec

(* The variables have their types, in every interleaving of any number of  *)
(* decoder threads.                                                        *)
THEOREM TypeCorrect == Spec => []TypeOK
<1>1. IInv => TypeOK
  BY DEF IInv, Typed
<1> QED BY <1>1, Invariant, PTL

(* A buffer is free or belongs to exactly one entry of the queue.          *)
THEOREM BuffersNeverShared == Spec => []BuffersOwned
<1>1. ASSUME IInv PROVE BuffersOwned
  <2> DEFINE used == [i \in DOMAIN workQueue |-> workQueue[i].buffer]
             all == freeBuffers \o used
             f == Len(freeBuffers)
             q == Len(workQueue)
  <2>1. /\ freeBuffers \in Seq(Buffers) /\ workQueue \in Seq(Entry)
        /\ f \in Nat /\ q \in Nat /\ DOMAIN freeBuffers = 1 .. f /\ DOMAIN workQueue = 1 .. q
    BY <1>1 DEF IInv, Typed, TypeOK
  <2>2. used \in Seq(Buffers) /\ Len(used) = q /\ \A i \in 1 .. q : used[i] = workQueue[i].buffer
    BY <2>1, EntryFacts
  <2> HIDE DEF used, f, q
  <2>3. all \in Seq(Buffers) /\ DOMAIN all = 1 .. f + q
    BY <2>1, <2>2 DEF f
  <2>4. \A i \in 1 .. f : all[i] = freeBuffers[i]
    BY <2>1, <2>2 DEF f
  <2>5. \A i \in f + 1 .. f + q : i - f \in 1 .. q /\ all[i] = workQueue[i - f].buffer
    BY <2>1, <2>2 DEF f
  <2>6. \A j \in 1 .. q : f + j \in f + 1 .. f + q /\ (f + j) - f = j
    BY <2>1
  <2> HIDE DEF all
  <2>7. Shared(workQueue, freeBuffers)
    BY <1>1 DEF IInv
  <2>8. \A i, j \in DOMAIN all : i # j => all[i] # all[j]
    <3> SUFFICES ASSUME NEW i \in DOMAIN all, NEW j \in DOMAIN all, i # j
                 PROVE  all[i] # all[j]
      OBVIOUS
    <3>1. CASE i \in 1 .. f /\ j \in 1 .. f
      <4>1. freeBuffers[i] # freeBuffers[j]
        BY <2>1, <2>7, <3>1 DEF Shared
      <4> QED BY <2>4, <3>1, <4>1
    <3>2. CASE i \in 1 .. f /\ j \in f + 1 .. f + q
      <4>1. j - f \in 1 .. q /\ all[j] = workQueue[j - f].buffer
        BY <2>5, <3>2
      <4>2. freeBuffers[i] # workQueue[j - f].buffer
        BY <2>1, <2>7, <3>2, <4>1 DEF Shared
      <4> QED BY <2>4, <3>2, <4>1, <4>2
    <3>3. CASE i \in f + 1 .. f + q /\ j \in 1 .. f
      <4>1. i - f \in 1 .. q /\ all[i] = workQueue[i - f].buffer
        BY <2>5, <3>3
      <4>2. freeBuffers[j] # workQueue[i - f].buffer
        BY <2>1, <2>7, <3>3, <4>1 DEF Shared
      <4> QED BY <2>4, <3>3, <4>1, <4>2
    <3>4. CASE i \in f + 1 .. f + q /\ j \in f + 1 .. f + q
      <4>1. i - f # j - f
        BY <2>1, <3>4
      <4>2. workQueue[i - f].buffer # workQueue[j - f].buffer
        BY <2>1, <2>5, <2>7, <3>4, <4>1 DEF Shared
      <4> QED BY <2>5, <3>4, <4>2
    <3> QED BY <2>1, <2>3, <3>1, <3>2, <3>3, <3>4
  <2>9. Range(all) = Buffers
    <3>1. ASSUME NEW i \in DOMAIN all
          PROVE  all[i] \in Buffers
      <4>1. CASE i \in 1 .. f
        BY <2>1, <2>4, <4>1
      <4>2. CASE i \in f + 1 .. f + q
        <5>1. workQueue[i - f] \in Entry
          BY <2>1, <2>5, <4>2
        <5> QED BY <2>5, <4>2, <5>1, EntryFacts
      <4> QED BY <2>1, <2>3, <4>1, <4>2
    <3>2. ASSUME NEW b \in Buffers
          PROVE  \E i \in DOMAIN all : all[i] = b
      <4>1. CASE \E i \in DOMAIN freeBuffers : freeBuffers[i] = b
        BY <2>1, <2>3, <2>4, <4>1
      <4>2. CASE \E j \in DOMAIN workQueue : workQueue[j].buffer = b
        <5>1. PICK j \in 1 .. q : workQueue[j].buffer = b
          BY <2>1, <4>2
        <5>2. f + j \in DOMAIN all
          BY <2>1, <2>3
        <5> QED BY <2>5, <2>6, <5>1, <5>2
      <4> QED BY <2>7, <4>1, <4>2 DEF Shared
    <3> QED BY <3>1, <3>2 DEF Range
  <2>10. main = "read" => reading.buffer = Head(freeBuffers)
    BY <1>1 DEF IInv, Typed
  <2> QED BY <2>8, <2>9, <2>10 DEF BuffersOwned, all, used
<1> QED BY <1>1, Invariant, PTL

(* Once the queue has drained, the framebuffer is that of decoding the     *)
(* rectangles one after the other: no choice that findEntry leaves to the  *)
(* threads can be seen.                                                    *)
THEOREM DecodedInOrder == Spec => []SequentialResult
<1>1. ASSUME IInv PROVE SequentialResult
  <2>1. SUFFICES ASSUME workQueue = <<>>, Healthy PROVE img = expected
    BY DEF SequentialResult, Healthy
  <2>2. Pending = {}
    BY <2>1 DEF Pending, Cores
  <2>3. EndsRight(Pending, Written, img, expected)
    BY <1>1, <2>1 DEF IInv, OnCourse
  <2>4. \A p \in Pixels : img[p] = expected[p]
    BY <2>2, <2>3 DEF EndsRight
  <2>5. img \in [Pixels -> Values] /\ expected \in [Pixels -> Values]
    BY <1>1 DEF IInv, Typed, TypeOK, Values
  <2> QED BY <2>4, <2>5
<1> QED BY <1>1, Invariant, PTL

(* flush returns normally only when no failure is left unreported.         *)
THEOREM FailuresReported == Spec => FlushReports
<1>1. ASSUME IInv, [Next]_vars
      PROVE  [main = "drained" /\ main' = "idle" => unreported = {}]_vars
  <2>1. SUFFICES ASSUME Next, main = "drained", main' = "idle" PROVE unreported = {}
    BY <1>1 DEF vars
  <2>2. EndUpdate
    BY <2>1 DEF Next, MainSteps, Environment, WorkerSteps, Ended, vars, GetBuffer, CheckThreads, Throw,
       Enqueue, QueueReading, DrainUpdate, Drain, EndUpdate, DrainClose, EndClose, StopWorker, Closed,
       DecodeRect, ReadFails, FlushUpdate, Destroy, Flush, DecodeFails, SpuriousWakeup, Exit, Wait, Take,
       BeginDecode, EndDecode, SetThreadException, Finish, Release
  <2>3. ~threadException
    BY <2>1, <2>2 DEF EndUpdate, Throw
  <2>4. \A w \in Workers : worker[w] # "throw"
    <3>1. workQueue = <<>>
      BY <1>1, <2>1 DEF IInv, FailuresKnown
    <3>2. \A w \in Workers : worker[w] \notin BusyStates
      BY <1>1, <3>1 DEF IInv, JobsFit
    <3> QED BY <3>2 DEF BusyStates
  <2> QED BY <1>1, <2>3, <2>4 DEF IInv, FailuresKnown
<1> QED BY <1>1, Invariant, PTL DEF Spec, FlushReports

-----------------------------------------------------------------------------
(* Wakeups.                                                                *)

Looking == {w \in Workers : worker[w] = "look"}
Eligibles == {i \in DOMAIN workQueue : Eligible(i)}

(* An entry that is marked has a worker.                                   *)
ActiveHeld ==
  \A i \in DOMAIN workQueue : workQueue[i].active =>
    \E w \in Workers : worker[w] \in BusyStates /\ job[w].id = workQueue[i].id

(* Nobody stops before the queue has been drained for the last time.       *)
StopsLate ==
  /\ main \in {"drained", "closing", "stopping", "closed"} => workQueue = <<>>
  /\ main \notin {"stopping", "closed"} => stopRequested = {}
  /\ \A w \in Workers : worker[w] = "exited" => w \in stopRequested

NobodyWaits == \A w \in Workers : worker[w] # "wait"
EnoughLook == NobodyWaits \/ Cardinality(Eligibles) <= Cardinality(Looking)

WInv == ActiveHeld /\ StopsLate /\ EnoughLook /\ (mainWaits => workQueue # <<>>)

(* No entry that may be decoded lies in the queue while every thread that  *)
(* could take it waits, some thread is awake as long as there is an entry, *)
(* and one is when the main thread waits for a buffer or for the end.      *)
WakeupsKept ==
  /\ Eligibles # {} => NobodyWaits \/ Looking # {}
  /\ workQueue # <<>> => \E w \in Workers : worker[w] \in BusyStates \cup {"look"}
  /\ mainWaits => workQueue # <<>>

LEMMA CountFacts ==
  ASSUME IInv
  PROVE  /\ IsFiniteSet(Looking) /\ Cardinality(Looking) \in Nat
         /\ IsFiniteSet(Eligibles) /\ Cardinality(Eligibles) \in Nat
<1>1. IsFiniteSet(Looking)
  BY PoolAssumption, FS_Subset DEF Looking
<1>2. DOMAIN workQueue = 1 .. Len(workQueue) /\ Len(workQueue) \in Nat
  BY DEF IInv, Typed
<1>3. IsFiniteSet(Eligibles)
  <2>1. IsFiniteSet(1 .. Len(workQueue))
    BY <1>2, FS_Interval
  <2> QED BY <1>2, <2>1, FS_Subset DEF Eligibles
<1> QED BY <1>1, <1>3, FS_CardinalityType

LEMMA Smallest == ASSUME NEW T, T \subseteq Nat, T # {} PROVE \E x \in T : \A y \in T : x <= y
<1>1. OpToRel(<, Nat) = {ss \in Nat \X Nat : ss[1] < ss[2]}
  BY DEF OpToRel
<1>2. PICK x \in T : \A y \in T : ~ (<<y, x>> \in OpToRel(<, Nat))
  BY NatLessThanWellFounded, WFMin
<1>3. ASSUME NEW y \in T PROVE x <= y
  <2>1. <<y, x>> \notin {ss \in Nat \X Nat : ss[1] < ss[2]}
    BY <1>1, <1>2
  <2>2. <<y, x>> \in Nat \X Nat
    OBVIOUS
  <2>3. ~(y < x)
    BY <2>1, <2>2
  <2> QED BY <2>3
<1> QED BY <1>3

(* findEntry finds an entry if there is one.                               *)
LEMMA FindsEligible ==
  ASSUME IInv, FindEntry = {}
  PROVE  Eligibles = {} /\ Cardinality(Eligibles) = 0
<1>1. DOMAIN workQueue = 1 .. Len(workQueue) /\ Len(workQueue) \in Nat
  BY DEF IInv, Typed
<1>2. ASSUME Eligibles # {} PROVE FALSE
  <2>1. Eligibles \subseteq Nat
    BY <1>1 DEF Eligibles
  <2>2. PICK i \in Eligibles : \A j \in Eligibles : i <= j
    <3> HIDE DEF Eligibles
    <3> QED BY <1>2, <2>1, Smallest
  <2>3. i \in DOMAIN workQueue /\ Eligible(i) /\ i \in 1 .. Len(workQueue)
    BY <1>1 DEF Eligibles
  <2>4. ASSUME NEW j \in 1 .. i - 1 PROVE ~Eligible(j)
    <3>1. j \in DOMAIN workQueue /\ ~(i <= j)
      BY <1>1, <2>3
    <3> QED BY <2>2, <3>1 DEF Eligibles
  <2>5. i \in FindEntry
    BY <2>3, <2>4 DEF FindEntry
  <2> QED BY <2>5
<1> QED BY <1>2, FS_EmptySet

(* The first entry waits for none.                                         *)
LEMMA FirstEntry ==
  ASSUME IInv, workQueue # <<>>
  PROVE  1 \in DOMAIN workQueue /\ (workQueue[1].active \/ Eligible(1))
<1>1. workQueue \in Seq(Entry)
  BY DEF IInv, Typed
<1>2. 1 \in DOMAIN workQueue
  BY <1>1
<1>3. 1 .. 1 - 1 = {}
  OBVIOUS
<1> QED BY <1>2, <1>3 DEF Eligible, MayDecode

(* Steps after which no fewer threads are awake.                           *)
LEMMA AwakeKeeps ==
  ASSUME IInv, WInv, IInv', StopsLate', mainWaits' => workQueue # <<>>, workQueue' = workQueue,
         \A w \in Workers : /\ worker[w] \in BusyStates => worker'[w] \in BusyStates /\ job'[w].id = job[w].id
                            /\ worker[w] = "look" => worker'[w] = "look"
                            /\ worker'[w] = "wait" => worker[w] = "wait"
  PROVE  WInv'
<1>1. ActiveHeld'
  BY DEF WInv, ActiveHeld
<1>2. Eligibles' = Eligibles
  BY DEF Eligibles, Eligible, MayDecode
<1>3. Looking \subseteq Looking'
  BY DEF Looking
<1>4. Cardinality(Looking) <= Cardinality(Looking')
  <2>1. IsFiniteSet(Looking')
    BY PoolAssumption, FS_Subset DEF Looking
  <2> QED BY <1>3, <2>1, FS_Subset
<1>5. Cardinality(Looking) \in Nat /\ Cardinality(Looking') \in Nat /\ Cardinality(Eligibles) \in Nat
  <2>1. IsFiniteSet(Looking')
    BY PoolAssumption, FS_Subset DEF Looking
  <2> QED BY <2>1, CountFacts, FS_CardinalityType
<1>6. EnoughLook'
  BY <1>2, <1>4, <1>5 DEF WInv, EnoughLook, NobodyWaits
<1> QED BY <1>1, <1>6 DEF WInv

(* Steps of the main thread but Enqueue and StopWorker.                    *)
LEMMA MainKeepsWakeups ==
  ASSUME IInv, WInv, IInv', UNCHANGED <<workQueue, worker, job, stopRequested>>,
         mainWaits' => workQueue # <<>>,
         main' \in {"drained", "closing", "stopping", "closed"} => workQueue = <<>>,
         main \in {"stopping", "closed"} => main' \in {"stopping", "closed"}
  PROVE  WInv'
<1>1. StopsLate'
  BY DEF WInv, StopsLate
<1> QED BY <1>1, AwakeKeeps

LEMMA MainStepsKeepWakeups ==
  ASSUME IInv, WInv, IInv',
         \/ GetBuffer \/ CheckThreads \/ DrainUpdate \/ EndUpdate \/ DrainClose \/ EndClose \/ Closed
         \/ (\E r \in Rects : DecodeRect(r)) \/ ReadFails \/ FlushUpdate \/ Destroy \/ UNCHANGED vars
  PROVE  WInv'
<1>1. mainWaits => workQueue # <<>>
  BY DEF WInv
<1>2. main \in {"drained", "closing", "stopping", "closed"} => workQueue = <<>>
  BY DEF WInv, StopsLate
<1>3. CASE GetBuffer
  <2>1. freeBuffers = <<>> => workQueue # <<>>
    <3>1. Shared(workQueue, freeBuffers)
      BY DEF IInv
    <3>2. 1 \in Buffers
      <4>1. Cardinality(Workers) \in Nat /\ Cardinality(Workers) # 0
        BY PoolAssumption, FS_CardinalityType, FS_EmptySet
      <4> QED BY <4>1 DEF Buffers
    <3>3. DOMAIN <<>> = {}
      OBVIOUS
    <3> QED BY <3>1, <3>2, <3>3 DEF Shared
  <2> QED BY <1>1, <1>3, <2>1, MainKeepsWakeups DEF GetBuffer, queueVars
<1>4. CASE CheckThreads \/ EndUpdate \/ EndClose
  BY <1>1, <1>2, <1>4, MainKeepsWakeups DEF CheckThreads, EndUpdate, EndClose, Throw, queueVars
<1>5. CASE DrainUpdate \/ DrainClose
  BY <1>1, <1>2, <1>5, MainKeepsWakeups DEF DrainUpdate, DrainClose, Drain, queueVars
<1>6. CASE Closed
  BY <1>1, <1>2, <1>6, MainKeepsWakeups DEF Closed, queueVars
<1>7. CASE (\E r \in Rects : DecodeRect(r)) \/ ReadFails \/ FlushUpdate \/ Destroy
  BY <1>1, <1>2, <1>7, MainKeepsWakeups DEF DecodeRect, ReadFails, FlushUpdate, Destroy, Flush, queueVars
<1>8. CASE UNCHANGED vars
  BY <1>1, <1>2, <1>8, MainKeepsWakeups DEF vars, queueVars
<1> QED BY <1>3, <1>4, <1>5, <1>6, <1>7, <1>8

(* A thread on its way through an entry, or woken for nothing.             *)
LEMMA WorkKeepsWakeups ==
  ASSUME IInv, WInv, IInv', NEW w \in Workers,
         \/ BeginDecode(w) \/ EndDecode(w) \/ DecodeFails(w) \/ SetThreadException(w) \/ SpuriousWakeup(w)
  PROVE  WInv'
<1>1. UNCHANGED <<main, mainWaits, workQueue, stopRequested>>
  BY DEF BeginDecode, EndDecode, DecodeFails, SetThreadException, SpuriousWakeup, queueVars
<1>2. worker \in [Workers -> {"look", "wait", "decode", "write", "throw", "finish", "exited"}]
  BY DEF IInv, Typed, TypeOK
<1>3. DOMAIN job = Workers
  BY DEF IInv, Typed
<1>4. \E st \in BusyStates \cup {"look"} :
        worker' = [worker EXCEPT ![w] = st] /\ (st = "look" => worker[w] = "wait")
        /\ worker[w] \notin {"look", "exited"}
  BY DEF BeginDecode, EndDecode, DecodeFails, SetThreadException, SpuriousWakeup, BusyStates
<1>5. \A v \in Workers : job'[v].id = job[v].id
  BY <1>3 DEF BeginDecode, EndDecode, DecodeFails, SetThreadException, SpuriousWakeup
<1>6. \A v \in Workers : /\ worker[v] \in BusyStates => worker'[v] \in BusyStates
                         /\ worker[v] = "look" => worker'[v] = "look"
                         /\ worker'[v] = "wait" => worker[v] = "wait"
                         /\ worker'[v] = "exited" => worker[v] = "exited"
  BY <1>2, <1>4 DEF BusyStates
<1>7. StopsLate'
  BY <1>1, <1>6 DEF WInv, StopsLate
<1> QED BY <1>1, <1>5, <1>6, <1>7, AwakeKeeps DEF WInv

(* Threads that are to stop are all woken.                                 *)
LEMMA StopKeepsWakeups == ASSUME IInv, WInv, IInv', NEW w \in Workers, StopWorker(w) PROVE WInv'
<1>1. worker' = [v \in Workers |-> IF worker[v] = "wait" THEN "look" ELSE worker[v]]
      /\ main = "stopping" /\ stopRequested' = stopRequested \cup {w}
      /\ UNCHANGED <<main, mainWaits, workQueue, job>>
  BY DEF StopWorker, queueVars
<1>2. \A v \in Workers : /\ worker[v] \in BusyStates => worker'[v] \in BusyStates
                         /\ worker[v] = "look" => worker'[v] = "look"
                         /\ worker'[v] = "wait" => worker[v] = "wait"
                         /\ worker'[v] = "exited" => worker[v] = "exited"
  BY <1>1 DEF BusyStates
<1>3. StopsLate'
  BY <1>1, <1>2 DEF WInv, StopsLate
<1> QED BY <1>1, <1>2, <1>3, AwakeKeeps DEF WInv

(* A thread that goes to sleep has found nothing; one that exits leaves    *)
(* nothing behind.                                                         *)
LEMMA RestKeepsWakeups == ASSUME IInv, WInv, IInv', NEW w \in Workers, Wait(w) \/ Exit(w) PROVE WInv'
<1>1. worker \in [Workers -> {"look", "wait", "decode", "write", "throw", "finish", "exited"}]
  BY DEF IInv, Typed, TypeOK
<1>2. UNCHANGED <<main, mainWaits, workQueue, job, stopRequested>> /\ worker[w] = "look"
  BY DEF Wait, Exit, queueVars
<1>3. \A v \in Workers : worker[v] \in BusyStates => worker'[v] = worker[v]
  BY <1>1, <1>2 DEF Wait, Exit, BusyStates
<1>4. StopsLate'
  BY <1>1, <1>2 DEF WInv, StopsLate, Wait, Exit
<1>5. ActiveHeld'
  BY <1>2, <1>3 DEF WInv, ActiveHeld
<1>6. Eligibles' = Eligibles
  BY <1>2 DEF Eligibles, Eligible, MayDecode
<1>7. Cardinality(Eligibles) = 0
  <2>1. CASE Wait(w)
    BY <2>1, FindsEligible DEF Wait
  <2>2. CASE Exit(w)
    <3>1. workQueue = <<>>
      BY <2>2 DEF Exit, WInv, StopsLate
    <3>2. DOMAIN workQueue = {}
      BY <3>1
    <3> QED BY <3>2, FS_EmptySet DEF Eligibles
  <2> QED BY <2>1, <2>2
<1>8. Cardinality(Looking') \in Nat
  <2>1. IsFiniteSet(Looking')
    BY PoolAssumption, FS_Subset DEF Looking
  <2> QED BY <2>1, FS_CardinalityType
<1>9. EnoughLook'
  BY <1>6, <1>7, <1>8 DEF EnoughLook
<1> QED BY <1>2, <1>4, <1>5, <1>9 DEF WInv

(* What an entry waits for, by positions.                                  *)
MayGo(i) ==
  LET r == workQueue[i].rect
  IN  /\ ~workQueue[i].active
      /\ r.encoding \in Ordered => \A j \in 1 .. i - 1 : workQueue[j].rect.encoding # r.encoding
      /\ r.encoding \in PartiallyOrdered =>
           \A j \in 1 .. i - 1 : workQueue[j].rect.encoding = r.encoding
                                  => r.streams \cap workQueue[j].rect.streams = {}
      /\ \A j \in 1 .. i - 1 : Affected(r) \cap Affected(workQueue[j].rect) = {}

LEMMA EligibleIs ==
  ASSUME workQueue \in Seq(Entry), NEW i \in DOMAIN workQueue
  PROVE  Eligible(i) <=> MayGo(i)
<1>1. \A j \in 1 .. i - 1 : workQueue[j].active \in BOOLEAN
  BY EntryFacts
<1> QED BY <1>1 DEF Eligible, MayDecode, MayGo

LEMMA EligibleNext ==
  ASSUME workQueue' \in Seq(Entry), NEW i \in DOMAIN workQueue'
  PROVE  Eligible(i)' <=> MayGo(i)'
<1>1. \A j \in 1 .. i - 1 : workQueue'[j].active \in BOOLEAN
  BY EntryFacts
<1> QED BY <1>1 DEF Eligible, MayDecode, MayGo

(* A new entry makes one more at most, and one thread is woken if any      *)
(* waits.                                                                  *)
LEMMA EnqueueKeepsWakeups == ASSUME IInv, WInv, IInv', NEW w \in Workers, Enqueue(w) PROVE WInv'
<1> DEFINE n == Len(workQueue) + 1
<1>1. workQueue \in Seq(Entry) /\ workQueue' \in Seq(Entry)
      /\ worker \in [Workers -> {"look", "wait", "decode", "write", "throw", "finish", "exited"}]
  BY DEF IInv, Typed, TypeOK
<1>2. PICK e : workQueue' = Append(workQueue, e) /\ ~e.active
  BY DEF Enqueue, QueueReading
<1>3. /\ main = "read" /\ main' = "idle" /\ UNCHANGED <<mainWaits, job, stopRequested>>
      /\ Signalled(w)
  BY DEF Enqueue, QueueReading
<1>4. /\ n \in Nat /\ DOMAIN workQueue = 1 .. n - 1 /\ DOMAIN workQueue' = 1 .. n
      /\ workQueue'[n] = e /\ \A i \in 1 .. n - 1 : workQueue'[i] = workQueue[i]
      /\ workQueue' # <<>>
  BY <1>1, <1>2
<1>5. \A v \in Workers : worker'[v] = worker[v] \/ (v = w /\ worker[v] = "wait" /\ worker'[v] = "look")
  BY <1>1, <1>3 DEF Signalled
<1>6. StopsLate'
  BY <1>3, <1>5 DEF WInv, StopsLate
<1>7. ActiveHeld'
  <2>1. SUFFICES ASSUME NEW i \in 1 .. n, workQueue'[i].active
                 PROVE  \E v \in Workers : worker'[v] \in BusyStates /\ job'[v].id = workQueue'[i].id
    BY <1>4 DEF ActiveHeld
  <2>2. i \in 1 .. n - 1
    BY <1>2, <1>4, <2>1
  <2>3. PICK v \in Workers : worker[v] \in BusyStates /\ job[v].id = workQueue[i].id
    BY <1>4, <2>1, <2>2 DEF WInv, ActiveHeld
  <2> QED BY <1>3, <1>4, <1>5, <2>2, <2>3 DEF BusyStates
<1>8. Eligibles' \subseteq Eligibles \cup {n}
  <2>1. SUFFICES ASSUME NEW i \in 1 .. n - 1, Eligible(i)' PROVE Eligible(i)
    BY <1>4 DEF Eligibles
  <2>2. MayGo(i)'
    <3>1. i \in DOMAIN workQueue'
      BY <1>4
    <3> QED BY <1>1, <2>1, <3>1, EligibleNext
  <2>3. \A j \in 1 .. i : workQueue'[j] = workQueue[j]
    BY <1>4
  <2>4. MayGo(i)
    BY <1>4, <2>2, <2>3 DEF MayGo
  <2> QED BY <1>1, <1>4, <2>4, EligibleIs
<1>9. ASSUME ~NobodyWaits', ~NobodyWaits PROVE Cardinality(Eligibles') <= Cardinality(Looking')
  <2>1. worker[w] = "wait" /\ worker' = [worker EXCEPT ![w] = "look"]
    BY <1>3, <1>9 DEF Signalled, NobodyWaits
  <2>2. Looking' = Looking \cup {w} /\ w \notin Looking
    BY <1>1, <2>1 DEF Looking
  <2>3. Cardinality(Looking') = Cardinality(Looking) + 1
    BY <2>2, CountFacts, FS_AddElement
  <2>4. /\ IsFiniteSet(Eligibles \cup {n}) /\ Cardinality(Eligibles \cup {n}) \in Nat
        /\ Cardinality(Eligibles \cup {n}) <= Cardinality(Eligibles) + 1
    <3>1. /\ IsFiniteSet(Eligibles \cup {n})
          /\ Cardinality(Eligibles \cup {n}) = IF n \in Eligibles THEN Cardinality(Eligibles) ELSE Cardinality(Eligibles) + 1
      BY CountFacts, FS_AddElement
    <3> QED BY <3>1, CountFacts
  <2>5. Cardinality(Eligibles') \in Nat /\ Cardinality(Eligibles') <= Cardinality(Eligibles \cup {n})
    BY <1>8, <2>4, FS_Subset, FS_CardinalityType
  <2>6. Cardinality(Eligibles) <= Cardinality(Looking)
    BY <1>9 DEF WInv, EnoughLook
  <2> QED BY <2>3, <2>4, <2>5, <2>6, CountFacts
<1>10. NobodyWaits => NobodyWaits'
  BY <1>5 DEF NobodyWaits
<1> QED BY <1>3, <1>4, <1>6, <1>7, <1>9, <1>10 DEF WInv, EnoughLook

(* A thread that takes an entry leaves one less to be taken.               *)
LEMMA TakeKeepsWakeups == ASSUME IInv, WInv, IInv', NEW w \in Workers, Take(w) PROVE WInv'
<1>1. workQueue \in Seq(Entry) /\ workQueue' \in Seq(Entry) /\ Sorted(workQueue) /\ DOMAIN job = Workers
      /\ worker \in [Workers -> {"look", "wait", "decode", "write", "throw", "finish", "exited"}]
  BY DEF IInv, Typed, TypeOK
<1>2. PICK i \in FindEntry : /\ workQueue' = [workQueue EXCEPT ![i].active = TRUE]
                             /\ job' = [job EXCEPT ![w] = workQueue[i]]
  BY DEF Take
<1>3. i \in DOMAIN workQueue /\ Eligible(i)
  BY DEF FindEntry
<1>4. /\ UNCHANGED <<main, mainWaits, stopRequested>>
      /\ worker[w] = "look" /\ worker' = [worker EXCEPT ![w] = "decode"]
  BY DEF Take
<1>5. /\ DOMAIN workQueue' = DOMAIN workQueue
      /\ \A j \in DOMAIN workQueue : j # i => workQueue'[j] = workQueue[j]
      /\ workQueue'[i] = [workQueue[i] EXCEPT !.active = TRUE] /\ workQueue[i] \in Entry
  BY <1>1, <1>2, <1>3, Marked
<1>6. workQueue'[i].active = TRUE /\ workQueue'[i].rect = workQueue[i].rect /\ workQueue'[i].id = workQueue[i].id
  BY <1>5 DEF Entry
<1>7. /\ \A v \in Workers \ {w} : worker'[v] = worker[v] /\ job'[v] = job[v]
      /\ worker'[w] = "decode" /\ job'[w] = workQueue[i]
  BY <1>1, <1>2, <1>4
<1>8. StopsLate'
  <2>1. workQueue # <<>> 
    BY <1>1, <1>3
  <2> QED BY <1>4, <1>7, <2>1 DEF WInv, StopsLate
<1>9. ActiveHeld'
  <2>1. SUFFICES ASSUME NEW j \in DOMAIN workQueue, workQueue'[j].active
                 PROVE  \E v \in Workers : worker'[v] \in BusyStates /\ job'[v].id = workQueue'[j].id
    BY <1>5 DEF ActiveHeld
  <2>2. CASE j = i
    BY <1>6, <1>7, <2>2 DEF BusyStates
  <2>3. CASE j # i
    <3>1. workQueue'[j] = workQueue[j]
      BY <1>5, <2>3
    <3>2. PICK v \in Workers : worker[v] \in BusyStates /\ job[v].id = workQueue[j].id
      BY <2>1, <3>1 DEF WInv, ActiveHeld
    <3>3. v # w
      BY <1>4, <3>2 DEF BusyStates
    <3> QED BY <1>7, <3>1, <3>2, <3>3
  <2> QED BY <2>2, <2>3
<1>10. \A j \in DOMAIN workQueue : workQueue'[j].rect = workQueue[j].rect
  BY <1>5, <1>6
<1>11. Eligibles' \subseteq Eligibles \ {i}
  <2>1. SUFFICES ASSUME NEW j \in DOMAIN workQueue, Eligible(j)' PROVE Eligible(j) /\ j # i
    BY <1>5 DEF Eligibles
  <2>2. MayGo(j)'
    BY <1>1, <1>5, <2>1, EligibleNext
  <2>3. j # i
    BY <1>6, <2>2 DEF MayGo
  <2>4. workQueue'[j] = workQueue[j]
    BY <1>5, <2>3
  <2>5. \A k \in 1 .. j - 1 : workQueue'[k].rect = workQueue[k].rect
    <3>1. \A k \in 1 .. j - 1 : k \in DOMAIN workQueue
      BY <1>1
    <3> QED BY <1>10, <3>1
  <2>6. MayGo(j)
    BY <2>2, <2>4, <2>5 DEF MayGo
  <2> QED BY <1>1, <2>3, <2>6, EligibleIs
<1>12. i \in Eligibles
  BY <1>3 DEF Eligibles
<1>13. Looking' = Looking \ {w} /\ w \in Looking
  BY <1>4, <1>7 DEF Looking
<1>14. NobodyWaits => NobodyWaits'
  BY <1>7 DEF NobodyWaits
<1>15. ASSUME ~NobodyWaits PROVE Cardinality(Eligibles') <= Cardinality(Looking')
  <2>1. IsFiniteSet(Eligibles \ {i}) /\ Cardinality(Eligibles \ {i}) = Cardinality(Eligibles) - 1
    BY <1>12, CountFacts, FS_RemoveElement
  <2>2. Cardinality(Eligibles') <= Cardinality(Eligibles \ {i}) /\ Cardinality(Eligibles') \in Nat
    BY <1>11, <2>1, FS_Subset, FS_CardinalityType
  <2>3. Cardinality(Looking') = Cardinality(Looking) - 1
    BY <1>13, CountFacts, FS_RemoveElement
  <2>4. Cardinality(Eligibles) <= Cardinality(Looking)
    BY <1>15 DEF WInv, EnoughLook
  <2> QED BY <2>1, <2>2, <2>3, <2>4, CountFacts
<1>16. mainWaits' => workQueue' # <<>>
  BY <1>1, <1>3, <1>5
<1> QED BY <1>8, <1>9, <1>14, <1>15, <1>16 DEF WInv, EnoughLook

(* A thread that is through with an entry wakes all, or there is at most   *)
(* one entry left and it looks for that itself.                            *)
LEMMA FinishKeepsWakeups == ASSUME IInv, WInv, IInv', NEW w \in Workers, Finish(w) PROVE WInv'
<1>1. workQueue \in Seq(Entry) /\ workQueue' \in Seq(Entry) /\ Sorted(workQueue) /\ DOMAIN job = Workers
      /\ worker \in [Workers -> {"look", "wait", "decode", "write", "throw", "finish", "exited"}]
  BY DEF IInv, Typed, TypeOK
<1>2. /\ worker[w] = "finish" /\ workQueue' = Without(workQueue, job[w].id)
      /\ job' = [job EXCEPT ![w] = <<>>] /\ mainWaits' = FALSE /\ UNCHANGED <<main, stopRequested>>
      /\ worker' = IF Len(workQueue') > 1 THEN Broadcast(w) ELSE [worker EXCEPT ![w] = "look"]
  BY DEF Finish, Release
<1>3. PICK at \in DOMAIN workQueue :
        /\ workQueue[at].id = job[w].id
        /\ \A j \in DOMAIN workQueue : workQueue[j].id = job[w].id => j = at
  BY <1>2, BusyEntry DEF BusyStates
<1>4. /\ Len(workQueue') = Len(workQueue) - 1
      /\ \A i \in DOMAIN workQueue' :
           workQueue'[i] = IF i < at THEN workQueue[i] ELSE workQueue[i + 1]
  BY <1>1, <1>2, <1>3, Left
<1>5. /\ worker'[w] = "look"
      /\ \A v \in Workers \ {w} : /\ job'[v] = job[v]
                                  /\ worker'[v] = worker[v] \/ (worker[v] = "wait" /\ worker'[v] = "look")
  <2>1. CASE worker' = Broadcast(w)
    BY <1>1, <1>2, <2>1 DEF Broadcast
  <2>2. CASE worker' = [worker EXCEPT ![w] = "look"]
    BY <1>1, <1>2, <2>2
  <2> QED BY <1>2, <2>1, <2>2
<1>6. workQueue # <<>> /\ Len(workQueue) \in Nat /\ DOMAIN workQueue = 1 .. Len(workQueue)
      /\ DOMAIN workQueue' = 1 .. Len(workQueue')
  BY <1>1, <1>3
<1>7. StopsLate'
  BY <1>2, <1>5, <1>6 DEF WInv, StopsLate
<1>8. ActiveHeld'
  <2>1. SUFFICES ASSUME NEW i \in DOMAIN workQueue', workQueue'[i].active
                 PROVE  \E v \in Workers : worker'[v] \in BusyStates /\ job'[v].id = workQueue'[i].id
    BY DEF ActiveHeld
  <2>2. PICK j \in DOMAIN workQueue : workQueue'[i] = workQueue[j] /\ j # at
    <3>1. CASE i < at
      BY <1>4, <1>6, <3>1
    <3>2. CASE ~(i < at)
      <4>1. i + 1 \in DOMAIN workQueue /\ i + 1 # at
        BY <1>4, <1>6, <3>2
      <4> QED BY <1>4, <3>2, <4>1
    <3> QED BY <3>1, <3>2
  <2>3. PICK v \in Workers : worker[v] \in BusyStates /\ job[v].id = workQueue[j].id
    BY <2>1, <2>2 DEF WInv, ActiveHeld
  <2>4. v # w
    BY <1>3, <2>2, <2>3
  <2>5. worker'[v] = worker[v] /\ job'[v] = job[v]
    BY <1>5, <2>3, <2>4 DEF BusyStates
  <2> QED BY <2>2, <2>3, <2>5
<1>9. CASE Len(workQueue') > 1
  <2>1. NobodyWaits'
    BY <1>2, <1>9 DEF NobodyWaits, Broadcast
  <2> QED BY <1>2, <1>7, <1>8, <2>1 DEF WInv, EnoughLook
<1>10. CASE ~(Len(workQueue') > 1)
  <2>1. Eligibles' \subseteq {1}
    BY <1>4, <1>6, <1>10 DEF Eligibles
  <2>2. Cardinality(Eligibles') \in Nat /\ Cardinality(Eligibles') <= 1
    <3>1. IsFiniteSet({1}) /\ Cardinality({1}) = 1
      BY FS_Singleton
    <3>2. IsFiniteSet(Eligibles') /\ Cardinality(Eligibles') <= 1
      BY <2>1, <3>1, FS_Subset
    <3> QED BY <3>2, FS_CardinalityType
  <2>3. {w} \subseteq Looking' /\ IsFiniteSet(Looking')
    BY <1>5, PoolAssumption, FS_Subset DEF Looking
  <2>4. Cardinality(Looking') \in Nat /\ 1 <= Cardinality(Looking')
    <3>1. Cardinality({w}) = 1
      BY FS_Singleton
    <3>2. Cardinality({w}) <= Cardinality(Looking')
      BY <2>3, FS_Subset
    <3> QED BY <2>3, <3>1, <3>2, FS_CardinalityType
  <2> QED BY <1>2, <1>7, <1>8, <2>2, <2>4 DEF WInv, EnoughLook
<1> QED BY <1>9, <1>10

LEMMA InitWInv == ASSUME Init PROVE WInv
<1>1. workQueue = <<>> /\ DOMAIN workQueue = {} /\ stopRequested = {} /\ mainWaits = FALSE
      /\ \A w \in Workers : worker[w] = "look"
  BY DEF Init
<1>2. ActiveHeld /\ NobodyWaits /\ StopsLate
  BY <1>1 DEF ActiveHeld, NobodyWaits, StopsLate
<1> QED BY <1>1, <1>2 DEF WInv, EnoughLook

LEMMA NextKeepsWakeups == ASSUME IInv, WInv, [Next]_vars PROVE WInv'
<1>1. IInv'
  BY NextKeeps
<1>2. CASE MainSteps
  BY <1>1, <1>2, MainStepsKeepWakeups, EnqueueKeepsWakeups, StopKeepsWakeups DEF MainSteps
<1>3. CASE Environment
  BY <1>1, <1>3, MainStepsKeepWakeups, WorkKeepsWakeups DEF Environment
<1>4. ASSUME NEW w \in Workers, WorkerSteps(w) PROVE WInv'
  BY <1>1, <1>4, RestKeepsWakeups, TakeKeepsWakeups, WorkKeepsWakeups, FinishKeepsWakeups DEF WorkerSteps
<1>5. CASE UNCHANGED vars
  BY <1>1, <1>5, MainStepsKeepWakeups
<1> QED BY <1>2, <1>3, <1>4, <1>5 DEF Next, Ended

(* However many threads there are: consumerCond->signal() for a new entry  *)
(* ("waking a single thread is sufficient") and the broadcast after an     *)
(* entry only when more than one is left never let an entry that may be    *)
(* decoded lie while all threads that could take it sleep, and a main      *)
(* thread that waits on producerCond waits for a thread that is awake.     *)
THEOREM NoWakeupLost == Spec => []WakeupsKept
<1>1. ASSUME IInv, WInv PROVE WakeupsKept
  <2>1. Eligibles # {} => NobodyWaits \/ Looking # {}
    <3>1. SUFFICES ASSUME Eligibles # {}, ~NobodyWaits, Looking = {} PROVE FALSE
      OBVIOUS
    <3>2. Cardinality(Eligibles) <= Cardinality(Looking) /\ Cardinality(Looking) = 0
      BY <1>1, <3>1, FS_EmptySet DEF WInv, EnoughLook
    <3>3. Cardinality(Eligibles) = 0
      BY <1>1, <3>2, CountFacts
    <3> QED BY <1>1, <3>1, <3>3, CountFacts, FS_EmptySet
  <2>2. ASSUME workQueue # <<>> PROVE \E w \in Workers : worker[w] \in BusyStates \cup {"look"}
    <3>1. 1 \in DOMAIN workQueue /\ (workQueue[1].active \/ Eligible(1))
      BY <1>1, <2>2, FirstEntry
    <3>2. CASE workQueue[1].active
      BY <1>1, <3>1, <3>2 DEF WInv, ActiveHeld
    <3>3. CASE Eligible(1)
      <4>1. Eligibles # {}
        BY <3>1, <3>3 DEF Eligibles
      <4>2. CASE Looking # {}
        BY <4>2 DEF Looking
      <4>3. CASE NobodyWaits
        <5>1. PICK w \in Workers : TRUE
          BY PoolAssumption
        <5>2. worker[w] # "exited"
          BY <1>1, <2>2 DEF WInv, StopsLate
        <5>3. worker[w] \in {"look", "wait", "decode", "write", "throw", "finish", "exited"}
          BY <1>1 DEF IInv, Typed, TypeOK
        <5> QED BY <4>3, <5>2, <5>3 DEF NobodyWaits, BusyStates
      <4> QED BY <2>1, <4>1, <4>2, <4>3
    <3> QED BY <3>1, <3>2, <3>3
  <2> QED BY <1>1, <2>1, <2>2 DEF WakeupsKept, WInv
<1>2. Spec => [](IInv /\ WInv)
  BY InitIInv, InitWInv, NextKeeps, NextKeepsWakeups, PTL DEF Spec
<1> QED BY <1>1, <1>2, PTL

=============================================================================
