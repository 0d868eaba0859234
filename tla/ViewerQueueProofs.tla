------------------------- MODULE ViewerQueueProofs -------------------------
(***************************************************************************)
(* Proofs about ViewerQueue for any number of viewers, any limit of queued *)
(* chunks the code could have and any sizes of chunks and socket buffers.  *)
(***************************************************************************)
EXTENDS ViewerQueue, SequenceTheorems, TLAPS

Run == [chunk : Chunks, first : Nat \ {0}, last : Nat \ {0}]

-----------------------------------------------------------------------------
(* The inductive invariant, in parts about one viewer.                     *)

\* A connection that did not ask for the stream has nothing.
Untouched(v) ==
  joined[v] = -1 => ~active[v] /\ queue[v] = << >> /\ wire[v] = << >>

\* The head of a queue is the chunk of the last run iff some of it was sent.
HeadStarted(v) ==
  offset[v] > 0 =>
    /\ wire[v] # << >>
    /\ wire[v][Len(wire[v])].chunk = queue[v][1]
    /\ wire[v][Len(wire[v])].last = offset[v]

\* Chunks are queued in the order of the stream, up to the newest frame.
QueueSorted(v) ==
  /\ \A i \in 1 .. Len(queue[v]) : queue[v][i] <= frames
  /\ \A i, j \in 1 .. Len(queue[v]) : i < j => queue[v][i] < queue[v][j]

\* Between two chunks, all that was sent is older than all that is queued.
WireSorted(v) ==
  /\ \A i \in 1 .. Len(wire[v]) : wire[v][i].chunk <= frames
  /\ \A i, j \in 1 .. Len(wire[v]) : i < j => wire[v][i].chunk < wire[v][j].chunk
  /\ offset[v] = 0 => \A i \in 1 .. Len(wire[v]), j \in 1 .. Len(queue[v]) :
                        wire[v][i].chunk < queue[v][j]

\* OffsetInHead, StreamUnbroken and KeepsNewest for one viewer.
OffsetIn(v) == offset[v] > 0 => queue[v] # << >> /\ offset[v] < ChunkSize[queue[v][1]]

Unbroken(v) ==
  \A i \in 1 .. Len(wire[v]) :
    /\ wire[v][i].first = 1
    /\ wire[v][i].last = ChunkSize[wire[v][i].chunk] \/ (i = Len(wire[v]) /\ offset[v] > 0)

Newest(v) ==
  v \in roster /\ active[v] =>
    /\ Len(queue[v]) <= MaxQueued
    /\ queue[v] # << >> /\ frames > joined[v] => queue[v][Len(queue[v])] = frames
    /\ \A i \in 2 .. Len(queue[v]) - 1 :
         queue[v][i] > joined[v] => queue[v][i + 1] = queue[v][i] + 1

ViewerInv(v) ==
  /\ Untouched(v) /\ HeadStarted(v) /\ QueueSorted(v) /\ WireSorted(v)
  /\ OffsetIn(v) /\ Unbroken(v) /\ Newest(v)

IInv == TypeOK /\ idr <= frames /\ \A v \in Viewers : ViewerInv(v)

-----------------------------------------------------------------------------
(* What the operators on queues and runs return.                           *)

\* Trimming a queue leaves a chunk begun where it is, and otherwise keeps the
\* newest chunks, fewer than MaxQueued.
LEMMA TrimmedShape ==
  ASSUME NEW q \in Seq(Chunks), NEW off \in Nat
  PROVE  LET t == Trimmed(q, off)
             d == Len(q) - Len(t)
         IN  /\ t \in Seq(Chunks)
             /\ d >= 0 /\ Len(t) < MaxQueued /\ (q # << >> => t # << >>)
             /\ \A i \in 2 .. Len(t) : t[i] = q[i + d]
             /\ t # << >> => t[1] = q[1] \/ (off = 0 /\ t[1] = q[1 + d])
<1> USE MaxQueuedAssumption
<1> DEFINE t == Trimmed(q, off)
           n == Len(q)
<1>0. n \in Nat /\ \A i \in 1 .. n : q[i] \in Chunks
  OBVIOUS
<1>1. CASE n < MaxQueued
  BY <1>1 DEF Trimmed
<1>2. CASE n >= MaxQueued /\ off = 0
  <2>1. t = SubSeq(q, n - (MaxQueued - 1) + 1, n)
    BY <1>2 DEF Trimmed, Last
  <2>2. \A i \in n - (MaxQueued - 1) + 1 .. n : q[i] \in Chunks
    BY <1>0, <1>2
  <2>3. /\ t \in Seq(Chunks) /\ Len(t) = MaxQueued - 1
        /\ \A i \in 1 .. MaxQueued - 1 : t[i] = q[n - (MaxQueued - 1) + 1 + i - 1]
    <3>1. n - (MaxQueued - 1) + 1 \in Int /\ n \in Int
      BY <1>0
    <3>2. /\ t \in Seq(Chunks)
          /\ Len(t) = IF n - (MaxQueued - 1) + 1 <= n
                      THEN n - (n - (MaxQueued - 1) + 1) + 1 ELSE 0
          /\ \A i \in 1 .. n - (n - (MaxQueued - 1) + 1) + 1 :
               t[i] = q[n - (MaxQueued - 1) + 1 + i - 1]
      BY <2>1, <2>2, <3>1, SubSeqProperties
    <3> QED
      BY <3>2, <1>0
  <2>4. \A i \in 1 .. MaxQueued - 1 : t[i] = q[i + (n - Len(t))]
    BY <2>3, <1>0
  <2> HIDE DEF t
  <2>5. n - Len(t) >= 0 /\ Len(t) < MaxQueued /\ t # << >>
    BY <2>3, <1>2, <1>0
  <2>6. \A i \in 2 .. Len(t) : t[i] = q[i + (n - Len(t))]
    BY <2>3, <2>4
  <2>7. t[1] = q[1 + (n - Len(t))]
    BY <2>4
  <2> QED
    BY <2>3, <2>5, <2>6, <2>7, <1>2 DEF t
<1>3. CASE n >= MaxQueued /\ off # 0
  <2> DEFINE l == SubSeq(q, n - (MaxQueued - 2) + 1, n)
  <2>1. t = <<q[1]>> \o l
    BY <1>3 DEF Trimmed, Last
  <2>2. \A i \in n - (MaxQueued - 2) + 1 .. n : q[i] \in Chunks
    BY <1>0, <1>3
  <2>3. /\ l \in Seq(Chunks) /\ Len(l) = MaxQueued - 2
        /\ \A i \in 1 .. MaxQueued - 2 : l[i] = q[n - (MaxQueued - 2) + 1 + i - 1]
    <3>1. n - (MaxQueued - 2) + 1 \in Int /\ n \in Int
      BY <1>0
    <3>2. /\ l \in Seq(Chunks)
          /\ Len(l) = IF n - (MaxQueued - 2) + 1 <= n
                      THEN n - (n - (MaxQueued - 2) + 1) + 1 ELSE 0
          /\ \A i \in 1 .. n - (n - (MaxQueued - 2) + 1) + 1 :
               l[i] = q[n - (MaxQueued - 2) + 1 + i - 1]
      BY <2>2, <3>1, SubSeqProperties
    <3> QED
      BY <3>2, <1>0
  <2>4. q[1] \in Chunks
    BY <1>0, <1>3
  <2> HIDE DEF t, l
  <2>5. /\ t \in Seq(Chunks) /\ Len(t) = MaxQueued - 1 /\ t[1] = q[1]
        /\ \A i \in 2 .. Len(t) : t[i] = l[i - 1]
    BY <2>1, <2>3, <2>4
  <2>6. n - Len(t) >= 0 /\ Len(t) < MaxQueued /\ t # << >>
    BY <2>5, <1>3, <1>0
  <2>7. \A i \in 2 .. Len(t) : t[i] = q[i + (n - Len(t))]
    <3> TAKE i \in 2 .. Len(t)
    <3>1. i - 1 \in 1 .. MaxQueued - 2
      BY <2>5
    <3>2. l[i - 1] = q[n - (MaxQueued - 2) + 1 + (i - 1) - 1]
      BY <2>3, <3>1
    <3> QED
      BY <2>5, <3>2, <1>0
  <2> QED
    BY <2>5, <2>6, <2>7 DEF t
<1> QED
  BY <1>0, <1>1, <1>2, <1>3

\* A run continues the last one, or a new one is appended.
LEMMA SentShape ==
  ASSUME NEW w \in Seq(Run), NEW c \in Chunks,
         NEW first \in Nat \ {0}, NEW last \in Nat \ {0}
  PROVE  LET r == Sent(w, c, first, last)
             continues == w # << >> /\ w[Len(w)].chunk = c /\ w[Len(w)].last = first - 1
         IN  /\ r \in Seq(Run)
             /\ Len(r) = IF continues THEN Len(w) ELSE Len(w) + 1
             /\ \A i \in 1 .. Len(r) - 1 : r[i] = w[i]
             /\ r[Len(r)].chunk = c /\ r[Len(r)].last = last
             /\ r[Len(r)].first = IF continues THEN w[Len(w)].first ELSE first
<1> DEFINE r == Sent(w, c, first, last)
           continues == w # << >> /\ w[Len(w)].chunk = c /\ w[Len(w)].last = first - 1
<1>1. CASE continues
  <2> DEFINE e == [w[Len(w)] EXCEPT !.last = last]
  <2>1. r = [w EXCEPT ![Len(w)] = e]
    BY <1>1 DEF Sent
  <2>2. Len(w) \in 1 .. Len(w)
    BY <1>1
  <2>3. w[Len(w)] \in Run
    BY <2>2
  <2>4. e \in Run /\ e.chunk = c /\ e.last = last /\ e.first = w[Len(w)].first
    BY <2>3, <1>1 DEF Run
  <2> HIDE DEF e, r
  <2>5. /\ r \in Seq(Run) /\ Len(r) = Len(w)
        /\ \A j \in 1 .. Len(w) : r[j] = IF j = Len(w) THEN e ELSE w[j]
    BY <2>1, <2>2, <2>4, ExceptSeq
  <2>6. r[Len(r)] = e /\ \A j \in 1 .. Len(r) - 1 : r[j] = w[j]
    BY <2>5, <2>2
  <2> QED
    BY <1>1, <2>4, <2>5, <2>6 DEF r
<1>2. CASE ~continues
  <2> DEFINE e == [chunk |-> c, first |-> first, last |-> last]
  <2>1. r = Append(w, e)
    BY <1>2 DEF Sent
  <2>2. e \in Run
    BY DEF Run
  <2>3. e.chunk = c /\ e.last = last /\ e.first = first
    OBVIOUS
  <2> HIDE DEF e, r
  <2>4. /\ r \in Seq(Run) /\ Len(r) = Len(w) + 1 /\ r[Len(r)] = e
        /\ \A i \in 1 .. Len(r) - 1 : r[i] = w[i]
    BY <2>1, <2>2, AppendProperties
  <2> QED
    BY <1>2, <2>3, <2>4 DEF r
<1> QED
  BY <1>1, <1>2

-----------------------------------------------------------------------------
(* Types.                                                                  *)

LEMMA InitTypeOK == Init => TypeOK
<1> USE MaxFramesAssumption, SizesAssumption
<1> SUFFICES ASSUME Init PROVE TypeOK
  OBVIOUS
<1>1. << >> \in Seq(Chunks) /\ << >> \in Seq(Run)
  OBVIOUS
<1>2. queue \in [Viewers -> Seq(Chunks)] /\ wire \in [Viewers -> Seq(Run)]
  BY <1>1 DEF Init
<1>3. /\ offset \in [Viewers -> Nat] /\ sock \in [Viewers -> 0 .. SockSize]
      /\ joined \in [Viewers -> -1 .. MaxFrames]
  BY DEF Init
<1>4. active \in [Viewers -> BOOLEAN] /\ config \in BOOLEAN /\ notified \in BOOLEAN
  BY Zenon DEF Init
<1>5. peer \in [Viewers -> {"up", "down"}]
  BY DEF Init
<1>6. /\ frames \in 0 .. MaxFrames /\ idr \in 0 .. MaxFrames
      /\ sender \in {"prepare", "waiting", "pass", "kick"}
      /\ roster = {} /\ todo = {} /\ dead = {} /\ epollDead = {}
  BY DEF Init
<1> QED
  BY <1>2, <1>3, <1>4, <1>5, <1>6 DEF TypeOK, Run

\* Short sequences put together.
LEMMA ConcatShort ==
  ASSUME NEW S, NEW a \in S, NEW b \in S, NEW c \in S
  PROVE  <<a>> \o <<b>> = <<a, b>> /\ <<a, b>> \o <<c>> = <<a, b, c>>
<1>1. /\ <<a>> \in Seq(S) /\ <<b>> \in Seq(S) /\ <<c>> \in Seq(S)
      /\ <<a, b>> \in Seq(S) /\ <<a, b, c>> \in Seq(S)
  OBVIOUS
<1> DEFINE s == <<a>>
           t == <<a, b>>
           u == <<b>>
           w == <<c>>
<1>2. s \o u = t
  <2>1. /\ s \o u \in Seq(S)
        /\ Len(s \o u) = Len(s) + Len(u)
        /\ \A i \in 1 .. Len(s) + Len(u) :
             (s \o u)[i] = IF i <= Len(s) THEN s[i] ELSE u[i - Len(s)]
    <3> HIDE DEF s, u
    <3>1. s \in Seq(S) /\ u \in Seq(S)
      BY <1>1 DEF s, u
    <3> QED
      BY <3>1, ConcatProperties
  <2>2. Len(s \o u) = Len(t) /\ \A i \in 1 .. Len(t) : (s \o u)[i] = t[i]
    <3>1. Len(s) = 1 /\ Len(u) = 1 /\ Len(t) = 2
      OBVIOUS
    <3>2. s[1] = a /\ u[1] = b /\ t[1] = a /\ t[2] = b
      OBVIOUS
    <3> HIDE DEF s, t, u
    <3> QED
      BY <2>1, <3>1, <3>2
  <2> QED
    <3> HIDE DEF s, t, u
    <3>1. t \in Seq(S)
      BY <1>1 DEF t
    <3> QED
      BY <2>1, <2>2, <3>1, SeqEqual
<1>3. t \o w = <<a, b, c>>
  <2>1. /\ t \o w \in Seq(S)
        /\ Len(t \o w) = Len(t) + Len(w)
        /\ \A i \in 1 .. Len(t) + Len(w) :
             (t \o w)[i] = IF i <= Len(t) THEN t[i] ELSE w[i - Len(t)]
    <3> HIDE DEF t, w
    <3>1. t \in Seq(S) /\ w \in Seq(S)
      BY <1>1 DEF t, w
    <3> QED
      BY <3>1, ConcatProperties
  <2> DEFINE r == <<a, b, c>>
  <2>2. Len(t \o w) = Len(r) /\ \A i \in 1 .. Len(r) : (t \o w)[i] = r[i]
    BY <2>1
  <2> QED
    <3> HIDE DEF r, t, w
    <3>1. r \in Seq(S)
      BY <1>1 DEF r
    <3>2. t \o w = r
      BY <2>1, <2>2, <3>1, SeqEqual
    <3> QED
      BY <3>2 DEF r, t, w
<1> QED
  BY <1>2, <1>3

\* The queue of a new viewer: at most the header, the config and a frame.
LEMMA FirstQueue ==
  ASSUME TypeOK
  PROVE  LET q == <<Header>> \o (IF config THEN <<Config>> ELSE << >>)
                             \o (IF idr > 0 THEN <<idr>> ELSE << >>)
         IN  /\ q \in Seq(Chunks) /\ Len(q) \in 1 .. 3
             /\ \A i \in 1 .. Len(q) : q[i] \in {Header, Config, idr}
             /\ \A i, j \in 1 .. Len(q) : i < j => q[i] < q[j]
<1> USE MaxFramesAssumption
<1>0. <<Header>> \in Seq(Chunks) /\ <<Config>> \in Seq(Chunks) /\ idr \in 0 .. MaxFrames
  BY DEF TypeOK, Chunks, Header, Config
<1>1. CASE config /\ idr > 0
  <2>1. Header \in Chunks /\ Config \in Chunks /\ idr \in Chunks
    BY <1>0 DEF Chunks, Header, Config
  <2>2. <<Header>> \o <<Config>> = <<Header, Config>>
    BY <2>1, ConcatShort
  <2>3. <<Header, Config>> \o <<idr>> = <<Header, Config, idr>>
    BY <2>1, ConcatShort
  <2>4. <<Header, Config, idr>> \in Seq(Chunks)
    BY <1>0 DEF Chunks, Header, Config
  <2> QED
    BY <1>0, <1>1, <2>2, <2>3, <2>4 DEF Header, Config
<1>2. CASE config /\ ~(idr > 0)
  <2>1. <<Header>> \o <<Config>> = <<Header, Config>>
    <3>1. Header \in Chunks /\ Config \in Chunks
      BY <1>0 DEF Chunks, Header, Config
    <3> QED
      BY <3>1, ConcatShort
  <2>2. <<Header, Config>> \in Seq(Chunks)
    BY <1>0 DEF Chunks, Header, Config
  <2>3. <<Header, Config>> \o << >> = <<Header, Config>>
    BY <2>2, ConcatEmptySeq
  <2> QED
    BY <1>2, <2>1, <2>2, <2>3 DEF Header, Config
<1>3. CASE ~config /\ idr > 0
  <2>1. <<Header>> \o << >> = <<Header>>
    BY <1>0, ConcatEmptySeq
  <2>2. <<Header>> \o <<idr>> = <<Header, idr>>
    <3>1. Header \in Chunks /\ idr \in Chunks
      BY <1>0 DEF Chunks, Header, Config
    <3> QED
      BY <3>1, ConcatShort
  <2>3. <<Header, idr>> \in Seq(Chunks)
    BY <1>0 DEF Chunks, Header, Config
  <2> QED
    BY <1>0, <1>3, <2>1, <2>2, <2>3 DEF Header, Config
<1>4. CASE ~config /\ ~(idr > 0)
  <2>1. <<Header>> \o << >> = <<Header>>
    BY <1>0, ConcatEmptySeq
  <2> QED
    BY <1>0, <1>4, <2>1 DEF Header, Config
<1> QED
  BY <1>1, <1>2, <1>3, <1>4

\* The types of what is queued and sent for one viewer.
LEMMA ChunksAreInts ==
  ASSUME TypeOK, NEW v \in Viewers
  PROVE  /\ queue[v] \in Seq(Chunks) /\ wire[v] \in Seq(Run) /\ offset[v] \in Nat
         /\ \A i \in 1 .. Len(queue[v]) : queue[v][i] \in Int
         /\ \A i \in 1 .. Len(wire[v]) : wire[v][i].chunk \in Int
<1> USE SizesAssumption, MaxFramesAssumption
<1>1. queue[v] \in Seq(Chunks) /\ wire[v] \in Seq(Run) /\ offset[v] \in Nat
  <2>1. queue[v] \in Seq(Chunks) /\ wire[v] \in Seq(Run)
    BY Zenon DEF TypeOK, Run
  <2>2. offset[v] \in Nat
    BY Zenon DEF TypeOK
  <2> QED
    BY <2>1, <2>2
<1>2. \A c \in Chunks : c \in Int
  BY DEF Chunks, Header
<1>3. \A i \in 1 .. Len(queue[v]) : queue[v][i] \in Chunks
  BY <1>1
<1>4. \A i \in 1 .. Len(wire[v]) : wire[v][i] \in Run
  BY <1>1
<1>5. \A i \in 1 .. Len(wire[v]) : wire[v][i].chunk \in Chunks
  BY <1>4 DEF Run
<1> QED
  BY <1>1, <1>2, <1>3, <1>5

LEMMA NextTypeOK == TypeOK /\ [Next]_vars => TypeOK'
<1> SUFFICES ASSUME TypeOK, [Next]_vars PROVE TypeOK'
  OBVIOUS
<1> USE MaxFramesAssumption, SizesAssumption, MaxQueuedAssumption
<1> USE DEF streamVars, viewerVars, socketVars, senderVars, TypeOK
<1>1. CASE HandleCompleteFrame
  <2>1. frames' \in 0 .. MaxFrames /\ idr' \in 0 .. MaxFrames
    BY <1>1 DEF HandleCompleteFrame
  <2>3. config' \in BOOLEAN /\ notified' \in BOOLEAN
    BY <1>1, Zenon DEF HandleCompleteFrame, NotifySender
  <2>2. queue' \in [Viewers -> Seq(Chunks)]
    <3>1. \A v \in Viewers : Append(Trimmed(queue[v], offset[v]), frames + 1) \in Seq(Chunks)
      <4> TAKE v \in Viewers
      <4>1. Trimmed(queue[v], offset[v]) \in Seq(Chunks)
        BY TrimmedShape
      <4>2. frames + 1 \in Chunks
        BY <1>1 DEF HandleCompleteFrame, Chunks, Header
      <4> QED
        BY <4>1, <4>2
    <3> QED
      BY <1>1, <3>1 DEF HandleCompleteFrame
  <2> QED
    BY <1>1, <2>1, <2>2, <2>3 DEF HandleCompleteFrame
<1>2. CASE SenderWaits
  BY <1>2 DEF SenderWaits
<1>3. CASE SenderStartsPass
  BY <1>3 DEF SenderStartsPass
<1>4. CASE SenderEndsPass
  BY <1>4 DEF SenderEndsPass
<1>5. CASE SenderLoops
  BY <1>5 DEF SenderLoops
<1>6. ASSUME NEW v \in Viewers, NEW n \in 1 .. SockSize, SendTakes(v, n) PROVE TypeOK'
  <2>1. /\ n <= ChunkSize[Head(queue[v])] - offset[v] /\ n <= SockSize - sock[v] /\ queue[v] # << >>
        /\ sock' = [sock EXCEPT ![v] = sock[v] + n]
        /\ wire' = [wire EXCEPT ![v] =
                      Sent(wire[v], Head(queue[v]), offset[v] + 1, offset[v] + n)]
    BY <1>6 DEF SendTakes, ToSend
  <2>0. /\ sock \in [Viewers -> 0 .. SockSize] /\ queue[v] \in Seq(Chunks)
        /\ offset[v] \in Nat
    BY Zenon
  <2>2. sock' \in [Viewers -> 0 .. SockSize]
    <3> HIDE DEF TypeOK
    <3>1. sock[v] + n \in 0 .. SockSize
      BY <2>0, <2>1
    <3> QED
      BY <2>0, <2>1, <3>1
  <2>3. Head(queue[v]) \in Chunks /\ Tail(queue[v]) \in Seq(Chunks)
    <3> HIDE DEF TypeOK
    <3> QED
      BY <2>0, <2>1, HeadTailProperties
  <2>4. offset[v] + 1 \in Nat \ {0} /\ offset[v] + n \in Nat \ {0}
    <3> HIDE DEF TypeOK
    <3> QED
      BY <2>0
  <2>5. wire[v] \in Seq(Run)
    <3> HIDE DEF TypeOK
    <3> QED
      BY ChunksAreInts
  <2>6. Sent(wire[v], Head(queue[v]), offset[v] + 1, offset[v] + n) \in Seq(Run)
    <3> HIDE DEF TypeOK
    <3> QED
      BY <2>3, <2>4, <2>5, SentShape
  <2>7. wire' \in [Viewers -> Seq(Run)]
    BY <2>1, <2>6 DEF Run
  <2>8. queue' \in [Viewers -> Seq(Chunks)]
    <3>1. queue' = [queue EXCEPT ![v] = Tail(queue[v])] \/ queue' = queue
      BY <1>6 DEF SendTakes
    <3> QED
      BY <3>1, <2>3
  <2>9. offset' \in [Viewers -> Nat]
    <3>1. \/ offset' = [offset EXCEPT ![v] = 0]
          \/ offset' = [offset EXCEPT ![v] = offset[v] + n]
      BY <1>6 DEF SendTakes
    <3>2. 0 \in Nat /\ offset[v] + n \in Nat
      BY <2>4
    <3> QED
      BY <3>1, <3>2
  <2> QED
    BY <1>6, <2>2, <2>7, <2>8, <2>9 DEF SendTakes, Run
<1>7. ASSUME NEW v \in Viewers, SendWouldBlock(v) PROVE TypeOK'
  BY <1>7 DEF SendWouldBlock
<1>8. ASSUME NEW v \in Viewers, SendFails(v) PROVE TypeOK'
  BY <1>8 DEF SendFails
<1>9. ASSUME NEW v \in Viewers, NothingToSend(v) PROVE TypeOK'
  BY <1>9 DEF NothingToSend
<1>10. ASSUME NEW v \in Viewers, SenderRemovesDead(v) PROVE TypeOK'
  BY <1>10 DEF SenderRemovesDead, RemoveViewer
<1>11. ASSUME NEW v \in Viewers, HandleViewerRequest(v) PROVE TypeOK'
  <2>1. queue' \in [Viewers -> Seq(Chunks)]
    BY <1>11, FirstQueue DEF HandleViewerRequest
  <2>2. notified' \in BOOLEAN
    BY <1>11, Zenon DEF HandleViewerRequest, NotifySender
  <2>3. active' \in [Viewers -> BOOLEAN]
    BY <1>11 DEF HandleViewerRequest
  <2>4. joined' \in [Viewers -> -1 .. MaxFrames] /\ offset' \in [Viewers -> Nat]
    BY <1>11 DEF HandleViewerRequest
  <2> QED
    BY <1>11, <2>1, <2>2, <2>3, <2>4 DEF HandleViewerRequest
<1>12. ASSUME NEW v \in Viewers, EpollRemovesDead(v) PROVE TypeOK'
  BY <1>12 DEF EpollRemovesDead, RemoveViewer
<1>13. ASSUME NEW v \in Viewers, EpollHangUp(v) PROVE TypeOK'
  BY <1>13 DEF EpollHangUp, RemoveViewer
<1>14. ASSUME NEW v \in Viewers, Reads(v) PROVE TypeOK'
  <2>1. sock' \in [Viewers -> 0 .. SockSize]
    BY <1>14 DEF Reads
  <2> QED
    BY <1>14, <2>1 DEF Reads
<1>15. ASSUME NEW v \in Viewers, Disconnects(v) PROVE TypeOK'
  BY <1>15 DEF Disconnects
<1>16. CASE UNCHANGED vars
  BY <1>16 DEF vars
<1> HIDE DEF TypeOK
<1> QED
  BY <1>1, <1>2, <1>3, <1>4, <1>5, <1>6, <1>7, <1>8, <1>9, <1>10, <1>11, <1>12,
     <1>13, <1>14, <1>15, <1>16 DEF Next, SenderThread, Serve

\* Every variable keeps its type, the queues their chunks and the sockets their
\* limits (camera_gateway/src/TcpServer.cpp).
THEOREM TypeCorrect == Spec => []TypeOK
<1> QED
  BY InitTypeOK, NextTypeOK, PTL DEF Spec

-----------------------------------------------------------------------------
(* The inductive invariant.                                                *)

LEMMA InitIInv == Init => IInv
<1> SUFFICES ASSUME Init PROVE IInv
  OBVIOUS
<1>1. TypeOK
  BY InitTypeOK
<1>2. ASSUME NEW v \in Viewers PROVE ViewerInv(v)
  <2>1. /\ queue[v] = << >> /\ wire[v] = << >> /\ offset[v] = 0
        /\ ~active[v] /\ v \notin roster
    BY DEF Init
  <2>2. Len(queue[v]) = 0 /\ Len(wire[v]) = 0
    BY <2>1
  <2> QED
    BY <2>1, <2>2, SizesAssumption
    DEF ViewerInv, Untouched, HeadStarted, QueueSorted, WireSorted, OffsetIn, Unbroken, Newest
<1>3. idr <= frames
  BY DEF Init
<1> QED
  BY <1>1, <1>2, <1>3 DEF IInv

\* What the steps that touch neither queues nor what was sent leave as it is.
LEMMA ViewerUnchanged ==
  ASSUME NEW v \in Viewers, ViewerInv(v),
         queue'[v] = queue[v], offset'[v] = offset[v], wire'[v] = wire[v],
         joined'[v] = joined[v], frames' = frames,
         active'[v] => active[v], v \in roster' => v \in roster
  PROVE  ViewerInv(v)'
<1>1. Untouched(v)' /\ HeadStarted(v)' /\ OffsetIn(v)' /\ Unbroken(v)'
  BY DEF ViewerInv, Untouched, HeadStarted, OffsetIn, Unbroken
<1>2. QueueSorted(v)' /\ WireSorted(v)'
  BY DEF ViewerInv, QueueSorted, WireSorted
<1>3. Newest(v)'
  BY DEF ViewerInv, Newest
<1> QED
  BY <1>1, <1>2, <1>3 DEF ViewerInv

LEMMA RequestIInv ==
  ASSUME IInv, TypeOK', NEW v \in Viewers, HandleViewerRequest(v)
  PROVE  IInv'
<1>0. frames \in Nat /\ idr \in Nat /\ idr <= frames
  BY DEF IInv, TypeOK
<1>1. /\ joined[v] = -1 /\ frames' = frames /\ idr' = idr /\ wire' = wire
      /\ joined' = [joined EXCEPT ![v] = frames]
      /\ roster' = roster \cup {v}
      /\ active' = [active EXCEPT ![v] = TRUE]
      /\ offset' = [offset EXCEPT ![v] = 0]
  BY DEF HandleViewerRequest, streamVars
<1>2. ASSUME NEW w \in Viewers, w # v PROVE ViewerInv(w)'
  <2>1. queue'[w] = queue[w]
    BY <1>2 DEF HandleViewerRequest, IInv, TypeOK
  <2>2. /\ offset'[w] = offset[w] /\ wire'[w] = wire[w] /\ joined'[w] = joined[w]
        /\ active'[w] = active[w] /\ (w \in roster' => w \in roster)
    BY <1>1, <1>2 DEF IInv, TypeOK
  <2> QED
    BY <1>1, <2>1, <2>2, ViewerUnchanged DEF IInv
<1>3. ViewerInv(v)'
  <2> DEFINE q == queue'[v]
  <2>1. /\ q \in Seq(Chunks) /\ Len(q) \in 1 .. 3
        /\ \A i \in 1 .. Len(q) : q[i] \in {Header, Config, idr}
        /\ \A i, j \in 1 .. Len(q) : i < j => q[i] < q[j]
    BY FirstQueue DEF HandleViewerRequest, IInv, TypeOK
  <2>2. offset'[v] = 0 /\ joined'[v] = frames /\ wire'[v] = << >>
    BY <1>1 DEF IInv, TypeOK, ViewerInv, Untouched
  <2>3. \A i \in 1 .. Len(q) : q[i] <= frames
    BY <1>0, <2>1 DEF Header, Config
  <2>4. Len(wire'[v]) = 0 /\ frames \in Nat
    BY <1>0, <2>2
  <2>5. Untouched(v)' /\ HeadStarted(v)' /\ OffsetIn(v)' /\ Unbroken(v)'
    BY <2>2, <2>4, SizesAssumption DEF Untouched, HeadStarted, OffsetIn, Unbroken
  <2>6. QueueSorted(v)'
    BY <1>1, <2>1, <2>3 DEF QueueSorted
  <2>7. WireSorted(v)'
    BY <2>4 DEF WireSorted
  <2>8. Newest(v)'
    <3>1. \A i \in 1 .. Len(q) : q[i] \in Int /\ ~(q[i] > frames)
      BY <1>0, <2>1, <2>3 DEF Header, Config
    <3>2. Len(q) <= MaxQueued /\ ~(frames' > joined'[v])
      BY <1>0, <1>1, <2>1, <2>2, MaxQueuedAssumption, SMTT(30)
    <3>3. \A i \in 2 .. Len(q) - 1 : ~(q[i] > joined'[v])
      BY <2>1, <2>2, <3>1
    <3> QED
      BY <3>2, <3>3 DEF Newest
  <2> QED
    BY <2>5, <2>6, <2>7, <2>8 DEF ViewerInv
<1> QED
  BY <1>1, <1>2, <1>3 DEF IInv

LEMMA FrameIInv ==
  ASSUME IInv, TypeOK', HandleCompleteFrame
  PROVE  IInv'
<1>0. /\ frames \in Nat /\ idr \in Nat /\ idr <= frames
      /\ frames' = frames + 1 /\ idr' \in {idr, frames + 1}
      /\ roster' = roster /\ offset' = offset /\ active' = active
      /\ joined' = joined /\ wire' = wire
  BY DEF IInv, TypeOK, HandleCompleteFrame
<1>1. ASSUME NEW v \in Viewers, ~(v \in roster /\ active[v]) PROVE ViewerInv(v)'
  <2>1. queue'[v] = queue[v] /\ ViewerInv(v)
    BY <1>1 DEF HandleCompleteFrame, IInv
  <2>2. Untouched(v)' /\ HeadStarted(v)' /\ OffsetIn(v)' /\ Unbroken(v)'
    BY <1>0, <2>1 DEF ViewerInv, Untouched, HeadStarted, OffsetIn, Unbroken
  <2>3. /\ \A i \in 1 .. Len(queue[v]) : queue[v][i] \in Int
        /\ \A i \in 1 .. Len(wire[v]) : wire[v][i].chunk \in Int
    BY ChunksAreInts DEF IInv
  <2>4. QueueSorted(v)'
    BY <1>0, <2>1, <2>3 DEF ViewerInv, QueueSorted
  <2>5. WireSorted(v)'
    <3>1. WireSorted(v)
      BY <2>1 DEF ViewerInv
    <3>2. \A i \in 1 .. Len(wire[v]) : wire[v][i].chunk <= frames + 1
      BY <1>0, <2>3, <3>1 DEF WireSorted
    <3>3. /\ frames' = frames + 1 /\ wire'[v] = wire[v]
          /\ offset'[v] = offset[v] /\ queue'[v] = queue[v]
      BY <1>0, <2>1
    <3> QED
      BY <3>1, <3>2, <3>3 DEF WireSorted
  <2>6. Newest(v)'
    BY <1>0, <1>1 DEF Newest
  <2> QED
    BY <2>2, <2>4, <2>5, <2>6 DEF ViewerInv
<1>2. ASSUME NEW v \in Viewers, v \in roster, active[v] PROVE ViewerInv(v)'
  <2> DEFINE q == queue[v]
             t == Trimmed(q, offset[v])
             d == Len(q) - Len(t)
             r == queue'[v]
             w == wire[v]
  <2>0. ViewerInv(v)
    BY DEF IInv
  <2>1. /\ q \in Seq(Chunks) /\ offset[v] \in Nat
        /\ \A i \in 1 .. Len(q) : q[i] \in Int
        /\ \A i \in 1 .. Len(w) : w[i].chunk \in Int
    BY ChunksAreInts DEF IInv
  <2>2. /\ t \in Seq(Chunks)
        /\ d >= 0 /\ Len(t) < MaxQueued /\ (q # << >> => t # << >>)
        /\ \A i \in 2 .. Len(t) : t[i] = q[i + d]
        /\ t # << >> => t[1] = q[1] \/ (offset[v] = 0 /\ t[1] = q[1 + d])
    BY <2>1, TrimmedShape
  <2>3. r = Append(t, frames + 1) /\ frames + 1 \in Chunks
    BY <1>2 DEF HandleCompleteFrame, IInv, TypeOK, Chunks, Header
  <2>4. Len(q) \in Nat /\ Len(t) \in Nat /\ d \in Nat /\ Len(q) = Len(t) + d
    <3> HIDE DEF q, t
    <3> QED
      BY <2>1, <2>2
  <2>5. /\ Len(r) = Len(t) + 1 /\ r # << >>
        /\ \A i \in 1 .. Len(t) : r[i] = t[i]
        /\ r[Len(t) + 1] = frames + 1
    <3> HIDE DEF t, r
    <3> QED
      BY <2>2, <2>3, AppendProperties
  <2>6. joined[v] # -1
    BY <1>2, <2>0 DEF ViewerInv, Untouched
  <2> HIDE DEF t, r, d
  <2>7. \A i \in 1 .. Len(t) : /\ t[i] \in Int /\ t[i] <= frames
                               /\ \E k \in 1 .. Len(q) : k <= i + d /\ t[i] = q[k]
    <3> TAKE i \in 1 .. Len(t)
    <3>1. PICK k \in 1 .. Len(q) : k <= i + d /\ t[i] = q[k]
      <4>1. CASE i = 1
        <5>1. t # << >> /\ 1 \in 1 .. Len(q) /\ 1 + d \in 1 .. Len(q)
          BY <2>4, <4>1
        <5> QED
          BY <2>2, <2>4, <4>1, <5>1
      <4>2. CASE i # 1
        <5>1. t[i] = q[i + d] /\ i + d \in 1 .. Len(q) /\ i + d <= i + d
          BY <2>2, <2>4, <4>2
        <5> QED
          BY <5>1
      <4> QED
        BY <4>1, <4>2
    <3> QED
      BY <3>1, <2>0, <2>1 DEF ViewerInv, QueueSorted
  <2>8. \A i, j \in 1 .. Len(t) : i < j => t[i] < t[j]
    <3> TAKE i, j \in 1 .. Len(t)
    <3> HAVE i < j
    <3>1. PICK k \in 1 .. Len(q) : k <= i + d /\ t[i] = q[k]
      BY <2>7
    <3>2. t[j] = q[j + d] /\ j + d \in 1 .. Len(q) /\ k < j + d
      BY <2>2, <2>4, <3>1
    <3> QED
      BY <3>1, <3>2, <2>0 DEF ViewerInv, QueueSorted
  <2>9. Untouched(v)'
    BY <1>0, <2>6 DEF Untouched
  <2>10. HeadStarted(v)'
    <3> SUFFICES ASSUME offset[v] > 0
                 PROVE  w # << >> /\ w[Len(w)].chunk = r[1] /\ w[Len(w)].last = offset[v]
      BY <1>0 DEF HeadStarted, r
    <3>1. q # << >> /\ offset[v] # 0
      BY <2>0, <2>1 DEF ViewerInv, OffsetIn
    <3>2. t # << >> /\ t[1] = q[1]
      BY <3>1, <2>2
    <3>3. r[1] = q[1]
      BY <3>2, <2>2, <2>4, <2>5
    <3> QED
      BY <3>3, <2>0 DEF ViewerInv, HeadStarted
  <2>11. QueueSorted(v)'
    <3>1. \A i \in 1 .. Len(r) : r[i] <= frames + 1
      <4> TAKE i \in 1 .. Len(r)
      <4>1. i \in 1 .. Len(t) \/ i = Len(t) + 1
        BY <2>4, <2>5
      <4>2. CASE i \in 1 .. Len(t)
        BY <1>0, <4>2, <2>5, <2>7
      <4>3. CASE i = Len(t) + 1
        BY <1>0, <4>3, <2>5
      <4> QED
        BY <4>1, <4>2, <4>3
    <3>2. \A i, j \in 1 .. Len(r) : i < j => r[i] < r[j]
      <4> TAKE i, j \in 1 .. Len(r)
      <4> HAVE i < j
      <4>1. i \in 1 .. Len(t) /\ (j \in 1 .. Len(t) \/ j = Len(t) + 1)
        BY <2>4, <2>5
      <4>2. CASE j \in 1 .. Len(t)
        BY <4>1, <4>2, <2>5, <2>8
      <4>3. CASE j = Len(t) + 1
        BY <1>0, <4>1, <4>3, <2>5, <2>7
      <4> QED
        BY <4>1, <4>2, <4>3
    <3> QED
      BY <1>0, <3>1, <3>2 DEF QueueSorted, r
  <2>12. WireSorted(v)'
    <3>1. ASSUME offset[v] = 0, NEW i \in 1 .. Len(w), NEW j \in 1 .. Len(r)
          PROVE  w[i].chunk < r[j]
      <4>1. CASE j = Len(t) + 1
        BY <1>0, <4>1, <2>0, <2>1, <2>5 DEF ViewerInv, WireSorted
      <4>2. CASE j \in 1 .. Len(t)
        BY <4>2, <3>1, <2>0, <2>5, <2>7 DEF ViewerInv, WireSorted
      <4> QED
        BY <4>1, <4>2, <2>4, <2>5
    <3>2. \A i \in 1 .. Len(w) : w[i].chunk <= frames + 1
      BY <1>0, <2>0, <2>1, SMTT(30) DEF ViewerInv, WireSorted
    <3> QED
      BY <1>0, <3>1, <3>2, <2>0 DEF ViewerInv, WireSorted, r
  \* A chunk begun stays at the head, whatever is dropped behind it.
  <2>13. OffsetIn(v)' /\ Unbroken(v)'
    <3>1. offset[v] > 0 => r # << >> /\ r[1] = q[1]
      <4> SUFFICES ASSUME offset[v] > 0 PROVE r[1] = q[1]
        BY <2>5
      <4>1. q # << >> /\ offset[v] # 0
        BY <2>0, <2>1 DEF ViewerInv, OffsetIn
      <4>2. t # << >> /\ t[1] = q[1]
        BY <4>1, <2>2
      <4> QED
        BY <4>2, <2>2, <2>4, <2>5
    <3>2. OffsetIn(v)'
      BY <1>0, <2>0, <3>1 DEF ViewerInv, OffsetIn, r
    <3> QED
      BY <1>0, <2>0, <3>2 DEF ViewerInv, Unbroken
  <2>14. Newest(v)'
    <3>1. Len(r) <= MaxQueued
      BY <2>2, <2>4, <2>5, MaxQueuedAssumption
    <3>2. r[Len(r)] = frames'
      BY <1>0, <2>4, <2>5
    <3>3. ASSUME NEW i \in 2 .. Len(r) - 1, r[i] > joined[v] PROVE r[i + 1] = r[i] + 1
      <4>0. r[i] = q[i + d] /\ i + d \in 2 .. Len(q) /\ i \in 2 .. Len(t)
        BY <2>2, <2>4, <2>5
      <4>1. CASE i = Len(t)
        <5>1. q[Len(q)] > joined[v] /\ q # << >> /\ i + d = Len(q)
          BY <4>0, <4>1, <3>3, <2>4
        <5>2. q[Len(q)] <= frames /\ frames > joined[v]
          <6>1. q[Len(q)] <= frames /\ q[Len(q)] \in Int
            BY <2>0, <2>1, <5>1 DEF ViewerInv, QueueSorted
          <6>2. joined[v] \in Int
            BY DEF IInv, TypeOK
          <6> QED
            BY <1>0, <5>1, <6>1, <6>2
        <5>3. q[Len(q)] = frames
          BY <1>2, <2>0, <5>1, <5>2 DEF ViewerInv, Newest
        <5> QED
          BY <4>0, <4>1, <5>1, <5>3, <2>5
      <4>2. CASE i < Len(t)
        <5>1. r[i + 1] = q[i + 1 + d] /\ i + d \in 2 .. Len(q) - 1
          <6>1. i + 1 \in 2 .. Len(t) /\ i + d \in 2 .. Len(q) - 1
            BY <4>0, <4>2, <2>4
          <6>2. r[i + 1] = t[i + 1] /\ t[i + 1] = q[i + 1 + d]
            BY <6>1, <2>2, <2>5
          <6> QED
            BY <6>1, <6>2
        <5>2. q[i + d + 1] = q[i + d] + 1
          <6>1. q[i + d] > joined[v]
            BY <3>3, <4>0
          <6>2. \A k \in 2 .. Len(q) - 1 : q[k] > joined[v] => q[k + 1] = q[k] + 1
            BY <1>2, <2>0 DEF ViewerInv, Newest
          <6> QED
            BY <5>1, <6>1, <6>2
        <5>3. i + d + 1 = i + 1 + d
          BY <2>4
        <5> QED
          BY <4>0, <5>1, <5>2, <5>3
      <4> QED
        BY <4>0, <4>1, <4>2, <2>4
    <3> QED
      BY <1>0, <3>1, <3>2, <3>3 DEF Newest, r
  <2> QED
    BY <2>9, <2>10, <2>11, <2>12, <2>13, <2>14 DEF ViewerInv
<1>3. idr' <= frames'
  BY <1>0
<1> QED
  BY <1>1, <1>2, <1>3 DEF IInv

LEMMA SendIInv ==
  ASSUME IInv, TypeOK', NEW v \in Viewers, NEW n \in 1 .. SockSize, SendTakes(v, n)
  PROVE  IInv'
<1> USE SizesAssumption
<1> DEFINE q == queue[v]
           w == wire[v]
           o == offset[v]
           size == ChunkSize[q[1]]
           r == Sent(w, q[1], o + 1, o + n)
<1>0. /\ frames' = frames /\ idr' = idr /\ roster' = roster /\ active' = active
      /\ joined' = joined /\ q # << >> /\ active[v] /\ n <= ChunkSize[Head(q)] - o
  BY DEF SendTakes, ToSend, streamVars
<1>1. ASSUME NEW u \in Viewers, u # v PROVE ViewerInv(u)'
  <2>1. wire'[u] = wire[u]
    BY <1>1 DEF SendTakes, IInv, TypeOK
  <2>2. \/ queue' = [queue EXCEPT ![v] = Tail(queue[v])] /\ offset' = [offset EXCEPT ![v] = 0]
        \/ queue' = queue /\ offset' = [offset EXCEPT ![v] = offset[v] + n]
    BY DEF SendTakes
  <2>3. queue \in [Viewers -> Seq(Chunks)] /\ offset \in [Viewers -> Nat]
    BY DEF IInv, TypeOK
  <2>4. queue'[u] = queue[u] /\ offset'[u] = offset[u]
    BY <1>1, <2>2, <2>3
  <2> QED
    BY <1>0, <2>1, <2>4, ViewerUnchanged DEF IInv
<1>2. /\ q \in Seq(Chunks) /\ w \in Seq(Run) /\ o \in Nat /\ ViewerInv(v)
      /\ \A i \in 1 .. Len(q) : q[i] \in Int
      /\ \A i \in 1 .. Len(w) : w[i].chunk \in Int
  BY ChunksAreInts DEF IInv
<1>3. wire'[v] = r
  BY DEF SendTakes, IInv, TypeOK
<1>10. Head(q) = q[1] /\ size \in Nat \ {0}
  <2> HIDE DEF q
  <2>1. Head(q) = q[1] /\ q[1] \in Chunks
    BY <1>0, <1>2
  <2> QED
    BY <2>1
<1>4. IF o + n = size THEN queue'[v] = Tail(q) /\ offset'[v] = 0
                           ELSE queue'[v] = q /\ offset'[v] = o + n
  <2>1. queue \in [Viewers -> Seq(Chunks)] /\ offset \in [Viewers -> Nat]
    BY Zenon DEF IInv, TypeOK
  <2>2. IF o + n = ChunkSize[Head(q)]
        THEN queue' = [queue EXCEPT ![v] = Tail(q)] /\ offset' = [offset EXCEPT ![v] = 0]
        ELSE queue' = queue /\ offset' = [offset EXCEPT ![v] = o + n]
    BY DEF SendTakes
  <2> QED
    BY <2>1, <2>2, <1>10
<1>5. /\ Len(q) \in Nat /\ Len(q) >= 1 /\ q[1] \in Chunks
      /\ Tail(q) \in Seq(Chunks) /\ Len(Tail(q)) = Len(q) - 1
      /\ \A i \in 1 .. Len(q) - 1 : Tail(q)[i] = q[i + 1]
  <2> HIDE DEF q
  <2> QED
    BY <1>0, <1>2
\* The new run continues the last one exactly if the head was begun.
<1>6. /\ r \in Seq(Run)
      /\ Len(r) = IF o > 0 THEN Len(w) ELSE Len(w) + 1
      /\ \A i \in 1 .. Len(r) - 1 : r[i] = w[i]
      /\ r[Len(r)].chunk = q[1] /\ r[Len(r)].last = o + n /\ r[Len(r)].first = 1
      /\ Len(w) \in Nat /\ Len(r) \in 1 .. Len(w) + 1
  <2>1. o + 1 \in Nat \ {0} /\ o + n \in Nat \ {0}
    BY <1>0, <1>2
  <2> DEFINE continues == w # << >> /\ w[Len(w)].chunk = q[1] /\ w[Len(w)].last = o + 1 - 1
  <2>2. /\ r \in Seq(Run)
        /\ Len(r) = IF continues THEN Len(w) ELSE Len(w) + 1
        /\ \A i \in 1 .. Len(r) - 1 : r[i] = w[i]
        /\ r[Len(r)].chunk = q[1] /\ r[Len(r)].last = o + n
        /\ r[Len(r)].first = IF continues THEN w[Len(w)].first ELSE o + 1
    <3> HIDE DEF q, w, o
    <3>1. w \in Seq(Run) /\ q[1] \in Chunks /\ o \in Nat
      BY <1>2, <1>5, Zenon
    <3>2. PICK f \in Nat \ {0}, l \in Nat \ {0} : f = o + 1 /\ l = o + n
      BY <2>1
    <3>3. r = Sent(w, q[1], f, l)
      BY <3>2
    <3>4. continues <=> w # << >> /\ w[Len(w)].chunk = q[1] /\ w[Len(w)].last = f - 1
      <4>1. f - 1 = o + 1 - 1
        BY <3>1, <3>2
      <4> QED
        BY <4>1, Zenon
    <3> HIDE DEF r, continues
    <3>5. /\ r \in Seq(Run)
          /\ Len(r) = IF continues THEN Len(w) ELSE Len(w) + 1
          /\ \A i \in 1 .. Len(r) - 1 : r[i] = w[i]
          /\ r[Len(r)].chunk = q[1] /\ r[Len(r)].last = l
          /\ r[Len(r)].first = IF continues THEN w[Len(w)].first ELSE f
      BY <3>1, <3>3, <3>4, SentShape
    <3> QED
      BY <3>2, <3>5
  <2>3. Len(w) \in Nat /\ (w # << >> => Len(w) \in 1 .. Len(w))
    BY <1>2
  <2>4. w # << >> => w[Len(w)].last >= 1
    <3>1. w # << >> => w[Len(w)] \in Run
      BY <1>2, <2>3
    <3> QED
      BY <3>1 DEF Run
  <2>5. continues <=> o > 0
    <3>1. o > 0 => continues
      BY <1>2 DEF ViewerInv, HeadStarted
    <3>2. continues => o > 0
      BY <1>2, <2>4
    <3> QED
      BY <3>1, <3>2
  <2>6. continues => w[Len(w)].first = 1 /\ Len(w) >= 1
    BY <1>2, <2>3 DEF ViewerInv, Unbroken
  <2> HIDE DEF continues, r, w, q
  <2>7. r[Len(r)].first = 1
    BY <1>2, <2>2, <2>5, <2>6
  <2> QED
    BY <1>2, <2>2, <2>3, <2>5, <2>6, <2>7, SMTT(30)
<1> HIDE DEF r
<1>7. \A i \in 1 .. Len(r) - 1 : /\ i \in 1 .. Len(w) /\ r[i] = w[i]
                                 /\ w[i].chunk \in Int /\ w[i].chunk < q[1]
  <2> TAKE i \in 1 .. Len(r) - 1
  <2>1. i \in 1 .. Len(w) /\ r[i] = w[i] /\ 1 \in 1 .. Len(q)
    <3> HIDE DEF q, w, o
    <3>1. Len(r) \in Nat /\ Len(r) - 1 <= Len(w)
      BY <1>6
    <3> QED
      BY <1>5, <1>6, <3>1
  <2>2. CASE o = 0
    BY <2>1, <2>2, <1>2 DEF ViewerInv, WireSorted
  <2>3. CASE o > 0
    <3>1. w[Len(w)].chunk = q[1]
      BY <1>2, <2>3 DEF ViewerInv, HeadStarted
    <3>2. i < Len(w) /\ Len(w) \in 1 .. Len(w)
      BY <1>6, <2>3
    <3>3. w[i].chunk < w[Len(w)].chunk
      BY <1>2, <2>1, <3>2 DEF ViewerInv, WireSorted
    <3> QED
      BY <1>2, <2>1, <3>1, <3>3
  <2> QED
    BY <1>2, <2>1, <2>2, <2>3
<1>8. ViewerInv(v)'
  <2> DEFINE p == queue'[v]
             e == IF o + n = size THEN 1 ELSE 0
  <2>1. /\ e \in {0, 1} /\ Len(p) = Len(q) - e /\ Len(p) \in Nat
        /\ \A i \in 1 .. Len(p) : p[i] = q[i + e] /\ i + e \in 1 .. Len(q)
    <3>1. (p = Tail(q) /\ e = 1) \/ (p = q /\ e = 0)
      BY <1>4
    <3> HIDE DEF p, q, e
    <3>2. CASE p = Tail(q) /\ e = 1
      BY <1>5, <3>2
    <3>3. CASE p = q /\ e = 0
      BY <1>5, <3>3
    <3> QED
      BY <3>1, <3>2, <3>3
  <2> HIDE DEF e
  <2>2. Untouched(v)'
    BY <1>0, <1>2 DEF ViewerInv, Untouched
  <2>3. HeadStarted(v)'
    <3> SUFFICES ASSUME offset'[v] > 0
                 PROVE  r # << >> /\ r[Len(r)].chunk = p[1] /\ r[Len(r)].last = offset'[v]
      BY <1>3 DEF HeadStarted
    <3>1. p = q /\ offset'[v] = o + n
      BY <1>4
    <3> QED
      BY <1>6, <3>1
  <2>4. QueueSorted(v)'
    <3>1. \A i \in 1 .. Len(p) : p[i] <= frames
      BY <1>2, <2>1 DEF ViewerInv, QueueSorted
    <3>2. \A i, j \in 1 .. Len(p) : i < j => p[i] < p[j]
      <4> TAKE i, j \in 1 .. Len(p)
      <4> HAVE i < j
      <4>1. p[i] = q[i + e] /\ p[j] = q[j + e] /\ i + e < j + e
        <5> HIDE DEF p, q
        <5> QED
          BY <2>1
      <4> QED
        BY <1>2, <2>1, <4>1 DEF ViewerInv, QueueSorted
    <3> QED
      BY <1>0, <3>1, <3>2 DEF QueueSorted
  <2>5. WireSorted(v)'
    <3>1. q[1] <= frames /\ q[1] \in Int /\ frames \in Int
      BY <1>2, <1>5 DEF ViewerInv, QueueSorted, IInv, TypeOK
    <3>2. \A i \in 1 .. Len(r) : r[i].chunk <= q[1] /\ r[i].chunk \in Int
      <4> TAKE i \in 1 .. Len(r)
      <4> HIDE DEF q, w, o
      <4>1. i = Len(r) \/ i \in 1 .. Len(r) - 1
        BY <1>6
      <4> QED
        BY <1>6, <1>7, <3>1, <4>1, SMTT(30)
    <3>3. \A i \in 1 .. Len(r) : r[i].chunk <= frames
      BY <3>1, <3>2
    <3>4. \A i, j \in 1 .. Len(r) : i < j => r[i].chunk < r[j].chunk
      <4> TAKE i, j \in 1 .. Len(r)
      <4> HAVE i < j
      <4>1. i \in 1 .. Len(r) - 1 /\ r[i].chunk < q[1]
        BY <1>6, <1>7
      <4>2. CASE j = Len(r)
        BY <1>6, <4>1, <4>2
      <4>3. CASE j \in 1 .. Len(r) - 1
        BY <1>2, <1>7, <4>1, <4>3 DEF ViewerInv, WireSorted
      <4> QED
        BY <1>6, <4>2, <4>3
    <3>5. ASSUME offset'[v] = 0, NEW i \in 1 .. Len(r), NEW j \in 1 .. Len(p)
          PROVE  r[i].chunk < p[j]
      <4>1. e = 1
        <5> HIDE DEF q, w
        <5> QED
          BY <1>2, <1>4, <3>5 DEF e
      <4>2. p[j] = q[j + 1] /\ j + 1 \in 1 .. Len(q) /\ 1 < j + 1 /\ 1 \in 1 .. Len(q)
        <5> HIDE DEF p, q
        <5> QED
          BY <2>1, <4>1, <1>5
      <4>3. q[1] < q[j + 1] /\ q[j + 1] \in Int
        BY <1>2, <4>2 DEF ViewerInv, QueueSorted
      <4> QED
        <5>1. r[i].chunk <= q[1] /\ r[i].chunk \in Int
          BY <3>2
        <5> HIDE DEF p, q, r
        <5> QED
          BY <3>1, <4>2, <4>3, <5>1
    <3> QED
      BY <1>0, <1>3, <3>3, <3>4, <3>5 DEF WireSorted
  <2>6. OffsetIn(v)'
    <3>1. CASE o + n = size
      BY <3>1, <1>4 DEF OffsetIn
    <3>2. CASE o + n # size
      <4>1. queue'[v] = q /\ offset'[v] = o + n
        BY <3>2, <1>4
      <4>2. o + n < size
        <5>1. n <= size - o /\ o \in Nat /\ size \in Nat
          BY <1>0, <1>2, <1>10
        <5> HIDE DEF size, o
        <5> QED
          BY <3>2, <5>1, <1>0
      <4> QED
        BY <1>0, <4>1, <4>2 DEF OffsetIn
    <3> QED
      BY <3>1, <3>2
  <2>7. Unbroken(v)'
    <3>1. ASSUME NEW i \in 1 .. Len(r)
          PROVE  r[i].first = 1 /\ (r[i].last = ChunkSize[r[i].chunk] \/ (i = Len(r) /\ offset'[v] > 0))
      <4>1. CASE i = Len(r)
        BY <4>1, <1>2, <1>4, <1>6
      <4>2. CASE i \in 1 .. Len(r) - 1
        <5>1. i \in 1 .. Len(w) /\ r[i] = w[i]
          BY <4>2, <1>7
        <5>2. w[i].first = 1 /\ (w[i].last = ChunkSize[w[i].chunk] \/ (i = Len(w) /\ o > 0))
          BY <5>1, <1>2 DEF ViewerInv, Unbroken
        <5> QED
          BY <4>2, <5>1, <5>2, <1>6
      <4> QED
        BY <4>1, <4>2, <1>6
    <3> QED
      BY <1>3, <3>1 DEF Unbroken
  <2>8. Newest(v)'
    <3> SUFFICES ASSUME v \in roster
        PROVE /\ Len(p) <= MaxQueued
              /\ p # << >> /\ frames > joined[v] => p[Len(p)] = frames
              /\ \A i \in 2 .. Len(p) - 1 : p[i] > joined[v] => p[i + 1] = p[i] + 1
      BY <1>0 DEF Newest
    <3>1. /\ Len(q) <= MaxQueued
          /\ frames > joined[v] => q[Len(q)] = frames
          /\ \A i \in 2 .. Len(q) - 1 : q[i] > joined[v] => q[i + 1] = q[i] + 1
      BY <1>0, <1>2 DEF ViewerInv, Newest
    <3>2. p # << >> => p[Len(p)] = q[Len(q)]
      <4>1. ASSUME p # << >> PROVE Len(p) \in 1 .. Len(p) /\ Len(p) + e = Len(q)
        <5>1. p \in Seq(Chunks)
          BY ChunksAreInts DEF IInv, TypeOK
        <5> HIDE DEF p, q
        <5> QED
          BY <4>1, <5>1, <2>1, <1>5
      <4> QED
        BY <4>1, <2>1
    <3>3. ASSUME NEW i \in 2 .. Len(p) - 1, p[i] > joined[v] PROVE p[i + 1] = p[i] + 1
      <4>1. /\ p[i] = q[i + e] /\ p[i + 1] = q[i + 1 + e]
            /\ i + e \in 2 .. Len(q) - 1 /\ i + e + 1 = i + 1 + e
        <5> HIDE DEF p, q
        <5>1. i \in 1 .. Len(p) /\ i + 1 \in 1 .. Len(p)
          BY <2>1
        <5> QED
          BY <1>5, <2>1, <5>1
      <4> QED
        BY <3>1, <3>3, <4>1
    <3> QED
      <4>1. Len(p) <= MaxQueued
        <5> HIDE DEF p, q
        <5> QED
          BY <2>1, <1>5, <3>1, MaxQueuedAssumption
      <4>2. p # << >> /\ frames > joined[v] => p[Len(p)] = frames
        BY <3>1, <3>2
      <4> QED
        BY <4>1, <4>2, <3>3
  <2> QED
    BY <2>2, <2>3, <2>4, <2>5, <2>6, <2>7, <2>8 DEF ViewerInv
<1>9. idr' <= frames'
  BY <1>0 DEF IInv
<1> QED
  BY <1>1, <1>8, <1>9 DEF IInv

LEMMA NextIInv == IInv /\ [Next]_vars => IInv'
<1> SUFFICES ASSUME IInv, [Next]_vars PROVE IInv'
  OBVIOUS
<1>1. TypeOK'
  BY NextTypeOK DEF IInv
\* The steps after which every queue and all that was sent are the same.
<1> DEFINE Quiet ==
      /\ UNCHANGED <<frames, idr, queue, offset, joined, wire>>
      /\ roster' \subseteq roster
      /\ \A v \in Viewers : active'[v] => active[v]
<1>2. Quiet => IInv'
  <2> SUFFICES ASSUME Quiet PROVE IInv'
    OBVIOUS
  <2>1. \A v \in Viewers : ViewerInv(v)'
    BY ViewerUnchanged DEF IInv
  <2> QED
    BY <1>1, <2>1 DEF IInv
<1> USE DEF streamVars, viewerVars, socketVars, senderVars
<1>3. SenderWaits \/ SenderStartsPass \/ SenderEndsPass \/ SenderLoops => Quiet
  BY DEF SenderWaits, SenderStartsPass, SenderEndsPass, SenderLoops
<1>4. ASSUME NEW v \in Viewers,
             SendWouldBlock(v) \/ NothingToSend(v) \/ SenderRemovesDead(v)
               \/ EpollRemovesDead(v) \/ EpollHangUp(v) \/ Reads(v) \/ Disconnects(v)
      PROVE  Quiet
  BY <1>4 DEF SendWouldBlock, NothingToSend, SenderRemovesDead, EpollRemovesDead,
              EpollHangUp, Reads, Disconnects, RemoveViewer
<1>5. ASSUME NEW v \in Viewers, SendFails(v) PROVE Quiet
  BY <1>5 DEF SendFails, IInv, TypeOK
<1>6. UNCHANGED vars => Quiet
  BY DEF vars
<1> HIDE DEF Quiet
<1> QED
  BY <1>1, <1>2, <1>3, <1>4, <1>5, <1>6, RequestIInv, FrameIInv, SendIInv
  DEF Next, SenderThread, Serve

LEMMA Inductive == Spec => []IInv
<1> QED
  BY InitIInv, NextIInv, PTL DEF Spec

-----------------------------------------------------------------------------
(* What follows from it.                                                   *)

\* send is never called with zero bytes: an offset lies within the chunk at the head of
\* its queue, whatever sizes the chunks have that a trim moves up (senderLoop,
\* queueFrameForViewers).
THEOREM OffsetsLieInHead == Spec => []OffsetInHead
<1>1. IInv => OffsetInHead
  <2> SUFFICES ASSUME IInv, NEW v \in Viewers
               PROVE  IF queue[v] = << >> THEN offset[v] = 0
                      ELSE offset[v] < ChunkSize[Head(queue[v])]
    BY DEF OffsetInHead
  <2>1. queue[v] \in Seq(Chunks) /\ offset[v] \in Nat /\ OffsetIn(v)
    BY ChunksAreInts DEF IInv, ViewerInv
  <2>2. ASSUME queue[v] # << >> PROVE offset[v] < ChunkSize[Head(queue[v])]
    <3>1. Head(queue[v]) = queue[v][1] /\ Head(queue[v]) \in Chunks
      BY <2>1, <2>2
    <3>2. ChunkSize[Head(queue[v])] \in Nat \ {0}
      BY <3>1, SizesAssumption
    <3> QED
      BY <2>1, <2>2, <3>1, <3>2 DEF OffsetIn
  <2> QED
    BY <2>1, <2>2 DEF OffsetIn
<1> QED
  BY <1>1, Inductive, PTL

\* Whole chunks back to back: the rest of a chunk of which bytes were sent is
\* never dropped (queueFrameForViewers keeps the head of such a queue).
THEOREM ChunksUnbroken == Spec => []StreamUnbroken
<1>1. IInv => StreamUnbroken
  <2> SUFFICES ASSUME IInv, NEW v \in Viewers, NEW i \in 1 .. Len(wire[v])
               PROVE  /\ wire[v][i].first = 1
                      /\ \/ wire[v][i].last = ChunkSize[wire[v][i].chunk]
                         \/ /\ i = Len(wire[v]) /\ queue[v] # << >>
                            /\ Head(queue[v]) = wire[v][i].chunk
                            /\ offset[v] = wire[v][i].last
    BY DEF StreamUnbroken
  <2>1. ViewerInv(v)
    BY DEF IInv
  <2>2. /\ wire[v][i].first = 1
        /\ wire[v][i].last = ChunkSize[wire[v][i].chunk] \/ (i = Len(wire[v]) /\ offset[v] > 0)
    BY <2>1 DEF ViewerInv, Unbroken
  <2>3. ASSUME i = Len(wire[v]), offset[v] > 0
        PROVE  /\ queue[v] # << >> /\ Head(queue[v]) = wire[v][i].chunk
               /\ offset[v] = wire[v][i].last
    <3>1. queue[v] # << >>
      BY <2>1, <2>3 DEF ViewerInv, OffsetIn
    <3>2. queue[v] \in Seq(Chunks)
      BY ChunksAreInts DEF IInv
    <3>3. Head(queue[v]) = queue[v][1]
      BY <3>1, <3>2
    <3> QED
      BY <2>1, <2>3, <3>1, <3>3 DEF ViewerInv, HeadStarted
  <2> QED
    BY <2>2, <2>3
<1> QED
  BY <1>1, Inductive, PTL

\* Each viewer gets the chunks in the order of the stream and none twice, whatever
\* was dropped in between.
THEOREM StreamMovesForward == Spec => []NeverBackwards
<1>1. IInv => NeverBackwards
  <2> SUFFICES ASSUME IInv, NEW v \in Viewers
               PROVE  /\ \A i, j \in 1 .. Len(wire[v]) :
                           i < j => wire[v][i].chunk < wire[v][j].chunk
                      /\ \A i \in 1 .. Len(wire[v]), j \in 2 .. Len(queue[v]) :
                           wire[v][i].chunk < queue[v][j]
    BY DEF NeverBackwards
  <2>1. /\ ViewerInv(v) /\ queue[v] \in Seq(Chunks) /\ wire[v] \in Seq(Run)
        /\ \A i \in 1 .. Len(queue[v]) : queue[v][i] \in Int
        /\ \A i \in 1 .. Len(wire[v]) : wire[v][i].chunk \in Int
        /\ offset[v] \in Nat
    BY ChunksAreInts DEF IInv
  <2>2. ASSUME NEW i \in 1 .. Len(wire[v]), NEW j \in 2 .. Len(queue[v])
        PROVE  wire[v][i].chunk < queue[v][j]
    <3>1. j \in 1 .. Len(queue[v]) /\ 1 \in 1 .. Len(queue[v]) /\ 1 < j
      BY <2>1
    <3>2. CASE offset[v] = 0
      BY <2>1, <3>1, <3>2 DEF ViewerInv, WireSorted
    <3>3. CASE offset[v] > 0
      <4>1. queue[v][1] < queue[v][j]
        BY <2>1, <3>1 DEF ViewerInv, QueueSorted
      <4>2. wire[v][Len(wire[v])].chunk = queue[v][1]
        BY <2>1, <3>3 DEF ViewerInv, HeadStarted
      <4>3. Len(wire[v]) \in 1 .. Len(wire[v]) /\ (i = Len(wire[v]) \/ i < Len(wire[v]))
        BY <2>1
      <4>4. wire[v][i].chunk <= queue[v][1]
        <5>1. CASE i = Len(wire[v])
          BY <2>1, <3>1, <4>2, <5>1
        <5>2. CASE i < Len(wire[v])
          BY <2>1, <3>1, <4>2, <4>3, <5>2, SMTT(30) DEF ViewerInv, WireSorted
        <5> QED
          BY <4>3, <5>1, <5>2
      <4> QED
        BY <2>1, <3>1, <4>1, <4>4, SMTT(30)
    <3> QED
      BY <2>1, <3>2, <3>3
  <2> QED
    BY <2>1, <2>2 DEF ViewerInv, WireSorted
<1> QED
  BY <1>1, Inductive, PTL

\* The backlog of a viewer is bounded, and it costs no new frames: behind the chunk
\* being sent, the queue is a run of frames that ends with the newest one
\* (queueFrameForViewers).
THEOREM BacklogKeepsNewest == Spec => []KeepsNewest
<1>1. IInv => KeepsNewest
  BY DEF IInv, TypeOK, ViewerInv, Newest, KeepsNewest
<1> QED
  BY <1>1, Inductive, PTL
=============================================================================
