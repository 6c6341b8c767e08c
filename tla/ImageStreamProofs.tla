------------------------- MODULE ImageStreamProofs --------------------------
(***************************************************************************)
(* Proofs about ImageStream, for a ring buffer of any size and any number  *)
(* of frames, streams that break, come back and are opened again.          *)
(***************************************************************************)
EXTENDS ImageStream, SequenceTheorems, TLAPS

(* The places of the ring: of two numbers below BufferSize the sum wraps   *)
(* once at most.                                                           *)
LEMMA Wrap ==
  ASSUME NEW a \in 0 .. 2 * BufferSize - 1
  PROVE  a % BufferSize = IF a < BufferSize THEN a ELSE a - BufferSize
<1>1. CASE a < BufferSize
  BY <1>1, ImageStreamAssumption
<1>2. CASE a \in BufferSize .. 2 * BufferSize - 1
  BY <1>2, ImageStreamAssumption
<1>. QED
  BY <1>1, <1>2, ImageStreamAssumption

LEMMA NextPlace ==
  ASSUME NEW p \in Index
  PROVE  /\ IncPtr(p) \in Index
         /\ IncPtr(p) = IF p = BufferSize - 1 THEN 0 ELSE p + 1
BY Wrap, ImageStreamAssumption DEF Index, IncPtr

-----------------------------------------------------------------------------
(* Type correctness.                                                       *)

LEMMA TypeInit == Init => TypeOK
<1>1. 0 \in Index /\ 0 \in 0 .. BufferSize /\ 0 \in 0 .. FrameBound
  BY ImageStreamAssumption DEF Index
<1>2. [i \in Index |-> NoFrame] \in [Index -> Frames \cup {NoFrame}]
  OBVIOUS
<1>. QED
  BY <1>1, <1>2 DEF Init, TypeOK, EmptyRing

LEMMA ReceivedType ==
  ASSUME NEW f, sent \in 0 .. FrameBound, Received(f)
  PROVE  sent' \in 0 .. FrameBound /\ f \in Frames \cup {NoFrame}
BY ImageStreamAssumption DEF Received, Frames, NoFrame

LEMMA TypeStep == TypeOK /\ [Next]_vars => TypeOK'
<1> SUFFICES ASSUME TypeOK, [Next]_vars
             PROVE  TypeOK'
  OBVIOUS
<1> USE ImageStreamAssumption DEF TypeOK, remote, stream, ring, reader
<1>1. CASE LinkDown \/ LinkUp \/ Stop
  BY <1>1 DEF LinkDown, LinkUp, Stop
<1>2. CASE Test
  BY <1>2 DEF Test
<1>3. CASE FetchData
  BY <1>3, ReceivedType DEF FetchData, NoFrame
<1>4. CASE Store
  <2>1. IncPtr(m_wptr) \in Index /\ IncPtr(m_rptr) \in Index
    BY NextPlace
  <2>2. m_size' \in 0 .. BufferSize
    BY <1>4 DEF Store
  <2>. QED
    BY <1>4, <2>1, <2>2 DEF Store
<1>5. CASE Create
  <2>1. 0 \in Index /\ 0 \in 0 .. BufferSize
    BY DEF Index
  <2>2. m_ring_buffer' \in [Index -> Frames \cup {NoFrame}]
    BY <1>5 DEF Create
  <2>3. m_size' \in 0 .. BufferSize /\ m_wptr' \in Index /\ m_rptr' \in Index
    BY <1>5, <2>1 DEF Create
  <2>. QED
    BY <1>5, <2>2, <2>3 DEF Create, StartWorker
<1>6. CASE CameraGetFrame
  BY <1>6, ReceivedType DEF CameraGetFrame, NoFrame
<1>7. CASE TestRunning \/ Wait
  BY <1>7 DEF TestRunning, Wait
<1>8. CASE GetFrame
  BY <1>8, NextPlace DEF GetFrame, NoFrame
<1>9. CASE Check
  BY <1>9 DEF Check
<1>10. CASE DestroyDerived \/ DestroyBase \/ Join
  BY <1>10 DEF DestroyDerived, DestroyBase, Join
<1>11. CASE UNCHANGED vars
  BY <1>11 DEF vars
<1>. QED
  BY <1>1, <1>2, <1>3, <1>4, <1>5, <1>6, <1>7, <1>8, <1>9, <1>10, <1>11
  DEF Next, Worker, FetchImageWorker, Environment

(* TypeOK holds, and the pointers stay in the ring.                        *)
THEOREM TypeCorrect == Spec => []TypeOK
BY TypeInit, TypeStep, PTL DEF Spec

-----------------------------------------------------------------------------
(* Whose turn it is: from its creation until the base class is destroyed a *)
(* stream has a worker as long as its flag is set, and until the derived   *)
(* part is destroyed that worker is alive.  A sleeper has nothing to read. *)
Places ==
    /\ fetcher \in {"create", "ended"} => worker \in {"none", "crashed"}
    /\ fetcher \in {"test", "get", "asleep", "check", "closing"} =>
          derived /\ worker \in IF m_running THEN {"test", "fetch", "store"} ELSE {"none"}
    /\ fetcher = "closed" =>
          worker \in IF m_running THEN {"test", "fetch", "store", "crashed"} ELSE {"none"}
    /\ fetcher = "asleep" => m_running /\ m_size = 0
    /\ kind = "camera" => worker = "none"

LEMMA PlacesInit == Init => Places
BY DEF Init, Places

LEMMA PlacesStep == TypeOK /\ Places /\ [Next]_vars => Places'
<1> SUFFICES ASSUME TypeOK, Places, [Next]_vars
             PROVE  Places'
  OBVIOUS
<1> USE DEF Places, remote, stream, ring, reader
<1>1. CASE LinkDown \/ LinkUp \/ Stop
  BY <1>1 DEF LinkDown, LinkUp, Stop
<1>2. CASE worker # "crashed" /\ Test
  BY <1>2 DEF Test, TypeOK
<1>3. CASE FetchData
  BY <1>3 DEF FetchData, TypeOK
<1>4. CASE Store
  BY <1>4 DEF Store, TypeOK
<1>5. CASE Create
  BY <1>5 DEF Create, StartWorker
<1>6. CASE CameraGetFrame \/ TestRunning \/ Wait \/ Check
  BY <1>6 DEF CameraGetFrame, TestRunning, Wait, Check
<1>7. CASE GetFrame
  BY <1>7 DEF GetFrame
<1>8. CASE DestroyDerived \/ DestroyBase \/ Join
  BY <1>8 DEF DestroyDerived, DestroyBase, Join
<1>9. CASE UNCHANGED vars
  BY <1>9 DEF vars
<1>. QED
  BY <1>1, <1>2, <1>3, <1>4, <1>5, <1>6, <1>7, <1>8, <1>9
  DEF Next, Worker, FetchImageWorker, Environment

LEMMA PlacesInvariant == Spec => [](TypeOK /\ Places)
BY TypeInit, TypeStep, PlacesInit, PlacesStep, PTL DEF Spec

(* NoLostWakeup: the reader sleeps only on a stream with nothing to read,  *)
(* whose worker will call notify_one.                                      *)
THEOREM NoLostWakeupCorrect == Spec => []NoLostWakeup
<1>1. Places => NoLostWakeup
  BY DEF Places, NoLostWakeup
<1>. QED
  BY <1>1, PlacesInvariant, PTL

(* NoWorkerLeft: the thread of a stream is joined before the next stream   *)
(* is made and before fetch ends.                                          *)
THEOREM NoWorkerLeftCorrect == Spec => []NoWorkerLeft
<1>1. Places => NoWorkerLeft
  BY DEF Places, NoWorkerLeft
<1>. QED
  BY <1>1, PlacesInvariant, PTL

-----------------------------------------------------------------------------
(* The refinement of LossyBuffer.  View is Unread as a function of the     *)
(* ring, the place of the oldest frame and the number of frames.           *)
Images == Frames \cup {NoFrame}
View(buffer, r, n) == [i \in 1 .. n |-> buffer[(r + i - 1) % BufferSize]]

LEMMA ViewType ==
  ASSUME NEW buffer \in [Index -> Images], NEW r \in Index, NEW n \in 0 .. BufferSize
  PROVE  /\ View(buffer, r, n) \in Seq(Images)
         /\ Len(View(buffer, r, n)) = n
         /\ \A i \in 1 .. n :
               View(buffer, r, n)[i] = buffer[IF r + i - 1 < BufferSize THEN r + i - 1
                                              ELSE r + i - 1 - BufferSize]
<1>1. \A i \in 1 .. n : /\ (r + i - 1) % BufferSize \in Index
                        /\ (r + i - 1) % BufferSize =
                              IF r + i - 1 < BufferSize THEN r + i - 1 ELSE r + i - 1 - BufferSize
  <2> TAKE i \in 1 .. n
  <2> DEFINE a == r + i - 1
  <2>1. a \in 0 .. 2 * BufferSize - 1
    BY ImageStreamAssumption DEF Index
  <2> HIDE DEF a
  <2>2. a % BufferSize = IF a < BufferSize THEN a ELSE a - BufferSize
    BY <2>1, Wrap
  <2>3. a % BufferSize \in Index
    BY <2>1, <2>2, ImageStreamAssumption DEF Index
  <2>. QED
    BY <2>2, <2>3, ImageStreamAssumption DEF a, Index
<1>2. n \in Nat /\ View(buffer, r, n) \in [1 .. n -> Images]
  BY <1>1, ImageStreamAssumption DEF View
<1>3. View(buffer, r, n) \in Seq(Images) /\ Len(View(buffer, r, n)) = n
  BY <1>2
<1>. QED
  BY <1>1, <1>3 DEF View

(* A frame is put where there is room.                                     *)
LEMMA ViewPut ==
  ASSUME NEW buffer \in [Index -> Images], NEW r \in Index,
         NEW n \in 0 .. BufferSize - 1, NEW f \in Images
  PROVE  View([buffer EXCEPT ![(r + n) % BufferSize] = f], r, n + 1) =
            Append(View(buffer, r, n), f)
<1> DEFINE w == (r + n) % BufferSize
           new == [buffer EXCEPT ![w] = f]
           before == View(buffer, r, n)
           after == View(new, r, n + 1)
<1>1. w = IF r + n < BufferSize THEN r + n ELSE r + n - BufferSize
  <2> DEFINE a == r + n
  <2>1. a \in 0 .. 2 * BufferSize - 1
    BY ImageStreamAssumption DEF Index
  <2> HIDE DEF a
  <2>2. a % BufferSize = IF a < BufferSize THEN a ELSE a - BufferSize
    BY <2>1, Wrap
  <2>. QED
    BY <2>2, ImageStreamAssumption DEF a, Index
<1>2. w \in Index
  BY <1>1, ImageStreamAssumption DEF Index
<1>3. new \in [Index -> Images] /\ n \in 0 .. BufferSize /\ n + 1 \in 0 .. BufferSize
  BY <1>2, ImageStreamAssumption
<1>4. \A p \in Index : new[p] = IF p = w THEN f ELSE buffer[p]
  OBVIOUS
<1> HIDE DEF w, new
<1>5. /\ before \in Seq(Images) /\ Len(before) = n
      /\ after \in Seq(Images) /\ Len(after) = n + 1
  BY <1>3, ViewType
<1>6. \A i \in 1 .. n : after[i] = before[i]
  <2> TAKE i \in 1 .. n
  <2> DEFINE p == IF r + i - 1 < BufferSize THEN r + i - 1 ELSE r + i - 1 - BufferSize
  <2>1. p \in Index /\ p # w
    BY <1>1, ImageStreamAssumption DEF Index
  <2>2. before[i] = buffer[p]
    BY <1>3, ViewType
  <2>3. i \in 1 .. n + 1
    BY ImageStreamAssumption
  <2>4. after[i] = new[p]
    BY <1>3, <2>3, ViewType
  <2>. QED
    BY <1>4, <2>1, <2>2, <2>4
<1>7. after[n + 1] = f
  <2> DEFINE i == n + 1
             p == IF r + i - 1 < BufferSize THEN r + i - 1 ELSE r + i - 1 - BufferSize
  <2>1. i \in 1 .. n + 1 /\ p = w
    BY <1>1, ImageStreamAssumption DEF Index
  <2>2. after[i] = new[p]
    BY <1>3, <2>1, ViewType
  <2>. QED
    BY <1>2, <1>4, <2>1, <2>2
<1>8. /\ Append(before, f) \in Seq(Images) /\ Len(Append(before, f)) = n + 1
      /\ \A i \in 1 .. n : Append(before, f)[i] = before[i]
      /\ Append(before, f)[n + 1] = f
  BY <1>5
<1>9. \A i \in 1 .. n + 1 : after[i] = Append(before, f)[i]
  <2> TAKE i \in 1 .. n + 1
  <2>1. i \in 1 .. n \/ i = n + 1
    OBVIOUS
  <2>. QED
    BY <2>1, <1>6, <1>7, <1>8
<1> HIDE DEF before, after
<1>. QED
  BY <1>5, <1>8, <1>9, SeqEqual DEF before, after, new, w

(* A frame is taken, whatever becomes of its place.                        *)
LEMMA ViewGet ==
  ASSUME NEW buffer \in [Index -> Images], NEW new \in [Index -> Images], NEW r \in Index,
         NEW n \in 1 .. BufferSize, \A p \in Index \ {r} : new[p] = buffer[p]
  PROVE  /\ View(buffer, r, n) # <<>>
         /\ Head(View(buffer, r, n)) = buffer[r]
         /\ View(new, IncPtr(r), n - 1) = Tail(View(buffer, r, n))
<1> DEFINE q == IncPtr(r)
           m == n - 1
           before == View(buffer, r, n)
           after == View(new, q, m)
<1>1. q \in Index /\ q = IF r = BufferSize - 1 THEN 0 ELSE r + 1
  BY NextPlace
<1>2. m \in 0 .. BufferSize /\ n \in 0 .. BufferSize
  BY ImageStreamAssumption
<1> HIDE DEF q
<1>3. /\ before \in Seq(Images) /\ Len(before) = n
      /\ after \in Seq(Images) /\ Len(after) = m
  BY <1>1, <1>2, ViewType
<1>4. before[1] = buffer[r]
  <2> DEFINE p == IF r + 1 - 1 < BufferSize THEN r + 1 - 1 ELSE r + 1 - 1 - BufferSize
  <2>1. p = r /\ 1 \in 1 .. n
    BY ImageStreamAssumption DEF Index
  <2>2. before[1] = buffer[p]
    BY <1>2, <2>1, ViewType
  <2>. QED
    BY <2>1, <2>2
<1>5. \A i \in 1 .. m : after[i] = before[i + 1]
  <2> TAKE i \in 1 .. m
  <2> DEFINE j == i + 1
             p == IF q + i - 1 < BufferSize THEN q + i - 1 ELSE q + i - 1 - BufferSize
             o == IF r + j - 1 < BufferSize THEN r + j - 1 ELSE r + j - 1 - BufferSize
  <2>1. p \in Index /\ p # r /\ p = o
    BY <1>1, ImageStreamAssumption DEF Index
  <2>2. after[i] = new[p]
    BY <1>1, <1>2, ViewType
  <2>3. j \in 1 .. n
    BY ImageStreamAssumption
  <2> HIDE DEF j
  <2>4. before[j] = buffer[o]
    BY <1>2, <2>3, ViewType
  <2>. QED
    BY <2>1, <2>2, <2>4 DEF j
<1>6. before # <<>>
  BY <1>3, EmptySeq
<1>7. /\ Tail(before) \in Seq(Images) /\ Len(Tail(before)) = m
      /\ \A i \in 1 .. m : Tail(before)[i] = before[i + 1]
      /\ Head(before) = before[1]
  BY <1>3, <1>6, HeadTailProperties
<1> HIDE DEF before, after
<1>8. after = Tail(before)
  BY <1>3, <1>5, <1>7, SeqEqual
<1>. QED
  BY <1>4, <1>6, <1>7, <1>8 DEF before, after, q, m

(* The oldest frame is replaced.                                           *)
LEMMA ViewReplace ==
  ASSUME NEW buffer \in [Index -> Images], NEW r \in Index, NEW f \in Images
  PROVE  View([buffer EXCEPT ![r] = f], IncPtr(r), BufferSize) =
            Append(Tail(View(buffer, r, BufferSize)), f)
<1> DEFINE q == IncPtr(r)
           n == BufferSize - 1
<1>1. q \in Index /\ q = IF r = BufferSize - 1 THEN 0 ELSE r + 1
  BY NextPlace
<1>2. View(buffer, q, n) = Tail(View(buffer, r, BufferSize))
  BY ViewGet, ImageStreamAssumption
<1>3. (q + n) % BufferSize = r
  <2> DEFINE a == q + n
  <2>1. a \in 0 .. 2 * BufferSize - 1
    BY <1>1, ImageStreamAssumption DEF Index
  <2>2. r = IF a < BufferSize THEN a ELSE a - BufferSize
    BY <1>1, ImageStreamAssumption DEF Index
  <2> HIDE DEF a
  <2>3. a % BufferSize = r
    BY <2>1, <2>2, Wrap
  <2>. QED
    BY <2>3 DEF a
<1>4. n \in 0 .. BufferSize - 1 /\ n + 1 = BufferSize
  BY ImageStreamAssumption
<1> HIDE DEF q, n
<1>5. View([buffer EXCEPT ![(q + n) % BufferSize] = f], q, n + 1) = Append(View(buffer, q, n), f)
  BY <1>1, <1>4, ViewPut
<1>. QED
  BY <1>2, <1>3, <1>4, <1>5 DEF q

(* What the pointers say: the writer's place comes after the last frame,   *)
(* and a camera leaves the ring empty.                                     *)
Pointers ==
    /\ m_wptr = (m_rptr + m_size) % BufferSize
    /\ kind = "camera" => m_size = 0

LEMMA WrapSum ==
  ASSUME NEW r \in Index, NEW n \in 0 .. BufferSize
  PROVE  (r + n) % BufferSize = IF r + n < BufferSize THEN r + n ELSE r + n - BufferSize
<1> DEFINE a == r + n
<1>1. a \in 0 .. 2 * BufferSize - 1
  BY ImageStreamAssumption DEF Index
<1> HIDE DEF a
<1>2. a % BufferSize = IF a < BufferSize THEN a ELSE a - BufferSize
  BY <1>1, Wrap
<1>. QED
  BY <1>2, ImageStreamAssumption DEF a, Index

LEMMA PointersInit == Init => Pointers
<1>1. 0 \in Index /\ 0 \in 0 .. BufferSize
  BY ImageStreamAssumption DEF Index
<1>2. (0 + 0) % BufferSize = 0
  BY ImageStreamAssumption
<1>. QED
  BY <1>2 DEF Init, EmptyRing, Pointers

LEMMA PointersStep == TypeOK /\ Places /\ Pointers /\ [Next]_vars => Pointers'
<1> SUFFICES ASSUME TypeOK, Places, Pointers, [Next]_vars
             PROVE  Pointers'
  OBVIOUS
<1> USE DEF Pointers, remote, stream, ring, reader
<1>1. CASE Store
  <2>1. m_rptr \in Index /\ m_wptr \in Index /\ m_size \in 0 .. BufferSize
    BY DEF TypeOK
  <2>2. m_wptr = IF m_rptr + m_size < BufferSize THEN m_rptr + m_size
                 ELSE m_rptr + m_size - BufferSize
    BY <2>1, WrapSum
  <2>3. m_wptr' = IF m_wptr = BufferSize - 1 THEN 0 ELSE m_wptr + 1
    BY <1>1, <2>1, NextPlace DEF Store
  <2>4. m_rptr' \in Index /\ m_size' \in 0 .. BufferSize
    BY <1>1, TypeStep DEF TypeOK
  <2>5. (m_rptr' + m_size') % BufferSize =
          IF m_rptr' + m_size' < BufferSize THEN m_rptr' + m_size'
          ELSE m_rptr' + m_size' - BufferSize
    BY <2>4, WrapSum
  <2>6. CASE m_size = BufferSize
    <3>1. m_size' = BufferSize /\ m_rptr' = IF m_rptr = BufferSize - 1 THEN 0 ELSE m_rptr + 1
      BY <1>1, <2>1, <2>6, NextPlace DEF Store
    <3>. QED
      BY <1>1, <2>1, <2>2, <2>3, <2>5, <2>6, <3>1, ImageStreamAssumption
      DEF Store, Index, Places
  <2>7. CASE m_size # BufferSize
    <3>1. m_size' = m_size + 1 /\ m_rptr' = m_rptr
      BY <1>1, <2>7 DEF Store
    <3>. QED
      BY <1>1, <2>1, <2>2, <2>3, <2>5, <2>7, <3>1, ImageStreamAssumption
      DEF Store, Index, Places
  <2>. QED
    BY <2>6, <2>7
<1>2. CASE GetFrame
  <2>1. CASE m_size > 0
    <3>1. m_rptr \in Index /\ m_size \in 1 .. BufferSize
      BY <2>1 DEF TypeOK
    <3>2. /\ m_size' = m_size - 1 /\ m_wptr' = m_wptr /\ kind' = kind
          /\ m_rptr' = IF m_rptr = BufferSize - 1 THEN 0 ELSE m_rptr + 1
      BY <1>2, <2>1, <3>1, NextPlace DEF GetFrame
    <3>3. m_rptr' \in Index /\ m_size' \in 0 .. BufferSize
      BY <3>1, <3>2, ImageStreamAssumption DEF Index
    <3>4. /\ (m_rptr + m_size) % BufferSize =
               IF m_rptr + m_size < BufferSize THEN m_rptr + m_size
               ELSE m_rptr + m_size - BufferSize
          /\ (m_rptr' + m_size') % BufferSize =
               IF m_rptr' + m_size' < BufferSize THEN m_rptr' + m_size'
               ELSE m_rptr' + m_size' - BufferSize
      BY <3>1, <3>3, WrapSum
    <3>. QED
      BY <1>2, <3>1, <3>2, <3>4, ImageStreamAssumption DEF GetFrame, Index
  <2>2. CASE ~(m_size > 0)
    BY <1>2, <2>2 DEF GetFrame
  <2>. QED
    BY <2>1, <2>2
<1>3. CASE Create
  <2>1. (0 + 0) % BufferSize = 0
    BY ImageStreamAssumption
  <2>. QED
    BY <1>3, <2>1 DEF Create
<1>4. CASE LinkDown \/ LinkUp \/ Stop
  BY <1>4 DEF LinkDown, LinkUp, Stop
<1>5. CASE Test \/ FetchData
  BY <1>5 DEF Test, FetchData
<1>6. CASE CameraGetFrame \/ TestRunning \/ Wait \/ Check \/ DestroyDerived \/ DestroyBase \/ Join
  BY <1>6 DEF CameraGetFrame, TestRunning, Wait, Check, DestroyDerived, DestroyBase, Join
<1>7. CASE UNCHANGED vars
  BY <1>7 DEF vars
<1>. QED
  BY <1>1, <1>2, <1>3, <1>4, <1>5, <1>6, <1>7
  DEF Next, Worker, FetchImageWorker, Environment

LEMMA PointersInvariant == Spec => [](TypeOK /\ Places /\ Pointers)
BY TypeInit, TypeStep, PlacesInit, PlacesStep, PointersInit, PointersStep, PTL DEF Spec

-----------------------------------------------------------------------------
(* Every step does to Unread and frame what LossyBuffer allows.            *)
LEMMA StorePuts ==
  ASSUME TypeOK, Pointers, Store
  PROVE  /\ Unread' = Append(IF m_size = BufferSize THEN Tail(Unread) ELSE Unread, hand)
         /\ UNCHANGED frame
<1>1. /\ m_ring_buffer \in [Index -> Images] /\ m_rptr \in Index /\ m_wptr \in Index
      /\ m_size \in 0 .. BufferSize /\ hand \in Images
  BY DEF TypeOK, Images
<1>2. /\ Unread = View(m_ring_buffer, m_rptr, m_size)
      /\ Unread' = View(m_ring_buffer', m_rptr', m_size')
  BY DEF Unread, View
<1>3. m_wptr = (m_rptr + m_size) % BufferSize
  BY DEF Pointers
<1>4. m_ring_buffer' = [m_ring_buffer EXCEPT ![m_wptr] = hand] /\ UNCHANGED frame
  BY DEF Store
<1>5. CASE m_size = BufferSize
  <2>1. m_rptr' = IncPtr(m_rptr) /\ m_size' = BufferSize
    BY <1>5 DEF Store
  <2>2. m_wptr = m_rptr
    <3>1. m_wptr = IF m_rptr + m_size < BufferSize THEN m_rptr + m_size
                   ELSE m_rptr + m_size - BufferSize
      BY <1>1, <1>3, WrapSum
    <3>. QED
      BY <1>1, <1>5, <3>1, ImageStreamAssumption DEF Index
  <2>3. View([m_ring_buffer EXCEPT ![m_rptr] = hand], IncPtr(m_rptr), BufferSize) =
          Append(Tail(View(m_ring_buffer, m_rptr, BufferSize)), hand)
    BY <1>1, ViewReplace
  <2>. QED
    BY <1>2, <1>4, <1>5, <2>1, <2>2, <2>3
<1>6. CASE m_size # BufferSize
  <2>1. m_rptr' = m_rptr /\ m_size' = m_size + 1 /\ m_size \in 0 .. BufferSize - 1
    BY <1>1, <1>6, ImageStreamAssumption DEF Store
  <2>2. View([m_ring_buffer EXCEPT ![(m_rptr + m_size) % BufferSize] = hand], m_rptr, m_size + 1) =
          Append(View(m_ring_buffer, m_rptr, m_size), hand)
    BY <1>1, <2>1, ViewPut
  <2>. QED
    BY <1>2, <1>3, <1>4, <1>6, <2>1, <2>2
<1>. QED
  BY <1>5, <1>6

LEMMA GetFrameGets ==
  ASSUME TypeOK, GetFrame, m_size > 0
  PROVE  Unread # <<>> /\ frame' = Head(Unread) /\ Unread' = Tail(Unread)
<1>1. /\ m_ring_buffer \in [Index -> Images] /\ m_rptr \in Index
      /\ m_size \in 1 .. BufferSize
  BY DEF TypeOK, Images
<1>2. /\ Unread = View(m_ring_buffer, m_rptr, m_size)
      /\ Unread' = View(m_ring_buffer', m_rptr', m_size')
  BY DEF Unread, View
<1>3. /\ m_ring_buffer' = [m_ring_buffer EXCEPT ![m_rptr] = NoFrame]
      /\ m_rptr' = IncPtr(m_rptr) /\ m_size' = m_size - 1
      /\ frame' = m_ring_buffer[m_rptr]
  BY DEF GetFrame
<1>4. /\ m_ring_buffer' \in [Index -> Images]
      /\ \A p \in Index \ {m_rptr} : m_ring_buffer'[p] = m_ring_buffer[p]
  BY <1>1, <1>3 DEF Images
<1>5. /\ View(m_ring_buffer, m_rptr, m_size) # <<>>
      /\ Head(View(m_ring_buffer, m_rptr, m_size)) = m_ring_buffer[m_rptr]
      /\ View(m_ring_buffer', IncPtr(m_rptr), m_size - 1) = Tail(View(m_ring_buffer, m_rptr, m_size))
  BY <1>1, <1>4, ViewGet
<1>. QED
  BY <1>2, <1>3, <1>5

LEMMA EmptyUnread == m_size = 0 => Unread = <<>>
BY DEF Unread

LEMMA RefineInit == Init => Buffer!Init
BY EmptyUnread DEF Init, EmptyRing, Buffer!Init

LEMMA RefineStep ==
  TypeOK /\ TypeOK' /\ Places /\ Pointers /\ [Next]_vars => [Buffer!Next]_<<Unread, frame>>
<1> SUFFICES ASSUME TypeOK, TypeOK', Places, Pointers, [Next]_vars
             PROVE  [Buffer!Next]_<<Unread, frame>>
  OBVIOUS
<1> USE DEF remote, stream, ring, reader
<1>1. CASE Store
  <2>1. Len(Unread) = m_size
    <3>1. Unread = View(m_ring_buffer, m_rptr, m_size)
      BY DEF Unread, View
    <3>. QED
      BY <3>1, ViewType DEF TypeOK, Images
  <2>2. hand \in Frames \cup {NoFrame}
    BY DEF TypeOK
  <2>. QED
    BY <1>1, <2>1, <2>2, StorePuts DEF Buffer!Next, Buffer!Put, Buffer!Room
<1>2. CASE GetFrame
  <2>1. CASE m_size > 0
    BY <1>2, <2>1, GetFrameGets DEF Buffer!Next, Buffer!Get
  <2>2. CASE ~(m_size > 0)
    <3>1. m_size = 0 /\ m_size' = 0
      BY <1>2, <2>2 DEF GetFrame, TypeOK
    <3>2. Unread = <<>> /\ Unread' = <<>>
      BY <3>1 DEF Unread
    <3>. QED
      BY <3>2 DEF Buffer!Next, Buffer!Direct, TypeOK
  <2>. QED
    BY <2>1, <2>2
<1>3. CASE Create
  <2>1. CASE running
    <3>1. m_size' = 0 /\ UNCHANGED frame
      BY <1>3, <2>1 DEF Create
    <3>. QED
      BY <3>1 DEF Unread, Buffer!Next, Buffer!Reopen
  <2>2. CASE ~running
    BY <1>3, <2>2 DEF Create, Unread
  <2>. QED
    BY <2>1, <2>2
<1>4. CASE CameraGetFrame
  <2>1. m_size = 0 /\ m_size' = 0
    BY <1>4 DEF CameraGetFrame, Pointers
  <2>2. Unread = <<>> /\ Unread' = <<>>
    BY <2>1 DEF Unread
  <2>. QED
    BY <2>2 DEF Buffer!Next, Buffer!Direct, TypeOK
<1>5. CASE LinkDown \/ LinkUp \/ Stop
  BY <1>5 DEF LinkDown, LinkUp, Stop, Unread
<1>6. CASE Test \/ FetchData
  BY <1>6 DEF Test, FetchData, Unread
<1>7. CASE TestRunning \/ Wait \/ Check \/ DestroyDerived \/ DestroyBase \/ Join
  BY <1>7 DEF TestRunning, Wait, Check, DestroyDerived, DestroyBase, Join, Unread
<1>8. CASE UNCHANGED vars
  BY <1>8 DEF vars, Unread
<1>. QED
  BY <1>1, <1>2, <1>3, <1>4, <1>5, <1>6, <1>7, <1>8
  DEF Next, Worker, FetchImageWorker, Environment

(* AbstractSpec: however reads, writes and drops interleave, and whatever  *)
(* its size, the ring buffer is a FIFO that loses only its oldest frames.  *)
THEOREM Refinement == Spec => AbstractSpec
BY RefineInit, RefineStep, PointersInvariant, PTL DEF Spec, AbstractSpec, Buffer!Spec

-----------------------------------------------------------------------------
(* The order of the frames: from what is in frame_q over what the reader   *)
(* holds, the ring and what the worker holds to what was sent the numbers  *)
(* of the frames grow; empty frames are anywhere in between.               *)
Low == IF fetcher = "check" /\ frame # NoFrame THEN frame ELSE emplaced
Increasing(s) ==
    /\ \A i \in 1 .. Len(s) : s[i] # NoFrame => Low < s[i] /\ s[i] <= sent
    /\ \A i, j \in 1 .. Len(s) :
          i < j /\ s[i] # NoFrame /\ s[j] # NoFrame => s[i] < s[j]
    /\ worker = "store" /\ hand # NoFrame =>
          \A i \in 1 .. Len(s) : s[i] # NoFrame => s[i] < hand
Ordered ==
    /\ emplaced <= Low /\ Low <= sent
    /\ fetcher = "check" /\ frame # NoFrame => emplaced < frame
    /\ worker = "store" /\ hand # NoFrame => Low < hand /\ hand <= sent
    /\ Increasing(Unread)

LEMMA UnreadType ==
  ASSUME TypeOK
  PROVE  Unread \in Seq(Images) /\ Len(Unread) = m_size
<1>1. Unread = View(m_ring_buffer, m_rptr, m_size)
  BY DEF Unread, View
<1>. QED
  BY <1>1, ViewType DEF TypeOK, Images

LEMMA OrderedInit == Init => Ordered
<1> SUFFICES ASSUME Init
             PROVE  Ordered
  OBVIOUS
<1>1. Unread = <<>>
  BY EmptyUnread DEF Init, EmptyRing
<1>. QED
  BY <1>1 DEF Init, Ordered, Increasing, Low, NoFrame

LEMMA OrderedStep ==
  TypeOK /\ TypeOK' /\ Places /\ Pointers /\ Ordered /\ [Next]_vars => Ordered'
<1> SUFFICES ASSUME TypeOK, TypeOK', Places, Pointers, Ordered, [Next]_vars
             PROVE  Ordered'
  OBVIOUS
<1> USE DEF remote, stream, ring, reader
<1>0. /\ Unread \in Seq(Images) /\ Len(Unread) = m_size
      /\ \A i \in 1 .. Len(Unread) : Unread[i] \in Nat
      /\ emplaced \in Nat /\ frame \in Nat /\ hand \in Nat /\ sent \in Nat
      /\ frame' \in Nat /\ hand' \in Nat /\ sent' \in Nat /\ Low \in Nat
  BY UnreadType, ImageStreamAssumption DEF TypeOK, Images, Frames, NoFrame, Low
<1>1. CASE Store
  <2> DEFINE R == IF m_size = BufferSize THEN Tail(Unread) ELSE Unread
             n == Len(R)
  <2>1. Unread' = Append(R, hand) /\ UNCHANGED frame
    BY <1>1, StorePuts
  <2>2. /\ R \in Seq(Images) /\ n \in Nat
        /\ \A i \in 1 .. n : R[i] \in Nat
        /\ Increasing(R)
    <3>1. CASE m_size = BufferSize
      <4>1. Unread # <<>>
        BY <1>0, <3>1, ImageStreamAssumption, EmptySeq
      <4>2. /\ R \in Seq(Images) /\ n = m_size - 1 /\ n \in Nat
            /\ \A i \in 1 .. n : R[i] = Unread[i + 1] /\ i + 1 \in 1 .. Len(Unread)
        BY <1>0, <3>1, <4>1, HeadTailProperties, ImageStreamAssumption
      <4> HIDE DEF R
      <4>3. \A i \in 1 .. Len(R) : R[i] = Unread[i + 1] /\ i + 1 \in 1 .. Len(Unread)
        BY <4>2
      <4>. QED
        BY <1>0, <4>2, <4>3 DEF Ordered, Increasing
    <3>2. CASE m_size # BufferSize
      BY <1>0, <3>2 DEF Ordered, TypeOK
    <3>. QED
      BY <3>1, <3>2
  <2> HIDE DEF R
  <2>3. /\ Len(Unread') = n + 1
        /\ \A i \in 1 .. n : Unread'[i] = R[i]
        /\ Unread'[n + 1] = hand
    BY <2>1, <2>2, <1>0, AppendProperties DEF TypeOK, Images
  <2>4. Low' = Low /\ UNCHANGED <<sent, hand, emplaced>> /\ worker = "store" /\ worker' = "test"
    BY <1>1, <2>1 DEF Store, Low
  <2>5. \A i \in 1 .. n + 1 : i \in 1 .. n \/ i = n + 1
    BY <2>2
  <2>6. \A i \in 1 .. n + 1 : Unread'[i] # NoFrame => Low < Unread'[i] /\ Unread'[i] <= sent
    BY <2>2, <2>3, <2>4, <2>5 DEF Ordered, Increasing
  <2>7. \A i, j \in 1 .. n + 1 :
           i < j /\ Unread'[i] # NoFrame /\ Unread'[j] # NoFrame => Unread'[i] < Unread'[j]
    BY <2>2, <2>3, <2>4, <2>5 DEF Increasing
  <2>8. Increasing(Unread)'
    BY <2>3, <2>4, <2>6, <2>7 DEF Increasing
  <2>9. (fetcher' = "check") = (fetcher = "check")
    BY <1>1 DEF Store
  <2>. QED
    BY <2>1, <2>4, <2>8, <2>9 DEF Ordered
<1>2. CASE GetFrame /\ m_size > 0
  <2>1. Unread # <<>> /\ frame' = Head(Unread) /\ Unread' = Tail(Unread)
    BY <1>2, GetFrameGets
  <2>2. /\ Head(Unread) = Unread[1] /\ Len(Unread') = Len(Unread) - 1 /\ 1 \in 1 .. Len(Unread)
        /\ \A i \in 1 .. Len(Unread') : Unread'[i] = Unread[i + 1] /\ i + 1 \in 1 .. Len(Unread)
    BY <1>0, <1>2, <2>1, HeadTailProperties DEF TypeOK
  <2>3. /\ fetcher = "get" /\ fetcher' = "check" /\ UNCHANGED <<sent, hand, worker, emplaced>>
        /\ Low = emplaced /\ Low' = IF frame' # NoFrame THEN frame' ELSE emplaced
    BY <1>2 DEF GetFrame, Low
  <2>4. /\ emplaced <= Low' /\ Low' <= sent
        /\ frame' # NoFrame => emplaced < frame'
        /\ worker = "store" /\ hand # NoFrame => Low' < hand /\ hand <= sent
    BY <1>0, <2>1, <2>2, <2>3 DEF Ordered, Increasing
  <2>5. \A i \in 1 .. Len(Unread') : Unread'[i] # NoFrame => Low' < Unread'[i] /\ Unread'[i] <= sent
    BY <1>0, <2>1, <2>2, <2>3 DEF Ordered, Increasing
  <2>6. \A i, j \in 1 .. Len(Unread') :
           i < j /\ Unread'[i] # NoFrame /\ Unread'[j] # NoFrame => Unread'[i] < Unread'[j]
    BY <1>0, <2>2 DEF Ordered, Increasing
  <2>7. worker = "store" /\ hand # NoFrame =>
           \A i \in 1 .. Len(Unread') : Unread'[i] # NoFrame => Unread'[i] < hand
    BY <2>2 DEF Ordered, Increasing
  <2>8. Increasing(Unread)'
    BY <2>3, <2>5, <2>6, <2>7 DEF Increasing
  <2>. QED
    BY <2>3, <2>4, <2>8 DEF Ordered
<1>3. CASE GetFrame /\ ~(m_size > 0)
  <2>1. /\ m_size = 0 /\ m_size' = 0 /\ frame' = NoFrame /\ fetcher = "get" /\ fetcher' = "check"
        /\ UNCHANGED <<sent, hand, worker, emplaced>>
    BY <1>3 DEF GetFrame, TypeOK
  <2>2. Unread = <<>> /\ Unread' = <<>>
    BY <2>1 DEF Unread
  <2>. QED
    BY <2>1, <2>2 DEF Ordered, Increasing, Low
<1>4. CASE Create
  <2>1. CASE running
    <3>1. /\ m_size' = 0 /\ fetcher = "create" /\ fetcher' = "test" /\ worker' # "store"
          /\ UNCHANGED <<frame, sent, hand, emplaced>>
      BY <1>4, <2>1 DEF Create, StartWorker
    <3>2. Unread' = <<>>
      BY <3>1 DEF Unread
    <3>. QED
      BY <3>1, <3>2 DEF Ordered, Increasing, Low
  <2>2. CASE ~running
    <3>1. /\ Unread' = Unread /\ fetcher = "create" /\ fetcher' = "ended"
          /\ UNCHANGED <<frame, sent, hand, worker, emplaced>>
      BY <1>4, <2>2 DEF Create, Unread
    <3>. QED
      BY <3>1 DEF Ordered, Increasing, Low
  <2>. QED
    BY <2>1, <2>2
<1>5. CASE CameraGetFrame
  <2>1. /\ m_size = 0 /\ m_size' = 0 /\ worker = "none" /\ worker' = "none"
        /\ fetcher = "get" /\ fetcher' = "check" /\ UNCHANGED emplaced
    BY <1>5 DEF CameraGetFrame, Pointers, Places, stream, ring
  <2>3. (frame' = NoFrame /\ sent' = sent) \/ (frame' = sent + 1 /\ sent' = sent + 1)
    BY <1>5 DEF CameraGetFrame, Received
  <2>2. Unread = <<>> /\ Unread' = <<>>
    BY <2>1 DEF Unread
  <2>. QED
    BY <1>0, <2>1, <2>2, <2>3 DEF Ordered, Increasing, Low
<1>6. CASE FetchData
  <2>1. /\ Unread' = Unread /\ Low' = Low /\ UNCHANGED <<fetcher, frame, emplaced>>
        /\ \/ worker' = "store" /\ hand' = NoFrame /\ sent' = sent
           \/ worker' = "store" /\ hand' = sent + 1 /\ sent' = sent + 1
           \/ worker' = "crashed" /\ sent' = sent
    BY <1>6 DEF FetchData, Received, Unread, Low
  <2>. QED
    BY <1>0, <2>1 DEF Ordered, Increasing
<1>7. CASE Test
  <2>1. /\ Unread' = Unread /\ Low' = Low /\ worker' # "store"
        /\ UNCHANGED <<fetcher, frame, emplaced, hand, sent>>
    BY <1>7 DEF Test, Unread, Low
  <2>. QED
    BY <2>1 DEF Ordered, Increasing
<1>8. CASE Check
  <2>1. /\ Unread' = Unread /\ Low' = Low /\ emplaced' = Low /\ fetcher' # "check"
        /\ UNCHANGED <<worker, frame, hand, sent>>
    BY <1>8 DEF Check, Unread, Low
  <2>. QED
    BY <1>0, <2>1 DEF Ordered, Increasing
<1>9. CASE LinkDown \/ LinkUp \/ Stop
  <2>1. /\ Unread' = Unread /\ Low' = Low
        /\ UNCHANGED <<fetcher, worker, frame, hand, sent, emplaced>>
    BY <1>9 DEF LinkDown, LinkUp, Stop, Unread, Low
  <2>. QED
    BY <2>1 DEF Ordered, Increasing
<1>10. CASE TestRunning \/ Wait \/ DestroyDerived \/ DestroyBase \/ Join
  <2>1. /\ Unread' = Unread /\ Low' = Low /\ fetcher # "check" /\ fetcher' # "check"
        /\ worker' = worker \/ worker' # "store"
        /\ UNCHANGED <<frame, hand, sent, emplaced>>
    BY <1>10 DEF TestRunning, Wait, DestroyDerived, DestroyBase, Join, Unread, Low
  <2>. QED
    BY <2>1 DEF Ordered, Increasing
<1>11. CASE UNCHANGED vars
  <2>1. /\ Unread' = Unread /\ Low' = Low
        /\ UNCHANGED <<fetcher, worker, frame, hand, sent, emplaced>>
    BY <1>11 DEF vars, Unread, Low
  <2>. QED
    BY <2>1 DEF Ordered, Increasing
<1>. QED
  BY <1>1, <1>2, <1>3, <1>4, <1>5, <1>6, <1>7, <1>8, <1>9, <1>10, <1>11
  DEF Next, Worker, FetchImageWorker, Environment

(* FramesInOrder: what goes into frame_q was sent after all that went in   *)
(* before it, over all the streams that were opened.                       *)
THEOREM FramesInOrderCorrect == Spec => FramesInOrder
<1>1. TypeOK /\ Ordered /\ [Next]_vars => [emplaced' # emplaced => emplaced' > emplaced]_vars
  <2> SUFFICES ASSUME TypeOK, Ordered, [Next]_vars, emplaced' # emplaced
               PROVE  emplaced' > emplaced
    OBVIOUS
  <2>1. Check
    BY DEF Next, Worker, FetchImageWorker, Environment, Test, FetchData, Store, Create,
           TestRunning, CameraGetFrame, Wait, GetFrame, DestroyDerived, DestroyBase, Join,
           LinkDown, LinkUp, Stop, vars, reader
  <2>2. emplaced \in Nat /\ frame \in Nat
    BY ImageStreamAssumption DEF TypeOK, Frames, NoFrame
  <2>. QED
    BY <2>1, <2>2 DEF Check, Ordered
<1>. QED
  BY <1>1, TypeInit, TypeStep, PlacesInit, PlacesStep, PointersInit, PointersStep,
     OrderedInit, OrderedStep, PTL DEF Spec, FramesInOrder
=============================================================================
