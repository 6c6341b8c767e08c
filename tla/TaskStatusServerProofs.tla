----------------------- MODULE TaskStatusServerProofs -----------------------
(***************************************************************************)
(* Proofs about TaskStatusServer, for any number of clients, parts and     *)
(* results between two updates, receivers that are killed at any step.     *)
(***************************************************************************)
EXTENDS TaskStatusServer, SequenceTheorems, TLAPS

(* Who waits for an answer.                                                *)
Asking == {"connected", "requested"}

(* The thread lives from Start to Join, with the flag until Stop; without  *)
(* it no connection is open.                                               *)
Life ==
    /\ save \in {"off", "end", "finished"} <=> worker = "none"
    /\ worker = "none" => backlog = <<>> /\ \A p \in Peers : client[p] \notin Asking
    /\ worker = "ended" => backlog = <<>> /\ \A p \in Peers : client[p] \notin Asking

(* A client that waits is in the backlog once or is the one being served,  *)
(* and not both: it connects again only when it has its answer.            *)
Served == worker \in {"take", "reply"}
Connections ==
    /\ \A i \in 1 .. Len(backlog) : client[backlog[i]] \in Asking
    /\ \A i, j \in 1 .. Len(backlog) : backlog[i] = backlog[j] => i = j
    /\ Served => client[peer] \in Asking /\ \A i \in 1 .. Len(backlog) : backlog[i] # peer
    /\ \A p \in Peers : client[p] \in Asking =>
          (\E i \in 1 .. Len(backlog) : backlog[i] = p) \/ (Served /\ peer = p)
    /\ ~listening => backlog = <<>>

(* While a client waits, what is published only grows, up to what is done. *)
Published ==
    /\ m_task_bytes <= done
    /\ \A c \in Clients : client[c] \in Asking => since[c] <= m_task_bytes
    /\ worker = "reply" => task_bytes <= m_task_bytes
    /\ worker = "reply" /\ peer \in Clients => since[peer] <= task_bytes

(* The next receiver begins with what is flushed.                          *)
Kept ==
    \A c \in Clients : c \notin outlived =>
        answer[c] <= done /\ (save = "off" => answer[c] <= flushed)

IInv == Life /\ Connections /\ Published /\ Kept /\ FreshAnswer

-----------------------------------------------------------------------------
(* Type correctness.                                                       *)

(* The backlog as a sequence.                                              *)
LEMMA Backlog ==
  ASSUME backlog \in Seq(Peers), NEW p \in Peers
  PROVE  /\ Append(backlog, p) \in Seq(Peers)
         /\ Len(Append(backlog, p)) = Len(backlog) + 1
         /\ \A i \in 1 .. Len(backlog) : Append(backlog, p)[i] = backlog[i]
         /\ Append(backlog, p)[Len(backlog) + 1] = p
         /\ Len(backlog) \in Nat
         /\ \A i \in 1 .. Len(backlog) : backlog[i] \in Peers
BY AppendProperties, ElementOfSeq, LenProperties

LEMMA Accepted ==
  ASSUME backlog \in Seq(Peers), backlog # <<>>
  PROVE  /\ Head(backlog) = backlog[1] /\ Head(backlog) \in Peers
         /\ Tail(backlog) \in Seq(Peers)
         /\ Len(backlog) \in Nat \ {0} /\ Len(Tail(backlog)) = Len(backlog) - 1
         /\ \A i \in 1 .. Len(Tail(backlog)) : Tail(backlog)[i] = backlog[i + 1]
<1>1. Len(backlog) \in Nat \ {0} /\ Head(backlog) = backlog[1]
  BY EmptySeq
<1>. QED
  BY <1>1, HeadTailProperties

LEMMA TypeInit == Init => TypeOK
<1>1. /\ 0 \in 0 .. PartNum /\ 0 \in 0 .. 0 /\ 0 \in 0 .. PublishPeriod - 1
      /\ Self \in Peers /\ NoBytes \in Statuses /\ <<>> \in Seq(Peers)
  BY TaskStatusServerAssumption DEF Peers, Statuses
<1> SUFFICES ASSUME Init
             PROVE  TypeOK
  OBVIOUS
<1>2. /\ protocol \in Protocols /\ save = "off" /\ done \in 0 .. PartNum /\ flushed \in 0 .. done
      /\ frame_num \in 0 .. PublishPeriod - 1 /\ m_running \in BOOLEAN
      /\ m_task_bytes \in Statuses /\ task_bytes \in Statuses
      /\ worker = "none" /\ ~listening /\ listening \in BOOLEAN
  BY <1>1 DEF Init
<1>3. /\ backlog \in Seq(Peers) /\ peer \in Peers
      /\ client \in [Peers -> {"idle", "connected", "requested", "answered"}]
      /\ answer \in [Clients -> Statuses] /\ since \in [Clients -> Statuses]
      /\ outlived \subseteq Clients
  BY <1>1 DEF Init
<1>. QED
  BY <1>2, <1>3 DEF TypeOK

LEMMA AnsweredType ==
  ASSUME TypeOK, NEW P, NEW s \in Statuses, Answered(P, s)
  PROVE  /\ client' \in [Peers -> {"idle", "connected", "requested", "answered"}]
         /\ answer' \in [Clients -> Statuses]
         /\ outlived' \subseteq Clients
BY DEF TypeOK, Answered

LEMMA TypeStep == TypeOK /\ Life /\ [Next]_vars => TypeOK'
<1> SUFFICES ASSUME TypeOK, Life, [Next]_vars
             PROVE  TypeOK'
  OBVIOUS
<1> USE TaskStatusServerAssumption DEF saver, server, clients, Statuses, NoBytes
<1>0. Clients \subseteq Peers /\ Self \in Peers /\ <<>> \in Seq(Peers)
  BY DEF Peers
<1>1. CASE Start
  BY <1>0, <1>1 DEF Start, TypeOK, Life
<1>2. CASE Result
  BY <1>0, <1>2 DEF Result, TypeOK
<1>3. CASE Null \/ SavePartWorker
  <2>1. CASE Null \/ Stop \/ RequestSelfEnds
    BY <2>1 DEF Null, Stop, RequestSelfEnds, TypeOK
  <2>2. CASE Join
    BY <2>2 DEF Join, TypeOK
  <2>3. CASE Finish
    <3>1. flushed' \in 0 .. done' /\ done' = done
      BY <2>3 DEF Finish, TypeOK
    <3>. QED
      BY <2>3, <3>1 DEF Finish, TypeOK
  <2>. QED
    BY <1>3, <2>1, <2>2, <2>3 DEF SavePartWorker
<1>4. CASE Test \/ Open \/ GetTaskBytes
  BY <1>0, <1>4 DEF Test, Open, GetTaskBytes, TypeOK
<1>5. CASE Accept
  BY <1>0, <1>5, Accepted DEF Accept, TypeOK
<1>6. CASE Reply
  BY <1>0, <1>6, AnsweredType DEF Reply, TypeOK
<1>7. CASE Close
  <2>1. /\ client' \in [Peers -> {"idle", "connected", "requested", "answered"}]
        /\ answer' \in [Clients -> Statuses] /\ outlived' \subseteq Clients
    BY <1>7, AnsweredType DEF Close
  <2>2. /\ UNCHANGED <<protocol, save, done, flushed, frame_num, m_running, m_task_bytes, since>>
        /\ worker' \in {"test", "none"} /\ ~listening' /\ listening' \in BOOLEAN
        /\ task_bytes' \in Statuses
    BY <1>7 DEF Close
  <2>3. backlog' \in Seq(Peers) /\ peer' \in Peers
    BY <1>0, <1>7 DEF Close
  <2>. QED
    BY <2>1, <2>2, <2>3 DEF TypeOK
<1>8. ASSUME NEW p \in Peers, Connect(p)
      PROVE  TypeOK'
  <2>1. CASE listening
    <3>1. backlog' \in Seq(Peers)
      BY <1>8, <2>1, Backlog DEF Connect, TypeOK
    <3>2. since' \in [Clients -> Statuses]
      BY <1>8, <2>1 DEF Connect, TypeOK
    <3>. QED
      BY <1>8, <2>1, <3>1, <3>2 DEF Connect, TypeOK
  <2>2. CASE ~listening
    BY <1>0, <1>8, <2>2, AnsweredType DEF Connect, TypeOK
  <2>. QED
    BY <2>1, <2>2
<1>9. ASSUME NEW p \in Peers, SendRequest(p)
      PROVE  TypeOK'
  BY <1>0, <1>9 DEF SendRequest, TypeOK
<1>10. ASSUME NEW c \in Clients, FetchAgain(c)
       PROVE  TypeOK'
  <2>1. c \in Peers
    BY <1>0
  <2>. QED
    BY <2>1, <1>10 DEF FetchAgain, TypeOK
<1>11. CASE Kill
  <2>1. /\ client' \in [Peers -> {"idle", "connected", "requested", "answered"}]
        /\ answer' \in [Clients -> Statuses] /\ outlived' \subseteq Clients
    BY <1>11 DEF Kill, TypeOK
  <2>2. /\ UNCHANGED <<protocol, done, flushed, frame_num, m_task_bytes, since>>
        /\ worker' \in {"test", "none"} /\ ~listening' /\ listening' \in BOOLEAN
        /\ task_bytes' \in Statuses /\ save' = "off" /\ m_running' \in BOOLEAN
    BY <1>11 DEF Kill
  <2>3. backlog' \in Seq(Peers) /\ peer' \in Peers
    BY <1>0, <1>11 DEF Kill
  <2>. QED
    BY <2>1, <2>2, <2>3 DEF TypeOK
<1>12. CASE UNCHANGED vars
  BY <1>12 DEF vars, TypeOK
<1>. QED
  BY <1>1, <1>2, <1>3, <1>4, <1>5, <1>6, <1>7, <1>8, <1>9, <1>10, <1>11, <1>12
  DEF Next, Worker

-----------------------------------------------------------------------------
(* The life of the server's thread.                                        *)

LEMMA LifeStep == TypeOK /\ Life /\ Connections /\ [Next]_vars => Life'
<1> SUFFICES ASSUME TypeOK, Life, Connections, [Next]_vars
             PROVE  Life'
  OBVIOUS
<1> USE DEF saver, server, clients, Life, Asking, NoBytes
<1>0. /\ client \in [Peers -> {"idle", "connected", "requested", "answered"}]
      /\ backlog \in Seq(Peers) /\ peer \in Peers
      /\ Clients \subseteq Peers /\ Self \in Peers
      /\ listening = (worker \in {"accept", "take", "reply", "close"})
  BY DEF TypeOK, Peers
<1>1. CASE Start
  BY <1>0, <1>1 DEF Start
<1>2. CASE Result \/ Null \/ SavePartWorker
  BY <1>0, <1>2 DEF Result, Null, SavePartWorker, Stop, RequestSelfEnds, Join, Finish
<1>3. CASE Test
  <2>1. backlog = <<>> /\ Len(backlog) = 0
    BY <1>0, <1>3, EmptySeq DEF Test, Connections
  <2>2. \A p \in Peers : client[p] \notin Asking
    BY <1>3, <2>1 DEF Test, Connections, Served
  <2>3. worker' \in {"open", "ended"} /\ UNCHANGED <<save, backlog, client>>
    BY <1>3 DEF Test
  <2>. QED
    BY <1>3, <2>1, <2>2, <2>3 DEF Test
<1>4. CASE Open \/ Accept \/ GetTaskBytes
  BY <1>0, <1>4 DEF Open, Accept, GetTaskBytes
<1>5. CASE Reply
  BY <1>0, <1>5 DEF Reply, Answered
<1>6. CASE Close
  BY <1>0, <1>6 DEF Close, Answered
<1>7. ASSUME NEW p \in Peers, Connect(p)
      PROVE  Life'
  BY <1>0, <1>7 DEF Connect, Answered
<1>8. ASSUME NEW p \in Peers, SendRequest(p)
      PROVE  Life'
  BY <1>0, <1>8 DEF SendRequest
<1>9. ASSUME NEW c \in Clients, FetchAgain(c)
      PROVE  Life'
  BY <1>0, <1>9 DEF FetchAgain
<1>10. CASE Kill
  BY <1>0, <1>10 DEF Kill
<1>11. CASE UNCHANGED vars
  BY <1>11 DEF vars
<1>. QED
  BY <1>1, <1>2, <1>3, <1>4, <1>5, <1>6, <1>7, <1>8, <1>9, <1>10, <1>11
  DEF Next, Worker

-----------------------------------------------------------------------------
(* The connections: who joins the backlog was idle.                        *)

LEMMA ConnectionsStep == TypeOK /\ Life /\ Connections /\ [Next]_vars => Connections'
<1> SUFFICES ASSUME TypeOK, Life, Connections, [Next]_vars
             PROVE  Connections'
  OBVIOUS
<1> USE DEF saver, server, clients, Connections, Served, Asking
<1>0. /\ client \in [Peers -> {"idle", "connected", "requested", "answered"}]
      /\ backlog \in Seq(Peers) /\ peer \in Peers
      /\ Len(backlog) \in Nat /\ \A i \in 1 .. Len(backlog) : backlog[i] \in Peers
      /\ Clients \subseteq Peers /\ Self \in Peers
      /\ listening = (worker \in {"accept", "take", "reply", "close"})
  BY Backlog DEF TypeOK, Peers
<1>1. CASE Start
  <2>1. worker = "none" /\ worker' = "test" /\ UNCHANGED <<backlog, peer, listening>>
        /\ client' = [client EXCEPT ![Self] = "idle"]
    BY <1>1 DEF Start, Life
  <2>2. backlog = <<>> /\ Len(backlog) = 0 /\ \A p \in Peers : client'[p] \notin Asking
    BY <1>0, <2>1, EmptySeq DEF Life
  <2>. QED
    BY <2>1, <2>2
<1>2. CASE Result \/ Null \/ SavePartWorker
  BY <1>0, <1>2 DEF Result, Null, SavePartWorker, Stop, RequestSelfEnds, Join, Finish
<1>3. CASE Test \/ Open \/ GetTaskBytes
  BY <1>0, <1>3 DEF Test, Open, GetTaskBytes
<1>4. CASE Accept
  <2>1. /\ peer' = backlog[1] /\ Len(backlog) \in Nat \ {0} /\ Len(backlog') = Len(backlog) - 1
        /\ \A i \in 1 .. Len(backlog') : backlog'[i] = backlog[i + 1]
        /\ worker = "accept" /\ worker' = "take" /\ UNCHANGED <<client, listening>>
    BY <1>0, <1>4, Accepted DEF Accept
  <2>2. ASSUME NEW i \in 1 .. Len(backlog)
        PROVE  i = 1 \/ (i - 1 \in 1 .. Len(backlog') /\ backlog'[i - 1] = backlog[i])
    BY <2>1
  <2>3. \A p \in Peers : client'[p] \in Asking =>
           (\E i \in 1 .. Len(backlog') : backlog'[i] = p) \/ peer' = p
    BY <2>1, <2>2
  <2>4. \A i, j \in 1 .. Len(backlog') : backlog'[i] = backlog'[j] => i = j
    BY <2>1
  <2>5. client'[peer'] \in Asking /\ \A i \in 1 .. Len(backlog') :
           backlog'[i] # peer' /\ client'[backlog'[i]] \in Asking
    BY <2>1
  <2>6. listening'
    BY <1>0, <2>1
  <2>. QED
    BY <2>1, <2>3, <2>4, <2>5, <2>6
<1>5. CASE Reply
  <2>1. /\ worker' = "close" /\ worker = "reply" /\ UNCHANGED <<backlog, peer, listening>>
        /\ client' = [p \in Peers |-> IF p = peer THEN "answered" ELSE client[p]]
    BY <1>5 DEF Reply, Answered
  <2>. QED
    BY <1>0, <2>1
<1>6. CASE Close
  <2>1. /\ worker' = "test" /\ worker = "close" /\ backlog' = <<>> /\ Len(backlog') = 0
        /\ client' = [p \in Peers |-> IF p \in ToSet(backlog) THEN "answered" ELSE client[p]]
    BY <1>6, EmptySeq DEF Close, Answered
  <2>2. \A p \in Peers : client'[p] \notin Asking
    <3>1. DOMAIN backlog = 1 .. Len(backlog)
      BY <1>0, LenProperties
    <3>. QED
      BY <1>0, <2>1, <3>1 DEF ToSet
  <2>. QED
    BY <2>1, <2>2
<1>7. ASSUME NEW p \in Peers, Connect(p)
      PROVE  Connections'
  <2>1. CASE listening
    <3>1. /\ Len(backlog') = Len(backlog) + 1 /\ backlog'[Len(backlog) + 1] = p
          /\ \A i \in 1 .. Len(backlog) : backlog'[i] = backlog[i]
          /\ client[p] = "idle" /\ client' = [client EXCEPT ![p] = "connected"]
          /\ UNCHANGED <<worker, peer, listening>>
      BY <1>0, <1>7, <2>1, Backlog DEF Connect
    <3>2. \A i \in 1 .. Len(backlog') : i \in 1 .. Len(backlog) \/ i = Len(backlog) + 1
      BY <1>0, <3>1
    <3>3. \A i \in 1 .. Len(backlog) : backlog[i] # p
      BY <3>1
    <3>4. \A i \in 1 .. Len(backlog') : client'[backlog'[i]] \in Asking
      BY <1>0, <3>1, <3>2, <3>3
    <3>5. \A i, j \in 1 .. Len(backlog') : backlog'[i] = backlog'[j] => i = j
      BY <1>0, <3>1, <3>2, <3>3
    <3>6. Served => client'[peer] \in Asking /\ \A i \in 1 .. Len(backlog') : backlog'[i] # peer
      BY <1>0, <3>1, <3>2, <3>3
    <3>7. \A q \in Peers : client'[q] \in Asking =>
             (\E i \in 1 .. Len(backlog') : backlog'[i] = q) \/ (Served /\ peer = q)
      <4>1. Len(backlog) + 1 \in 1 .. Len(backlog') /\ 1 .. Len(backlog) \subseteq 1 .. Len(backlog')
        BY <1>0, <3>1
      <4>. QED
        BY <1>0, <3>1, <4>1
    <3>. QED
      BY <2>1, <3>1, <3>4, <3>5, <3>6, <3>7
  <2>2. CASE ~listening
    <3>1. /\ client[p] = "idle" /\ UNCHANGED <<backlog, worker, peer, listening>>
          /\ client' = [q \in Peers |-> IF q = p THEN "answered" ELSE client[q]]
      BY <1>7, <2>2 DEF Connect, Answered
    <3>. QED
      BY <1>0, <3>1
  <2>. QED
    BY <2>1, <2>2
<1>8. ASSUME NEW p \in Peers, SendRequest(p)
      PROVE  Connections'
  BY <1>0, <1>8 DEF SendRequest
<1>9. ASSUME NEW c \in Clients, FetchAgain(c)
      PROVE  Connections'
  BY <1>0, <1>9 DEF FetchAgain
<1>10. CASE Kill
  <2>1. /\ worker' = "none" /\ backlog' = <<>> /\ Len(backlog') = 0
        /\ \A p \in Peers : client'[p] \notin Asking
    BY <1>0, <1>10, EmptySeq DEF Kill
  <2>. QED
    BY <2>1
<1>11. CASE UNCHANGED vars
  BY <1>11 DEF vars
<1>. QED
  BY <1>1, <1>2, <1>3, <1>4, <1>5, <1>6, <1>7, <1>8, <1>9, <1>10, <1>11
  DEF Next, Worker

-----------------------------------------------------------------------------
(* The numbers: what is done, published, connected with and answered.      *)

LEMMA PublishedStep ==
  TypeOK /\ Life /\ Connections /\ Connections' /\ Published /\ [Next]_vars => Published'
<1> SUFFICES ASSUME TypeOK, Life, Connections, Connections', Published, [Next]_vars
             PROVE  Published'
  OBVIOUS
<1> USE TaskStatusServerAssumption DEF saver, server, clients, Published, Asking, NoBytes
<1>0. /\ client \in [Peers -> {"idle", "connected", "requested", "answered"}]
      /\ since \in [Clients -> {-1} \cup 0 .. PartNum]
      /\ m_task_bytes \in {-1} \cup 0 .. PartNum /\ task_bytes \in {-1} \cup 0 .. PartNum
      /\ done \in 0 .. PartNum /\ flushed \in 0 .. done
      /\ Clients \subseteq Peers /\ Self \notin Clients
  BY DEF TypeOK, Peers, Statuses
<1>1. CASE Start
  <2>1. \A c \in Clients : client'[c] \notin Asking
    BY <1>0, <1>1 DEF Start, Life
  <2>. QED
    BY <1>0, <1>1, <2>1 DEF Start
<1>2. CASE Result
  <2>1. /\ m_task_bytes' \in {m_task_bytes, done'} /\ done <= done'
        /\ UNCHANGED <<worker, peer, task_bytes, client, since>>
    BY <1>0, <1>2 DEF Result
  <2>2. m_task_bytes <= m_task_bytes' /\ m_task_bytes' <= done' /\ done' \in Int /\ m_task_bytes' \in Int
    BY <1>0, <1>2, <2>1 DEF Result
  <2>. QED
    BY <1>0, <2>1, <2>2
<1>3. CASE Null \/ SavePartWorker
  BY <1>0, <1>3 DEF Null, SavePartWorker, Stop, RequestSelfEnds, Join, Finish
<1>4. CASE Test \/ Open \/ Accept
  BY <1>0, <1>4 DEF Test, Open, Accept
<1>5. CASE GetTaskBytes
  BY <1>0, <1>5 DEF GetTaskBytes, Connections, Served
<1>6. CASE Reply
  BY <1>0, <1>6 DEF Reply, Answered
<1>7. CASE Close
  BY <1>0, <1>7 DEF Close, Answered
<1>8. ASSUME NEW p \in Peers, Connect(p)
      PROVE  Published'
  <2>1. CASE listening
    <3>1. /\ client' = [client EXCEPT ![p] = "connected"] /\ client[p] = "idle"
          /\ since' = [c \in Clients |-> IF c = p THEN m_task_bytes ELSE since[c]]
          /\ UNCHANGED <<done, m_task_bytes, worker, peer, task_bytes>>
      BY <1>8, <2>1 DEF Connect
    <3>2. worker = "reply" => peer # p
      BY <3>1 DEF Connections, Served
    <3>. QED
      BY <1>0, <3>1, <3>2
  <2>2. CASE ~listening
    BY <1>0, <1>8, <2>2 DEF Connect, Answered
  <2>. QED
    BY <2>1, <2>2
<1>9. ASSUME NEW p \in Peers, SendRequest(p)
      PROVE  Published'
  BY <1>0, <1>9 DEF SendRequest
<1>10. ASSUME NEW c \in Clients, FetchAgain(c)
       PROVE  Published'
  BY <1>0, <1>10 DEF FetchAgain
<1>11. CASE Kill
  <2>1. /\ \A c \in Clients : client'[c] \notin Asking
        /\ worker' = "none" /\ UNCHANGED <<done, m_task_bytes>>
    BY <1>0, <1>11 DEF Kill
  <2>. QED
    BY <2>1
<1>12. CASE UNCHANGED vars
  BY <1>12 DEF vars
<1>. QED
  BY <1>1, <1>2, <1>3, <1>4, <1>5, <1>6, <1>7, <1>8, <1>9, <1>10, <1>11, <1>12
  DEF Next, Worker

LEMMA KeptStep == TypeOK /\ Life /\ Published /\ Kept /\ [Next]_vars => Kept'
<1> SUFFICES ASSUME TypeOK, Life, Published, Kept, [Next]_vars
             PROVE  Kept'
  OBVIOUS
<1> USE TaskStatusServerAssumption DEF saver, server, clients, Kept, NoBytes
<1>0. /\ answer \in [Clients -> {-1} \cup 0 .. PartNum]
      /\ m_task_bytes \in {-1} \cup 0 .. PartNum /\ task_bytes \in {-1} \cup 0 .. PartNum
      /\ done \in 0 .. PartNum /\ flushed \in 0 .. done
  BY DEF TypeOK, Statuses
<1>1. CASE Start
  BY <1>0, <1>1 DEF Start
<1>2. CASE Result
  BY <1>0, <1>2 DEF Result
<1>3. CASE Null \/ SavePartWorker
  BY <1>0, <1>3 DEF Null, SavePartWorker, Stop, RequestSelfEnds, Join, Finish
<1>4. CASE Test \/ Open \/ Accept \/ GetTaskBytes
  BY <1>0, <1>4 DEF Test, Open, Accept, GetTaskBytes
<1>5. CASE Reply
  <2>1. task_bytes <= done
    BY <1>0, <1>5 DEF Reply, Published
  <2>2. save # "off"
    BY <1>5 DEF Reply, Life
  <2>. QED
    BY <1>0, <1>5, <2>1, <2>2 DEF Reply, Answered
<1>6. CASE Close
  BY <1>0, <1>6 DEF Close, Answered
<1>7. ASSUME NEW p \in Peers, Connect(p)
      PROVE  Kept'
  BY <1>0, <1>7 DEF Connect, Answered
<1>8. ASSUME NEW p \in Peers, SendRequest(p)
      PROVE  Kept'
  BY <1>0, <1>8 DEF SendRequest
<1>9. ASSUME NEW c \in Clients, FetchAgain(c)
      PROVE  Kept'
  BY <1>0, <1>9 DEF FetchAgain
<1>10. CASE Kill
  BY <1>10 DEF Kill
<1>11. CASE UNCHANGED vars
  BY <1>11 DEF vars
<1>. QED
  BY <1>1, <1>2, <1>3, <1>4, <1>5, <1>6, <1>7, <1>8, <1>9, <1>10, <1>11
  DEF Next, Worker

LEMMA FreshStep ==
  TypeOK /\ Connections /\ Published /\ FreshAnswer /\ [Next]_vars => FreshAnswer'
<1> SUFFICES ASSUME TypeOK, Connections, Published, FreshAnswer, [Next]_vars
             PROVE  FreshAnswer'
  OBVIOUS
<1> USE DEF saver, server, clients, FreshAnswer, NoBytes
<1>0. /\ client \in [Peers -> {"idle", "connected", "requested", "answered"}]
      /\ answer \in [Clients -> Statuses] /\ since \in [Clients -> Statuses]
      /\ Clients \subseteq Peers
  BY DEF TypeOK, Peers
<1>1. CASE Start
  BY <1>0, <1>1 DEF Start
<1>2. CASE Result \/ Null \/ SavePartWorker
  BY <1>2 DEF Result, Null, SavePartWorker, Stop, RequestSelfEnds, Join, Finish
<1>3. CASE Test \/ Open \/ Accept \/ GetTaskBytes
  BY <1>3 DEF Test, Open, Accept, GetTaskBytes
<1>4. CASE Reply
  BY <1>0, <1>4 DEF Reply, Answered, Published
<1>5. CASE Close
  BY <1>0, <1>5 DEF Close, Answered
<1>6. ASSUME NEW p \in Peers, Connect(p)
      PROVE  FreshAnswer'
  BY <1>0, <1>6 DEF Connect, Answered
<1>7. ASSUME NEW p \in Peers, SendRequest(p)
      PROVE  FreshAnswer'
  BY <1>0, <1>7 DEF SendRequest
<1>8. ASSUME NEW c \in Clients, FetchAgain(c)
      PROVE  FreshAnswer'
  BY <1>0, <1>8 DEF FetchAgain
<1>9. CASE Kill
  BY <1>9 DEF Kill
<1>10. CASE UNCHANGED vars
  BY <1>10 DEF vars
<1>. QED
  BY <1>1, <1>2, <1>3, <1>4, <1>5, <1>6, <1>7, <1>8, <1>9, <1>10
  DEF Next, Worker

-----------------------------------------------------------------------------
LEMMA IInit == Init => IInv
<1> SUFFICES ASSUME Init
             PROVE  IInv
  OBVIOUS
<1>1. backlog = <<>> /\ Len(backlog) = 0 /\ \A p \in Peers : client[p] = "idle"
  BY EmptySeq DEF Init
<1>2. Clients \subseteq Peers
  BY DEF Peers
<1>3. Life /\ Connections
  BY <1>1 DEF Init, Life, Connections, Served, Asking
<1>4. Published /\ Kept /\ FreshAnswer
  BY <1>1, <1>2 DEF Init, Published, Kept, FreshAnswer, Asking, NoBytes
<1>. QED
  BY <1>3, <1>4 DEF IInv

LEMMA IStep == TypeOK /\ IInv /\ [Next]_vars => TypeOK' /\ IInv'
BY TypeStep, LifeStep, ConnectionsStep, PublishedStep, KeptStep, FreshStep DEF IInv

LEMMA Invariance == Spec => [](TypeOK /\ IInv)
BY TypeInit, IInit, IStep, PTL DEF Spec

(* The types of the server and of its clients; an acceptor is open exactly *)
(* while the thread waits for a client or serves it.                       *)
THEOREM TypeCorrect == Spec => []TypeOK
BY Invariance, PTL

(* FreshAnswer: an answer is no older than what was published at the       *)
(* connection, however many clients ask before.                            *)
THEOREM FreshAnswerCorrect == Spec => []FreshAnswer
<1>1. IInv => FreshAnswer
  BY DEF IInv
<1>. QED
  BY <1>1, Invariance, PTL

(* NothingWithheld: no answer claims a part the receiver does not have, but *)
(* for that of a receiver that was killed.                                 *)
THEOREM NothingWithheldCorrect == Spec => []NothingWithheld
<1>1. IInv => NothingWithheld
  BY DEF IInv, Kept, NothingWithheld
<1>. QED
  BY <1>1, Invariance, PTL

(* NoServerLeft: the thread is joined and nobody waits for an answer when  *)
(* SavePartWorker ends.                                                    *)
THEOREM NoServerLeftCorrect == Spec => []NoServerLeft
<1>1. TypeOK /\ IInv => NoServerLeft
  BY DEF TypeOK, IInv, Life, Asking, NoServerLeft
<1>. QED
  BY <1>1, Invariance, PTL
=============================================================================
