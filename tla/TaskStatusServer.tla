-------------------------- MODULE TaskStatusServer --------------------------
(***************************************************************************)
(* The receiver publishes its task to the sender: SavePartWorker           *)
(* (image_decode_worker.cpp) updates the bytes of a status server, which   *)
(* has a thread that accepts one connection at a time and closes its       *)
(* acceptor after each (image_decode_task_status_server.cpp), and clients  *)
(* ask for them (image_decode_task_status_client.cpp).  Stop wakes the     *)
(* thread with a request of its own.  A task is abstracted to the number   *)
(* of its done parts; the file it is saved to is DecodeTask's business.    *)
(***************************************************************************)
EXTENDS Integers, Sequences, SequencesExt

CONSTANTS
    Protocols,     \* the server types that are tried
    Clients,       \* the clients of the sender
    PartNum,       \* the number of parts
    PublishPeriod  \* results between two updates of the status (256)

Self == "self"  \* the receiver as a client of itself, in RequestSelf
Peers == Clients \cup {Self}
NoBytes == -1   \* empty Bytes: nothing published yet, or an exception

ASSUME TaskStatusServerAssumption ==
    /\ Protocols \subseteq {"tcp", "http"}
    /\ Self \notin Clients
    /\ PartNum \in Nat \ {0} /\ PublishPeriod \in Nat \ {0}

VARIABLES
    protocol,   \* tcp or http, on both sides
    save,       \* where SavePartWorker is
    done,       \* done parts of the task in memory
    flushed,    \* ... and in the task file
    frame_num,  \* results since the last update
    m_running, m_task_bytes,
    worker,     \* where the server's thread is
    listening,  \* its acceptor exists
    backlog,    \* connections it has not accepted
    peer,       \* the one it has
    task_bytes, \* what it answers
    client,     \* client[p]: where p's request is
    answer,     \* answer[p]: what p got
    since,      \* since[p]: what was published when p connected
    outlived    \* the clients whose answer is of a receiver that was killed

saver == <<save, done, flushed, frame_num>>
server == <<m_running, m_task_bytes, worker, listening, backlog, peer, task_bytes>>
clients == <<client, answer, since, outlived>>
vars == <<protocol, saver, server, clients>>

Statuses == {NoBytes} \cup 0 .. PartNum

TypeOK ==
    /\ protocol \in Protocols
    /\ save \in {"off", "work", "stop", "request", "join", "end", "finished"}
    /\ done \in 0 .. PartNum /\ flushed \in 0 .. done
    /\ frame_num \in 0 .. PublishPeriod - 1
    /\ m_running \in BOOLEAN
    /\ m_task_bytes \in Statuses /\ task_bytes \in Statuses
    /\ worker \in {"none", "test", "open", "accept", "take", "reply", "close", "ended"}
    /\ listening = (worker \in {"accept", "take", "reply", "close"})
    /\ backlog \in Seq(Peers) /\ peer \in Peers
    /\ client \in [Peers -> {"idle", "connected", "requested", "answered"}]
    /\ answer \in [Clients -> Statuses] /\ since \in [Clients -> Statuses]
    /\ outlived \subseteq Clients

Init ==
    /\ protocol \in Protocols
    /\ save = "off" /\ done = 0 /\ flushed = 0 /\ frame_num = 0
    /\ m_running = FALSE /\ m_task_bytes = NoBytes /\ worker = "none"
    /\ listening = FALSE /\ backlog = <<>> /\ peer = Self /\ task_bytes = NoBytes
    /\ client = [p \in Peers |-> "idle"]
    /\ answer = [c \in Clients |-> NoBytes] /\ since = [c \in Clients |-> NoBytes]
    /\ outlived = {}

(* The requests of the peers in P end, with status s.                      *)
Answered(P, s) ==
    /\ client' = [p \in Peers |-> IF p \in P THEN "answered" ELSE client[p]]
    /\ answer' = [c \in Clients |-> IF c \in P THEN s ELSE answer[c]]
    /\ outlived' = outlived \ P

-----------------------------------------------------------------------------
(* SavePartWorker.                                                         *)

(* A new receiver answers with what the one before it published.           *)
MutStartKeepsStatus ==
    /\ save = "off"
    /\ save' = "work" /\ frame_num' = 0
    /\ done' = flushed
    /\ m_running' = TRUE /\ worker' = "test"
    /\ client' = [client EXCEPT ![Self] = "idle"]
    /\ UNCHANGED <<protocol, flushed, m_task_bytes, listening, backlog, peer, task_bytes, answer, since, outlived>>

(* The task is loaded or initialized; a new server starts.                 *)
Start ==
    /\ save = "off"
    /\ save' = "work" /\ frame_num' = 0
    /\ done' = flushed
    /\ m_running' = TRUE /\ m_task_bytes' = NoBytes /\ worker' = "test"
    /\ client' = [client EXCEPT ![Self] = "idle"]
    /\ UNCHANGED <<protocol, flushed, listening, backlog, peer, task_bytes, answer, since, outlived>>

(* A result of the decoders: a part may be new, UpdatePart may flush; the  *)
(* status is updated every PublishPeriod results, whatever is flushed; a   *)
(* complete task is finalized, and saved for good.                         *)
Result ==
    /\ save = "work"
    /\ done' \in {done, done + 1} /\ done' <= PartNum
    /\ flushed' \in {flushed, done'} /\ (done' = PartNum => flushed' = PartNum)
    /\ frame_num' = (frame_num + 1) % PublishPeriod
    /\ m_task_bytes' = IF frame_num' = 0 THEN done' ELSE m_task_bytes
    /\ save' = IF done' = PartNum THEN "stop" ELSE "work"
    /\ UNCHANGED <<protocol, m_running, worker, listening, backlog, peer, task_bytes, clients>>

(* The null that ends the receiver.                                        *)
Null == save = "work" /\ save' = "stop" /\ UNCHANGED <<protocol, done, flushed, frame_num, server, clients>>

(* The server is told to stop but never sees it.                           *)
MutStopKeepsRunning ==
    /\ save = "stop"
    /\ save' = "request"
    /\ UNCHANGED <<protocol, done, flushed, frame_num, server, clients>>

(* TaskStatusServer::Stop: the flag, RequestSelf, the join.                *)
Stop ==
    /\ save = "stop"
    /\ m_running' = FALSE /\ save' = "request"
    /\ UNCHANGED <<protocol, done, flushed, frame_num, m_task_bytes, worker, listening, backlog, peer, task_bytes, clients>>

(* The receiver does not wait for the server's thread.                     *)
MutRequestSelfSkipsJoin ==
    /\ save = "request" /\ client[Self] = "answered"
    /\ save' = "end"
    /\ UNCHANGED <<protocol, done, flushed, frame_num, server, clients>>

RequestSelfEnds ==
    /\ save = "request" /\ client[Self] = "answered"
    /\ save' = "join"
    /\ UNCHANGED <<protocol, done, flushed, frame_num, server, clients>>

Join ==
    /\ save = "join" /\ worker = "ended"
    /\ worker' = "none" /\ save' = "end"
    /\ UNCHANGED <<protocol, done, flushed, frame_num, m_running, m_task_bytes, listening, backlog, peer, task_bytes, clients>>

(* What is not flushed is flushed; an incomplete task is resumed by the    *)
(* next receiver.                                                          *)
Finish ==
    /\ save = "end"
    /\ flushed' = done
    /\ save' = IF done = PartNum THEN "finished" ELSE "off"
    /\ UNCHANGED <<protocol, done, frame_num, server, clients>>

SavePartWorker == Stop \/ RequestSelfEnds \/ Join \/ Finish

-----------------------------------------------------------------------------
(* The server's thread: Worker and HandleRequest.                          *)

(* while (m_running).                                                      *)
Test ==
    /\ worker = "test"
    /\ worker' = IF m_running THEN "open" ELSE "ended"
    /\ UNCHANGED <<protocol, saver, m_running, m_task_bytes, listening, backlog, peer, task_bytes, clients>>

(* The acceptor is made, or the port is taken: an exception, and the loop  *)
(* starts again.                                                           *)
Open ==
    /\ worker = "open"
    /\ worker' \in {"accept", "test"}
    /\ listening' = (worker' = "accept")
    /\ UNCHANGED <<protocol, saver, m_running, m_task_bytes, backlog, peer, task_bytes, clients>>

Accept ==
    /\ worker = "accept" /\ backlog # <<>>
    /\ peer' = Head(backlog) /\ backlog' = Tail(backlog)
    /\ worker' = "take"
    /\ UNCHANGED <<protocol, saver, m_running, m_task_bytes, listening, task_bytes, clients>>

(* What is in the task file is sent, not what was published.               *)
MutGetTaskBytesOfFile ==
    /\ worker = "take"
    /\ task_bytes' = IF m_task_bytes = NoBytes THEN NoBytes ELSE flushed
    /\ worker' = "reply"
    /\ UNCHANGED <<protocol, saver, m_running, m_task_bytes, listening, backlog, peer, clients>>

GetTaskBytes ==
    /\ worker = "take"
    /\ task_bytes' = m_task_bytes
    /\ worker' = "reply"
    /\ UNCHANGED <<protocol, saver, m_running, m_task_bytes, listening, backlog, peer, clients>>

(* The HTTP server reads the request first, however long it takes.         *)
Reply ==
    /\ worker = "reply"
    /\ protocol = "http" => client[peer] = "requested"
    /\ Answered({peer}, task_bytes)
    /\ worker' = "close"
    /\ UNCHANGED <<protocol, saver, m_running, m_task_bytes, listening, backlog, peer, task_bytes, since>>

(* The acceptor is kept for the next turn.                                 *)
MutCloseKeepsAcceptor ==
    /\ worker = "close"
    /\ peer' = Self /\ task_bytes' = NoBytes
    /\ worker' = "test"
    /\ UNCHANGED <<protocol, saver, m_running, m_task_bytes, listening, backlog, clients>>

(* The acceptor is destroyed; who is still in its backlog is refused.      *)
Close ==
    /\ worker = "close"
    /\ Answered(ToSet(backlog), NoBytes)
    /\ listening' = FALSE /\ backlog' = <<>> /\ peer' = Self /\ task_bytes' = NoBytes
    /\ worker' = "test"
    /\ UNCHANGED <<protocol, saver, m_running, m_task_bytes, since>>

Worker == Test \/ Open \/ Accept \/ GetTaskBytes \/ Reply \/ Close

-----------------------------------------------------------------------------
(* GetTaskStatus of a client, and RequestSelf: connect, or fail.           *)
Connect(p) ==
    /\ client[p] = "idle" /\ (p = Self => save = "request")
    /\ IF listening
       THEN /\ backlog' = Append(backlog, p)
            /\ client' = [client EXCEPT ![p] = "connected"]
            /\ since' = [c \in Clients |-> IF c = p THEN m_task_bytes ELSE since[c]]
            /\ UNCHANGED <<answer, outlived>>
       ELSE Answered({p}, NoBytes) /\ UNCHANGED <<backlog, since>>
    /\ UNCHANGED <<protocol, saver, m_running, m_task_bytes, worker, listening, peer, task_bytes>>

(* The request of the HTTP client is written.                              *)
SendRequest(p) ==
    /\ protocol = "http" /\ client[p] = "connected"
    /\ client' = [client EXCEPT ![p] = "requested"]
    /\ UNCHANGED <<protocol, saver, server, answer, since, outlived>>

(* The sender asks again.                                                  *)
FetchAgain(c) ==
    /\ client[c] = "answered"
    /\ client' = [client EXCEPT ![c] = "idle"]
    /\ UNCHANGED <<protocol, saver, server, answer, since, outlived>>

(* The receiver is killed: its connections break, the task file is left.   *)
Kill ==
    /\ save \notin {"off", "finished"}
    /\ save' = "off" /\ m_running' = FALSE /\ worker' = "none" /\ listening' = FALSE
    /\ backlog' = <<>> /\ peer' = Self /\ task_bytes' = NoBytes
    /\ LET broken == {p \in Peers : client[p] \in {"connected", "requested"}} IN
       /\ client' = [p \in Peers |-> IF p \in broken THEN "answered" ELSE client[p]]
       /\ answer' = [c \in Clients |-> IF c \in broken THEN NoBytes ELSE answer[c]]
    /\ outlived' = Clients
    /\ UNCHANGED <<protocol, done, flushed, frame_num, m_task_bytes, since>>

-----------------------------------------------------------------------------
Next ==
    \/ Start \/ Result \/ Null \/ SavePartWorker
    \/ Worker
    \/ \E p \in Peers : Connect(p) \/ SendRequest(p)
    \/ \E c \in Clients : FetchAgain(c)
    \/ Kill

Spec == Init /\ [][Next]_vars

(* The threads are scheduled, and who has connected sends its request.     *)
FairSpec ==
    /\ Spec
    /\ WF_vars(SavePartWorker) /\ WF_vars(Worker)
    /\ WF_vars(Connect(Self)) /\ \A p \in Peers : WF_vars(SendRequest(p))

(* ... and the sender goes on asking.                                      *)
PolledSpec == FairSpec /\ \A c \in Clients : WF_vars(Connect(c)) /\ WF_vars(FetchAgain(c))

-----------------------------------------------------------------------------
(* A client gets nothing, or a status no older than what was published     *)
(* when it connected: whatever is updated between the connection, the      *)
(* accept and the reply, and however many ask before it.                   *)
FreshAnswer ==
    \A c \in Clients :
        client[c] = "answered" /\ answer[c] # NoBytes /\ c \notin outlived =>
            since[c] <= answer[c]

(* The sender leaves out only parts that the receiver has.  Parts that are *)
(* published and not flushed can be lost: the answer of a receiver that    *)
(* was killed may claim more than the next one finds in the task file.     *)
NothingWithheld ==
    \A c \in Clients : c \notin outlived => answer[c] <= done

(* No server thread is left when SavePartWorker ends, and no connection    *)
(* without someone to answer it.                                           *)
NoServerLeft ==
    save \in {"off", "end", "finished"} =>
        worker = "none" /\ \A p \in Peers : client[p] \in {"idle", "answered"}

(* Stop returns.  Between two acceptors there is none to connect to: a     *)
(* server whose thread read the flag before Stop cleared it, and made its  *)
(* acceptor after RequestSelf was refused, waits for one more client.      *)
StopEnds == save = "stop" ~> save \in {"end", "off"}
=============================================================================
