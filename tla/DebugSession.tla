---------------------------- MODULE DebugSession ----------------------------
(***************************************************************************)
(* The GDB remote-serial session of the debug emulator:                   *)
(*   - the stub's main thread (Emulator_debug::run, async_run and the      *)
(*     receive/send/close operations of Network_handler),                  *)
(*   - the worker thread that async_run starts with std::async             *)
(*     (run_until_trap / run_steps),                                       *)
(*   - a GDB client on the other end of a TCP connection.                  *)
(* TCP delivers bytes reliably and in order, so each direction of a        *)
(* connection is a FIFO of packets.  The stub's Packet_decoder is a member *)
(* of Network_handler: packets it has decoded but not popped survive a     *)
(* close and are handed out on the next connection (variable dq).          *)
(* Packet bodies are abstracted to the command letter; the ghost field n   *)
(* of a command or response is the connection the command arrived on.     *)
(***************************************************************************)
EXTENDS Naturals, Sequences

CONSTANTS
    UserCmds,        \* commands the user may type: subset of Commands
    MaxConnections   \* bound on the number of TCP connections GDB opens

\* 'c' continue, 's' step, '?' halt reason, 'g' read registers
Commands   == {"c", "s", "?", "g"}
ResumeCmds == {"c", "s"}
\* handlers that read or write the emulated CPU from the main thread
CpuCmds    == {"c", "s", "g"}

ASSUME UserCmds \subseteq Commands /\ MaxConnections \in Nat \ {0}

Ack      == [t |-> "ack"]
Intr     == [t |-> "intr"]
Cmd(c, n)  == [t |-> "cmd", c |-> c, n |-> n]
Resp(c, n) == [t |-> "resp", c |-> c, n |-> n]
Tokens == {Ack, Intr} \cup {Cmd(c, n) : c \in Commands, n \in 1..MaxConnections}
                      \cup {Resp(c, n) : c \in Commands, n \in 1..MaxConnections}

VARIABLES
    c2s, s2c,   \* bytes in flight on the current connection, GDB->stub, stub->GDB
    dq,         \* Packet_decoder::out_queue: decoded, not yet popped packets
    link,       \* "down", "up", "clientClosed" (GDB closed), "stubClosed"
    conn,       \* number of the current (or last) connection
    sock,       \* Network_handler::socket is non-null
    stub,       \* program location of the main thread
    stop,       \* the command whose stop reply async_run is sending
    worker,     \* "idle", "running", "done" (future ready, not yet joined)
    runKind,    \* "c" (run_until_trap) or "s" (run_steps) of the worker
    runConn,    \* connection the resume command came from
    interrupt,  \* the std::atomic<bool> shared with the worker
    gdb,        \* GDB client state: "off", "idle", "waitAck", "waitReply"
    gcmd,       \* the last command GDB sent
    intrSent    \* GDB has sent ^C for the current resume command

stubVars   == <<stub, stop, sock, dq>>
workerVars == <<worker, runKind, runConn, interrupt>>
gdbVars    == <<gdb, gcmd, intrSent>>
netVars    == <<c2s, s2c, link, conn>>
vars == <<stubVars, workerVars, gdbVars, netVars>>

Locations == {"recv", "poll", "pollRecv", "join", "sendStop", "waitAck", "exited"}

TypeOK ==
    /\ c2s \in Seq(Tokens) /\ s2c \in Seq(Tokens) /\ dq \in Seq(Tokens)
    /\ link \in {"down", "up", "clientClosed", "stubClosed"}
    /\ conn \in 0..MaxConnections
    /\ sock \in BOOLEAN
    /\ stub \in Locations
    /\ stop \in {"none"} \cup ResumeCmds
    /\ worker \in {"idle", "running", "done"}
    /\ runKind \in ResumeCmds /\ runConn \in 0..MaxConnections
    /\ interrupt \in BOOLEAN
    /\ gdb \in {"off", "idle", "waitAck", "waitReply"}
    /\ gcmd \in Commands /\ intrSent \in BOOLEAN

Init ==
    /\ c2s = <<>> /\ s2c = <<>> /\ dq = <<>>
    /\ link = "down" /\ conn = 0 /\ sock = FALSE
    /\ stub = "recv" /\ stop = "none"
    /\ worker = "idle" /\ runKind = "c" /\ runConn = 0 /\ interrupt = FALSE
    /\ gdb = "off" /\ gcmd = "?" /\ intrSent = FALSE

-----------------------------------------------------------------------------
(* Network_handler                                                         *)

\* asio::write on the socket: the bytes reach GDB while it holds the
\* connection; after GDB closed its end they are discarded.
Write(toks) == s2c' = IF link = "up" THEN s2c \o toks ELSE s2c

\* Network_handler::close: reset the socket, GDB sees the connection end.
Close ==
    /\ sock' = FALSE
    /\ link' = IF link = "up" THEN "stubClosed" ELSE "down"

\* setup_socket: acceptor->accept blocks until GDB connects.
Accept ==
    /\ stub \in {"recv", "pollRecv", "sendStop"}
    /\ ~sock /\ link \in {"up", "clientClosed"}
    /\ sock' = TRUE
    /\ UNCHANGED <<stub, stop, dq, workerVars, gdbVars, netVars>>

\* get_packet_from_decoder: while the decoder has no packet, a blocking
\* read_some returns some prefix of the bytes in flight and pushes it.
ReadSome ==
    /\ stub \in {"recv", "pollRecv", "waitAck"}
    /\ sock /\ dq = <<>> /\ c2s # <<>>
    /\ \E k \in 1..Len(c2s) :
          /\ dq' = SubSeq(c2s, 1, k)
          /\ c2s' = SubSeq(c2s, k + 1, Len(c2s))
    /\ UNCHANGED <<stub, stop, sock, workerVars, gdbVars, s2c, link, conn>>

\* read_some throws at end of stream: close, Error::Connection_fault.
\* run() closes and continues, async_run continues polling, and the
\* failed send of a stop reply returns to run().
ReadFail ==
    /\ stub \in {"recv", "pollRecv", "waitAck"}
    /\ sock /\ dq = <<>> /\ c2s = <<>> /\ link = "clientClosed"
    /\ Close
    /\ stub' = IF stub = "pollRecv" THEN "poll" ELSE "recv"
    /\ UNCHANGED <<stop, dq, workerVars, gdbVars, c2s, s2c, conn>>

-----------------------------------------------------------------------------
(* Emulator_debug::run on the main thread                                  *)

\* One turn of the run() loop on a popped packet h: receive() acknowledges
\* it with "+", then the command is dispatched.  An acknowledgement is
\* skipped; ^C has no handler and no special handling ("Unhandled
\* command"): close and return from run().  c/s set the pc and start the
\* worker in async_run; ? and g send their response and wait for its ack.
RecvPopWith(resumes) ==
    /\ stub = "recv" /\ sock /\ dq # <<>>
    /\ dq' = Tail(dq)
    /\ LET h == Head(dq) IN
       \/ /\ h = Ack
          /\ Write(<<Ack>>)
          /\ UNCHANGED <<stub, stop, sock, workerVars, link>>
       \/ /\ h = Intr
          /\ Write(<<Ack>>) /\ Close
          /\ stub' = "exited"
          /\ UNCHANGED <<stop, workerVars>>
       \/ /\ h.t = "cmd" /\ h.c \in resumes
          /\ Write(<<Ack>>)
          /\ worker' = "running" /\ runKind' = h.c /\ runConn' = h.n
          /\ interrupt' = FALSE
          /\ stub' = "poll"
          /\ UNCHANGED <<stop, sock, link>>
       \/ /\ h.t = "cmd" /\ h.c \notin resumes
          /\ Write(<<Ack, Resp(h.c, h.n)>>)
          /\ stub' = "waitAck"
          /\ UNCHANGED <<stop, sock, workerVars, link>>
    /\ UNCHANGED <<gdbVars, c2s, conn>>

\* a dispatch table that runs the halt-reason query through async_run
RecvPopQueryResumes == RecvPopWith(ResumeCmds \cup {"?"})

RecvPop == RecvPopWith(ResumeCmds)

\* send(): the packet written, wait for the next packet.  "+" completes
\* the send; anything else is Protocol_fail and send_response closes.
WaitAck ==
    /\ stub = "waitAck" /\ sock /\ dq # <<>>
    /\ dq' = Tail(dq)
    /\ IF Head(dq) = Ack THEN UNCHANGED <<sock, link>> ELSE Close
    /\ stub' = "recv"
    /\ UNCHANGED <<stop, workerVars, gdbVars, c2s, s2c, conn>>

\* async_run: wait_for(50ms) times out while the worker keeps running, and
\* the loop blocks in network->receive().  Timing abstraction: a worker
\* that runs a single step, or has seen the interrupt, finishes well
\* within 50 ms, so only an uninterrupted run_until_trap lets it expire.
PollTimeout ==
    /\ stub = "poll"
    /\ worker = "running" /\ runKind = "c" /\ ~interrupt
    /\ stub' = "pollRecv"
    /\ UNCHANGED <<stop, sock, dq, workerVars, gdbVars, netVars>>

\* async_run: the future is ready; result.get() and send_response.
PollReady ==
    /\ stub = "poll" /\ worker = "done"
    /\ worker' = "idle"
    /\ stop' = runKind
    /\ stub' = "sendStop"
    /\ UNCHANGED <<sock, dq, runKind, runConn, interrupt, gdbVars, netVars>>

\* send() of the stop reply (setup_socket first if the socket was reset).
SendStop ==
    /\ stub = "sendStop" /\ sock
    /\ Write(<<Resp(stop, runConn)>>)
    /\ stub' = "waitAck"
    /\ UNCHANGED <<stop, sock, dq, workerVars, gdbVars, c2s, link, conn>>

\* async_run, a packet received during execution: ^C and ? set the
\* interrupt flag; anything else closes the connection and returns, and
\* the destructor of the std::async future joins the worker.
PollRecvTo(closedLoc) ==
    /\ stub = "pollRecv" /\ sock /\ dq # <<>>
    /\ dq' = Tail(dq)
    /\ Write(<<Ack>>)
    /\ LET h == Head(dq) IN
       IF h = Intr \/ (h.t = "cmd" /\ h.c = "?")
       THEN /\ interrupt' = TRUE /\ stub' = "poll"
            /\ UNCHANGED <<sock, link>>
       ELSE /\ Close /\ stub' = closedLoc
            /\ UNCHANGED interrupt
    /\ UNCHANGED <<stop, worker, runKind, runConn, gdbVars, c2s, conn>>

\* returning to run() without waiting for the worker
PollRecvNoJoin == PollRecvTo("recv")

PollRecv == PollRecvTo("join")

\* ~future(): blocks until the worker returns; its stop reply is dropped.
Join ==
    /\ stub = "join" /\ worker = "done"
    /\ worker' = "idle" /\ stub' = "recv"
    /\ UNCHANGED <<stop, sock, dq, runKind, runConn, interrupt, gdbVars, netVars>>

-----------------------------------------------------------------------------
(* The worker: run_until_trap / run_steps                                  *)

\* A cycle stops at a breakpoint or a watchpoint (when is up to the program).
WorkerHit ==
    /\ worker = "running" /\ worker' = "done"
    /\ UNCHANGED <<stubVars, runKind, runConn, interrupt, gdbVars, netVars>>

\* a run loop that never loads the interrupt flag
WorkerStopIgnoresFlag ==
    /\ worker = "running" /\ runKind = "s"
    /\ worker' = "done"
    /\ UNCHANGED <<stubVars, runKind, runConn, interrupt, gdbVars, netVars>>

\* A cycle that hits nothing returns SIGINT when the flag is set, and
\* run_steps(1) returns SIGTRAP after its single cycle.
WorkerStop ==
    /\ worker = "running" /\ (interrupt \/ runKind = "s")
    /\ worker' = "done"
    /\ UNCHANGED <<stubVars, runKind, runConn, interrupt, gdbVars, netVars>>

-----------------------------------------------------------------------------
(* The GDB client (remote protocol with acknowledgements)                  *)

\* Connect; GDB starts by sending "+".
GdbConnect ==
    /\ gdb = "off" /\ link = "down" /\ conn < MaxConnections
    /\ stub # "exited"
    /\ conn' = conn + 1 /\ link' = "up"
    /\ c2s' = <<Ack>> /\ s2c' = <<>>
    /\ gdb' = "idle" /\ intrSent' = FALSE
    /\ UNCHANGED <<stubVars, workerVars, gcmd>>

GdbSend(c) ==
    /\ gdb = "idle" /\ link = "up"
    /\ c2s' = Append(c2s, Cmd(c, conn))
    /\ gdb' = "waitAck" /\ gcmd' = c /\ intrSent' = FALSE
    /\ UNCHANGED <<stubVars, workerVars, s2c, link, conn>>

\* Waiting for the ack: "+" is taken as it; a packet is "Packet instead
\* of Ack", acknowledged and ignored.
GdbAck ==
    /\ gdb = "waitAck" /\ s2c # <<>> /\ Head(s2c) = Ack
    /\ s2c' = Tail(s2c) /\ gdb' = "waitReply"
    /\ UNCHANGED <<stubVars, workerVars, gcmd, intrSent, c2s, link, conn>>

GdbSkip ==
    /\ gdb = "waitAck" /\ s2c # <<>> /\ Head(s2c).t = "resp"
    /\ s2c' = Tail(s2c) /\ c2s' = Append(c2s, Ack)
    /\ UNCHANGED <<stubVars, workerVars, gdbVars, link, conn>>

\* Waiting for the reply: a "+" is skipped, a packet is the reply.
GdbStray ==
    /\ gdb = "waitReply" /\ s2c # <<>> /\ Head(s2c) = Ack
    /\ s2c' = Tail(s2c)
    /\ UNCHANGED <<stubVars, workerVars, gdbVars, c2s, link, conn>>

GdbReply ==
    /\ gdb = "waitReply" /\ s2c # <<>> /\ Head(s2c).t = "resp"
    /\ s2c' = Tail(s2c) /\ c2s' = Append(c2s, Ack)
    /\ gdb' = "idle"
    /\ UNCHANGED <<stubVars, workerVars, gcmd, intrSent, link, conn>>

\* The user presses ^C while the target runs.
GdbInterrupt ==
    /\ gdb = "waitReply" /\ gcmd \in ResumeCmds /\ ~intrSent /\ link = "up"
    /\ c2s' = Append(c2s, Intr) /\ intrSent' = TRUE
    /\ UNCHANGED <<stubVars, workerVars, gdb, gcmd, s2c, link, conn>>

\* The user detaches or GDB is killed: what it sent is still delivered.
GdbQuit ==
    /\ link = "up" /\ gdb # "off"
    /\ link' = "clientClosed" /\ gdb' = "off" /\ s2c' = <<>>
    /\ UNCHANGED <<stubVars, workerVars, gcmd, intrSent, c2s, conn>>

\* GDB reads the end of a connection the stub closed.
GdbSeeClose ==
    /\ link = "stubClosed" /\ (s2c = <<>> \/ gdb \in {"off", "idle"})
    /\ link' = "down" /\ gdb' = "off" /\ c2s' = <<>> /\ s2c' = <<>>
    /\ UNCHANGED <<stubVars, workerVars, gcmd, intrSent, conn>>

-----------------------------------------------------------------------------
StubStep == Accept \/ ReadSome \/ ReadFail \/ RecvPop \/ WaitAck
            \/ PollTimeout \/ PollReady \/ SendStop \/ PollRecv \/ Join
GdbAuto  == GdbAck \/ GdbSkip \/ GdbStray \/ GdbReply \/ GdbSeeClose
GdbUser  == GdbConnect \/ (\E c \in UserCmds : GdbSend(c))
            \/ GdbInterrupt \/ GdbQuit

Next == StubStep \/ WorkerHit \/ WorkerStop \/ GdbAuto \/ GdbUser

\* The main thread and the worker are scheduled by the OS; GDB answers
\* protocol traffic by itself.  Commands, ^C, quitting and where the
\* program stops are up to the user and the program: no fairness.
Spec == Init /\ [][Next]_vars
        /\ WF_vars(StubStep) /\ WF_vars(WorkerStop) /\ WF_vars(GdbAuto)

-----------------------------------------------------------------------------
(* Properties                                                              *)

\* The main thread runs a handler that touches the CPU (g, or c/s which
\* set the pc and start a worker) only when no worker is executing
\* cycles: async_run must not return to run() before the worker ended.
CpuExclusive ==
    [][ (/\ stub = "recv" /\ stub' # "recv"
         /\ Head(dq).t = "cmd" /\ Head(dq).c \in CpuCmds)
        => worker # "running" ]_vars

\* After the user interrupts a running target with ^C, GDB eventually
\* gets the stop reply or loses the connection (async_run polls receive
\* while the worker runs, sets the flag, and run_until_trap returns).
InterruptHonoured ==
    (gdb = "waitReply" /\ intrSent) ~> (gdb # "waitReply")

\* When the worker has stopped at a breakpoint for GDB's resume command,
\* GDB eventually gets the stop reply (async_run only notices the
\* finished worker after its blocking receive returns).
StopReplyDelivered ==
    (gdb = "waitReply" /\ gcmd \in ResumeCmds /\ worker = "done"
       /\ runConn = conn)
    ~> (gdb # "waitReply")

\* The stub never closes a connection that GDB still uses correctly,
\* and never leaves run() on GDB's traffic.
NoSpuriousClose == link # "stubClosed" /\ stub # "exited"
=============================================================================
