---------------------------- MODULE AgentClient ----------------------------
(***************************************************************************)
(* The Go side of one sidecar process (client.go): the goroutines that     *)
(* call NewSession, Exec, Query and Close on its sessions, the streams     *)
(* they read, and the single readLoop goroutine that routes every frame of *)
(* the sidecar's stdout to the session, request and stream it belongs to.  *)
(*                                                                         *)
(* The sidecar appears only as the producer of frames: it answers each     *)
(* request it was sent, in any order and at any speed, and may die.        *)
(***************************************************************************)
EXTENDS Naturals, Sequences, FiniteSets

CONSTANTS
    Callers,      \* goroutines of the host program
    MaxConn,      \* bound: sessions opened on the process
    MaxReq,       \* bound: requests sent on one session
    MaxRows,      \* bound: rows of one result
    RowsCap,      \* capacity of QueryStream.rows (256 in the code)
    PipeCap,      \* frames the stdout pipe holds
    Faults,       \* which corrupt frames the sidecar may emit
    Exits,        \* TRUE: the process may exit or be closed
    UserOps,      \* which operations the host program uses on a session
    Disciplined   \* TRUE: a goroutine leaves no stream open while it calls

FaultKinds == {"badrow", "short", "huge"}

ASSUME ConstantsAssumption ==
    /\ Callers # {}
    /\ MaxConn \in Nat \ {0} /\ MaxReq \in Nat \ {0}
    /\ MaxRows \in Nat /\ RowsCap \in Nat \ {0} /\ PipeCap \in Nat \ {0}
    /\ Faults \subseteq FaultKinds
    /\ UserOps \subseteq {"EXEC", "QUERY", "CLOSE"}
    /\ Exits \in BOOLEAN /\ Disciplined \in BOOLEAN

Conns == 1..MaxConn            \* conn ids; 0 is the handshake probe's
Ids   == 0..(MaxReq - 1)       \* request ids of one session
Reqs  == Conns \X Ids
Nil   == MaxReq                \* curRows = nil: no request has this id

Ops   == {"CONNECT", "EXEC", "QUERY", "CLOSE"}

VARIABLES
    registered,   \* AgentProc.sessions: conn ids readLoop can route to
    nextConn,     \* AgentProc.nextConn
    closed,       \* AgentProc.closed has been closed
    nextID,       \* Session.nextID
    pending,      \* Session.pending: ids with a response channel
    inbox,        \* that channel (capacity 1) of each request
    curRows,      \* Session.curRows, as the id of the stream
    stream,       \* QueryStream objects
    call,         \* what each goroutine is executing
    opened,       \* streams each goroutine holds and has not finished
    usable,       \* sessions NewSession returned and nobody closed
    rl,           \* the readLoop goroutine
    proc,         \* the process: up, killed (signal on its way), dead
    job,          \* what the sidecar made of each request
    stdout        \* frames in the stdout pipe

goVars      == <<registered, nextConn, closed, nextID, pending, inbox,
                 curRows, stream, call, opened, usable, rl>>
sidecarVars == <<proc, job, stdout>>
vars        == <<goVars, sidecarVars>>

-----------------------------------------------------------------------------
(* Data *)

Idle     == [pc |-> "idle", conn |-> 0, id |-> 0, op |-> "NONE"]
NewRows  == [rows |-> <<>>, shut |-> FALSE, err |-> FALSE, done |-> FALSE,
             got |-> <<>>, verdict |-> "none"]
NoJob    == [st |-> "none", op |-> "NONE", sent |-> 0]
NoFrame  == [kind |-> "none", conn |-> 0, id |-> 0, ok |-> FALSE, row |-> 0]

Row   == Ids \X (1..MaxRows)   \* a row is named by its query and position
Kinds == {"none", "resp", "row", "end"} \cup FaultKinds
\* A ROW_BATCH carries one row of its query: the sidecar never batches two
\* (Main.java:124), and decodeRowBatch could not tell them apart.
FrameShape == [kind : Kinds, conn : 0..MaxConn, id : Ids, ok : BOOLEAN,
               row : 0..MaxRows]
Frame      == {f \in FrameShape : f.kind = "row" => f.row # 0}

Alive      == proc # "dead"
Req(k)     == <<call[k].conn, call[k].id>>
Held       == UNION {opened[k] : k \in Callers}
Holds(k)   == call[k].pc \in {"write", "wait"}          \* owns Session.mu
Target     == <<rl.f.conn, rl.to>>     \* the stream dispatchRows captured
Queued(c)  == {k \in Callers : call[k].pc = "lock" /\ call[k].conn = c}

-----------------------------------------------------------------------------
(* Seeded faults: each is a plausible slip in the definition it stands     *)
(* next to; the mutation runs substitute them one at a time.               *)

FreeSlotOffByOne(r)  == Len(stream[r].rows) <= RowsCap
IsCurrentAnyId(f)    == curRows[f.conn] # Nil
IsCurrentAnswered(f) == curRows[f.conn] = f.id /\ f.id \notin pending[f.conn]
AfterEndKeeps(c)     == curRows
GiveUpOnlyClears(r)  == stream
EndErrDropped(f)     == FALSE
LockFreeAlways(k)    == TRUE
AbortTodoPending     == {c \in registered : pending[c] # {}}
AfterFailureWaits(k) == IF call[k].op \in {"CONNECT", "CLOSE"} THEN "drop" ELSE "wait"

-----------------------------------------------------------------------------
(* Goroutines of the host program *)

\* What the host program may do next.  Undisciplined callers use the whole
\* exported API; disciplined ones finish a stream before the next call and
\* never share a session, as database/sql does outside transactions for a
\* goroutine that keeps one result set at a time.
MayCall(k, c) ==
    Disciplined =>
        /\ opened[k] = {}
        /\ \A r \in Held : r[1] # c
        /\ \A j \in Callers : call[j].pc # "idle" => call[j].conn # c

\* NewSession up to its exec: the conn id is registered before CONNECT is sent.
NewSession(k) ==
    /\ call[k] = Idle
    /\ Disciplined => opened[k] = {}
    /\ ~closed
    /\ nextConn \in Conns
    /\ registered' = registered \cup {nextConn}
    /\ nextConn' = nextConn + 1
    /\ call' = [call EXCEPT ![k] = [pc |-> "lock", conn |-> nextConn, id |-> 0,
                                    op |-> "CONNECT"]]
    /\ UNCHANGED <<closed, nextID, pending, inbox, curRows, stream, opened,
                   usable, rl, sidecarVars>>

\* Exec, Query or Close is called on a session; it first waits for Session.mu.
Call(k, c, op) ==
    /\ call[k] = Idle
    /\ c \in usable
    /\ MayCall(k, c)
    /\ nextID[c] + Cardinality(Queued(c)) < MaxReq
    /\ call' = [call EXCEPT ![k] = [pc |-> "lock", conn |-> c, id |-> 0, op |-> op]]
    /\ usable' = IF op = "CLOSE" THEN usable \ {c} ELSE usable
    /\ UNCHANGED <<registered, nextConn, closed, nextID, pending, inbox,
                   curRows, stream, opened, rl, sidecarVars>>

LockFree(k) == \A j \in Callers : Holds(j) => call[j].conn # call[k].conn

\* Session.mu acquired: take an id, register the response channel and, for
\* QUERY, make the new stream the session's current one.
Lock(k) ==
    LET c == call[k].conn
        i == nextID[c]
    IN  /\ call[k].pc = "lock"
        /\ LockFree(k)
        /\ i \in Ids
        /\ nextID' = [nextID EXCEPT ![c] = i + 1]
        /\ pending' = [pending EXCEPT ![c] = @ \cup {i}]
        /\ curRows' = IF call[k].op = "QUERY" THEN [curRows EXCEPT ![c] = i] ELSE curRows
        /\ call' = [call EXCEPT ![k].pc = "write", ![k].id = i]
        /\ UNCHANGED <<registered, nextConn, closed, inbox, stream, opened,
                       usable, rl, sidecarVars>>

\* exec and Query return: the deferred delete(pending) and mu.Unlock.
Leave(k, pc) ==
    /\ pending' = [pending EXCEPT ![call[k].conn] = @ \ {call[k].id}]
    /\ call' = [call EXCEPT ![k] = IF pc = "idle" THEN Idle ELSE [@ EXCEPT !.pc = pc]]

\* Where the caller of exec goes when it failed: NewSession and Close still
\* have to delete the session.
AfterFailure(k) == IF call[k].op \in {"CONNECT", "CLOSE"} THEN "drop" ELSE "idle"

\* writeRequest: one whole frame under writeMu, or EPIPE from a dead process.
Write(k) ==
    /\ call[k].pc = "write"
    /\ \/ /\ Alive
          /\ job' = [job EXCEPT ![Req(k)] = [st |-> "run", op |-> call[k].op, sent |-> 0]]
          /\ call' = [call EXCEPT ![k].pc = "wait"]
          /\ UNCHANGED pending
       \/ /\ ~Alive
          /\ Leave(k, AfterFailure(k))
          /\ UNCHANGED job
    /\ UNCHANGED <<registered, nextConn, closed, nextID, inbox, curRows, stream,
                   opened, usable, rl, proc, stdout>>

\* Query gives its stream up: the session forgets it and done is closed, so
\* that readLoop cannot stay blocked on a channel nobody will read.
GiveUpStream(r) == [stream EXCEPT ![r].done = TRUE]
GiveUp(k) ==
    IF call[k].op = "QUERY"
    THEN /\ curRows' = [curRows EXCEPT ![call[k].conn] = IF @ = call[k].id THEN Nil ELSE @]
         /\ stream' = GiveUpStream(Req(k))
    ELSE UNCHANGED <<curRows, stream>>

\* select: the response is there.
Receive(k) ==
    LET r == Req(k)
        c == call[k].conn
    IN  /\ call[k].pc = "wait"
        /\ inbox[r] # "empty"
        /\ inbox' = [inbox EXCEPT ![r] = "empty"]
        /\ \/ /\ inbox[r] = "ok"
              /\ Leave(k, IF call[k].op = "CLOSE" THEN "drop" ELSE "idle")
              /\ opened' = IF call[k].op = "QUERY"
                           THEN [opened EXCEPT ![k] = @ \cup {r}] ELSE opened
              /\ usable' = IF call[k].op = "CONNECT" THEN usable \cup {c} ELSE usable
              /\ UNCHANGED <<curRows, stream>>
           \/ /\ inbox[r] = "fail"
              /\ Leave(k, AfterFailure(k))
              /\ GiveUp(k)
              /\ UNCHANGED <<opened, usable>>
        /\ UNCHANGED <<registered, nextConn, closed, nextID, rl, sidecarVars>>

\* select: ctx.Done.  CONNECT and CLOSE run under context.Background().  The
\* CANCEL frame is left to the sidecar's freedom to fail any request.
Cancelled(k) ==
    /\ call[k].pc = "wait"
    /\ call[k].op \in {"EXEC", "QUERY"}
    /\ Leave(k, "idle")
    /\ GiveUp(k)
    /\ UNCHANGED <<registered, nextConn, closed, nextID, inbox, opened, usable,
                   rl, sidecarVars>>

\* select: the process is gone.
Abandon(k) ==
    /\ call[k].pc = "wait"
    /\ closed
    /\ Leave(k, AfterFailure(k))
    /\ GiveUp(k)
    /\ UNCHANGED <<registered, nextConn, closed, nextID, inbox, opened, usable,
                   rl, sidecarVars>>

\* NewSession after a failure, and Close in every case, delete the session.
Drop(k) ==
    /\ call[k].pc = "drop"
    /\ registered' = registered \ {call[k].conn}
    /\ call' = [call EXCEPT ![k] = Idle]
    /\ UNCHANGED <<nextConn, closed, nextID, pending, inbox, curRows, stream,
                   opened, usable, rl, sidecarVars>>

-----------------------------------------------------------------------------
(* Readers *)

\* Next returns a row.
NextRow(k, r) ==
    /\ call[k] = Idle
    /\ r \in opened[k]
    /\ stream[r].rows # <<>>
    /\ stream' = [stream EXCEPT ![r].rows = Tail(@),
                                ![r].got = Append(@, Head(stream[r].rows))]
    /\ UNCHANGED <<registered, nextConn, closed, nextID, pending, inbox, curRows,
                   call, opened, usable, rl, sidecarVars>>

\* Next finds the channel closed and drained: an error, or io.EOF.
NextEnd(k, r) ==
    /\ call[k] = Idle
    /\ r \in opened[k]
    /\ stream[r].rows = <<>>
    /\ stream[r].shut
    /\ stream' = [stream EXCEPT ![r].verdict = IF stream[r].err THEN "err" ELSE "eof"]
    /\ opened' = [opened EXCEPT ![k] = @ \ {r}]
    /\ UNCHANGED <<registered, nextConn, closed, nextID, pending, inbox, curRows,
                   call, usable, rl, sidecarVars>>

\* QueryStream.Close: only done is closed; curRows and the sidecar are not told.
CloseStream(k, r) ==
    /\ call[k] = Idle
    /\ r \in opened[k]
    /\ stream' = GiveUpStream(r)
    /\ opened' = [opened EXCEPT ![k] = @ \ {r}]
    /\ UNCHANGED <<registered, nextConn, closed, nextID, pending, inbox, curRows,
                   call, usable, rl, sidecarVars>>

-----------------------------------------------------------------------------
(* readLoop *)

goExceptLoop == <<registered, nextConn, nextID, call, opened, usable>>
Loop(pc, f)  == [pc |-> pc, f |-> f, to |-> Nil, todo |-> {}, final |-> FALSE]

\* A frame is read and its session looked up under AgentProc.mu.  A batch
\* that does not decode and belongs to no session makes abortAll run.
ReadFrame ==
    /\ rl.pc = "read"
    /\ stdout # <<>>
    /\ LET f == Head(stdout) IN
        /\ f.kind # "huge"
        /\ stdout' = Tail(stdout)
        /\ rl' = IF f.conn \in registered THEN Loop("dispatch", f)
                 ELSE IF f.kind \in {"badrow", "short"} THEN Loop("snapshot", NoFrame)
                 ELSE Loop("read", NoFrame)
    /\ UNCHANGED <<goExceptLoop, closed, pending, inbox, curRows, stream, proc, job>>

\* dispatchResponse: a late answer finds no channel and is dropped.  The send
\* blocks when the channel already holds a response.
DispatchResponse ==
    /\ rl.pc = "dispatch"
    /\ rl.f.kind = "resp"
    /\ LET r == <<rl.f.conn, rl.f.id>> IN
        IF rl.f.id \in pending[rl.f.conn]
        THEN /\ inbox[r] = "empty"
             /\ inbox' = [inbox EXCEPT ![r] = IF rl.f.ok THEN "ok" ELSE "fail"]
        ELSE UNCHANGED inbox
    /\ rl' = Loop("read", NoFrame)
    /\ UNCHANGED <<goExceptLoop, closed, pending, curRows, stream, sidecarVars>>

\* The frame belongs to the stream the session is reading.
IsCurrent(f) == curRows[f.conn] = f.id

\* dispatchRows up to the first send: the current stream is captured and
\* dispatchMu released; batches of other streams are dropped.
DispatchRow ==
    /\ rl.pc = "dispatch"
    /\ rl.f.kind = "row"
    /\ rl' = IF IsCurrent(rl.f)
             THEN [Loop("send", rl.f) EXCEPT !.to = curRows[rl.f.conn]]
             ELSE Loop("read", NoFrame)
    /\ UNCHANGED <<goExceptLoop, closed, pending, inbox, curRows, stream, sidecarVars>>

FreeSlot(r) == Len(stream[r].rows) < RowsCap

\* The select of dispatchRows: qs.rows <- r, or <-qs.done.
SendRow ==
    /\ rl.pc = "send"
    /\ \/ /\ FreeSlot(Target)
          /\ stream' = [stream EXCEPT ![Target].rows = Append(@, <<rl.f.id, rl.f.row>>)]
       \/ /\ stream[Target].done
          /\ UNCHANGED stream
    /\ rl' = Loop("read", NoFrame)
    /\ UNCHANGED <<goExceptLoop, closed, pending, inbox, curRows, sidecarVars>>

EndErr(f)   == ~f.ok
AfterEnd(c) == [curRows EXCEPT ![c] = Nil]

\* dispatchEnd: only the current stream is closed, with the error it carries.
DispatchEnd ==
    /\ rl.pc = "dispatch"
    /\ rl.f.kind = "end"
    /\ IF IsCurrent(rl.f)
       THEN /\ curRows' = AfterEnd(rl.f.conn)
            /\ stream' = [stream EXCEPT ![<<rl.f.conn, curRows[rl.f.conn]>>].shut = TRUE,
                                        ![<<rl.f.conn, curRows[rl.f.conn]>>].err = EndErr(rl.f)]
       ELSE UNCHANGED <<curRows, stream>>
    /\ rl' = Loop("read", NoFrame)
    /\ UNCHANGED <<goExceptLoop, closed, pending, inbox, sidecarVars>>

\* abortStream: whatever the session is reading fails.
AbortStream(c) ==
    IF curRows[c] # Nil
    THEN /\ curRows' = [curRows EXCEPT ![c] = Nil]
         /\ stream' = [stream EXCEPT ![<<c, curRows[c]>>].shut = TRUE,
                                     ![<<c, curRows[c]>>].err = TRUE]
    ELSE UNCHANGED <<curRows, stream>>

\* A batch with a readable header and an undecodable value fails the stream
\* its session is reading, whichever query the batch is of.
DispatchBadRow ==
    /\ rl.pc = "dispatch"
    /\ rl.f.kind = "badrow"
    /\ AbortStream(rl.f.conn)
    /\ rl' = Loop("read", NoFrame)
    /\ UNCHANGED <<goExceptLoop, closed, pending, inbox, sidecarVars>>

\* readFrame fails: end of file, or a length over the limit.  markClosed.
ReadFails ==
    /\ rl.pc = "read"
    /\ \/ stdout = <<>> /\ ~Alive
       \/ stdout # <<>> /\ Head(stdout).kind = "huge"
    /\ closed' = TRUE
    /\ rl' = [Loop("snapshot", NoFrame) EXCEPT !.final = TRUE]
    /\ UNCHANGED <<goExceptLoop, pending, inbox, curRows, stream, sidecarVars>>

AbortTodo == registered

\* abortAll copies the sessions under AgentProc.mu ...
AbortSnapshot ==
    /\ rl.pc = "snapshot"
    /\ rl' = [rl EXCEPT !.pc = "abort", !.todo = AbortTodo]
    /\ UNCHANGED <<goExceptLoop, closed, pending, inbox, curRows, stream, sidecarVars>>

\* ... and aborts them one after the other, in the order of a map range.
AbortOne(c) ==
    /\ rl.pc = "abort"
    /\ c \in rl.todo
    /\ AbortStream(c)
    /\ rl' = [rl EXCEPT !.todo = @ \ {c}]
    /\ UNCHANGED <<goExceptLoop, closed, pending, inbox, sidecarVars>>

AbortDone ==
    /\ rl.pc = "abort"
    /\ rl.todo = {}
    /\ rl' = Loop(IF rl.final THEN "exit" ELSE "read", NoFrame)
    /\ UNCHANGED <<goExceptLoop, closed, pending, inbox, curRows, stream, sidecarVars>>

-----------------------------------------------------------------------------
(* The process and what it writes *)

\* AgentProc.close: closed is closed first, the kill reaches the process later.
ProcClose ==
    /\ Exits
    /\ proc = "up"
    /\ proc' = "killed"
    /\ closed' = TRUE
    /\ UNCHANGED <<goExceptLoop, pending, inbox, curRows, stream, rl, job, stdout>>

\* The process dies of the kill or by itself; the pipe keeps what it wrote.
Die ==
    /\ Exits
    /\ Alive
    /\ proc' = "dead"
    /\ UNCHANGED <<goVars, job, stdout>>

\* sendFrame, one whole frame at a time.
Emit(f) ==
    /\ Alive
    /\ Len(stdout) < PipeCap
    /\ stdout' = Append(stdout, f)
Control(kind, r, ok) ==
    [NoFrame EXCEPT !.kind = kind, !.conn = r[1], !.id = r[2], !.ok = ok]

\* One RESPONSE and nothing else: every request but a QUERY that succeeds.
Respond(r, ok) ==
    /\ job[r].st = "run"
    /\ job[r].op = "QUERY" => ~ok
    /\ Emit(Control("resp", r, ok))
    /\ job' = [job EXCEPT ![r].st = "over"]
    /\ UNCHANGED <<goVars, proc>>

\* The header of a QUERY.
RespondHeader(r) ==
    /\ job[r].st = "run"
    /\ job[r].op = "QUERY"
    /\ Emit(Control("resp", r, TRUE))
    /\ job' = [job EXCEPT ![r].st = "rows"]
    /\ UNCHANGED <<goVars, proc>>

\* The next row of the result.
EmitRow(r) ==
    /\ job[r].st = "rows"
    /\ job[r].sent < MaxRows
    /\ Emit([Control("row", r, TRUE) EXCEPT !.row = job[r].sent + 1])
    /\ job' = [job EXCEPT ![r].sent = @ + 1]
    /\ UNCHANGED <<goVars, proc>>

\* A batch readLoop cannot use: undecodable values, no header, or too long.
EmitFault(r, kind) ==
    /\ kind \in Faults
    /\ job[r].st = "rows"
    /\ job[r].sent < MaxRows
    /\ Emit(Control(kind, IF kind = "badrow" THEN r ELSE <<0, 0>>, FALSE))
    /\ job' = [job EXCEPT ![r].sent = @ + 1]
    /\ UNCHANGED <<goVars, proc>>

EmitEnd(r, ok) ==
    /\ job[r].st = "rows"
    /\ Emit(Control("end", r, ok))
    /\ job' = [job EXCEPT ![r].st = IF ok THEN "over" ELSE "failed"]
    /\ UNCHANGED <<goVars, proc>>

-----------------------------------------------------------------------------

Init ==
    /\ registered = {}
    /\ nextConn = 1
    /\ closed = FALSE
    /\ nextID = [c \in Conns |-> 0]
    /\ pending = [c \in Conns |-> {}]
    /\ inbox = [r \in Reqs |-> "empty"]
    /\ curRows = [c \in Conns |-> Nil]
    /\ stream = [r \in Reqs |-> NewRows]
    /\ call = [k \in Callers |-> Idle]
    /\ opened = [k \in Callers |-> {}]
    /\ usable = {}
    /\ rl = Loop("read", NoFrame)
    /\ proc = "up"
    /\ job = [r \in Reqs |-> NoJob]
    /\ stdout = <<>>

CallStep(k) == Lock(k) \/ Write(k) \/ Receive(k) \/ Abandon(k) \/ Drop(k)
Read(k)     == \E r \in Reqs : NextRow(k, r) \/ NextEnd(k, r)

Caller(k) ==
    \/ NewSession(k)
    \/ \E c \in Conns, op \in UserOps : Call(k, c, op)
    \/ CallStep(k)
    \/ Cancelled(k)
    \/ Read(k)
    \/ \E r \in Reqs : CloseStream(k, r)

ReadLoop ==
    \/ ReadFrame \/ ReadFails
    \/ DispatchResponse \/ DispatchRow \/ DispatchEnd \/ DispatchBadRow
    \/ SendRow
    \/ AbortSnapshot \/ AbortDone
    \/ \E c \in Conns : AbortOne(c)

Handle(r) ==
    \/ \E ok \in BOOLEAN : Respond(r, ok) \/ EmitEnd(r, ok)
    \/ RespondHeader(r) \/ EmitRow(r)
    \/ \E kind \in Faults : EmitFault(r, kind)

\* Nothing is left to do: no goroutine is in a call or holds a stream, and
\* the loop has ended or waits for a frame.
Finished ==
    /\ \A k \in Callers : call[k] = Idle /\ opened[k] = {}
    /\ \/ rl.pc = "exit" /\ ~Alive
       \/ rl.pc = "read" /\ stdout = <<>> /\ Alive
    /\ UNCHANGED vars

Next ==
    \/ \E k \in Callers : Caller(k)
    \/ ReadLoop
    \/ ProcClose \/ Die
    \/ \E r \in Reqs : Handle(r)
    \/ Finished

Spec == Init /\ [][Next]_vars

\* The Go scheduler runs every goroutine that can run, a kill arrives, the
\* sidecar works on every request it was sent, and a reader goes on reading.
\* Nothing obliges a context to be cancelled or a new call to be made.
Fairness ==
    /\ WF_vars(ReadLoop)
    /\ WF_vars(proc = "killed" /\ Die)
    /\ \A k \in Callers : WF_vars(CallStep(k)) /\ WF_vars(Read(k))
    /\ \A r \in Reqs : WF_vars(Handle(r))

FairSpec == Spec /\ Fairness

-----------------------------------------------------------------------------
(* Properties *)

StreamType == [rows : Seq(Row), shut : BOOLEAN, err : BOOLEAN, done : BOOLEAN,
               got : Seq(Row), verdict : {"none", "eof", "err"}]
CallType   == [pc : {"idle", "lock", "write", "wait", "drop"}, conn : 0..MaxConn,
               id : Ids, op : Ops \cup {"NONE"}]
LoopType   == [pc : {"read", "dispatch", "send", "snapshot", "abort", "exit"},
               f : Frame, to : Ids \cup {Nil}, todo : SUBSET Conns, final : BOOLEAN]
JobType    == [st : {"none", "run", "rows", "over", "failed"},
               op : Ops \cup {"NONE"}, sent : 0..MaxRows]

SessionsOK == /\ registered \subseteq Conns /\ usable \subseteq Conns
              /\ nextConn \in 1..(MaxConn + 1)
              /\ closed \in BOOLEAN
RequestsOK == /\ nextID \in [Conns -> 0..MaxReq]
              /\ pending \in [Conns -> SUBSET Ids]
              /\ inbox \in [Reqs -> {"empty", "ok", "fail"}]
              /\ curRows \in [Conns -> Ids \cup {Nil}]
StreamsOK  == /\ stream \in [Reqs -> StreamType]
              /\ \A r \in Reqs : Len(stream[r].rows) <= RowsCap
CallsOK    == /\ call \in [Callers -> CallType]
              /\ \A k \in Callers : call[k].pc # "idle" => /\ call[k].conn \in Conns
                                                           /\ call[k].op \in Ops
              /\ opened \in [Callers -> SUBSET Reqs]
LoopOK     == /\ rl \in LoopType
              /\ rl.pc \in {"dispatch", "send"} => rl.f.conn \in Conns
              /\ rl.pc = "send" => rl.to \in Ids /\ rl.f.kind = "row"
SidecarOK  == /\ proc \in {"up", "killed", "dead"}
              /\ job \in [Reqs -> JobType]
              /\ stdout \in Seq(Frame)

\* The state stays within its types: in particular no stream buffers more
\* rows than its channel holds (client.go:306) and ids stay in range.
TypeOK == SessionsOK /\ RequestsOK /\ StreamsOK /\ CallsOK /\ LoopOK /\ SidecarOK

\* readLoop never sends on a rows channel it has closed and never closes one
\* twice, either of which would panic and take the host program down
\* (client.go:366, 387, 403): the stream it holds, and every stream that is
\* still some session's current one, has an open channel.
NoChannelPanic ==
    /\ rl.pc = "send" => ~stream[Target].shut
    /\ \A c \in Conns : curRows[c] # Nil => ~stream[<<c, curRows[c]>>].shut

\* Rows of r as the sidecar numbered them, up to n.
RowsOf(r, n) == [j \in 1..n |-> <<r[2], j>>]

\* What a reader gets from a stream it did not close is a prefix of that
\* query's own result, in order and without gaps, whatever was cancelled,
\* closed or overlapped on the session before; and io.EOF is returned only
\* when the whole result was read and the sidecar said END(ok) -- a failure
\* is never dressed up as the end (client.go:384, docs/protocol.md:129).
StreamFaithful ==
    \A r \in Reqs :
        LET s == stream[r] IN
        ~s.done => /\ s.got = RowsOf(r, Len(s.got))
                   /\ s.verdict = "eof" => /\ Len(s.got) = job[r].sent
                                           /\ job[r].st = "over"

\* When readLoop waits in dispatchRows, somebody can still let it go: the
\* stream is held by a goroutine, or its Query is about to return, or done is
\* closed.  Comment at client.go:318: no left-over batch may block readLoop on
\* a stream that has no reader.
BlockedOnlyOnReader ==
    rl.pc = "send" =>
        \/ FreeSlot(Target)
        \/ stream[Target].done
        \/ Target \in Held
        \/ \E k \in Callers : call[k].pc = "wait" /\ Req(k) = Target

\* Session.mu lets one request of a session be in flight on the Go side, so
\* every registered response channel has exactly one goroutine waiting on it.
OneCallPerSession ==
    /\ \A j, k \in Callers : Holds(j) /\ Holds(k) /\ call[j].conn = call[k].conn => j = k
    /\ \A c \in Conns : \A i \in pending[c] : \E k \in Callers : Holds(k) /\ Req(k) = <<c, i>>

\* A host that makes finitely many calls ends with none of them pending and no
\* stream half read: each call gets its answer and each result its end, or the
\* process is gone and both fail (client.go:273, docs/protocol.md:133).
Settles == <>[](\A k \in Callers : call[k] = Idle /\ opened[k] = {})

\* docs/protocol.md:133: when the sidecar exits, every request in flight fails.
CallsFailOnExit == ~Alive ~> (\A k \in Callers : call[k].pc # "wait")

\* docs/protocol.md:133: when the sidecar exits, every stream in flight fails.
StreamsFailOnExit == ~Alive ~> (\A r \in Held : stream[r].shut)
=============================================================================
