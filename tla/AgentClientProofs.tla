------------------------- MODULE AgentClientProofs -------------------------
(***************************************************************************)
(* Theorems about AgentClient, for every number of goroutines, sessions,   *)
(* requests, rows and every buffer capacity.                               *)
(***************************************************************************)
EXTENDS AgentClient, TLAPS

(* The inductive invariant *)

\* A stream becomes a session's current one when its id is taken, so the ids
\* still to come name streams nothing was ever done to.
CurrentIssued == \A c \in Conns : curRows[c] # Nil => curRows[c] < nextID[c]
FreshOpen     == \A r \in Reqs : r[2] >= nextID[r[1]] => ~stream[r].shut

ChannelInv == CurrentIssued /\ FreshOpen /\ NoChannelPanic

\* The id of a call in flight has been taken, and a session's current stream
\* is the stream of a QUERY.
CallIssued     == \A k \in Callers : Holds(k) => call[k].id < nextID[call[k].conn]
CurrentIsQuery == \A k \in Callers :
                     Holds(k) /\ curRows[call[k].conn] = call[k].id => call[k].op = "QUERY"

\* Somebody will take the rows of stream r or has closed its done channel.
Reads(ss, oo, cc, r) ==
    \/ ss[r].done
    \/ \E k \in Callers : r \in oo[k]
    \/ \E k \in Callers : cc[k].pc = "wait" /\ cc[k].op = "QUERY" /\ <<cc[k].conn, cc[k].id>> = r
Reader(r) == Reads(stream, opened, call, r)

\* The sidecar sends rows of requests it was sent.
RowSent(jj, f) ==
    f.kind = "row" => <<f.conn, f.id>> \in Reqs /\ jj[<<f.conn, f.id>>].st # "none"
RowsSent == /\ \A i \in 1..Len(stdout) : RowSent(job, stdout[i])
            /\ rl.pc = "dispatch" => RowSent(job, rl.f)

FreshUnsent == \A r \in Reqs : r[2] >= nextID[r[1]] => job[r].st = "none"

\* A current stream has a reader, or its request never reached the sidecar.
CurrentRead == \A c \in Conns : curRows[c] # Nil =>
                  Reader(<<c, curRows[c]>>) \/ job[<<c, curRows[c]>>].st = "none"
SendRead    == rl.pc = "send" => Reader(Target)

ReaderInv == /\ ChannelInv /\ CallIssued /\ CurrentIsQuery
             /\ FreshUnsent /\ RowsSent /\ CurrentRead /\ SendRead

-----------------------------------------------------------------------------
(* Facts about the data *)

\* The empty frame is a frame.
LEMMA NoFrameType == NoFrame \in Frame
<1>1. /\ MaxReq \in Nat \ {0} /\ MaxRows \in Nat /\ MaxConn \in Nat \ {0}
  BY ConstantsAssumption
<1>2. 0 \in Ids /\ 0 \in 0..MaxConn /\ 0 \in 0..MaxRows
  BY <1>1 DEF Ids
<1> QED BY <1>2 DEF NoFrame, Frame, FrameShape, Kinds

\* Nil is no request id; ids and conn ids are numbers.
LEMMA NilType == Nil \notin Ids /\ 0 \in Ids /\ Ids \subseteq Nat /\ Conns \subseteq Nat
BY ConstantsAssumption DEF Nil, Ids, Conns

\* The initial state is typed.
LEMMA InitType == Init => TypeOK
<1> SUFFICES ASSUME Init PROVE TypeOK
  OBVIOUS
<1>0. /\ MaxConn \in Nat \ {0} /\ MaxReq \in Nat \ {0} /\ MaxRows \in Nat
      /\ RowsCap \in Nat \ {0}
  BY ConstantsAssumption
<1>1. SessionsOK
  <2>1. 1 \in 1..(MaxConn + 1)
    BY <1>0
  <2>2. registered \subseteq Conns /\ usable \subseteq Conns
    BY DEF Init
  <2> QED BY <2>1, <2>2 DEF Init, SessionsOK
<1>2. RequestsOK
  BY <1>0 DEF Init, RequestsOK
<1>3. StreamsOK
  <2>1. NewRows \in StreamType /\ Len(NewRows.rows) <= RowsCap
    BY <1>0 DEF NewRows, StreamType
  <2> QED BY <2>1 DEF Init, StreamsOK
<1>4. CallsOK
  <2>1. Idle \in CallType /\ Idle.pc = "idle"
    BY <1>0, NilType DEF Idle, CallType
  <2> QED BY <2>1 DEF Init, CallsOK
<1>5. LoopOK
  BY NoFrameType DEF Init, LoopOK, Loop, LoopType
<1>6. SidecarOK
  <2>1. NoJob \in JobType
    BY <1>0 DEF NoJob, JobType
  <2> QED BY <2>1 DEF Init, SidecarOK
<1> QED BY <1>1, <1>2, <1>3, <1>4, <1>5, <1>6 DEF TypeOK

-----------------------------------------------------------------------------
(* Facts about the pieces the actions are built from *)

\* A fresh loop state is typed.
LEMMA LoopTyped ==
    ASSUME NEW pc \in {"read", "dispatch", "send", "snapshot", "abort", "exit"},
           NEW f \in Frame
    PROVE  Loop(pc, f) \in LoopType
BY DEF Loop, LoopType

\* The request of a goroutine that is in a call is a request.
LEMMA ReqTyped ==
    ASSUME CallsOK, NEW k \in Callers, call[k].pc # "idle"
    PROVE  Req(k) \in Reqs /\ call[k].conn \in Conns /\ call[k].id \in Ids
BY DEF CallsOK, CallType, Req, Reqs

\* Leaving exec or Query keeps pending and call typed.
LEMMA LeaveTyped ==
    ASSUME RequestsOK, CallsOK, NEW k \in Callers, call[k].pc # "idle",
           NEW pc \in {"idle", "drop"}, Leave(k, pc)
    PROVE  /\ pending' \in [Conns -> SUBSET Ids]
           /\ call' \in [Callers -> CallType]
           /\ \A j \in Callers : call'[j].pc # "idle" =>
                  call'[j].conn \in Conns /\ call'[j].op \in Ops
<1>1. pending' \in [Conns -> SUBSET Ids]
  BY DEF Leave, RequestsOK
<1>2. Idle \in CallType /\ Idle.pc = "idle"
  BY NilType, ConstantsAssumption DEF Idle, CallType
<1>3. [call[k] EXCEPT !.pc = pc] \in CallType
  BY DEF CallsOK, CallType
<1> QED BY <1>1, <1>2, <1>3 DEF Leave, CallsOK, CallType

\* Giving a stream up keeps curRows and stream typed.
LEMMA GiveUpTyped ==
    ASSUME RequestsOK, StreamsOK, CallsOK, NEW k \in Callers,
           call[k].pc # "idle", GiveUp(k)
    PROVE  curRows' \in [Conns -> Ids \cup {Nil}] /\ StreamsOK'
<1>1. curRows' \in [Conns -> Ids \cup {Nil}]
  BY DEF GiveUp, RequestsOK
<1>2. CASE call[k].op = "QUERY"
  <2>1. stream' = [stream EXCEPT ![Req(k)].done = TRUE]
    BY <1>2 DEF GiveUp, GiveUpStream
  <2> QED BY <1>1, <2>1 DEF StreamsOK, StreamType
<1>3. CASE call[k].op # "QUERY"
  BY <1>1, <1>3 DEF GiveUp, StreamsOK
<1> QED BY <1>2, <1>3

\* Closing a stream's row channel keeps the streams typed.
LEMMA ShutTyped ==
    ASSUME StreamsOK, NEW q, NEW e \in BOOLEAN,
           stream' = [stream EXCEPT ![q].shut = TRUE, ![q].err = e]
    PROVE  StreamsOK'
<1> DEFINE t == [stream[q] EXCEPT !.shut = TRUE, !.err = e]
<1>1. CASE q \in Reqs
  <2>1. stream[q] \in StreamType /\ Len(stream[q].rows) <= RowsCap
    BY <1>1 DEF StreamsOK
  <2>2. t \in StreamType /\ t.rows = stream[q].rows
    BY <2>1 DEF StreamType
  <2>3. stream' = [stream EXCEPT ![q] = t]
    BY <1>1 DEF StreamsOK
  <2> HIDE DEF t
  <2> QED BY <2>1, <2>2, <2>3 DEF StreamsOK
<1>2. CASE q \notin Reqs
  <2>1. stream' = stream
    BY <1>2 DEF StreamsOK
  <2> QED BY <2>1 DEF StreamsOK
<1> QED BY <1>1, <1>2

\* Aborting a stream keeps curRows and stream typed.
LEMMA AbortTyped ==
    ASSUME RequestsOK, StreamsOK, NEW c \in Conns, AbortStream(c)
    PROVE  curRows' \in [Conns -> Ids \cup {Nil}] /\ StreamsOK'
<1>1. curRows' \in [Conns -> Ids \cup {Nil}]
  BY DEF AbortStream, RequestsOK
<1>2. CASE curRows[c] # Nil
  <2>1. stream' = [stream EXCEPT ![<<c, curRows[c]>>].shut = TRUE,
                                 ![<<c, curRows[c]>>].err = TRUE]
    BY <1>2 DEF AbortStream
  <2> QED BY <1>1, <2>1, ShutTyped
<1>3. CASE curRows[c] = Nil
  BY <1>1, <1>3 DEF AbortStream, StreamsOK
<1> QED BY <1>2, <1>3

\* A RESPONSE or END of a request is a frame.
LEMMA ControlTyped ==
    ASSUME NEW kind \in Kinds, NEW r \in Reqs \cup {<<0, 0>>}, NEW ok \in BOOLEAN
    PROVE  /\ Control(kind, r, ok) \in FrameShape
           /\ kind # "row" => Control(kind, r, ok) \in Frame
<1>1. r[1] \in 0..MaxConn /\ r[2] \in Ids
  BY NilType, ConstantsAssumption DEF Reqs, Conns
<1> QED BY <1>1, NoFrameType DEF Control, Frame, FrameShape

\* Writing a frame keeps the pipe typed.
LEMMA EmitTyped ==
    ASSUME SidecarOK, NEW f \in Frame, Emit(f)
    PROVE  stdout' \in Seq(Frame)
BY DEF SidecarOK, Emit

-----------------------------------------------------------------------------
(* Every step keeps the types *)

\* Every step keeps the state typed: one case per action.
LEMMA StepType == TypeOK /\ [Next]_vars => TypeOK'
<1> SUFFICES ASSUME TypeOK, [Next]_vars PROVE TypeOK'
  OBVIOUS
<1> USE DEF TypeOK
<1>1. ASSUME NEW k \in Callers, NewSession(k) PROVE TypeOK'
  <2>1. SessionsOK'
    <3>1. nextConn \in Conns /\ UNCHANGED <<closed, usable>>
      BY <1>1 DEF NewSession
    <3>2. registered' = registered \cup {nextConn} /\ nextConn' = nextConn + 1
      BY <1>1 DEF NewSession
    <3>3. nextConn + 1 \in 1..(MaxConn + 1)
      BY <3>1, ConstantsAssumption DEF Conns
    <3> QED BY <3>1, <3>2, <3>3 DEF SessionsOK
  <2>2. CallsOK'
    <3>1. [pc |-> "lock", conn |-> nextConn, id |-> 0, op |-> "CONNECT"] \in CallType
      BY <1>1, NilType, ConstantsAssumption DEF NewSession, CallType, Ops, Conns
    <3> QED BY <1>1, <3>1 DEF NewSession, CallsOK, Ops
  <2>3. UNCHANGED <<nextID, pending, inbox, curRows, stream, rl, proc, job, stdout>>
    BY <1>1 DEF NewSession, goVars, sidecarVars, goExceptLoop
  <2> QED BY <2>1, <2>2, <2>3 DEF RequestsOK, StreamsOK, LoopOK, SidecarOK
<1>2. ASSUME NEW k \in Callers, NEW c \in Conns, NEW op \in UserOps, Call(k, c, op) PROVE TypeOK'
  <2>1. SessionsOK'
    BY <1>2 DEF Call, SessionsOK
  <2>2. CallsOK'
    <3>1. op \in Ops
      BY ConstantsAssumption DEF Ops
    <3>2. [pc |-> "lock", conn |-> c, id |-> 0, op |-> op] \in CallType
      BY <3>1, NilType, ConstantsAssumption DEF CallType, Conns
    <3> QED BY <1>2, <3>1, <3>2 DEF Call, CallsOK
  <2>3. UNCHANGED <<nextID, pending, inbox, curRows, stream, rl, proc, job, stdout>>
    BY <1>2 DEF Call, goVars, sidecarVars, goExceptLoop
  <2> QED BY <2>1, <2>2, <2>3 DEF RequestsOK, StreamsOK, LoopOK, SidecarOK
<1>3. ASSUME NEW k \in Callers, Lock(k) PROVE TypeOK'
  <2>1. RequestsOK'
    <3>1. call[k].conn \in Conns
      BY <1>3, ReqTyped DEF Lock
    <3>2. nextID[call[k].conn] + 1 \in 0..MaxReq
      BY <1>3, <3>1, ConstantsAssumption DEF Lock, RequestsOK, Ids
    <3> QED BY <1>3, <3>1, <3>2 DEF Lock, RequestsOK
  <2>2. CallsOK'
    <3> DEFINE m == [call[k] EXCEPT !.pc = "write", !.id = nextID[call[k].conn]]
    <3>1. call[k] \in CallType /\ call[k].pc # "idle"
      BY <1>3 DEF Lock, CallsOK
    <3>2. m \in CallType /\ m.conn = call[k].conn /\ m.op = call[k].op
      BY <1>3, <3>1 DEF Lock, CallType
    <3>3. call' = [call EXCEPT ![k] = m] /\ UNCHANGED opened
      BY <1>3 DEF Lock, CallsOK
    <3> HIDE DEF m
    <3> QED BY <3>1, <3>2, <3>3 DEF CallsOK
  <2>3. UNCHANGED <<registered, usable, nextConn, closed, stream, rl, proc, job, stdout>>
    BY <1>3 DEF Lock, goVars, sidecarVars, goExceptLoop
  <2> QED BY <2>1, <2>2, <2>3 DEF SessionsOK, StreamsOK, LoopOK, SidecarOK
<1>4. ASSUME NEW k \in Callers, Write(k) PROVE TypeOK'
  <2>1. RequestsOK'
    <3>1. pending' \in [Conns -> SUBSET Ids]
      BY <1>4, LeaveTyped DEF Write, AfterFailure, RequestsOK
    <3> QED BY <1>4, <3>1 DEF Write, RequestsOK
  <2>2. CallsOK'
    <3>1. CASE Alive
      BY <1>4, <3>1 DEF Write, CallsOK, CallType
    <3>2. CASE ~Alive
      BY <1>4, <3>2, LeaveTyped DEF Write, AfterFailure, CallsOK
    <3> QED BY <3>1, <3>2
  <2>3. SidecarOK'
    <3>1. [st |-> "run", op |-> call[k].op, sent |-> 0] \in JobType
      BY ConstantsAssumption DEF JobType, CallsOK, CallType
    <3> QED BY <1>4, <3>1 DEF Write, SidecarOK
  <2>4. UNCHANGED <<registered, usable, nextConn, closed, stream, rl>>
    BY <1>4 DEF Write, goVars, sidecarVars, goExceptLoop
  <2> QED BY <2>1, <2>2, <2>3, <2>4 DEF SessionsOK, StreamsOK, LoopOK
<1>5. ASSUME NEW k \in Callers, Receive(k) PROVE TypeOK'
  <2>1. SessionsOK'
    BY <1>5, ReqTyped DEF Receive, SessionsOK
  <2>2. RequestsOK'
    <3>1. pending' \in [Conns -> SUBSET Ids]
      BY <1>5, LeaveTyped DEF Receive, AfterFailure
    <3>2. curRows' \in [Conns -> Ids \cup {Nil}]
      BY <1>5, GiveUpTyped DEF Receive, RequestsOK
    <3> QED BY <1>5, <3>1, <3>2 DEF Receive, RequestsOK
  <2>3. StreamsOK'
    BY <1>5, GiveUpTyped DEF Receive, StreamsOK
  <2>4. CallsOK'
    <3>1. opened' \in [Callers -> SUBSET Reqs]
      BY <1>5, ReqTyped DEF Receive, CallsOK
    <3>2. \E pc \in {"idle", "drop"} : Leave(k, pc)
      BY <1>5 DEF Receive, AfterFailure
    <3> QED BY <1>5, <3>1, <3>2, LeaveTyped DEF Receive, CallsOK
  <2>5. UNCHANGED <<rl, proc, job, stdout>>
    BY <1>5 DEF Receive, goVars, sidecarVars, goExceptLoop
  <2> QED BY <2>1, <2>2, <2>3, <2>4, <2>5 DEF LoopOK, SidecarOK
<1>6. ASSUME NEW k \in Callers, Cancelled(k) PROVE TypeOK'
  <2>1. RequestsOK'
    <3>1. pending' \in [Conns -> SUBSET Ids]
      BY <1>6, LeaveTyped DEF Cancelled, AfterFailure
    <3>2. curRows' \in [Conns -> Ids \cup {Nil}]
      BY <1>6, GiveUpTyped DEF Cancelled
    <3> QED BY <1>6, <3>1, <3>2 DEF Cancelled, RequestsOK
  <2>2. StreamsOK'
    BY <1>6, GiveUpTyped DEF Cancelled
  <2>3. CallsOK'
    BY <1>6, LeaveTyped DEF Cancelled, AfterFailure, CallsOK
  <2>4. UNCHANGED <<registered, usable, nextConn, closed, rl, proc, job, stdout>>
    BY <1>6 DEF Cancelled, goVars, sidecarVars, goExceptLoop
  <2> QED BY <2>1, <2>2, <2>3, <2>4 DEF SessionsOK, LoopOK, SidecarOK
<1>7. ASSUME NEW k \in Callers, Abandon(k) PROVE TypeOK'
  <2>1. RequestsOK'
    <3>1. pending' \in [Conns -> SUBSET Ids]
      BY <1>7, LeaveTyped DEF Abandon, AfterFailure
    <3>2. curRows' \in [Conns -> Ids \cup {Nil}]
      BY <1>7, GiveUpTyped DEF Abandon
    <3> QED BY <1>7, <3>1, <3>2 DEF Abandon, RequestsOK
  <2>2. StreamsOK'
    BY <1>7, GiveUpTyped DEF Abandon
  <2>3. CallsOK'
    BY <1>7, LeaveTyped DEF Abandon, AfterFailure, CallsOK
  <2>4. UNCHANGED <<registered, usable, nextConn, closed, rl, proc, job, stdout>>
    BY <1>7 DEF Abandon, goVars, sidecarVars, goExceptLoop
  <2> QED BY <2>1, <2>2, <2>3, <2>4 DEF SessionsOK, LoopOK, SidecarOK
<1>8. ASSUME NEW k \in Callers, Drop(k) PROVE TypeOK'
  <2>1. SessionsOK'
    BY <1>8 DEF Drop, SessionsOK
  <2>2. CallsOK'
    <3>1. Idle \in CallType /\ Idle.pc = "idle"
      BY NilType, ConstantsAssumption DEF Idle, CallType
    <3> QED BY <1>8, <3>1 DEF Drop, CallsOK
  <2>3. UNCHANGED <<nextID, pending, inbox, curRows, stream, rl, proc, job, stdout>>
    BY <1>8 DEF Drop, goVars, sidecarVars, goExceptLoop
  <2> QED BY <2>1, <2>2, <2>3 DEF RequestsOK, StreamsOK, LoopOK, SidecarOK
<1>9. ASSUME NEW k \in Callers, NEW r \in Reqs, NextRow(k, r) PROVE TypeOK'
  <2>1. StreamsOK'
    <3> DEFINE s == stream[r]
    <3>1. s \in StreamType /\ Len(s.rows) <= RowsCap
      BY DEF StreamsOK
    <3>2. /\ Tail(s.rows) \in Seq(Row) /\ Head(s.rows) \in Row
          /\ Len(Tail(s.rows)) <= RowsCap
      BY <1>9, <3>1, ConstantsAssumption DEF NextRow, StreamType
    <3>3. Append(s.got, Head(s.rows)) \in Seq(Row)
      BY <3>1, <3>2 DEF StreamType
    <3>4. [s EXCEPT !.rows = Tail(s.rows), !.got = Append(s.got, Head(s.rows))] \in StreamType
      BY <3>1, <3>2, <3>3 DEF StreamType
    <3>5. stream' = [stream EXCEPT ![r] = [s EXCEPT !.rows = Tail(s.rows),
                                                    !.got = Append(s.got, Head(s.rows))]]
      BY <1>9 DEF NextRow, StreamsOK
    <3>6. [s EXCEPT !.rows = Tail(s.rows), !.got = Append(s.got, Head(s.rows))].rows = Tail(s.rows)
      BY <3>1 DEF StreamType
    <3> HIDE DEF s
    <3> QED BY <3>2, <3>4, <3>5, <3>6 DEF StreamsOK
  <2>2. UNCHANGED <<registered, usable, nextConn, closed, nextID, pending, inbox, curRows, call, opened, rl, proc, job, stdout>>
    BY <1>9 DEF NextRow, goVars, sidecarVars, goExceptLoop
  <2> QED BY <2>1, <2>2 DEF SessionsOK, RequestsOK, CallsOK, LoopOK, SidecarOK
<1>10. ASSUME NEW k \in Callers, NEW r \in Reqs, NextEnd(k, r) PROVE TypeOK'
  <2>1. StreamsOK'
    <3> DEFINE t == [stream[r] EXCEPT !.verdict = IF stream[r].err THEN "err" ELSE "eof"]
    <3>1. stream[r] \in StreamType /\ Len(stream[r].rows) <= RowsCap
      BY DEF StreamsOK
    <3>2. t \in StreamType /\ t.rows = stream[r].rows
      BY <3>1 DEF StreamType
    <3>3. stream' = [stream EXCEPT ![r] = t]
      BY <1>10 DEF NextEnd, StreamsOK
    <3> HIDE DEF t
    <3> QED BY <3>1, <3>2, <3>3 DEF StreamsOK
  <2>2. CallsOK'
    BY <1>10 DEF NextEnd, CallsOK
  <2>3. UNCHANGED <<registered, usable, nextConn, closed, nextID, pending, inbox, curRows, rl, proc, job, stdout>>
    BY <1>10 DEF NextEnd, goVars, sidecarVars, goExceptLoop
  <2> QED BY <2>1, <2>2, <2>3 DEF SessionsOK, RequestsOK, LoopOK, SidecarOK
<1>11. ASSUME NEW k \in Callers, NEW r \in Reqs, CloseStream(k, r) PROVE TypeOK'
  <2>1. StreamsOK'
    BY <1>11 DEF CloseStream, GiveUpStream, StreamsOK, StreamType
  <2>2. CallsOK'
    BY <1>11 DEF CloseStream, CallsOK
  <2>3. UNCHANGED <<registered, usable, nextConn, closed, nextID, pending, inbox, curRows, rl, proc, job, stdout>>
    BY <1>11 DEF CloseStream, goVars, sidecarVars, goExceptLoop
  <2> QED BY <2>1, <2>2, <2>3 DEF SessionsOK, RequestsOK, LoopOK, SidecarOK
<1>12. ASSUME ReadFrame PROVE TypeOK'
  <2>1. LoopOK'
    <3>1. Head(stdout) \in Frame
      BY <1>12 DEF ReadFrame, SidecarOK
    <3>2. CASE Head(stdout).conn \in registered
      <4>1. rl' = Loop("dispatch", Head(stdout))
        BY <1>12, <3>2 DEF ReadFrame
      <4> QED BY <3>1, <3>2, <4>1, LoopTyped DEF LoopOK, Loop, SessionsOK
    <3>3. CASE Head(stdout).conn \notin registered
      <4>1. rl' = Loop("snapshot", NoFrame) \/ rl' = Loop("read", NoFrame)
        BY <1>12, <3>3 DEF ReadFrame
      <4> QED BY <4>1, NoFrameType, LoopTyped DEF LoopOK, Loop
    <3> QED BY <3>2, <3>3
  <2>2. SidecarOK'
    BY <1>12 DEF ReadFrame, SidecarOK
  <2>3. UNCHANGED <<registered, usable, nextConn, closed, nextID, pending, inbox, curRows, stream, call, opened>>
    BY <1>12 DEF ReadFrame, goVars, sidecarVars, goExceptLoop
  <2> QED BY <2>1, <2>2, <2>3 DEF SessionsOK, RequestsOK, StreamsOK, CallsOK
<1>13. ASSUME DispatchResponse PROVE TypeOK'
  <2>1. RequestsOK'
    BY <1>13 DEF DispatchResponse, RequestsOK, goExceptLoop
  <2>2. LoopOK'
    <3>1. rl' = Loop("read", NoFrame)
      BY <1>13 DEF DispatchResponse
    <3> QED BY <3>1, NoFrameType, LoopTyped DEF LoopOK, Loop
  <2>3. UNCHANGED <<registered, usable, nextConn, closed, stream, call, opened, proc, job, stdout>>
    BY <1>13 DEF DispatchResponse, goVars, sidecarVars, goExceptLoop
  <2> QED BY <2>1, <2>2, <2>3 DEF SessionsOK, StreamsOK, CallsOK, SidecarOK
<1>14. ASSUME DispatchRow PROVE TypeOK'
  <2>1. LoopOK'
    <3>1. rl.f \in Frame /\ rl.f.conn \in Conns
      BY <1>14 DEF DispatchRow, LoopOK, LoopType
    <3>2. CASE IsCurrent(rl.f)
      <4>1. rl' = [Loop("send", rl.f) EXCEPT !.to = curRows[rl.f.conn]]
        BY <1>14, <3>2 DEF DispatchRow
      <4>2. curRows[rl.f.conn] \in Ids
        BY <3>1, <3>2 DEF IsCurrent, Frame, FrameShape
      <4>3. rl.f.kind = "row"
        BY <1>14 DEF DispatchRow
      <4>4. Loop("send", rl.f) \in LoopType
        BY <3>1, LoopTyped
      <4> QED BY <3>1, <4>1, <4>2, <4>3, <4>4 DEF LoopOK, Loop, LoopType
    <3>3. CASE ~IsCurrent(rl.f)
      <4>1. rl' = Loop("read", NoFrame)
        BY <1>14, <3>3 DEF DispatchRow
      <4> QED BY <4>1, NoFrameType, LoopTyped DEF LoopOK, Loop
    <3> QED BY <3>2, <3>3
  <2>2. UNCHANGED <<registered, usable, nextConn, closed, nextID, pending, inbox, curRows, stream, call, opened, proc, job, stdout>>
    BY <1>14 DEF DispatchRow, goVars, sidecarVars, goExceptLoop
  <2> QED BY <2>1, <2>2 DEF SessionsOK, RequestsOK, StreamsOK, CallsOK, SidecarOK
<1>15. ASSUME SendRow PROVE TypeOK'
  <2>1. StreamsOK'
    <3>1. Target \in Reqs /\ <<rl.f.id, rl.f.row>> \in Row
      BY <1>15, ConstantsAssumption DEF SendRow, Target, Reqs, LoopOK, LoopType, Row, Frame, FrameShape
    <3> DEFINE s == stream[Target]
               x == <<rl.f.id, rl.f.row>>
    <3>2. s \in StreamType
      BY <3>1 DEF StreamsOK
    <3>3. CASE FreeSlot(Target) /\ stream' = [stream EXCEPT ![Target].rows = Append(stream[Target].rows, x)]
      <4>1. Append(s.rows, x) \in Seq(Row) /\ Len(Append(s.rows, x)) <= RowsCap
        BY <3>1, <3>2, <3>3, ConstantsAssumption DEF FreeSlot, StreamType
      <4>2. [s EXCEPT !.rows = Append(s.rows, x)] \in StreamType
        BY <3>2, <4>1 DEF StreamType
      <4>3. [s EXCEPT !.rows = Append(s.rows, x)].rows = Append(s.rows, x)
        BY <3>2 DEF StreamType
      <4>4. stream' = [stream EXCEPT ![Target] = [s EXCEPT !.rows = Append(s.rows, x)]]
        BY <3>1, <3>3 DEF StreamsOK
      <4> HIDE DEF s, x
      <4> QED BY <4>1, <4>2, <4>3, <4>4 DEF StreamsOK
    <3>4. CASE UNCHANGED stream
      BY <3>4 DEF StreamsOK
    <3> QED BY <1>15, <3>3, <3>4 DEF SendRow
  <2>2. LoopOK'
    BY <1>15, NoFrameType, LoopTyped DEF SendRow, LoopOK, Loop
  <2>3. UNCHANGED <<registered, usable, nextConn, closed, nextID, pending, inbox, curRows, call, opened, proc, job, stdout>>
    BY <1>15 DEF SendRow, goVars, sidecarVars, goExceptLoop
  <2> QED BY <2>1, <2>2, <2>3 DEF SessionsOK, RequestsOK, CallsOK, SidecarOK
<1>16. ASSUME DispatchEnd PROVE TypeOK'
  <2>1. RequestsOK'
    BY <1>16 DEF DispatchEnd, AfterEnd, RequestsOK, goExceptLoop
  <2>2. StreamsOK'
    <3>1. CASE IsCurrent(rl.f)
      <4>1. EndErr(rl.f) \in BOOLEAN
        BY DEF EndErr
      <4>2. stream' = [stream EXCEPT ![<<rl.f.conn, curRows[rl.f.conn]>>].shut = TRUE,
                 ![<<rl.f.conn, curRows[rl.f.conn]>>].err = EndErr(rl.f)]
        BY <1>16, <3>1 DEF DispatchEnd
      <4> QED BY <4>1, <4>2, ShutTyped
    <3>2. CASE ~IsCurrent(rl.f)
      BY <1>16, <3>2 DEF DispatchEnd, StreamsOK
    <3> QED BY <3>1, <3>2
  <2>3. LoopOK'
    <3>1. rl' = Loop("read", NoFrame)
      BY <1>16 DEF DispatchEnd
    <3> QED BY <3>1, NoFrameType, LoopTyped DEF LoopOK, Loop
  <2>4. UNCHANGED <<registered, usable, nextConn, closed, call, opened, proc, job, stdout>>
    BY <1>16 DEF DispatchEnd, goVars, sidecarVars, goExceptLoop
  <2> QED BY <2>1, <2>2, <2>3, <2>4 DEF SessionsOK, CallsOK, SidecarOK
<1>17. ASSUME DispatchBadRow PROVE TypeOK'
  <2>1. RequestsOK'
    BY <1>17, AbortTyped DEF DispatchBadRow, RequestsOK, goExceptLoop, LoopOK
  <2>2. StreamsOK'
    BY <1>17, AbortTyped DEF DispatchBadRow, LoopOK
  <2>3. LoopOK'
    <3>1. rl' = Loop("read", NoFrame)
      BY <1>17 DEF DispatchBadRow
    <3> QED BY <3>1, NoFrameType, LoopTyped DEF LoopOK, Loop
  <2>4. UNCHANGED <<registered, usable, nextConn, closed, call, opened, proc, job, stdout>>
    BY <1>17 DEF DispatchBadRow, goVars, sidecarVars, goExceptLoop
  <2> QED BY <2>1, <2>2, <2>3, <2>4 DEF SessionsOK, CallsOK, SidecarOK
<1>18. ASSUME ReadFails PROVE TypeOK'
  <2>1. SessionsOK'
    BY <1>18 DEF ReadFails, SessionsOK, goExceptLoop
  <2>2. LoopOK'
    <3>1. rl' = [Loop("snapshot", NoFrame) EXCEPT !.final = TRUE]
      BY <1>18 DEF ReadFails
    <3> QED BY <3>1, NoFrameType DEF LoopOK, Loop, LoopType
  <2>3. UNCHANGED <<nextID, pending, inbox, curRows, stream, call, opened, proc, job, stdout>>
    BY <1>18 DEF ReadFails, goVars, sidecarVars, goExceptLoop
  <2> QED BY <2>1, <2>2, <2>3 DEF RequestsOK, StreamsOK, CallsOK, SidecarOK
<1>19. ASSUME AbortSnapshot PROVE TypeOK'
  <2>1. LoopOK'
    BY <1>19 DEF AbortSnapshot, AbortTodo, LoopOK, LoopType, SessionsOK
  <2>2. UNCHANGED <<registered, usable, nextConn, closed, nextID, pending, inbox, curRows, stream, call, opened, proc, job, stdout>>
    BY <1>19 DEF AbortSnapshot, goVars, sidecarVars, goExceptLoop
  <2> QED BY <2>1, <2>2 DEF SessionsOK, RequestsOK, StreamsOK, CallsOK, SidecarOK
<1>20. ASSUME NEW c \in Conns, AbortOne(c) PROVE TypeOK'
  <2>1. RequestsOK'
    BY <1>20, AbortTyped DEF AbortOne, RequestsOK, goExceptLoop
  <2>2. StreamsOK'
    BY <1>20, AbortTyped DEF AbortOne
  <2>3. LoopOK'
    BY <1>20 DEF AbortOne, LoopOK, LoopType
  <2>4. UNCHANGED <<registered, usable, nextConn, closed, call, opened, proc, job, stdout>>
    BY <1>20 DEF AbortOne, goVars, sidecarVars, goExceptLoop
  <2> QED BY <2>1, <2>2, <2>3, <2>4 DEF SessionsOK, CallsOK, SidecarOK
<1>21. ASSUME AbortDone PROVE TypeOK'
  <2>1. LoopOK'
    <3>1. rl' = Loop("exit", NoFrame) \/ rl' = Loop("read", NoFrame)
      BY <1>21 DEF AbortDone
    <3> QED BY <3>1, NoFrameType, LoopTyped DEF LoopOK, Loop
  <2>2. UNCHANGED <<registered, usable, nextConn, closed, nextID, pending, inbox, curRows, stream, call, opened, proc, job, stdout>>
    BY <1>21 DEF AbortDone, goVars, sidecarVars, goExceptLoop
  <2> QED BY <2>1, <2>2 DEF SessionsOK, RequestsOK, StreamsOK, CallsOK, SidecarOK
<1>22. ASSUME ProcClose PROVE TypeOK'
  <2>1. SessionsOK'
    BY <1>22 DEF ProcClose, SessionsOK, goExceptLoop
  <2>2. SidecarOK'
    BY <1>22 DEF ProcClose, SidecarOK
  <2>3. UNCHANGED <<nextID, pending, inbox, curRows, stream, call, opened, rl>>
    BY <1>22 DEF ProcClose, goVars, sidecarVars, goExceptLoop
  <2> QED BY <2>1, <2>2, <2>3 DEF RequestsOK, StreamsOK, CallsOK, LoopOK
<1>23. ASSUME Die PROVE TypeOK'
  <2>1. SidecarOK'
    BY <1>23 DEF Die, SidecarOK
  <2>2. UNCHANGED <<registered, usable, nextConn, closed, nextID, pending, inbox, curRows, stream, call, opened, rl>>
    BY <1>23 DEF Die, goVars, sidecarVars, goExceptLoop
  <2> QED BY <2>1, <2>2 DEF SessionsOK, RequestsOK, StreamsOK, CallsOK, LoopOK
<1>24. ASSUME NEW r \in Reqs, NEW ok \in BOOLEAN, Respond(r, ok) PROVE TypeOK'
  <2>1. SidecarOK'
    <3>1. Control("resp", r, ok) \in Frame
      BY ControlTyped DEF Kinds
    <3>2. stdout' \in Seq(Frame)
      BY <1>24, <3>1, EmitTyped DEF Respond
    <3> QED BY <1>24, <3>2 DEF Respond, SidecarOK, JobType
  <2>2. UNCHANGED <<registered, usable, nextConn, closed, nextID, pending, inbox, curRows, stream, call, opened, rl>>
    BY <1>24 DEF Respond, goVars, sidecarVars, goExceptLoop
  <2> QED BY <2>1, <2>2 DEF SessionsOK, RequestsOK, StreamsOK, CallsOK, LoopOK
<1>25. ASSUME NEW r \in Reqs, RespondHeader(r) PROVE TypeOK'
  <2>1. SidecarOK'
    <3>1. Control("resp", r, TRUE) \in Frame
      BY ControlTyped DEF Kinds
    <3>2. stdout' \in Seq(Frame)
      BY <1>25, <3>1, EmitTyped DEF RespondHeader
    <3> QED BY <1>25, <3>2 DEF RespondHeader, SidecarOK, JobType
  <2>2. UNCHANGED <<registered, usable, nextConn, closed, nextID, pending, inbox, curRows, stream, call, opened, rl>>
    BY <1>25 DEF RespondHeader, goVars, sidecarVars, goExceptLoop
  <2> QED BY <2>1, <2>2 DEF SessionsOK, RequestsOK, StreamsOK, CallsOK, LoopOK
<1>26. ASSUME NEW r \in Reqs, EmitRow(r) PROVE TypeOK'
  <2>1. SidecarOK'
    <3>1. job[r].sent + 1 \in 0..MaxRows /\ job[r].sent + 1 # 0
      BY <1>26, ConstantsAssumption DEF EmitRow, SidecarOK, JobType
    <3>2. [Control("row", r, TRUE) EXCEPT !.row = job[r].sent + 1] \in Frame
      <4>1. Control("row", r, TRUE) \in FrameShape
        BY ControlTyped DEF Kinds
      <4> QED BY <3>1, <4>1 DEF Frame, FrameShape
    <3>3. stdout' \in Seq(Frame)
      BY <1>26, <3>2, EmitTyped DEF EmitRow
    <3> QED BY <1>26, <3>1, <3>3 DEF EmitRow, SidecarOK, JobType
  <2>2. UNCHANGED <<registered, usable, nextConn, closed, nextID, pending, inbox, curRows, stream, call, opened, rl>>
    BY <1>26 DEF EmitRow, goVars, sidecarVars, goExceptLoop
  <2> QED BY <2>1, <2>2 DEF SessionsOK, RequestsOK, StreamsOK, CallsOK, LoopOK
<1>27. ASSUME NEW r \in Reqs, NEW kind \in Faults, EmitFault(r, kind) PROVE TypeOK'
  <2>1. SidecarOK'
    <3>1. job[r].sent + 1 \in 0..MaxRows
      BY <1>27, ConstantsAssumption DEF EmitFault, SidecarOK, JobType
    <3>2. kind \in Kinds /\ kind # "row"
      BY ConstantsAssumption DEF Kinds, FaultKinds
    <3>3. Control(kind, IF kind = "badrow" THEN r ELSE <<0, 0>>, FALSE) \in Frame
      BY <3>2, ControlTyped
    <3>4. stdout' \in Seq(Frame)
      BY <1>27, <3>3, EmitTyped DEF EmitFault
    <3> QED BY <1>27, <3>1, <3>4 DEF EmitFault, SidecarOK, JobType
  <2>2. UNCHANGED <<registered, usable, nextConn, closed, nextID, pending, inbox, curRows, stream, call, opened, rl>>
    BY <1>27 DEF EmitFault, goVars, sidecarVars, goExceptLoop
  <2> QED BY <2>1, <2>2 DEF SessionsOK, RequestsOK, StreamsOK, CallsOK, LoopOK
<1>28. ASSUME NEW r \in Reqs, NEW ok \in BOOLEAN, EmitEnd(r, ok) PROVE TypeOK'
  <2>1. SidecarOK'
    <3>1. Control("end", r, ok) \in Frame
      BY ControlTyped DEF Kinds
    <3>2. stdout' \in Seq(Frame)
      BY <1>28, <3>1, EmitTyped DEF EmitEnd
    <3>3. \A st \in {"over", "failed"} : [job[r] EXCEPT !.st = st] \in JobType
      BY DEF SidecarOK, JobType
    <3>4. \E st \in {"over", "failed"} : job' = [job EXCEPT ![r] = [job[r] EXCEPT !.st = st]]
      BY <1>28 DEF EmitEnd, SidecarOK
    <3>5. UNCHANGED proc
      BY <1>28 DEF EmitEnd
    <3> QED BY <3>2, <3>3, <3>4, <3>5 DEF SidecarOK
  <2>2. UNCHANGED <<registered, usable, nextConn, closed, nextID, pending, inbox, curRows, stream, call, opened, rl>>
    BY <1>28 DEF EmitEnd, goVars, sidecarVars, goExceptLoop
  <2> QED BY <2>1, <2>2 DEF SessionsOK, RequestsOK, StreamsOK, CallsOK, LoopOK
<1>29. CASE Finished \/ UNCHANGED vars
  BY <1>29 DEF Finished, vars, goVars, sidecarVars, SessionsOK, RequestsOK, StreamsOK,
     CallsOK, LoopOK, SidecarOK
<1> QED
  BY <1>1, <1>2, <1>3, <1>4, <1>5, <1>6, <1>7, <1>8, <1>9, <1>10, <1>11, <1>12,
     <1>13, <1>14, <1>15, <1>16, <1>17, <1>18, <1>19, <1>20, <1>21, <1>22, <1>23, <1>24,
     <1>25, <1>26, <1>27, <1>28, <1>29
  DEF Next, Caller, CallStep, Read, ReadLoop, Handle

\* Every reachable state is well typed.
THEOREM TypeCorrect == Spec => []TypeOK
<1>1. Init => TypeOK
  BY InitType
<1>2. TypeOK /\ [Next]_vars => TypeOK'
  BY StepType
<1> QED BY <1>1, <1>2, PTL DEF Spec

\* The components of a request.
LEMMA ReqParts == \A r \in Reqs : r[1] \in Conns /\ r[2] \in Ids /\ r[2] \in Nat
BY NilType DEF Reqs

\* The current stream of a session is a stream of that session.
LEMMA CurrentTyped ==
    ASSUME RequestsOK, NEW c \in Conns, curRows[c] # Nil
    PROVE  /\ curRows[c] \in Ids /\ curRows[c] \in Nat
           /\ nextID[c] \in Nat
           /\ <<c, curRows[c]>> \in Reqs
<1>1. curRows[c] \in Ids
  BY DEF RequestsOK
<1>2. curRows[c] \in Nat
  BY <1>1, NilType
<1>3. nextID[c] \in Nat
  BY ConstantsAssumption DEF RequestsOK
<1> QED BY <1>1, <1>2, <1>3 DEF Reqs

-----------------------------------------------------------------------------
(* Channels: what a step does to the streams' channels *)

\* Steps that close no channel and make no stream current.
LEMMA ChannelKept ==
    ASSUME ChannelInv, UNCHANGED <<nextID, curRows>>,
           \A r \in Reqs : stream'[r].shut = stream[r].shut,
           CallsOK, LoopOK, RequestsOK,
           rl'.pc = "send" => rl.pc = "send" /\ rl'.to = rl.to /\ rl'.f.conn = rl.f.conn
    PROVE  ChannelInv'
<1>1. CurrentIssued' /\ FreshOpen'
  BY DEF ChannelInv, CurrentIssued, FreshOpen
<1>2. \A c \in Conns : curRows[c] # Nil => <<c, curRows[c]>> \in Reqs
  BY DEF RequestsOK, Reqs
<1>3. rl.pc = "send" => Target \in Reqs
  BY DEF LoopOK, Target, Reqs
<1>4. NoChannelPanic'
  BY <1>2, <1>3 DEF ChannelInv, NoChannelPanic, Target
<1> QED BY <1>1, <1>4 DEF ChannelInv

\* Query giving its stream up closes done, not rows.
LEMMA ChannelGiveUp ==
    ASSUME TypeOK, ChannelInv, NEW k \in Callers, call[k].pc # "idle",
           GiveUp(k), UNCHANGED <<nextID, rl>>
    PROVE  ChannelInv'
<1>1. \A r \in Reqs : stream'[r].shut = stream[r].shut
  <2>1. CASE call[k].op = "QUERY"
    <3>1. stream' = [stream EXCEPT ![Req(k)].done = TRUE]
      BY <2>1 DEF GiveUp, GiveUpStream
    <3> QED BY <3>1 DEF TypeOK, StreamsOK, StreamType
  <2>2. CASE call[k].op # "QUERY"
    BY <2>2 DEF GiveUp
  <2> QED BY <2>1, <2>2
<1>2. \A c \in Conns : curRows'[c] # Nil => curRows'[c] = curRows[c]
  BY DEF GiveUp, TypeOK, RequestsOK
<1>3. CurrentIssued' /\ FreshOpen'
  BY <1>1, <1>2 DEF ChannelInv, CurrentIssued, FreshOpen
<1>4. \A c \in Conns : curRows[c] # Nil => <<c, curRows[c]>> \in Reqs
  BY DEF TypeOK, RequestsOK, Reqs
<1>5. rl.pc = "send" => Target \in Reqs
  BY DEF TypeOK, LoopOK, Target, Reqs
<1>6. NoChannelPanic'
  BY <1>1, <1>2, <1>4, <1>5 DEF ChannelInv, NoChannelPanic, Target
<1> QED BY <1>3, <1>6 DEF ChannelInv

\* readLoop closing the current stream of one session, and only that one.
LEMMA ChannelShut ==
    ASSUME TypeOK, ChannelInv, NEW c \in Conns, curRows[c] # Nil,
           curRows' = [curRows EXCEPT ![c] = Nil],
           \A r \in Reqs : r # <<c, curRows[c]>> => stream'[r].shut = stream[r].shut,
           UNCHANGED nextID, rl'.pc # "send"
    PROVE  ChannelInv'
<1>1. \A d \in Conns : curRows'[d] # Nil => curRows'[d] = curRows[d] /\ d # c
  BY DEF TypeOK, RequestsOK
<1>2. CurrentIssued'
  BY <1>1 DEF ChannelInv, CurrentIssued
<1>3. FreshOpen'
  <2> SUFFICES ASSUME NEW r \in Reqs, r[2] >= nextID[r[1]] PROVE ~stream'[r].shut
    BY DEF FreshOpen
  <2>1. curRows[c] < nextID[c]
    BY DEF ChannelInv, CurrentIssued
  <2>2. curRows[c] \in Nat /\ nextID[c] \in Nat
    BY CurrentTyped DEF TypeOK
  <2>3. r # <<c, curRows[c]>>
    BY <2>1, <2>2
  <2> QED BY <2>3 DEF ChannelInv, FreshOpen
<1>4. NoChannelPanic'
  <2>1. \A d \in Conns : curRows[d] # Nil => <<d, curRows[d]>> \in Reqs
    BY DEF TypeOK, RequestsOK, Reqs
  <2> QED BY <1>1, <2>1 DEF ChannelInv, NoChannelPanic
<1> QED BY <1>2, <1>3, <1>4 DEF ChannelInv

\* abortStream clears curRows together with closing the channel.
LEMMA ChannelAbort ==
    ASSUME TypeOK, ChannelInv, NEW c \in Conns, AbortStream(c),
           UNCHANGED nextID, rl'.pc # "send"
    PROVE  ChannelInv'
<1>1. CASE curRows[c] = Nil
  BY <1>1, ChannelKept DEF AbortStream, TypeOK
<1>2. CASE curRows[c] # Nil
  <2>1. \A r \in Reqs : r # <<c, curRows[c]>> => stream'[r].shut = stream[r].shut
    BY <1>2 DEF AbortStream, TypeOK, StreamsOK
  <2> QED BY <1>2, <2>1, ChannelShut DEF AbortStream
<1> QED BY <1>1, <1>2

\* Every step keeps ChannelInv: one case per action.
LEMMA StepChannel == TypeOK /\ ChannelInv /\ [Next]_vars => ChannelInv'
<1> SUFFICES ASSUME TypeOK, ChannelInv, [Next]_vars PROVE ChannelInv'
  OBVIOUS
<1> USE DEF TypeOK
<1>1. ASSUME UNCHANGED <<nextID, curRows, stream, rl>> PROVE ChannelInv'
  BY <1>1, ChannelKept
<1>2. ASSUME NEW k \in Callers,
             \/ NewSession(k) \/ \E c \in Conns, op \in UserOps : Call(k, c, op)
             \/ Write(k) \/ Drop(k)
      PROVE  ChannelInv'
  BY <1>1, <1>2 DEF NewSession, Call, Write, Drop
<1>3. ASSUME NEW k \in Callers, Lock(k) PROVE ChannelInv'
  <2> DEFINE c == call[k].conn
             i == nextID[c]
  <2>1. c \in Conns /\ i \in Ids /\ i \in Nat /\ UNCHANGED <<stream, rl>>
        /\ nextID' = [nextID EXCEPT ![c] = i + 1]
    BY <1>3, ReqTyped, NilType DEF Lock
  <2>2. \A d \in Conns : nextID[d] \in Nat /\ nextID'[d] \in Nat /\ nextID[d] <= nextID'[d]
    BY <2>1, ConstantsAssumption DEF RequestsOK
  <2>3. \A d \in Conns : curRows'[d] = curRows[d] \/ (d = c /\ curRows'[d] = i)
    BY <1>3, <2>1 DEF Lock, RequestsOK
  <2> HIDE DEF c, i
  <2>4. CurrentIssued'
    <3> SUFFICES ASSUME NEW d \in Conns, curRows'[d] # Nil PROVE curRows'[d] < nextID'[d]
      BY DEF CurrentIssued
    <3>1. CASE curRows'[d] = curRows[d]
      <4>1. curRows[d] \in Nat /\ curRows[d] < nextID[d]
        BY <3>1, NilType DEF ChannelInv, CurrentIssued, RequestsOK
      <4> QED BY <2>2, <3>1, <4>1
    <3>2. CASE d = c /\ curRows'[d] = i
      <4>1. nextID'[c] = i + 1
        BY <2>1, <3>2 DEF RequestsOK
      <4> QED BY <2>1, <3>2, <4>1
    <3> QED BY <2>3, <3>1, <3>2
  <2>5. FreshOpen'
    <3> SUFFICES ASSUME NEW r \in Reqs, r[2] >= nextID'[r[1]] PROVE ~stream'[r].shut
      BY DEF FreshOpen
    <3>1. r[2] >= nextID[r[1]]
      BY <2>2, ReqParts
    <3> QED BY <2>1, <3>1 DEF ChannelInv, FreshOpen
  <2>6. ~stream[<<c, i>>].shut
    <3>1. <<c, i>> \in Reqs /\ i >= nextID[c]
      BY <2>1 DEF Reqs, i
    <3> QED BY <3>1 DEF ChannelInv, FreshOpen
  <2>7. NoChannelPanic'
    BY <2>1, <2>3, <2>6 DEF ChannelInv, NoChannelPanic, Target
  <2> QED BY <2>4, <2>5, <2>7 DEF ChannelInv
<1>4. ASSUME NEW k \in Callers, Receive(k) PROVE ChannelInv'
  <2>1. CASE UNCHANGED <<curRows, stream>>
    BY <1>1, <1>4, <2>1 DEF Receive
  <2>2. CASE GiveUp(k)
    BY <1>4, <2>2, ChannelGiveUp DEF Receive
  <2> QED BY <1>4, <2>1, <2>2 DEF Receive
<1>5. ASSUME NEW k \in Callers, Cancelled(k) PROVE ChannelInv'
  BY <1>5, ChannelGiveUp DEF Cancelled
<1>6. ASSUME NEW k \in Callers, Abandon(k) PROVE ChannelInv'
  BY <1>6, ChannelGiveUp DEF Abandon
<1>7. ASSUME NEW k \in Callers, NEW r \in Reqs, NextRow(k, r) PROVE ChannelInv'
  <2>1. \A q \in Reqs : stream'[q].shut = stream[q].shut
    BY <1>7 DEF NextRow, StreamsOK, StreamType
  <2> QED BY <1>7, <2>1, ChannelKept DEF NextRow
<1>8. ASSUME NEW k \in Callers, NEW r \in Reqs, NextEnd(k, r) PROVE ChannelInv'
  <2>1. \A q \in Reqs : stream'[q].shut = stream[q].shut
    BY <1>8 DEF NextEnd, StreamsOK, StreamType
  <2> QED BY <1>8, <2>1, ChannelKept DEF NextEnd
<1>9. ASSUME NEW k \in Callers, NEW r \in Reqs, CloseStream(k, r) PROVE ChannelInv'
  <2>1. \A q \in Reqs : stream'[q].shut = stream[q].shut
    BY <1>9 DEF CloseStream, GiveUpStream, StreamsOK, StreamType
  <2> QED BY <1>9, <2>1, ChannelKept DEF CloseStream
<1>10. ASSUME \/ ReadFrame \/ DispatchResponse \/ ReadFails \/ AbortSnapshot \/ AbortDone
       PROVE  ChannelInv'
  <2>1. UNCHANGED <<nextID, curRows, stream>>
    BY <1>10 DEF ReadFrame, DispatchResponse, ReadFails, AbortSnapshot, AbortDone, goExceptLoop
  <2>2. rl'.pc # "send"
    <3>1. CASE ReadFrame
      BY <3>1 DEF ReadFrame, Loop
    <3>2. CASE DispatchResponse \/ AbortDone
      BY <3>2 DEF DispatchResponse, AbortDone, Loop
    <3>3. CASE ReadFails
      BY <3>3 DEF ReadFails, Loop
    <3>4. CASE AbortSnapshot
      BY <3>4 DEF AbortSnapshot, LoopOK, LoopType
    <3> QED BY <1>10, <3>1, <3>2, <3>3, <3>4
  <2> QED BY <2>1, <2>2, ChannelKept
<1>11. ASSUME DispatchRow PROVE ChannelInv'
  <2>1. UNCHANGED <<nextID, curRows, stream>>
    BY <1>11 DEF DispatchRow, goExceptLoop
  <2>2. CASE ~IsCurrent(rl.f)
    BY <1>11, <2>1, <2>2, ChannelKept DEF DispatchRow, Loop
  <2>3. CASE IsCurrent(rl.f)
    <3>1. rl'.pc = "send" /\ rl'.f = rl.f /\ rl'.to = curRows[rl.f.conn]
      BY <1>11, <2>3 DEF DispatchRow, Loop
    <3>2. rl.f.conn \in Conns /\ curRows[rl.f.conn] \in Ids
      BY <1>11, <2>3 DEF DispatchRow, LoopOK, LoopType, Frame, FrameShape, IsCurrent
    <3>3. ~stream[<<rl.f.conn, curRows[rl.f.conn]>>].shut
      BY <3>2, NilType DEF ChannelInv, NoChannelPanic
    <3> QED BY <2>1, <3>1, <3>3 DEF ChannelInv, CurrentIssued, FreshOpen, NoChannelPanic, Target
  <2> QED BY <2>2, <2>3
<1>12. ASSUME SendRow PROVE ChannelInv'
  <2>1. UNCHANGED <<nextID, curRows>> /\ rl.pc = "send"
    BY <1>12 DEF SendRow, goExceptLoop
  <2>2. \A r \in Reqs : stream'[r].shut = stream[r].shut
    <3>1. CASE stream' = [stream EXCEPT ![Target].rows =
                             Append(stream[Target].rows, <<rl.f.id, rl.f.row>>)]
      BY <3>1 DEF StreamsOK, StreamType
    <3> QED BY <1>12, <3>1 DEF SendRow
  <2>3. rl'.pc = "send" => rl'.to = rl.to /\ rl'.f.conn = rl.f.conn
    BY <1>12 DEF SendRow, Loop, LoopOK, LoopType, Frame, FrameShape
  <2> QED BY <2>1, <2>2, <2>3, ChannelKept
<1>13. ASSUME DispatchEnd PROVE ChannelInv'
  <2>1. UNCHANGED nextID /\ rl'.pc # "send" /\ rl.f.conn \in Conns
    BY <1>13 DEF DispatchEnd, goExceptLoop, Loop, LoopOK
  <2>2. CASE ~IsCurrent(rl.f)
    BY <1>13, <2>1, <2>2, ChannelKept DEF DispatchEnd
  <2>3. CASE IsCurrent(rl.f)
    <3>1. curRows[rl.f.conn] # Nil
      BY <2>3, NilType DEF IsCurrent, LoopOK, LoopType, Frame, FrameShape
    <3>2. \A r \in Reqs : r # <<rl.f.conn, curRows[rl.f.conn]>> =>
             stream'[r].shut = stream[r].shut
      BY <1>13, <2>3 DEF DispatchEnd, StreamsOK
    <3> QED BY <1>13, <2>1, <2>3, <3>1, <3>2, ChannelShut DEF DispatchEnd, AfterEnd
  <2> QED BY <2>2, <2>3
<1>14. ASSUME DispatchBadRow PROVE ChannelInv'
  BY <1>14, ChannelAbort DEF DispatchBadRow, goExceptLoop, Loop, LoopOK
<1>15. ASSUME NEW c \in Conns, AbortOne(c) PROVE ChannelInv'
  <2>1. rl'.pc # "send"
    BY <1>15 DEF AbortOne, LoopOK, LoopType
  <2> QED BY <1>15, <2>1, ChannelAbort DEF AbortOne, goExceptLoop
<1>16. ASSUME ProcClose \/ Die \/ Finished \/ UNCHANGED vars PROVE ChannelInv'
  BY <1>1, <1>16 DEF ProcClose, Die, Finished, vars, goVars, goExceptLoop
<1>17. ASSUME NEW r \in Reqs, Handle(r) PROVE ChannelInv'
  BY <1>1, <1>17 DEF Handle, Respond, RespondHeader, EmitRow, EmitFault, EmitEnd, goVars
<1> QED
  BY <1>2, <1>3, <1>4, <1>5, <1>6, <1>7, <1>8, <1>9, <1>10, <1>11, <1>12, <1>13, <1>14,
     <1>15, <1>16, <1>17
  DEF Next, Caller, CallStep, Read, ReadLoop

\* readLoop never sends on a closed rows channel and never closes one twice:
\* the panics of client.go:366, 387 and 403 cannot happen.
THEOREM NoPanic == Spec => []NoChannelPanic
<1>1. Init => ChannelInv
  BY NilType DEF Init, ChannelInv, CurrentIssued, FreshOpen, NoChannelPanic, NewRows, Loop
<1>2. TypeOK /\ ChannelInv /\ [Next]_vars => ChannelInv'
  BY StepChannel
<1>3. ChannelInv => NoChannelPanic
  BY DEF ChannelInv
<1> QED BY <1>1, <1>2, <1>3, TypeCorrect, PTL DEF Spec

-----------------------------------------------------------------------------
(* Session.mu *)

\* Steps after which the same goroutines hold the same sessions and ids.
LEMMA HoldersKept ==
    ASSUME OneCallPerSession, UNCHANGED pending,
           \A j \in Callers : /\ Holds(j)' <=> Holds(j)
                              /\ Holds(j) => /\ call'[j].conn = call[j].conn
                                             /\ call'[j].id = call[j].id
    PROVE  OneCallPerSession'
BY DEF OneCallPerSession, Req

\* Whoever leaves a session takes its own response channel away.
LEMMA HolderLeaves ==
    ASSUME CallsOK, RequestsOK, OneCallPerSession, NEW k \in Callers, Holds(k),
           NEW pc \in {"idle", "drop"}, Leave(k, pc)
    PROVE  OneCallPerSession'
<1> DEFINE c == call[k].conn
           i == call[k].id
<1>1. ~Holds(k)' /\ \A j \in Callers \ {k} : call'[j] = call[j]
  BY DEF Holds, Leave, CallsOK, CallType, Idle
<1>2. c \in Conns /\ pending' = [pending EXCEPT ![c] = @ \ {i}]
  BY ReqTyped DEF Leave, Holds
<1>3. \A j, h \in Callers : Holds(j)' /\ Holds(h)' /\ call'[j].conn = call'[h].conn => j = h
  BY <1>1 DEF OneCallPerSession, Holds
<1>4. ASSUME NEW d \in Conns, NEW n \in pending'[d]
      PROVE  \E j \in Callers : Holds(j)' /\ Req(j)' = <<d, n>>
  <2>1. n \in pending[d] /\ <<d, n>> # <<c, i>>
    BY <1>2, <1>4 DEF RequestsOK
  <2>2. PICK j \in Callers : Holds(j) /\ Req(j) = <<d, n>>
    BY <2>1 DEF OneCallPerSession
  <2>3. j # k
    BY <2>1, <2>2 DEF Req
  <2> QED BY <1>1, <2>2, <2>3 DEF Holds, Req
<1> QED BY <1>3, <1>4 DEF OneCallPerSession

\* Every step keeps one call per session: one case per action.
LEMMA StepOneCall == TypeOK /\ OneCallPerSession /\ [Next]_vars => OneCallPerSession'
<1> SUFFICES ASSUME TypeOK, OneCallPerSession, [Next]_vars PROVE OneCallPerSession'
  OBVIOUS
<1> USE DEF TypeOK
<1>1. ASSUME UNCHANGED <<call, pending>> PROVE OneCallPerSession'
  BY <1>1 DEF OneCallPerSession, Holds, Req
<1>2. ASSUME NEW k \in Callers,
             NewSession(k) \/ (\E c \in Conns, op \in UserOps : Call(k, c, op)) \/ Drop(k)
      PROVE  OneCallPerSession'
  <2>1. /\ ~Holds(k) /\ ~Holds(k)' /\ UNCHANGED pending
        /\ \A j \in Callers \ {k} : call'[j] = call[j]
    BY <1>2 DEF NewSession, Call, Drop, Holds, Idle, CallsOK
  <2>2. \A j \in Callers : /\ Holds(j)' <=> Holds(j)
                           /\ Holds(j) => /\ call'[j].conn = call[j].conn
                                          /\ call'[j].id = call[j].id
    BY <2>1 DEF Holds
  <2> QED BY <2>1, <2>2, HoldersKept
<1>3. ASSUME NEW k \in Callers, Lock(k) PROVE OneCallPerSession'
  <2> DEFINE c == call[k].conn
             i == nextID[c]
  <2>1. /\ c \in Conns /\ i \in Ids
        /\ pending' = [pending EXCEPT ![c] = @ \cup {i}]
        /\ \A j \in Callers \ {k} : call'[j] = call[j]
        /\ Holds(k)' /\ Req(k)' = <<c, i>> /\ call'[k].conn = c
    BY <1>3, ReqTyped DEF Lock, Holds, Req, CallsOK, CallType
  <2>2. \A j \in Callers \ {k} : Holds(j) => call[j].conn # c
    BY <1>3 DEF Lock, LockFree, CallsOK
  <2> HIDE DEF c, i
  <2>3. \A j, h \in Callers : Holds(j)' /\ Holds(h)' /\ call'[j].conn = call'[h].conn => j = h
    BY <2>1, <2>2 DEF OneCallPerSession, Holds
  <2>4. ASSUME NEW d \in Conns, NEW n \in pending'[d]
        PROVE  \E j \in Callers : Holds(j)' /\ Req(j)' = <<d, n>>
    <3>1. CASE <<d, n>> = <<c, i>>
      BY <2>1, <3>1
    <3>2. CASE <<d, n>> # <<c, i>>
      <4>1. n \in pending[d]
        BY <2>1, <2>4, <3>2 DEF RequestsOK
      <4>2. PICK j \in Callers : Holds(j) /\ Req(j) = <<d, n>>
        BY <4>1 DEF OneCallPerSession
      <4>3. j # k
        BY <1>3, <4>2 DEF Lock, Holds
      <4> QED BY <2>1, <4>2, <4>3 DEF Holds, Req
    <3> QED BY <3>1, <3>2
  <2> QED BY <2>3, <2>4 DEF OneCallPerSession
<1>4. ASSUME NEW k \in Callers, Write(k) PROVE OneCallPerSession'
  <2>1. CASE ~Alive
    BY <1>4, <2>1, HolderLeaves DEF Write, Holds, AfterFailure
  <2>2. CASE Alive
    <3>1. /\ UNCHANGED pending /\ Holds(k) /\ Holds(k)'
          /\ call'[k].conn = call[k].conn /\ call'[k].id = call[k].id
          /\ \A j \in Callers \ {k} : call'[j] = call[j]
      BY <1>4, <2>2 DEF Write, Holds, CallsOK, CallType
    <3>2. \A j \in Callers : /\ Holds(j)' <=> Holds(j)
                             /\ Holds(j) => /\ call'[j].conn = call[j].conn
                                            /\ call'[j].id = call[j].id
      BY <3>1 DEF Holds
    <3> QED BY <3>1, <3>2, HoldersKept
  <2> QED BY <2>1, <2>2
<1>5. ASSUME NEW k \in Callers, Receive(k) \/ Cancelled(k) \/ Abandon(k)
      PROVE  OneCallPerSession'
  <2>1. Holds(k) /\ \E pc \in {"idle", "drop"} : Leave(k, pc)
    BY <1>5 DEF Receive, Cancelled, Abandon, Holds, AfterFailure
  <2> QED BY <2>1, HolderLeaves
<1>6. ASSUME NEW k \in Callers, NEW r \in Reqs, NextRow(k, r) \/ NextEnd(k, r) \/ CloseStream(k, r)
      PROVE  OneCallPerSession'
  BY <1>1, <1>6 DEF NextRow, NextEnd, CloseStream
<1>7. ASSUME ReadLoop PROVE OneCallPerSession'
  BY <1>1, <1>7 DEF ReadLoop, ReadFrame, ReadFails, DispatchResponse, DispatchRow, DispatchEnd,
     DispatchBadRow, SendRow, AbortSnapshot, AbortDone, AbortOne, goExceptLoop
<1>8. ASSUME ProcClose \/ Die \/ Finished \/ UNCHANGED vars PROVE OneCallPerSession'
  BY <1>1, <1>8 DEF ProcClose, Die, Finished, vars, goVars, goExceptLoop
<1>9. ASSUME NEW r \in Reqs, Handle(r) PROVE OneCallPerSession'
  BY <1>1, <1>9 DEF Handle, Respond, RespondHeader, EmitRow, EmitFault, EmitEnd, goVars
<1> QED
  BY <1>2, <1>3, <1>4, <1>5, <1>6, <1>7, <1>8, <1>9 DEF Next, Caller, CallStep, Read

\* Session.mu serialises the requests of a session on the Go side, and no
\* response channel is left behind by a call that has returned.
THEOREM Serialised == Spec => []OneCallPerSession
<1>1. Init => OneCallPerSession
  BY DEF Init, OneCallPerSession, Holds, Idle
<1>2. TypeOK /\ OneCallPerSession /\ [Next]_vars => OneCallPerSession'
  BY StepOneCall
<1> QED BY <1>1, <1>2, TypeCorrect, PTL DEF Spec

-----------------------------------------------------------------------------
(* Who can unblock readLoop *)

\* Query gives its own stream up by closing done.
LEMMA GiveUpReader ==
    ASSUME TypeOK, NEW k \in Callers, call[k].pc # "idle", GiveUp(k), NEW r \in Reqs
    PROVE  /\ stream[r].done => stream'[r].done
           /\ call[k].op = "QUERY" /\ Req(k) = r => stream'[r].done
<1>1. CASE call[k].op = "QUERY"
  <2>1. stream' = [stream EXCEPT ![Req(k)].done = TRUE]
    BY <1>1 DEF GiveUp, GiveUpStream
  <2> QED BY <2>1 DEF TypeOK, StreamsOK, StreamType
<1>2. CASE call[k].op # "QUERY"
  BY <1>2 DEF GiveUp
<1> QED BY <1>1, <1>2

\* A reader stays until the stream it reads is closed by readLoop.
LEMMA ReaderStays ==
    ASSUME TypeOK, [Next]_vars, NEW r \in Reqs, Reads(stream, opened, call, r), ~stream[r].shut
    PROVE  Reads(stream', opened', call', r)
<1> USE DEF TypeOK
<1>1. ASSUME \A j \in Callers : \/ call'[j] = call[j]
                                \/ call[j].pc # "wait",
             \A j \in Callers : opened[j] \subseteq opened'[j],
             stream[r].done => stream'[r].done
      PROVE  Reads(stream', opened', call', r)
  BY <1>1 DEF Reads, Req
<1>2. ASSUME NEW k \in Callers, UNCHANGED <<opened, stream>>,
             NewSession(k) \/ (\E c \in Conns, op \in UserOps : Call(k, c, op))
                \/ Lock(k) \/ Write(k) \/ Drop(k)
      PROVE  Reads(stream', opened', call', r)
  <2>1. call[k].pc # "wait" /\ \A j \in Callers \ {k} : call'[j] = call[j]
    BY <1>2 DEF NewSession, Call, Lock, Write, Drop, Leave, Idle, CallsOK
  <2> QED BY <1>1, <1>2, <2>1
<1>3. ASSUME NEW k \in Callers, Receive(k) PROVE Reads(stream', opened', call', r)
  <2>1. /\ \A j \in Callers \ {k} : call'[j] = call[j]
        /\ \A j \in Callers : opened[j] \subseteq opened'[j]
    BY <1>3 DEF Receive, Leave, CallsOK
  <2>2. stream[r].done => stream'[r].done
    BY <1>3, GiveUpReader DEF Receive
  <2>3. CASE call[k].op = "QUERY" /\ Req(k) = r
    <3>1. CASE inbox[Req(k)] = "ok"
      BY <1>3, <2>3, <3>1 DEF Receive, Reads, Req, CallsOK
    <3>2. CASE inbox[Req(k)] = "fail"
      <4>1. GiveUp(k)
        BY <1>3, <3>2 DEF Receive
      <4> QED BY <1>3, <2>3, <4>1, GiveUpReader DEF Receive, Reads, Req
    <3> QED BY <1>3, <3>1, <3>2 DEF Receive
  <2>4. CASE ~(call[k].op = "QUERY" /\ Req(k) = r)
    BY <2>1, <2>2, <2>4 DEF Reads, Req
  <2> QED BY <2>3, <2>4
<1>4. ASSUME NEW k \in Callers, Cancelled(k) \/ Abandon(k) PROVE Reads(stream', opened', call', r)
  <2>1. /\ \A j \in Callers \ {k} : call'[j] = call[j]
        /\ UNCHANGED opened /\ GiveUp(k) /\ call[k].pc = "wait"
    BY <1>4 DEF Cancelled, Abandon, Leave, CallsOK
  <2>2. /\ stream[r].done => stream'[r].done
        /\ call[k].op = "QUERY" /\ Req(k) = r => stream'[r].done
    BY <2>1, GiveUpReader
  <2> QED BY <2>1, <2>2 DEF Reads, Req
<1>5. ASSUME NEW k \in Callers, NEW q \in Reqs, NextRow(k, q) PROVE Reads(stream', opened', call', r)
  <2>1. stream'[r].done = stream[r].done
    BY <1>5 DEF NextRow, StreamsOK, StreamType
  <2> QED BY <1>1, <1>5, <2>1 DEF NextRow
<1>6. ASSUME NEW k \in Callers, NEW q \in Reqs, NextEnd(k, q) PROVE Reads(stream', opened', call', r)
  <2>1. stream'[r].done = stream[r].done /\ q # r
    BY <1>6 DEF NextEnd, StreamsOK, StreamType
  <2>2. \A j \in Callers : r \in opened[j] => r \in opened'[j]
    BY <1>6, <2>1 DEF NextEnd, CallsOK
  <2> QED BY <1>6, <2>1, <2>2 DEF NextEnd, Reads
<1>7. ASSUME NEW k \in Callers, NEW q \in Reqs, CloseStream(k, q) PROVE Reads(stream', opened', call', r)
  <2>1. stream' = [stream EXCEPT ![q].done = TRUE] /\ UNCHANGED call
    BY <1>7 DEF CloseStream, GiveUpStream
  <2>2. CASE q = r
    BY <2>1, <2>2 DEF Reads, StreamsOK, StreamType
  <2>3. CASE q # r
    <3>1. stream'[r].done = stream[r].done
      BY <2>1, <2>3 DEF StreamsOK
    <3>2. \A j \in Callers : r \in opened[j] => r \in opened'[j]
      BY <1>7, <2>3 DEF CloseStream, CallsOK
    <3> QED BY <2>1, <3>1, <3>2 DEF Reads, Req
  <2> QED BY <2>2, <2>3
<1>8. ASSUME UNCHANGED <<call, opened>>, stream'[r].done = stream[r].done PROVE Reads(stream', opened', call', r)
  BY <1>1, <1>8
<1>9. ASSUME ReadLoop PROVE Reads(stream', opened', call', r)
  <2>1. UNCHANGED <<call, opened>>
    BY <1>9 DEF ReadLoop, ReadFrame, ReadFails, DispatchResponse, DispatchRow, DispatchEnd,
       DispatchBadRow, SendRow, AbortSnapshot, AbortDone, AbortOne, goExceptLoop
  <2>2. CASE UNCHANGED stream
    BY <1>8, <2>1, <2>2
  <2>3. CASE SendRow
    <3>1. CASE stream' = [stream EXCEPT ![Target].rows =
                             Append(stream[Target].rows, <<rl.f.id, rl.f.row>>)]
      <4>1. stream'[r].done = stream[r].done
        BY <3>1 DEF StreamsOK, StreamType
      <4> QED BY <1>8, <2>1, <4>1
    <3> QED BY <2>2, <2>3, <3>1 DEF SendRow
  <2>4. CASE DispatchEnd
    <3> DEFINE t == <<rl.f.conn, curRows[rl.f.conn]>>
    <3>1. CASE stream' = [stream EXCEPT ![t].shut = TRUE, ![t].err = EndErr(rl.f)]
      <4>1. stream'[r].done = stream[r].done
        BY <3>1 DEF StreamsOK, StreamType
      <4> QED BY <1>8, <2>1, <4>1
    <3> QED BY <2>2, <2>4, <3>1 DEF DispatchEnd
  <2>5. ASSUME NEW c \in Conns, AbortStream(c) PROVE stream'[r].done = stream[r].done
    <3> DEFINE t == <<c, curRows[c]>>
    <3>1. CASE stream' = [stream EXCEPT ![t].shut = TRUE, ![t].err = TRUE]
      BY <3>1 DEF StreamsOK, StreamType
    <3> QED BY <2>5, <3>1 DEF AbortStream
  <2>6. CASE DispatchBadRow
    BY <1>8, <2>1, <2>5, <2>6 DEF DispatchBadRow, LoopOK
  <2>7. ASSUME NEW c \in Conns, AbortOne(c) PROVE Reads(stream', opened', call', r)
    BY <1>8, <2>1, <2>5, <2>7 DEF AbortOne
  <2> QED BY <1>9, <2>2, <2>3, <2>4, <2>6, <2>7
          DEF ReadLoop, ReadFrame, ReadFails, DispatchResponse, DispatchRow, AbortSnapshot, AbortDone
<1>10. ASSUME ProcClose \/ Die \/ Finished \/ UNCHANGED vars PROVE Reads(stream', opened', call', r)
  BY <1>8, <1>10 DEF ProcClose, Die, Finished, vars, goVars, goExceptLoop
<1>11. ASSUME NEW q \in Reqs, Handle(q) PROVE Reads(stream', opened', call', r)
  BY <1>8, <1>11 DEF Handle, Respond, RespondHeader, EmitRow, EmitFault, EmitEnd, goVars
<1>12. ASSUME NEW k \in Callers,
             NewSession(k) \/ (\E c \in Conns, op \in UserOps : Call(k, c, op))
                \/ Lock(k) \/ Write(k) \/ Drop(k)
      PROVE  UNCHANGED <<opened, stream>>
  BY <1>12 DEF NewSession, Call, Lock, Write, Drop
<1> QED
  BY <1>2, <1>3, <1>4, <1>5, <1>6, <1>7, <1>9, <1>10, <1>11, <1>12
  DEF Next, Caller, CallStep, Read

\* Only Lock takes an id, makes a stream current or adds a call in flight.
Quiet ==
    /\ UNCHANGED nextID
    /\ \A c \in Conns : curRows'[c] \in {curRows[c], Nil}
    /\ \A k \in Callers : Holds(k)' => /\ Holds(k)
                                       /\ call'[k].conn = call[k].conn
                                       /\ call'[k].id = call[k].id
                                       /\ call'[k].op = call[k].op

\* Every step but taking an id is quiet: it issues nothing and makes no stream
\* current.
LEMMA QuietStep ==
    ASSUME TypeOK, [Next]_vars, ~\E k \in Callers : Lock(k)
    PROVE  Quiet
<1> USE DEF TypeOK
<1>1. ASSUME UNCHANGED <<nextID, curRows, call>> PROVE Quiet
  BY <1>1 DEF Quiet, Holds
<1>2. ASSUME NEW k \in Callers,
             \/ NewSession(k) \/ (\E c \in Conns, op \in UserOps : Call(k, c, op))
             \/ Write(k) \/ Drop(k)
      PROVE  Quiet
  <2>1. /\ UNCHANGED <<nextID, curRows>>
        /\ \A j \in Callers \ {k} : call'[j] = call[j]
    BY <1>2 DEF NewSession, Call, Write, Drop, Leave, CallsOK
  <2>2. Holds(k)' => /\ Holds(k) /\ call'[k].conn = call[k].conn
                     /\ call'[k].id = call[k].id /\ call'[k].op = call[k].op
    BY <1>2 DEF NewSession, Call, Write, Drop, Leave, AfterFailure, Holds, Idle, CallsOK, CallType
  <2> QED BY <2>1, <2>2 DEF Quiet, Holds
<1>3. ASSUME NEW k \in Callers, Receive(k) \/ Cancelled(k) \/ Abandon(k) PROVE Quiet
  <2>1. /\ UNCHANGED nextID /\ \A j \in Callers \ {k} : call'[j] = call[j]
        /\ ~Holds(k)'
    BY <1>3 DEF Receive, Cancelled, Abandon, Leave, AfterFailure, Holds, Idle, CallsOK, CallType
  <2>2. \A c \in Conns : curRows'[c] \in {curRows[c], Nil}
    BY <1>3 DEF Receive, Cancelled, Abandon, GiveUp, RequestsOK
  <2> QED BY <2>1, <2>2 DEF Quiet, Holds
<1>4. ASSUME NEW k \in Callers, NEW r \in Reqs, NextRow(k, r) \/ NextEnd(k, r) \/ CloseStream(k, r)
      PROVE  Quiet
  BY <1>1, <1>4 DEF NextRow, NextEnd, CloseStream
<1>5. ASSUME ReadLoop PROVE Quiet
  <2>1. UNCHANGED <<nextID, call>>
    BY <1>5 DEF ReadLoop, ReadFrame, ReadFails, DispatchResponse, DispatchRow, DispatchEnd,
       DispatchBadRow, SendRow, AbortSnapshot, AbortDone, AbortOne, goExceptLoop
  <2>2. \A c \in Conns : curRows'[c] \in {curRows[c], Nil}
    BY <1>5 DEF ReadLoop, ReadFrame, ReadFails, DispatchResponse, DispatchRow, DispatchEnd,
       DispatchBadRow, SendRow, AbortSnapshot, AbortDone, AbortOne, goExceptLoop, AbortStream,
       AfterEnd, RequestsOK
  <2> QED BY <2>1, <2>2 DEF Quiet, Holds
<1>6. ASSUME ProcClose \/ Die \/ Finished \/ UNCHANGED vars PROVE Quiet
  BY <1>1, <1>6 DEF ProcClose, Die, Finished, vars, goVars, goExceptLoop
<1>7. ASSUME NEW r \in Reqs, Handle(r) PROVE Quiet
  BY <1>1, <1>7 DEF Handle, Respond, RespondHeader, EmitRow, EmitFault, EmitEnd, goVars
<1> QED BY <1>2, <1>3, <1>4, <1>5, <1>6, <1>7 DEF Next, Caller, CallStep, Read

\* A request is sent once, by the goroutine that holds it, and stays sent.
LEMMA JobStep ==
    ASSUME TypeOK, [Next]_vars, NEW r \in Reqs
    PROVE  /\ job[r].st # "none" => job'[r].st # "none"
           /\ job[r].st = "none" /\ job'[r].st # "none" =>
                \E k \in Callers : Write(k) /\ Alive /\ Req(k) = r
<1> USE DEF TypeOK
<1>1. CASE UNCHANGED job
  BY <1>1
<1>2. ASSUME NEW k \in Callers, Write(k), Alive
      PROVE  /\ job'[r].st # "none" <=> job[r].st # "none" \/ Req(k) = r
  BY <1>2 DEF Write, SidecarOK, JobType
<1>3. ASSUME NEW k \in Callers, Write(k), ~Alive PROVE UNCHANGED job
  BY <1>3 DEF Write
<1>4. ASSUME NEW q \in Reqs, Handle(q)
      PROVE  job'[r].st # "none" <=> job[r].st # "none"
  <2>1. job[q].st # "none" /\ job \in [Reqs -> JobType]
    BY <1>4 DEF Handle, Respond, RespondHeader, EmitRow, EmitFault, EmitEnd, SidecarOK
  <2>2. CASE RespondHeader(q) \/ \E ok \in BOOLEAN : Respond(q, ok) \/ EmitEnd(q, ok)
    <3>1. \E st \in {"over", "failed", "rows"} : job' = [job EXCEPT ![q].st = st]
      BY <2>2 DEF RespondHeader, Respond, EmitEnd
    <3> QED BY <2>1, <3>1 DEF JobType
  <2>3. CASE EmitRow(q) \/ \E kind \in Faults : EmitFault(q, kind)
    <3>1. job' = [job EXCEPT ![q].sent = @ + 1]
      BY <2>3 DEF EmitRow, EmitFault
    <3> QED BY <2>1, <3>1 DEF JobType
  <2> QED BY <1>4, <2>2, <2>3 DEF Handle
<1>5. \/ UNCHANGED job
      \/ \E k \in Callers : Write(k)
      \/ \E q \in Reqs : Handle(q)
  <2>1. ASSUME NEW k \in Callers, Caller(k), ~Write(k) PROVE UNCHANGED job
    <3>1. CASE NewSession(k) \/ Drop(k) \/ \E c \in Conns, op \in UserOps : Call(k, c, op)
      BY <3>1 DEF NewSession, Call, Drop, sidecarVars
    <3>2. CASE Lock(k) \/ Receive(k) \/ Cancelled(k) \/ Abandon(k)
      BY <3>2 DEF Lock, Receive, Cancelled, Abandon, sidecarVars
    <3>3. CASE Read(k) \/ \E q \in Reqs : CloseStream(k, q)
      BY <3>3 DEF Read, NextRow, NextEnd, CloseStream, sidecarVars
    <3> QED BY <2>1, <3>1, <3>2, <3>3 DEF Caller, CallStep
  <2>2. ASSUME ReadLoop PROVE UNCHANGED job
    <3>1. CASE ReadFrame \/ ReadFails \/ DispatchResponse \/ DispatchRow
      BY <3>1 DEF ReadFrame, ReadFails, DispatchResponse, DispatchRow, sidecarVars
    <3>2. CASE DispatchEnd \/ DispatchBadRow \/ SendRow
      BY <3>2 DEF DispatchEnd, DispatchBadRow, SendRow, sidecarVars
    <3>3. CASE AbortSnapshot \/ AbortDone \/ \E c \in Conns : AbortOne(c)
      BY <3>3 DEF AbortSnapshot, AbortDone, AbortOne, sidecarVars
    <3> QED BY <2>2, <3>1, <3>2, <3>3 DEF ReadLoop
  <2>3. CASE ProcClose \/ Die \/ Finished \/ UNCHANGED vars
    BY <2>3 DEF ProcClose, Die, Finished, vars, sidecarVars
  <2> QED BY <2>1, <2>2, <2>3 DEF Next
<1> QED BY <1>1, <1>2, <1>3, <1>4, <1>5

\* Calls carry ids that were taken; current streams belong to queries.
LEMMA StepIssued ==
    ASSUME TypeOK, ReaderInv, [Next]_vars
    PROVE  CallIssued' /\ CurrentIsQuery' /\ FreshUnsent'
<1> USE DEF TypeOK
<1>1. CASE Quiet
  <2>1. CallIssued' /\ CurrentIsQuery'
    <3>1. \A k \in Callers : call[k].id # Nil
      BY NilType DEF CallsOK, CallType
    <3>2. \A k \in Callers : Holds(k) => call[k].conn \in Conns
      BY ReqTyped DEF Holds
    <3> QED BY <1>1, <3>1, <3>2 DEF Quiet, ReaderInv, CallIssued, CurrentIsQuery
  <2>2. FreshUnsent'
    <3> SUFFICES ASSUME NEW r \in Reqs, r[2] >= nextID[r[1]], job'[r].st # "none" PROVE FALSE
      BY <1>1 DEF Quiet, FreshUnsent
    <3>1. PICK k \in Callers : Write(k) /\ Req(k) = r
      BY JobStep DEF ReaderInv, FreshUnsent
    <3>2. r[2] < nextID[r[1]] /\ r[2] \in Nat
      BY <3>1, ReqParts DEF ReaderInv, CallIssued, Write, Holds, Req
    <3>3. nextID[r[1]] \in Nat
      BY ReqParts, ConstantsAssumption DEF RequestsOK
    <3> QED BY <3>2, <3>3
  <2> QED BY <2>1, <2>2
<1>2. ASSUME NEW k \in Callers, Lock(k) PROVE CallIssued' /\ CurrentIsQuery' /\ FreshUnsent'
  <2> DEFINE c == call[k].conn
             i == nextID[c]
  <2>1. /\ c \in Conns /\ i \in Nat
        /\ nextID' = [nextID EXCEPT ![c] = i + 1]
        /\ \A j \in Callers \ {k} : call'[j] = call[j]
        /\ call'[k].conn = c /\ call'[k].id = i /\ call'[k].op = call[k].op
        /\ UNCHANGED job
    BY <1>2, ReqTyped, NilType DEF Lock, CallsOK, CallType, sidecarVars
  <2>2. \A j \in Callers \ {k} : Holds(j) => call[j].conn # c /\ call[j].conn \in Conns
    BY <1>2, ReqTyped DEF Lock, LockFree, CallsOK, Holds
  <2>3. \A d \in Conns : d # c => curRows'[d] = curRows[d] /\ nextID'[d] = nextID[d]
    BY <1>2, <2>1 DEF Lock, RequestsOK
  <2>4. curRows'[c] = i => call[k].op = "QUERY"
    <3>1. call[k].op # "QUERY" => curRows'[c] = curRows[c]
      BY <1>2 DEF Lock
    <3>2. curRows[c] # i
      BY <2>1, NilType, <1>2 DEF ReaderInv, ChannelInv, CurrentIssued, Lock
    <3> QED BY <3>1, <3>2
  <2>5. nextID'[c] = i + 1
    BY <2>1 DEF RequestsOK
  <2>6. FreshUnsent'
    <3> SUFFICES ASSUME NEW r \in Reqs, r[2] >= nextID'[r[1]] PROVE r[2] >= nextID[r[1]]
      BY <2>1 DEF ReaderInv, FreshUnsent
    <3> HIDE DEF c
    <3> QED BY <2>1, <2>3, <2>5, ReqParts
  <2> HIDE DEF c, i
  <2>7. CallIssued'
    BY <2>1, <2>2, <2>3, <2>5 DEF ReaderInv, CallIssued, Holds
  <2>8. CurrentIsQuery'
    BY <2>1, <2>2, <2>3, <2>4 DEF ReaderInv, CurrentIsQuery, Holds
  <2> QED BY <2>6, <2>7, <2>8
<1> QED BY <1>1, <1>2, QuietStep

\* Row frames belong to requests the sidecar was sent.
LEMMA StepRows ==
    ASSUME TypeOK, ReaderInv, [Next]_vars
    PROVE  RowsSent'
<1> USE DEF TypeOK
<1>1. \A f \in Frame : RowSent(job, f) => RowSent(job', f)
  <2>1. \A r \in Reqs : job[r].st # "none" => job'[r].st # "none"
    BY JobStep
  <2> QED BY <2>1 DEF RowSent
<1>2. \A i \in 1..Len(stdout) : stdout[i] \in Frame /\ RowSent(job', stdout[i])
  BY <1>1 DEF SidecarOK, ReaderInv, RowsSent
<1>3. ASSUME UNCHANGED stdout, rl'.pc = "dispatch" => rl.pc = "dispatch" /\ rl'.f = rl.f
      PROVE  RowsSent'
  BY <1>1, <1>2, <1>3 DEF ReaderInv, RowsSent, RowSent, LoopOK, LoopType
<1>4. CASE ReadFrame
  <2> DEFINE f == Head(stdout)
  <2>1. stdout # <<>> /\ stdout' = Tail(stdout) /\ UNCHANGED job
    BY <1>4 DEF ReadFrame
  <2>2. Len(stdout) \in Nat \ {0} /\ f = stdout[1]
    BY <2>1 DEF SidecarOK
  <2>3. \A i \in 1..Len(stdout') : stdout'[i] = stdout[i + 1] /\ i + 1 \in 1..Len(stdout)
    BY <2>1, <2>2 DEF SidecarOK
  <2>4. \A i \in 1..Len(stdout') : RowSent(job', stdout'[i])
    BY <1>2, <2>3
  <2>5. rl'.pc = "dispatch" => rl'.f = f
    BY <1>4 DEF ReadFrame, Loop
  <2>6. RowSent(job', f)
    BY <1>2, <2>2
  <2> QED BY <2>4, <2>5, <2>6 DEF RowsSent, RowSent
<1>5. CASE ReadLoop /\ ~ReadFrame
  <2>1. UNCHANGED stdout
    BY <1>5 DEF ReadLoop, ReadFails, DispatchResponse, DispatchRow, DispatchEnd,
       DispatchBadRow, SendRow, AbortSnapshot, AbortDone, AbortOne, sidecarVars
  <2>2. rl'.pc # "dispatch"
    <3>1. CASE DispatchResponse \/ DispatchEnd \/ DispatchBadRow \/ AbortDone
      BY <3>1 DEF DispatchResponse, DispatchEnd, DispatchBadRow, AbortDone, Loop
    <3>2. CASE DispatchRow
      BY <3>2 DEF DispatchRow, Loop
    <3>3. CASE ReadFails
      BY <3>3 DEF ReadFails, Loop
    <3>4. CASE AbortSnapshot \/ \E c \in Conns : AbortOne(c)
      BY <3>4 DEF AbortSnapshot, AbortOne, LoopOK, LoopType
    <3>5. CASE SendRow
      BY <3>5 DEF SendRow, Loop, LoopOK, LoopType
    <3> QED BY <1>5, <3>1, <3>2, <3>3, <3>4, <3>5 DEF ReadLoop
  <2> QED BY <1>3, <2>1, <2>2
<1>6. ASSUME NEW k \in Callers, Caller(k) PROVE RowsSent'
  <2>1. UNCHANGED <<rl, stdout>>
    BY <1>6 DEF Caller, CallStep, Read, NewSession, Call, Lock, Write, Receive, Cancelled, Abandon,
       Drop, NextRow, NextEnd, CloseStream, sidecarVars
  <2> QED BY <1>3, <2>1
<1>7. ASSUME ProcClose \/ Die \/ Finished \/ UNCHANGED vars PROVE RowsSent'
  BY <1>3, <1>7 DEF ProcClose, Die, Finished, vars, goVars, sidecarVars
<1>8. ASSUME NEW r \in Reqs, Handle(r) PROVE RowsSent'
  <2>1. PICK f : Emit(f) /\ RowSent(job', f) /\ UNCHANGED rl
    <3>1. ASSUME EmitRow(r)
          PROVE  \E f : Emit(f) /\ RowSent(job', f) /\ UNCHANGED rl
      <4> DEFINE f == [Control("row", r, TRUE) EXCEPT !.row = job[r].sent + 1]
      <4>1. Emit(f) /\ UNCHANGED rl
        BY <3>1 DEF EmitRow, goVars
      <4>2. f.conn = r[1] /\ f.id = r[2] /\ <<r[1], r[2]>> = r
        BY DEF Control, NoFrame, Reqs
      <4>3. job'[r].st # "none"
        BY <3>1 DEF EmitRow, SidecarOK, JobType
      <4> HIDE DEF f
      <4>4. RowSent(job', f)
        BY <4>2, <4>3 DEF RowSent
      <4> QED BY <4>1, <4>4
    <3>2. ASSUME NEW kind \in Kinds, NEW q, NEW ok \in BOOLEAN, kind # "row"
          PROVE  RowSent(job', Control(kind, q, ok))
      BY <3>2 DEF RowSent, Control, NoFrame
    <3>3. ASSUME NEW ok \in BOOLEAN, Respond(r, ok) \/ RespondHeader(r) \/ EmitEnd(r, ok)
          PROVE  \E f : Emit(f) /\ RowSent(job', f) /\ UNCHANGED rl
      BY <3>2, <3>3 DEF Respond, RespondHeader, EmitEnd, Kinds, goVars
    <3>4. ASSUME NEW kind \in Faults, EmitFault(r, kind)
          PROVE  \E f : Emit(f) /\ RowSent(job', f) /\ UNCHANGED rl
      <4>1. kind \in Kinds /\ kind # "row"
        BY ConstantsAssumption DEF Kinds, FaultKinds
      <4> QED BY <3>2, <3>4, <4>1 DEF EmitFault, goVars
    <3> QED BY <1>8, <3>1, <3>3, <3>4 DEF Handle
  <2>2. stdout' = Append(stdout, f)
    BY <2>1 DEF Emit
  <2>3. \A i \in 1..Len(stdout') : stdout'[i] = IF i <= Len(stdout) THEN stdout[i] ELSE f
    BY <2>2 DEF SidecarOK
  <2>4. \A i \in 1..Len(stdout') : RowSent(job', stdout'[i])
    BY <1>2, <2>1, <2>2, <2>3 DEF SidecarOK
  <2>5. rl'.pc = "dispatch" => RowSent(job', rl.f)
    BY <1>1, <2>1 DEF ReaderInv, RowsSent, LoopOK, LoopType
  <2> QED BY <2>1, <2>4, <2>5 DEF RowsSent, RowSent
<1> QED BY <1>4, <1>5, <1>6, <1>7, <1>8 DEF Next

\* A current stream keeps a reader until it is given up or ended.
LEMMA StepCurrentRead ==
    ASSUME TypeOK, ReaderInv, [Next]_vars
    PROVE  CurrentRead'
<1> SUFFICES ASSUME NEW c \in Conns, NEW i, i = curRows'[c], i # Nil
             PROVE  Reads(stream', opened', call', <<c, i>>) \/ job'[<<c, i>>].st = "none"
  BY DEF CurrentRead, Reader
<1> USE DEF TypeOK
<1> DEFINE r == <<c, i>>
<1>1. CASE curRows[c] = i
  <2>1. r \in Reqs /\ ~stream[r].shut
    BY <1>1, CurrentTyped DEF ReaderInv, ChannelInv, NoChannelPanic
  <2>2. Reads(stream, opened, call, r) \/ job[r].st = "none"
    BY <1>1 DEF ReaderInv, CurrentRead, Reader
  <2>3. CASE Reads(stream, opened, call, r)
    BY <2>1, <2>3, ReaderStays
  <2>4. CASE job[r].st = "none" /\ job'[r].st # "none"
    <3>1. PICK k \in Callers : Write(k) /\ Alive /\ Req(k) = r
      BY <2>1, <2>4, JobStep
    <3>2. call[k].op = "QUERY"
      BY <1>1, <3>1 DEF ReaderInv, CurrentIsQuery, Write, Holds, Req
    <3>3. call'[k].pc = "wait" /\ call'[k].op = "QUERY"
          /\ call'[k].conn = call[k].conn /\ call'[k].id = call[k].id
      BY <3>1, <3>2 DEF Write, CallsOK, CallType
    <3> QED BY <3>1, <3>3 DEF Reads, Req
  <2> QED BY <2>2, <2>3, <2>4
<1>2. CASE curRows[c] # i
  <2>1. PICK k \in Callers : Lock(k)
    BY <1>2, QuietStep DEF Quiet
  <2>2. i = nextID[c] /\ UNCHANGED job /\ i \in Ids
    BY <1>2, <2>1 DEF Lock, RequestsOK, sidecarVars
  <2>3. r \in Reqs /\ r[2] >= nextID[r[1]]
    BY <2>2, NilType DEF Reqs
  <2> QED BY <2>2, <2>3 DEF ReaderInv, FreshUnsent
<1> QED BY <1>1, <1>2

\* The stream readLoop is sending to keeps a reader.
LEMMA StepSendRead ==
    ASSUME TypeOK, ReaderInv, [Next]_vars
    PROVE  SendRead'
<1> SUFFICES ASSUME rl'.pc = "send", NEW r, r = Target'
             PROVE  Reads(stream', opened', call', r)
  BY DEF SendRead, Reader
<1> USE DEF TypeOK
<1>1. CASE rl.pc = "send" /\ Target = r
  <2>1. r \in Reqs
    BY <1>1 DEF LoopOK, Target, Reqs
  <2>2. Reads(stream, opened, call, r) /\ ~stream[r].shut
    BY <1>1 DEF ReaderInv, SendRead, Reader, ChannelInv, NoChannelPanic
  <2> QED BY <2>1, <2>2, ReaderStays
<1>2. CASE DispatchRow
  <2>1. IsCurrent(rl.f) /\ rl.pc = "dispatch" /\ rl.f.kind = "row" /\ rl.f.conn \in Conns
    BY <1>2 DEF DispatchRow, Loop, LoopOK
  <2>2. rl'.f = rl.f /\ rl'.to = curRows[rl.f.conn]
    BY <1>2, <2>1 DEF DispatchRow, Loop
  <2>3. r = <<rl.f.conn, rl.f.id>> /\ curRows[rl.f.conn] = rl.f.id /\ rl.f.id # Nil
    BY <2>1, <2>2, NilType DEF Target, IsCurrent, LoopOK, LoopType, Frame, FrameShape
  <2>4. r \in Reqs /\ job[r].st # "none"
    BY <2>1, <2>3 DEF ReaderInv, RowsSent, RowSent
  <2>5. Reads(stream, opened, call, r) /\ ~stream[r].shut
    BY <2>1, <2>3, <2>4 DEF ReaderInv, CurrentRead, Reader, ChannelInv, NoChannelPanic
  <2> QED BY <2>4, <2>5, ReaderStays
<1>3. CASE UNCHANGED rl
  BY <1>1, <1>3 DEF Target
<1>4. CASE SendRow
  <2>1. rl'.to = rl.to /\ rl'.f.conn = rl.f.conn /\ rl.pc = "send"
    BY <1>4 DEF SendRow, Loop, LoopOK, LoopType, Frame, FrameShape
  <2> QED BY <1>1, <2>1 DEF Target
<1>5. \/ UNCHANGED rl \/ DispatchRow \/ SendRow
  <2>1. CASE ReadLoop
    <3>1. CASE ReadFrame
      BY <3>1 DEF ReadFrame, Loop
    <3>2. CASE DispatchResponse \/ DispatchEnd \/ DispatchBadRow \/ AbortDone
      BY <3>2 DEF DispatchResponse, DispatchEnd, DispatchBadRow, AbortDone, Loop
    <3>3. CASE ReadFails
      BY <3>3 DEF ReadFails, Loop
    <3>4. CASE AbortSnapshot \/ \E c \in Conns : AbortOne(c)
      BY <3>4 DEF AbortSnapshot, AbortOne, LoopOK, LoopType
    <3> QED BY <2>1, <3>1, <3>2, <3>3, <3>4 DEF ReadLoop
  <2>2. CASE ~ReadLoop
    <3>1. ASSUME NEW k \in Callers, Caller(k) PROVE UNCHANGED rl
      <4>1. CASE NewSession(k) \/ Drop(k) \/ \E c \in Conns, op \in UserOps : Call(k, c, op)
        BY <4>1 DEF NewSession, Call, Drop
      <4>2. CASE Lock(k) \/ Write(k) \/ Receive(k) \/ Cancelled(k) \/ Abandon(k)
        BY <4>2 DEF Lock, Write, Receive, Cancelled, Abandon
      <4>3. CASE Read(k) \/ \E q \in Reqs : CloseStream(k, q)
        BY <4>3 DEF Read, NextRow, NextEnd, CloseStream
      <4> QED BY <3>1, <4>1, <4>2, <4>3 DEF Caller, CallStep
    <3>2. CASE ProcClose \/ Die \/ Finished \/ UNCHANGED vars
      BY <3>2 DEF ProcClose, Die, Finished, vars, goVars
    <3>3. ASSUME NEW q \in Reqs, Handle(q) PROVE UNCHANGED rl
      BY <3>3 DEF Handle, Respond, RespondHeader, EmitRow, EmitFault, EmitEnd, goVars
    <3> QED BY <2>2, <3>1, <3>2, <3>3 DEF Next
  <2> QED BY <2>1, <2>2
<1> QED BY <1>2, <1>3, <1>4, <1>5

\* When readLoop waits to hand a row over, the stream is in the hands of a
\* goroutine that can still read or close it, or its done channel is closed:
\* no left-over batch blocks the loop for good by itself (client.go:318).
THEOREM NoOrphanBlock == Spec => []BlockedOnlyOnReader
<1>1. Init => ReaderInv
  BY NilType DEF Init, ReaderInv, ChannelInv, CurrentIssued, FreshOpen, NoChannelPanic, NewRows,
     Loop, CallIssued, CurrentIsQuery, FreshUnsent, RowsSent, CurrentRead, SendRead, Holds, Idle,
     NoJob
<1>2. TypeOK /\ ReaderInv /\ [Next]_vars => ReaderInv'
  BY StepChannel, StepIssued, StepRows, StepCurrentRead, StepSendRead DEF ReaderInv
<1>3. ReaderInv => BlockedOnlyOnReader
  BY DEF ReaderInv, SendRead, Reader, Reads, BlockedOnlyOnReader, Held, Req
<1> QED BY <1>1, <1>2, <1>3, TypeCorrect, PTL DEF Spec

-----------------------------------------------------------------------------
(* Every stream is faithful to its query's result.  The argument follows    *)
(* one row from the sidecar to its reader.  A stream that is still some     *)
(* session's current one is owed every row from where its reader and its    *)
(* channel stand up to what the sidecar has sent, and each of these is in   *)
(* the pipe, in order, unless a frame stands before it that will fail the   *)
(* stream.  A stream that is no longer current is owed nothing and only has *)
(* to keep what it has.                                                     *)

(* Frames in the pipe *)

RowOf(f, r) == f.kind = "row" /\ f.conn = r[1] /\ f.id = r[2]
OkEnd(f, r) == f.kind = "end" /\ f.ok /\ f.conn = r[1] /\ f.id = r[2]

\* Reading f fails the stream of r, if r's session is still reading it.
Bad(f, r) == f.kind \in {"short", "huge"} \/ (f.kind = "badrow" /\ f.conn = r[1])

\* The first i - 1 frames of ss hold row p of r, or a frame that fails r.
Covered(ss, r, i, p) ==
    \E j \in 1..(i - 1) : Bad(ss[j], r) \/ (RowOf(ss[j], r) /\ ss[j].row = p)

\* The pipe owes r the rows after b, up to the n the sidecar has sent: each is
\* there, none before it is missing when it or the END(ok) comes, and none
\* comes twice.
Owed(ss, r, b, n) ==
    /\ b <= n
    /\ \A i \in 1..Len(ss) : RowOf(ss[i], r) =>
          b < ss[i].row /\ \A p \in (b + 1)..(ss[i].row - 1) : Covered(ss, r, i, p)
    /\ \A i \in 1..Len(ss) : OkEnd(ss[i], r) =>
          \A p \in (b + 1)..n : Covered(ss, r, i, p)
    /\ \A p \in (b + 1)..n : Covered(ss, r, Len(ss) + 1, p)

InOrder(ss, r) == \A i, j \in 1..Len(ss) :
    i < j /\ RowOf(ss[i], r) /\ RowOf(ss[j], r) => ss[i].row < ss[j].row

-----------------------------------------------------------------------------
(* What the pipe owes after a frame is taken or put *)

\* A sequence after its first element is gone.
LEMMA TailParts ==
    ASSUME NEW S, NEW ss \in Seq(S), ss # <<>>
    PROVE  /\ Head(ss) = ss[1] /\ Len(ss) \in Nat /\ 1 <= Len(ss)
           /\ Tail(ss) \in Seq(S) /\ Len(Tail(ss)) = Len(ss) - 1
           /\ \A i \in 1..Len(Tail(ss)) : Tail(ss)[i] = ss[i + 1] /\ i + 1 \in 1..Len(ss)
OBVIOUS

\* A sequence after an element is added.
LEMMA AppendParts ==
    ASSUME NEW S, NEW ss \in Seq(S), NEW x \in S
    PROVE  /\ Append(ss, x) \in Seq(S) /\ Len(ss) \in Nat /\ Len(Append(ss, x)) = Len(ss) + 1
           /\ \A i \in 1..Len(ss) : Append(ss, x)[i] = ss[i]
           /\ Append(ss, x)[Len(ss) + 1] = x
OBVIOUS

\* Rows are numbered.
LEMMA FrameRow == \A f \in Frame : f.row \in Nat /\ (f.kind = "row" => 1 <= f.row)
BY ConstantsAssumption DEF Frame, FrameShape

\* A frame that does not concern r is taken.
LEMMA OwedSkip ==
    ASSUME NEW ss \in Seq(Frame), ss # <<>>, NEW r, NEW b \in Nat, NEW n \in Nat,
           Owed(ss, r, b, n), ~RowOf(ss[1], r), ~Bad(ss[1], r)
    PROVE  Owed(Tail(ss), r, b, n)
<1> DEFINE tt == Tail(ss)
<1>1. /\ Len(ss) \in Nat /\ Len(tt) = Len(ss) - 1 /\ Len(tt) \in Nat
      /\ \A i \in 1..Len(tt) : tt[i] = ss[i + 1] /\ i + 1 \in 1..Len(ss)
  BY TailParts
<1> HIDE DEF tt
<1>2. ASSUME NEW i \in 1..(Len(tt) + 1), NEW p, Covered(ss, r, i + 1, p)
      PROVE  Covered(tt, r, i, p)
  <2>1. PICK j \in 1..i : Bad(ss[j], r) \/ (RowOf(ss[j], r) /\ ss[j].row = p)
    BY <1>2, <1>1 DEF Covered
  <2>2. j # 1
    BY <2>1
  <2>3. j - 1 \in 1..(i - 1) /\ j - 1 \in 1..Len(tt) /\ tt[j - 1] = ss[j]
    <3>1. j - 1 \in 1..(i - 1) /\ j - 1 \in 1..Len(tt) /\ (j - 1) + 1 = j
      BY <2>2, <1>1
    <3> QED BY <3>1, <1>1
  <2> QED BY <2>1, <2>3 DEF Covered
<1>3. ASSUME NEW i \in 1..Len(tt), RowOf(tt[i], r)
      PROVE  b < tt[i].row /\ \A p \in (b + 1)..(tt[i].row - 1) : Covered(tt, r, i, p)
  <2>1. i + 1 \in 1..Len(ss) /\ tt[i] = ss[i + 1] /\ i \in 1..(Len(tt) + 1)
    BY <1>1
  <2>2. /\ b < ss[i + 1].row
        /\ \A p \in (b + 1)..(ss[i + 1].row - 1) : Covered(ss, r, i + 1, p)
    BY <1>3, <2>1 DEF Owed
  <2> QED BY <2>1, <2>2, <1>2
<1>4. ASSUME NEW i \in 1..Len(tt), OkEnd(tt[i], r), NEW p \in (b + 1)..n
      PROVE  Covered(tt, r, i, p)
  <2>1. i + 1 \in 1..Len(ss) /\ tt[i] = ss[i + 1] /\ i \in 1..(Len(tt) + 1)
    BY <1>1
  <2>2. Covered(ss, r, i + 1, p)
    BY <1>4, <2>1 DEF Owed
  <2> QED BY <2>1, <2>2, <1>2
<1>5. \A p \in (b + 1)..n : Covered(tt, r, Len(tt) + 1, p)
  <2>1. Len(tt) + 1 \in 1..(Len(tt) + 1) /\ (Len(tt) + 1) + 1 = Len(ss) + 1
    BY <1>1
  <2> QED BY <2>1, <1>2 DEF Owed
<1>6. Owed(tt, r, b, n)
  BY <1>3, <1>4, <1>5 DEF Owed
<1> QED BY <1>6 DEF tt

\* The next row of r is taken: it is the first one owed.
LEMMA OwedTake ==
    ASSUME NEW ss \in Seq(Frame), ss # <<>>, NEW r, NEW b \in Nat, NEW n \in Nat,
           Owed(ss, r, b, n), InOrder(ss, r), RowOf(ss[1], r), ss[1].row <= n
    PROVE  ss[1].row = b + 1 /\ Owed(Tail(ss), r, b + 1, n)
<1> DEFINE tt == Tail(ss)
<1>1. /\ Len(ss) \in Nat /\ 1 <= Len(ss) /\ Len(tt) = Len(ss) - 1 /\ Len(tt) \in Nat
      /\ \A i \in 1..Len(tt) : tt[i] = ss[i + 1] /\ i + 1 \in 1..Len(ss)
      /\ \A i \in 1..Len(ss) : ss[i] \in Frame
  BY TailParts
<1>2. ss[1].row = b + 1
  <2>1. b < ss[1].row /\ \A p \in (b + 1)..(ss[1].row - 1) : Covered(ss, r, 1, p)
    BY <1>1 DEF Owed
  <2>2. ss[1].row \in Nat
    BY <1>1, FrameRow
  <2>3. ~Covered(ss, r, 1, b + 1)
    BY DEF Covered
  <2> QED BY <2>1, <2>2, <2>3
<1> HIDE DEF tt
<1>3. ASSUME NEW i \in 1..(Len(tt) + 1), NEW p \in Nat, p # b + 1, Covered(ss, r, i + 1, p)
      PROVE  Covered(tt, r, i, p)
  <2>1. PICK j \in 1..i : Bad(ss[j], r) \/ (RowOf(ss[j], r) /\ ss[j].row = p)
    BY <1>3, <1>1 DEF Covered
  <2>2. j # 1
    BY <2>1, <1>2, <1>3 DEF Bad, RowOf
  <2>3. j - 1 \in 1..(i - 1) /\ j - 1 \in 1..Len(tt) /\ tt[j - 1] = ss[j]
    <3>1. j - 1 \in 1..(i - 1) /\ j - 1 \in 1..Len(tt) /\ (j - 1) + 1 = j
      BY <2>2, <1>1
    <3> QED BY <3>1, <1>1
  <2> QED BY <2>1, <2>3 DEF Covered
<1>4. ASSUME NEW i \in 1..Len(tt), RowOf(tt[i], r)
      PROVE  b + 1 < tt[i].row /\ \A p \in (b + 2)..(tt[i].row - 1) : Covered(tt, r, i, p)
  <2>1. tt[i] = ss[i + 1] /\ i + 1 \in 1..Len(ss) /\ tt[i].row \in Nat /\ 1 \in 1..Len(ss)
    BY <1>1, FrameRow
  <2>2. ss[1].row < ss[i + 1].row
    BY <2>1, <1>4 DEF InOrder
  <2>3. \A p \in (b + 1)..(tt[i].row - 1) : Covered(ss, r, i + 1, p)
    BY <2>1, <1>4 DEF Owed
  <2>4. \A p \in (b + 2)..(tt[i].row - 1) : /\ p \in Nat /\ p # b + 1
                                            /\ p \in (b + 1)..(tt[i].row - 1)
    BY <2>1
  <2> QED BY <1>2, <1>3, <2>1, <2>2, <2>3, <2>4
<1>5. \A p \in (b + 2)..n : p \in Nat /\ p # b + 1 /\ p \in (b + 1)..n
  OBVIOUS
<1>6. ASSUME NEW i \in 1..Len(tt), OkEnd(tt[i], r), NEW p \in (b + 2)..n
      PROVE  Covered(tt, r, i, p)
  <2>1. tt[i] = ss[i + 1] /\ i + 1 \in 1..Len(ss) /\ i \in 1..(Len(tt) + 1)
    BY <1>1
  <2>2. Covered(ss, r, i + 1, p)
    BY <2>1, <1>5, <1>6 DEF Owed
  <2> QED BY <2>1, <2>2, <1>3, <1>5
<1>7. \A p \in (b + 2)..n : Covered(tt, r, Len(tt) + 1, p)
  <2>1. Len(tt) + 1 \in 1..(Len(tt) + 1) /\ (Len(tt) + 1) + 1 = Len(ss) + 1
    BY <1>1
  <2> QED BY <2>1, <1>3, <1>5 DEF Owed
<1>8. Owed(tt, r, b + 1, n)
  <2>1. b + 1 <= n /\ (b + 1) + 1 = b + 2
    BY <1>2
  <2> QED BY <2>1, <1>4, <1>6, <1>7 DEF Owed
<1> QED BY <1>2, <1>8 DEF tt

\* Nothing is owed when the END(ok) is taken.
LEMMA OwedNothing ==
    ASSUME NEW ss \in Seq(Frame), ss # <<>>, NEW r, NEW b \in Nat, NEW n \in Nat,
           Owed(ss, r, b, n), OkEnd(ss[1], r)
    PROVE  b = n
<1>1. 1 \in 1..Len(ss)
  BY TailParts
<1>2. \A p \in (b + 1)..n : Covered(ss, r, 1, p)
  BY <1>1 DEF Owed
<1>3. \A p : ~Covered(ss, r, 1, p)
  BY DEF Covered
<1> QED BY <1>2, <1>3 DEF Owed

\* What covered a row covers it after another frame is written.
LEMMA CoveredGrows ==
    ASSUME NEW ss \in Seq(Frame), NEW f \in Frame, NEW r, NEW p,
           NEW i \in 1..(Len(ss) + 1), Covered(ss, r, i, p)
    PROVE  Covered(Append(ss, f), r, i, p)
<1>1. PICK j \in 1..(i - 1) : Bad(ss[j], r) \/ (RowOf(ss[j], r) /\ ss[j].row = p)
  BY DEF Covered
<1>2. j \in 1..Len(ss)
  BY AppendParts
<1>3. Append(ss, f)[j] = ss[j]
  BY <1>2, AppendParts
<1> QED BY <1>1, <1>3 DEF Covered

\* A frame is written: the rows owed up to n stay covered, and one more is
\* when the frame is that row or fails the stream.
LEMMA OwedPut ==
    ASSUME NEW ss \in Seq(Frame), NEW f \in Frame, NEW r, NEW b \in Nat,
           NEW n \in Nat, NEW m \in {n, n + 1}, Owed(ss, r, b, n),
           RowOf(f, r) => f.row = n + 1,
           m = n + 1 => /\ RowOf(f, r) \/ Bad(f, r)
                        /\ \A i \in 1..Len(ss) : ~OkEnd(ss[i], r)
    PROVE  Owed(Append(ss, f), r, b, m)
<1> DEFINE tt == Append(ss, f)
<1>1. /\ Len(ss) \in Nat /\ Len(tt) = Len(ss) + 1 /\ tt[Len(tt)] = f
      /\ \A i \in 1..Len(ss) : tt[i] = ss[i]
  BY AppendParts
<1>2. \A i \in 1..(Len(ss) + 1) : \A p : Covered(ss, r, i, p) => Covered(tt, r, i, p)
  BY CoveredGrows
<1> HIDE DEF tt
<1>3. \A i \in 1..Len(tt) : i = Len(tt) \/ i \in 1..Len(ss)
  BY <1>1
<1>4. Len(tt) \in 1..(Len(ss) + 1) /\ \A i \in 1..Len(ss) : i \in 1..(Len(ss) + 1)
  BY <1>1
<1>5. b <= n /\ b <= m
  BY DEF Owed
<1>6. \A p \in (b + 1)..n : Covered(tt, r, Len(tt), p)
  BY <1>1, <1>2, <1>4 DEF Owed
<1>7. ASSUME NEW i \in 1..Len(tt), RowOf(tt[i], r)
      PROVE  b < tt[i].row /\ \A p \in (b + 1)..(tt[i].row - 1) : Covered(tt, r, i, p)
  <2>1. CASE i = Len(tt)
    <3>1. tt[i].row = n + 1 /\ tt[i].row - 1 = n
      BY <2>1, <1>1, <1>7
    <3> QED BY <3>1, <2>1, <1>5, <1>6
  <2>2. CASE i \in 1..Len(ss)
    BY <2>2, <1>1, <1>2, <1>4, <1>7 DEF Owed
  <2> QED BY <2>1, <2>2, <1>3
<1>8. ASSUME NEW i \in 1..Len(tt), OkEnd(tt[i], r), NEW p \in (b + 1)..m
      PROVE  Covered(tt, r, i, p)
  <2>1. m = n
    <3>1. CASE i = Len(tt)
      BY <3>1, <1>1, <1>8 DEF OkEnd, RowOf, Bad
    <3>2. CASE i \in 1..Len(ss)
      BY <3>2, <1>1, <1>8
    <3> QED BY <3>1, <3>2, <1>3
  <2>2. CASE i = Len(tt)
    BY <2>1, <2>2, <1>6
  <2>3. CASE i \in 1..Len(ss)
    BY <2>1, <2>3, <1>1, <1>2, <1>4, <1>8 DEF Owed
  <2> QED BY <2>2, <2>3, <1>3
<1>9. ASSUME NEW p \in (b + 1)..m PROVE Covered(tt, r, Len(tt) + 1, p)
  <2>1. CASE p \in (b + 1)..n
    <3>1. PICK j \in 1..(Len(tt) - 1) : Bad(tt[j], r) \/ (RowOf(tt[j], r) /\ tt[j].row = p)
      BY <2>1, <1>6 DEF Covered
    <3>2. j \in 1..((Len(tt) + 1) - 1)
      BY <1>1
    <3> QED BY <3>1, <3>2 DEF Covered
  <2>2. CASE m = n + 1 /\ p = n + 1
    <3>1. Len(tt) \in 1..((Len(tt) + 1) - 1)
      BY <1>1
    <3>2. Bad(tt[Len(tt)], r) \/ (RowOf(tt[Len(tt)], r) /\ tt[Len(tt)].row = p)
      BY <1>1, <2>2
    <3> QED BY <3>1, <3>2 DEF Covered
  <2> QED BY <2>1, <2>2
<1>10. Owed(tt, r, b, m)
  BY <1>5, <1>7, <1>8, <1>9 DEF Owed
<1> QED BY <1>10 DEF tt

-----------------------------------------------------------------------------
(* The frames between the sidecar and readLoop *)

Inside == rl.pc \in {"dispatch", "send"}      \* readLoop has a frame in hand

\* A request is new when it is written, and nothing of it was sent before.
WriteFresh == \A k \in Callers : call[k].pc = "write" => job[Req(k)].st = "none"
Unsent     == \A r \in Reqs : job[r].st = "none" => job[r].sent = 0

\* A row frame carries a row that was sent, an END(ok) the end of a result that
\* is over, and a batch without a header names the handshake's session.
Numbered(jj, f) ==
    /\ \A r \in Reqs : /\ RowOf(f, r) => f.row <= jj[r].sent
                       /\ OkEnd(f, r) => jj[r].st = "over"
    /\ f.kind \in {"short", "huge"} => f.conn = 0
PipeNumbered == \A i \in 1..Len(stdout) : Numbered(job, stdout[i])
HandNumbered == Inside => Numbered(job, rl.f)
PipeInOrder  == \A r \in Reqs : InOrder(stdout, r)

\* readLoop sends a row to the stream the row names.
Captured == rl.pc = "send" => rl.to = rl.f.id

\* Nothing has happened yet on the sessions to come.
SessionsIssued ==
    /\ \A k \in Callers : call[k].pc # "idle" => call[k].conn < nextConn
    /\ \A c \in usable : c < nextConn
    /\ \A c \in Conns : c >= nextConn => curRows[c] = Nil

PipeInv == /\ WriteFresh /\ Unsent /\ PipeNumbered /\ HandNumbered
           /\ PipeInOrder /\ Captured /\ SessionsIssued

\* What the earlier modules' proofs establish.
ClientInv == TypeOK /\ OneCallPerSession /\ ReaderInv

\* Only readLoop changes its own state.
LEMMA LoopKept ==
    ASSUME [Next]_vars, ~ReadLoop
    PROVE  UNCHANGED rl
<1>1. ASSUME NEW k \in Callers, Caller(k) PROVE UNCHANGED rl
  <2>1. CASE NewSession(k) \/ Drop(k) \/ \E c \in Conns, op \in UserOps : Call(k, c, op)
    BY <2>1 DEF NewSession, Call, Drop
  <2>2. CASE Lock(k) \/ Write(k) \/ Receive(k) \/ Cancelled(k) \/ Abandon(k)
    BY <2>2 DEF Lock, Write, Receive, Cancelled, Abandon
  <2>3. CASE Read(k) \/ \E q \in Reqs : CloseStream(k, q)
    BY <2>3 DEF Read, NextRow, NextEnd, CloseStream
  <2> QED BY <1>1, <2>1, <2>2, <2>3 DEF Caller, CallStep
<1>2. CASE ProcClose \/ Die \/ Finished \/ UNCHANGED vars
  BY <1>2 DEF ProcClose, Die, Finished, vars, goVars
<1>3. ASSUME NEW q \in Reqs, Handle(q) PROVE UNCHANGED rl
  BY <1>3 DEF Handle, Respond, RespondHeader, EmitRow, EmitFault, EmitEnd, goVars
<1> QED BY <1>1, <1>2, <1>3 DEF Next

\* Frames are put by the sidecar's handlers and taken by readLoop.
LEMMA PipeKept ==
    ASSUME [Next]_vars, ~ReadFrame, ~\E q \in Reqs : Handle(q)
    PROVE  UNCHANGED stdout
<1>1. ASSUME NEW k \in Callers, Caller(k) PROVE UNCHANGED stdout
  <2>1. CASE NewSession(k) \/ Drop(k) \/ \E c \in Conns, op \in UserOps : Call(k, c, op)
    BY <2>1 DEF NewSession, Call, Drop, sidecarVars
  <2>2. CASE Lock(k) \/ Write(k) \/ Receive(k) \/ Cancelled(k) \/ Abandon(k)
    BY <2>2 DEF Lock, Write, Receive, Cancelled, Abandon, sidecarVars
  <2>3. CASE Read(k) \/ \E q \in Reqs : CloseStream(k, q)
    BY <2>3 DEF Read, NextRow, NextEnd, CloseStream, sidecarVars
  <2> QED BY <1>1, <2>1, <2>2, <2>3 DEF Caller, CallStep
<1>2. CASE ProcClose \/ Die \/ Finished \/ UNCHANGED vars
  BY <1>2 DEF ProcClose, Die, Finished, vars, goVars, sidecarVars
<1>3. CASE ReadLoop
  BY <1>3 DEF ReadLoop, ReadFails, DispatchResponse, DispatchRow, DispatchEnd, DispatchBadRow,
     SendRow, AbortSnapshot, AbortDone, AbortOne, sidecarVars
<1> QED BY <1>1, <1>2, <1>3 DEF Next

\* Only ReadFrame puts a frame into readLoop's hand.
LEMMA HandKept ==
    ASSUME TypeOK, [Next]_vars, ~ReadFrame
    PROVE  Inside' => Inside /\ rl'.f = rl.f
<1> USE DEF TypeOK
<1>1. CASE ~ReadLoop
  BY <1>1, LoopKept DEF Inside
<1>2. CASE DispatchResponse \/ DispatchEnd \/ DispatchBadRow \/ AbortDone
  BY <1>2 DEF DispatchResponse, DispatchEnd, DispatchBadRow, AbortDone, Loop, Inside
<1>3. CASE DispatchRow
  BY <1>3 DEF DispatchRow, Loop, Inside
<1>4. CASE ReadFails \/ SendRow
  BY <1>4 DEF ReadFails, SendRow, Loop, Inside
<1>5. CASE AbortSnapshot \/ \E c \in Conns : AbortOne(c)
  BY <1>5 DEF AbortSnapshot, AbortOne, LoopOK, LoopType, Inside
<1> QED BY <1>1, <1>2, <1>3, <1>4, <1>5 DEF ReadLoop

\* Only the caller holding a request and the sidecar's handlers move its job.
LEMMA JobsKept ==
    ASSUME [Next]_vars, ~\E q \in Reqs : Handle(q), ~\E k \in Callers : Write(k)
    PROVE  UNCHANGED job
<1>1. ASSUME NEW k \in Callers, Caller(k) PROVE UNCHANGED job
  <2>1. CASE NewSession(k) \/ Drop(k) \/ \E c \in Conns, op \in UserOps : Call(k, c, op)
    BY <2>1 DEF NewSession, Call, Drop, sidecarVars
  <2>2. CASE Lock(k) \/ Receive(k) \/ Cancelled(k) \/ Abandon(k)
    BY <2>2 DEF Lock, Receive, Cancelled, Abandon, sidecarVars
  <2>3. CASE Read(k) \/ \E q \in Reqs : CloseStream(k, q)
    BY <2>3 DEF Read, NextRow, NextEnd, CloseStream, sidecarVars
  <2> QED BY <1>1, <2>1, <2>2, <2>3 DEF Caller, CallStep
<1>2. CASE ProcClose \/ Die \/ Finished \/ UNCHANGED vars
  BY <1>2 DEF ProcClose, Die, Finished, vars, goVars, sidecarVars
<1>3. CASE ReadLoop
  BY <1>3 DEF ReadLoop, ReadFrame, ReadFails, DispatchResponse, DispatchRow, DispatchEnd,
     DispatchBadRow, SendRow, AbortSnapshot, AbortDone, AbortOne, sidecarVars
<1> QED BY <1>1, <1>2, <1>3 DEF Next

\* What a handler writes: nothing of r unless it handles r, and then an answer,
\* the next row, a batch that fails its stream, or the end of its result.
Puts(q, f) ==
    /\ stdout' = Append(stdout, f)
    /\ f.kind \in {"short", "huge"} => f.conn = 0
    /\ job[q].st # "none"
    /\ \A r \in Reqs : r # q => job'[r] = job[r] /\ ~RowOf(f, r) /\ ~OkEnd(f, r)
    /\ \/ /\ job[q].st \in {"run", "rows"} /\ job'[q].st # "none"
          /\ job'[q].sent = job[q].sent
          /\ ~RowOf(f, q)
          /\ OkEnd(f, q) => job'[q].st = "over"
       \/ /\ job[q].st = "rows" /\ job'[q].st = "rows"
          /\ job'[q].sent = job[q].sent + 1
          /\ RowOf(f, q) \/ Bad(f, q)
          /\ RowOf(f, q) => f.row = job[q].sent + 1
          /\ ~OkEnd(f, q)

\* Every handler writes one such frame.
LEMMA HandlePuts ==
    ASSUME TypeOK, NEW q \in Reqs, Handle(q)
    PROVE  \E f \in Frame : Puts(q, f)
<1>0. /\ job \in [Reqs -> JobType] /\ q[1] \in Conns /\ q[2] \in Ids /\ q = <<q[1], q[2]>>
      /\ job[q].sent \in 0..MaxRows /\ MaxRows \in Nat /\ 0 \in Ids /\ Conns \subseteq 0..MaxConn
      /\ 0 \in 0..MaxConn /\ 0 \in 0..MaxRows
  BY ReqParts, NilType, ConstantsAssumption DEF TypeOK, SidecarOK, JobType, Conns, Reqs
<1>1. \A r \in Reqs : r # q => r[1] # q[1] \/ r[2] # q[2]
  BY <1>0 DEF Reqs
<1> DEFINE Shape(kind, c, i, ok) ==
             /\ Control(kind, <<c, i>>, ok) \in Frame
             /\ Control(kind, <<c, i>>, ok).kind = kind /\ Control(kind, <<c, i>>, ok).ok = ok
             /\ Control(kind, <<c, i>>, ok).conn = c /\ Control(kind, <<c, i>>, ok).id = i
<1>2. ASSUME NEW kind \in Kinds \ {"row"}, NEW ok \in BOOLEAN, NEW c \in 0..MaxConn, NEW i \in Ids
      PROVE  Shape(kind, c, i, ok)
  BY <1>0 DEF Control, NoFrame, Frame, FrameShape
<1>3. ASSUME NEW ok \in BOOLEAN, Respond(q, ok) PROVE \E f \in Frame : Puts(q, f)
  <2> DEFINE f == Control("resp", q, ok)
  <2>1. f \in Frame /\ f.kind = "resp"
    BY <1>0, <1>2 DEF Kinds
  <2>2. /\ stdout' = Append(stdout, f) /\ job[q].st = "run"
        /\ job' = [job EXCEPT ![q].st = "over"]
    BY <1>3 DEF Respond, Emit
  <2> HIDE DEF f
  <2>3. Puts(q, f)
    BY <1>0, <2>1, <2>2 DEF Puts, RowOf, OkEnd, JobType
  <2> QED BY <2>1, <2>3
<1>4. ASSUME RespondHeader(q) PROVE \E f \in Frame : Puts(q, f)
  <2> DEFINE f == Control("resp", q, TRUE)
  <2>1. f \in Frame /\ f.kind = "resp"
    <3>1. \A ok \in BOOLEAN : Shape("resp", q[1], q[2], ok)
      BY <1>0, <1>2 DEF Kinds
    <3> HIDE DEF Shape
    <3>2. Shape("resp", q[1], q[2], TRUE)
      BY <3>1, Zenon
    <3> QED BY <1>0, <3>2 DEF Shape
  <2>2. /\ stdout' = Append(stdout, f) /\ job[q].st = "run"
        /\ job' = [job EXCEPT ![q].st = "rows"]
    BY <1>4 DEF RespondHeader, Emit
  <2> HIDE DEF f
  <2>3. Puts(q, f)
    BY <1>0, <2>1, <2>2 DEF Puts, RowOf, OkEnd, JobType
  <2> QED BY <2>1, <2>3
<1>5. ASSUME NEW ok \in BOOLEAN, EmitEnd(q, ok) PROVE \E f \in Frame : Puts(q, f)
  <2> DEFINE f == Control("end", q, ok)
             st == IF ok THEN "over" ELSE "failed"
  <2>1. f \in Frame /\ f.kind = "end" /\ f.ok = ok /\ f.conn = q[1] /\ f.id = q[2]
    BY <1>0, <1>2 DEF Kinds
  <2>2. /\ stdout' = Append(stdout, f) /\ job[q].st = "rows"
        /\ job' = [job EXCEPT ![q].st = st]
    BY <1>5 DEF EmitEnd, Emit
  <2>3. st # "none" /\ (ok => st = "over")
    OBVIOUS
  <2> HIDE DEF f, st
  <2>4. Puts(q, f)
    BY <1>0, <1>1, <2>1, <2>2, <2>3 DEF Puts, RowOf, OkEnd, JobType
  <2> QED BY <2>1, <2>4
<1>6. ASSUME EmitRow(q) PROVE \E f \in Frame : Puts(q, f)
  <2> DEFINE f == [Control("row", q, TRUE) EXCEPT !.row = job[q].sent + 1]
  <2>1. /\ f \in Frame /\ f.kind = "row" /\ f.conn = q[1] /\ f.id = q[2]
        /\ f.row = job[q].sent + 1
    <3>1. job[q].sent + 1 \in 0..MaxRows /\ job[q].sent + 1 # 0
      BY <1>0, <1>6 DEF EmitRow
    <3> QED BY <1>0, <3>1 DEF Control, NoFrame, Frame, FrameShape, Kinds
  <2>2. /\ stdout' = Append(stdout, f) /\ job[q].st = "rows"
        /\ job' = [job EXCEPT ![q].sent = @ + 1]
    BY <1>6 DEF EmitRow, Emit
  <2> HIDE DEF f
  <2>3. Puts(q, f)
    BY <1>0, <1>1, <2>1, <2>2 DEF Puts, RowOf, OkEnd, JobType
  <2> QED BY <2>1, <2>3
<1>7. ASSUME NEW kind \in Faults, EmitFault(q, kind) PROVE \E f \in Frame : Puts(q, f)
  <2> DEFINE h == IF kind = "badrow" THEN q ELSE <<0, 0>>
             f == Control(kind, h, FALSE)
  <2>1. kind \in {"badrow", "short", "huge"} /\ kind \in Kinds \ {"row"}
    BY ConstantsAssumption DEF FaultKinds, Kinds
  <2>2. /\ h = <<h[1], h[2]>> /\ h[1] \in 0..MaxConn /\ h[2] \in Ids
        /\ kind = "badrow" => h[1] = q[1]
        /\ kind # "badrow" => h[1] = 0
    BY <1>0
  <2> HIDE DEF h
  <2>3. f \in Frame /\ f.kind = kind /\ f.conn = h[1]
    <3>1. \A ok \in BOOLEAN : Shape(kind, h[1], h[2], ok)
      BY <1>2, <2>1, <2>2
    <3> HIDE DEF Shape
    <3>2. Shape(kind, h[1], h[2], FALSE)
      BY <3>1, Zenon
    <3> QED BY <2>2, <3>2 DEF Shape
  <2>4. /\ stdout' = Append(stdout, f) /\ job[q].st = "rows"
        /\ job' = [job EXCEPT ![q].sent = @ + 1]
    BY <1>7 DEF EmitFault, Emit, h
  <2> HIDE DEF f
  <2>5. Puts(q, f)
    BY <1>0, <2>1, <2>2, <2>3, <2>4 DEF Puts, RowOf, OkEnd, Bad, JobType
  <2> QED BY <2>3, <2>5
<1> QED BY <1>3, <1>4, <1>5, <1>6, <1>7 DEF Handle

\* Rows sent are never unsent, and a result that is over stays as it is.
LEMMA JobGrows ==
    ASSUME TypeOK, WriteFresh, Unsent, [Next]_vars, NEW r \in Reqs
    PROVE  /\ job[r].sent \in Nat /\ job'[r].sent \in Nat
           /\ job[r].sent <= job'[r].sent
           /\ job[r].st = "over" => job'[r] = job[r]
           /\ job'[r].st = "none" => job'[r].sent = 0
           /\ (~\E q \in Reqs : Handle(q)) => job'[r].sent = job[r].sent
<1>0. job[r].sent \in Nat /\ job \in [Reqs -> JobType]
  BY ConstantsAssumption DEF TypeOK, SidecarOK, JobType
<1>1. CASE UNCHANGED job
  BY <1>0, <1>1 DEF Unsent
<1>2. ASSUME NEW k \in Callers, Write(k), ~UNCHANGED job
      PROVE  \/ job'[r] = job[r]
             \/ job[r].st = "none" /\ job'[r].st = "run" /\ job'[r].sent = 0
  <2>1. job' = [job EXCEPT ![Req(k)] = [st |-> "run", op |-> call[k].op, sent |-> 0]]
    BY <1>2 DEF Write
  <2>2. job[Req(k)].st = "none"
    BY <1>2 DEF Write, WriteFresh
  <2> QED BY <1>0, <2>1, <2>2
<1>3. ASSUME NEW q \in Reqs, Handle(q)
      PROVE  /\ job'[r].sent \in {job[r].sent, job[r].sent + 1}
             /\ job[r].st = "over" => job'[r] = job[r]
             /\ job'[r].st = "none" => job'[r] = job[r]
  <2>1. PICK f \in Frame : Puts(q, f)
    BY <1>3, HandlePuts
  <2>2. CASE r = q
    BY <2>1, <2>2 DEF Puts
  <2>3. CASE r # q
    BY <2>1, <2>3 DEF Puts
  <2> QED BY <2>2, <2>3
<1>4. CASE \E k \in Callers : Write(k)
  BY <1>0, <1>1, <1>2, <1>4 DEF Unsent
<1>5. CASE \E q \in Reqs : Handle(q)
  BY <1>0, <1>3, <1>5 DEF Unsent
<1> QED BY <1>1, <1>4, <1>5, JobsKept

\* A goroutine comes to write only by taking Session.mu.
LEMMA WriteEntered ==
    ASSUME TypeOK, [Next]_vars, NEW k \in Callers, call'[k].pc = "write", ~Lock(k)
    PROVE  call'[k] = call[k]
<1> USE DEF TypeOK
<1>1. UNCHANGED call \/ \E j \in Callers : Caller(j)
  BY DEF Next, ReadLoop, ReadFrame, ReadFails, DispatchResponse, DispatchRow,
     DispatchEnd, DispatchBadRow, SendRow, AbortSnapshot, AbortDone, AbortOne,
     ProcClose, Die, Finished, vars, goVars, goExceptLoop, Handle, Respond,
     RespondHeader, EmitRow, EmitFault, EmitEnd
<1>2. ASSUME NEW j \in Callers, j # k, Caller(j) PROVE call'[k] = call[k]
  <2>1. CASE NewSession(j) \/ Drop(j) \/ \E c \in Conns, op \in UserOps : Call(j, c, op)
    BY <1>2, <2>1 DEF NewSession, Call, Drop, CallsOK
  <2>2. CASE Lock(j) \/ Write(j) \/ Receive(j) \/ Cancelled(j) \/ Abandon(j)
    BY <1>2, <2>2 DEF Lock, Write, Receive, Cancelled, Abandon, Leave, CallsOK
  <2>3. CASE Read(j) \/ \E q \in Reqs : CloseStream(j, q)
    BY <2>3 DEF Read, NextRow, NextEnd, CloseStream
  <2> QED BY <1>2, <2>1, <2>2, <2>3 DEF Caller, CallStep
<1>3. ASSUME Caller(k) PROVE call'[k] = call[k]
  <2>1. ~NewSession(k) /\ ~Drop(k) /\ ~\E c \in Conns, op \in UserOps : Call(k, c, op)
    BY DEF NewSession, Drop, Call, Idle, CallsOK
  <2>2. ~Write(k) /\ ~Receive(k) /\ ~Cancelled(k) /\ ~Abandon(k)
    BY DEF Write, Receive, Cancelled, Abandon, Leave, AfterFailure, Idle, CallsOK, CallType
  <2>3. CASE Read(k) \/ \E q \in Reqs : CloseStream(k, q)
    BY <2>3 DEF Read, NextRow, NextEnd, CloseStream
  <2> QED BY <1>3, <2>1, <2>2, <2>3 DEF Caller, CallStep
<1> QED BY <1>1, <1>2, <1>3

\* A request is written once: by the goroutine that holds its id, and the id was
\* never used before.
LEMMA StepWriteFresh ==
    ASSUME ClientInv, PipeInv, [Next]_vars
    PROVE  WriteFresh'
<1> USE DEF ClientInv, TypeOK
<1> SUFFICES ASSUME NEW k \in Callers, call'[k].pc = "write"
             PROVE  job'[Req(k)'].st = "none"
  BY DEF WriteFresh
<1>1. CASE Lock(k)
  <2>1. PICK c \in Conns, i \in Ids : /\ Req(k)' = <<c, i>> /\ UNCHANGED job
                                     /\ i = nextID[c]
    BY <1>1, ReqTyped DEF Lock, Req, CallsOK, CallType, sidecarVars
  <2>2. <<c, i>> \in Reqs /\ i >= nextID[c]
    BY <2>1, NilType DEF Reqs
  <2>3. job[<<c, i>>].st = "none"
    BY <2>2 DEF ReaderInv, FreshUnsent
  <2> QED BY <2>1, <2>3
<1>2. CASE ~Lock(k)
  <2>1. call'[k] = call[k]
    BY <1>2, WriteEntered
  <2>2. job[Req(k)].st = "none" /\ Req(k) \in Reqs /\ Req(k)' = Req(k)
    BY <2>1, ReqTyped DEF PipeInv, WriteFresh, Req
  <2>3. ASSUME job'[Req(k)].st # "none" PROVE FALSE
    <3>1. PICK j \in Callers : Write(j) /\ Alive /\ Req(j) = Req(k)
      BY <2>2, <2>3, JobStep
    <3>2. j = k
      BY <2>1, <3>1 DEF OneCallPerSession, Holds, Write, Req
    <3>3. call'[k].pc = "wait"
      BY <3>1, <3>2 DEF Write, CallsOK, CallType
    <3> QED BY <3>3
  <2> QED BY <2>2, <2>3
<1> QED BY <1>1, <1>2

\* What is true of a frame stays true of it.
LEMMA NumberedStays ==
    ASSUME TypeOK, WriteFresh, Unsent, [Next]_vars, NEW f \in Frame, Numbered(job, f)
    PROVE  Numbered(job', f)
<1> SUFFICES ASSUME NEW r \in Reqs
             PROVE  /\ RowOf(f, r) => f.row <= job'[r].sent
                    /\ OkEnd(f, r) => job'[r].st = "over"
  BY DEF Numbered
<1>1. /\ f.row \in Nat /\ job[r].sent \in Nat /\ job'[r].sent \in Nat
      /\ job[r].sent <= job'[r].sent
      /\ job[r].st = "over" => job'[r] = job[r]
  BY FrameRow, JobGrows
<1>2. /\ RowOf(f, r) => f.row <= job[r].sent
      /\ OkEnd(f, r) => job[r].st = "over"
  BY DEF Numbered
<1> QED BY <1>1, <1>2

\* Taking the first frame keeps what is true of all, and puts it into the hand.
LEMMA StepTaken ==
    ASSUME ClientInv, PipeInv, ReadFrame, [Next]_vars
    PROVE  PipeNumbered' /\ HandNumbered' /\ PipeInOrder'
<1> USE DEF ClientInv, TypeOK
<1>1. stdout # <<>> /\ stdout' = Tail(stdout) /\ UNCHANGED job /\ stdout \in Seq(Frame)
  BY DEF ReadFrame, SidecarOK
<1>2. /\ Head(stdout) = stdout[1] /\ 1 \in 1..Len(stdout)
      /\ Len(stdout) \in Nat /\ Len(stdout') = Len(stdout) - 1
      /\ \A i \in 1..Len(stdout') : stdout'[i] = stdout[i + 1] /\ i + 1 \in 1..Len(stdout)
  BY <1>1, TailParts
<1>3. PipeNumbered'
  BY <1>1, <1>2 DEF PipeInv, PipeNumbered, Numbered
<1>4. HandNumbered'
  <2>1. Inside' => rl'.f = stdout[1]
    BY <1>2 DEF ReadFrame, Loop, Inside
  <2> QED BY <1>1, <1>2, <2>1 DEF PipeInv, PipeNumbered, HandNumbered, Numbered
<1>5. PipeInOrder'
  <2> SUFFICES ASSUME NEW r \in Reqs, NEW i \in 1..Len(stdout'), NEW j \in 1..Len(stdout'),
                      i < j, RowOf(stdout'[i], r), RowOf(stdout'[j], r)
               PROVE  stdout'[i].row < stdout'[j].row
    BY DEF PipeInOrder, InOrder
  <2>1. i + 1 < j + 1
    BY <1>2
  <2> QED BY <1>2, <2>1 DEF PipeInv, PipeInOrder, InOrder
<1> QED BY <1>3, <1>4, <1>5

\* A frame that is written is true of the job it reports on, and a row is the
\* last of its query.
LEMMA StepPut ==
    ASSUME ClientInv, PipeInv, NEW q \in Reqs, Handle(q), [Next]_vars
    PROVE  PipeNumbered' /\ HandNumbered' /\ PipeInOrder'
<1> USE DEF ClientInv, TypeOK
<1>1. PICK f \in Frame : Puts(q, f)
  BY HandlePuts
<1>2. /\ stdout \in Seq(Frame) /\ stdout' = Append(stdout, f)
      /\ UNCHANGED rl
  BY <1>1 DEF Puts, SidecarOK, Handle, Respond, RespondHeader, EmitRow, EmitFault, EmitEnd, goVars
<1>3. /\ Len(stdout) \in Nat /\ Len(stdout') = Len(stdout) + 1
      /\ \A i \in 1..Len(stdout) : stdout'[i] = stdout[i] /\ stdout[i] \in Frame
      /\ stdout'[Len(stdout) + 1] = f
  BY <1>2, AppendParts
<1>4. \A i \in 1..Len(stdout') : i \in 1..Len(stdout) \/ i = Len(stdout) + 1
  BY <1>3
<1>5. Numbered(job', f)
  <2>1. \A r \in Reqs : r # q => ~RowOf(f, r) /\ ~OkEnd(f, r)
    BY <1>1 DEF Puts
  <2>2. /\ RowOf(f, q) => f.row <= job'[q].sent
        /\ OkEnd(f, q) => job'[q].st = "over"
        /\ f.kind \in {"short", "huge"} => f.conn = 0
    <3>1. job'[q].sent \in Nat
      BY JobGrows DEF PipeInv
    <3> QED BY <1>1, <3>1 DEF Puts
  <2> QED BY <2>1, <2>2 DEF Numbered
<1>6. PipeNumbered'
  <2>1. \A i \in 1..Len(stdout) : Numbered(job', stdout[i])
    BY <1>3, NumberedStays DEF PipeInv, PipeNumbered
  <2> QED BY <1>3, <1>4, <1>5, <2>1 DEF PipeNumbered, Numbered
<1>7. HandNumbered'
  <2>1. Inside => Numbered(job', rl.f)
    BY NumberedStays DEF PipeInv, HandNumbered, LoopOK, LoopType
  <2> QED BY <1>2, <2>1 DEF HandNumbered, Inside, Numbered
<1>8. PipeInOrder'
  <2> SUFFICES ASSUME NEW r \in Reqs, NEW i \in 1..Len(stdout'), NEW j \in 1..Len(stdout'),
                      i < j, RowOf(stdout'[i], r), RowOf(stdout'[j], r)
               PROVE  stdout'[i].row < stdout'[j].row
    BY DEF PipeInOrder, InOrder
  <2>1. i \in 1..Len(stdout) /\ stdout'[i] = stdout[i]
    BY <1>3, <1>4
  <2>2. CASE j \in 1..Len(stdout)
    BY <1>3, <2>1, <2>2 DEF PipeInv, PipeInOrder, InOrder
  <2>3. CASE j = Len(stdout) + 1
    <3>1. r = q /\ f.row = job[q].sent + 1
      BY <1>1, <1>3, <2>3 DEF Puts
    <3>2. stdout[i].row <= job[r].sent
      BY <2>1 DEF PipeInv, PipeNumbered, Numbered
    <3>3. stdout[i].row \in Nat /\ job[r].sent \in Nat
      BY <1>3, <2>1, FrameRow, JobGrows DEF PipeInv
    <3> QED BY <1>3, <2>1, <2>3, <3>1, <3>2, <3>3
  <2> QED BY <1>4, <2>2, <2>3
<1> QED BY <1>6, <1>7, <1>8

\* The row in hand is sent to the stream it names: dispatchRows captures the
\* current stream after it has compared the ids.
LEMMA StepCaptured ==
    ASSUME ClientInv, PipeInv, [Next]_vars
    PROVE  Captured'
<1> USE DEF ClientInv, TypeOK
<1> SUFFICES ASSUME rl'.pc = "send" PROVE rl'.to = rl'.f.id
  BY DEF Captured
<1>1. CASE UNCHANGED rl
  BY <1>1 DEF PipeInv, Captured
<1>2. CASE DispatchRow
  BY <1>2 DEF DispatchRow, Loop, IsCurrent
<1>3. CASE ReadFrame \/ DispatchResponse \/ DispatchEnd \/ DispatchBadRow \/ AbortDone
  BY <1>3 DEF ReadFrame, DispatchResponse, DispatchEnd, DispatchBadRow, AbortDone, Loop
<1>4. CASE ReadFails \/ SendRow
  BY <1>4 DEF ReadFails, SendRow, Loop
<1>5. CASE AbortSnapshot \/ \E c \in Conns : AbortOne(c)
  BY <1>5 DEF AbortSnapshot, AbortOne, LoopOK, LoopType
<1> QED BY <1>1, <1>2, <1>3, <1>4, <1>5, LoopKept DEF ReadLoop

\* Session ids are handed out in order, and nothing happens on a session before
\* NewSession has taken its id.
LEMMA StepSessionsIssued ==
    ASSUME ClientInv, PipeInv, [Next]_vars
    PROVE  SessionsIssued'
<1> USE DEF ClientInv, TypeOK
<1>0. nextConn \in Nat /\ Conns \subseteq Nat /\ usable \subseteq Conns
  BY NilType, ConstantsAssumption DEF SessionsOK
<1>1. nextConn' \in Nat /\ nextConn <= nextConn'
  <2>1. ASSUME NEW k \in Callers, NewSession(k) PROVE nextConn' = nextConn + 1
    BY <2>1 DEF NewSession
  <2>2. ASSUME NEW k \in Callers, Caller(k), ~NewSession(k) PROVE UNCHANGED nextConn
    <3>1. CASE Drop(k) \/ \E c \in Conns, op \in UserOps : Call(k, c, op)
      BY <3>1 DEF Call, Drop
    <3>2. CASE Lock(k) \/ Write(k) \/ Receive(k) \/ Cancelled(k) \/ Abandon(k)
      BY <3>2 DEF Lock, Write, Receive, Cancelled, Abandon
    <3>3. CASE Read(k) \/ \E q \in Reqs : CloseStream(k, q)
      BY <3>3 DEF Read, NextRow, NextEnd, CloseStream
    <3> QED BY <2>2, <3>1, <3>2, <3>3 DEF Caller, CallStep
  <2>3. UNCHANGED nextConn \/ \E k \in Callers : Caller(k)
    BY DEF Next, ReadLoop, ReadFrame, ReadFails, DispatchResponse, DispatchRow,
       DispatchEnd, DispatchBadRow, SendRow, AbortSnapshot, AbortDone, AbortOne,
       ProcClose, Die, Finished, vars, goVars, goExceptLoop, Handle, Respond,
       RespondHeader, EmitRow, EmitFault, EmitEnd
  <2> QED BY <1>0, <2>1, <2>2, <2>3
<1>2. \A k \in Callers : call[k].pc # "idle" => call[k].conn < nextConn /\ call[k].conn \in Nat
  BY <1>0, ReqTyped DEF PipeInv, SessionsIssued
<1>3. ASSUME NEW c \in Conns, c >= nextConn' PROVE curRows'[c] = Nil
  <2>1. c >= nextConn /\ curRows[c] = Nil
    BY <1>0, <1>1, <1>3 DEF PipeInv, SessionsIssued
  <2>2. CASE \E k \in Callers : Lock(k)
    <3>1. PICK k \in Callers : Lock(k)
      BY <2>2
    <3>2. c # call[k].conn
      BY <1>0, <1>2, <2>1, <3>1 DEF Lock
    <3> QED BY <2>1, <3>1, <3>2 DEF Lock, RequestsOK
  <2>3. CASE ~\E k \in Callers : Lock(k)
    BY <2>1, <2>3, QuietStep DEF Quiet
  <2> QED BY <2>2, <2>3
<1>4. ASSUME NEW k \in Callers, Caller(k), NEW j \in Callers, call'[j].pc # "idle"
      PROVE  call'[j].conn < nextConn'
  <2>1. CASE call'[j].conn = call[j].conn /\ call[j].pc # "idle"
    BY <1>0, <1>1, <1>2, <2>1
  <2>2. CASE NewSession(k)
    <3>1. CASE j = k
      BY <1>0, <2>2, <3>1 DEF NewSession, CallsOK
    <3>2. CASE j # k
      BY <1>4, <2>1, <2>2, <3>2 DEF NewSession, CallsOK
    <3> QED BY <3>1, <3>2
  <2>3. ASSUME NEW c \in Conns, NEW op \in UserOps, Call(k, c, op)
        PROVE  call'[j].conn < nextConn'
    <3>1. c < nextConn
      BY <2>3 DEF Call, PipeInv, SessionsIssued
    <3>2. j # k => call'[j] = call[j]
      BY <2>3 DEF Call, CallsOK
    <3>3. j = k => call'[j].conn = c
      BY <2>3 DEF Call, CallsOK
    <3> QED BY <1>0, <1>1, <1>4, <2>1, <3>1, <3>2, <3>3
  <2>4. CASE Lock(k) \/ Write(k) \/ Receive(k) \/ Cancelled(k) \/ Abandon(k) \/ Drop(k)
    <3>1. call'[j].conn = call[j].conn /\ call[j].pc # "idle"
      BY <1>4, <2>4 DEF Lock, Write, Receive, Cancelled, Abandon, Drop, Leave, Idle, CallsOK, CallType
    <3> QED BY <2>1, <3>1
  <2>5. CASE Read(k) \/ \E q \in Reqs : CloseStream(k, q)
    BY <1>4, <2>1, <2>5 DEF Read, NextRow, NextEnd, CloseStream
  <2> QED BY <1>4, <2>2, <2>3, <2>4, <2>5 DEF Caller, CallStep
<1>5. ASSUME NEW k \in Callers, Caller(k), NEW c \in usable'
      PROVE  c < nextConn'
  <2>1. c \in usable \/ (c = call[k].conn /\ call[k].pc = "wait")
    <3>1. CASE NewSession(k) \/ Drop(k) \/ \E d \in Conns, op \in UserOps : Call(k, d, op)
      BY <1>5, <3>1 DEF NewSession, Call, Drop
    <3>2. CASE Lock(k) \/ Write(k) \/ Receive(k) \/ Cancelled(k) \/ Abandon(k)
      BY <1>5, <3>2 DEF Lock, Write, Receive, Cancelled, Abandon
    <3>3. CASE Read(k) \/ \E q \in Reqs : CloseStream(k, q)
      BY <1>5, <3>3 DEF Read, NextRow, NextEnd, CloseStream
    <3> QED BY <1>5, <3>1, <3>2, <3>3 DEF Caller, CallStep
  <2>2. c < nextConn /\ c \in Nat
    BY <1>0, <1>2, <2>1 DEF PipeInv, SessionsIssued
  <2> QED BY <1>0, <1>1, <2>2
<1>6. CASE \E k \in Callers : Caller(k)
  BY <1>3, <1>4, <1>5, <1>6 DEF SessionsIssued
<1>7. CASE UNCHANGED <<call, usable>>
  BY <1>0, <1>1, <1>2, <1>3, <1>7 DEF PipeInv, SessionsIssued
<1>8. UNCHANGED <<call, usable>> \/ \E k \in Callers : Caller(k)
  BY DEF Next, ReadLoop, ReadFrame, ReadFails, DispatchResponse, DispatchRow,
     DispatchEnd, DispatchBadRow, SendRow, AbortSnapshot, AbortDone, AbortOne,
     ProcClose, Die, Finished, vars, goVars, goExceptLoop, Handle, Respond,
     RespondHeader, EmitRow, EmitFault, EmitEnd
<1> QED BY <1>6, <1>7, <1>8

\* Every step keeps what is true of the frames in flight.
LEMMA StepPipe ==
    ASSUME ClientInv, PipeInv, [Next]_vars
    PROVE  PipeInv'
<1>1. WriteFresh' /\ Captured' /\ SessionsIssued'
  BY StepWriteFresh, StepCaptured, StepSessionsIssued
<1>2. Unsent'
  BY JobGrows DEF Unsent, PipeInv, ClientInv
<1>3. CASE ReadFrame
  BY <1>1, <1>2, <1>3, StepTaken DEF PipeInv
<1>4. CASE \E q \in Reqs : Handle(q)
  BY <1>1, <1>2, <1>4, StepPut DEF PipeInv
<1>5. CASE ~ReadFrame /\ ~\E q \in Reqs : Handle(q)
  <2>1. UNCHANGED stdout
    BY <1>5, PipeKept
  <2>2. /\ \A i \in 1..Len(stdout) : Numbered(job', stdout[i])
        /\ Inside => Numbered(job', rl.f)
    BY NumberedStays
    DEF ClientInv, TypeOK, SidecarOK, LoopOK, LoopType, PipeInv, PipeNumbered, HandNumbered
  <2>3. Inside' => Inside /\ rl'.f = rl.f
    BY <1>5, HandKept DEF ClientInv
  <2>4. PipeNumbered' /\ HandNumbered' /\ PipeInOrder'
    BY <2>1, <2>2, <2>3 DEF PipeInv, PipeNumbered, HandNumbered, PipeInOrder, InOrder, Numbered
  <2> QED BY <1>1, <1>2, <2>4 DEF PipeInv
<1> QED BY <1>3, <1>4, <1>5

-----------------------------------------------------------------------------
(* What a stream holds and what it is still owed *)

Current(r) == curRows[r[1]] = r[2]
Size(s)    == Len(s.got) + Len(s.rows)     \* rows of a stream, read or not yet
InHand(r)  == Inside /\ RowOf(rl.f, r)
Base(r)    == IF InHand(r) THEN Size(stream[r]) + 1 ELSE Size(stream[r])

\* readLoop is about to fail whatever r's session reads.
Breaking(r) ==
    \/ rl.pc = "dispatch" /\ rl.f.kind = "badrow" /\ rl.f.conn = r[1]
    \/ rl.pc \in {"snapshot", "exit"}
    \/ rl.pc = "abort" /\ r[1] \in rl.todo

\* The next row of r will be handed to its stream.
Live(r) == Current(r) /\ r[1] \in registered /\ ~stream[r].done /\ ~Breaking(r)

\* The rows of a stream are the first ones of its query, of the n that were sent.
Kept(s, r, n) ==
    /\ \A j \in 1..Len(s.got) : s.got[j] = <<r[2], j>>
    /\ \A j \in 1..Len(s.rows) : s.rows[j] = <<r[2], Len(s.got) + j>>
    /\ Size(s) <= n

\* A stream closed without an error holds the whole result, and io.EOF comes
\* after its last row.
Whole(s, jb) == s.shut /\ ~s.err => Size(s) = jb.sent /\ jb.st = "over"
AtEnd(s)     == s.verdict = "eof" => s.shut /\ ~s.err /\ s.rows = <<>>

StreamOK(r) == ~stream[r].done => /\ Kept(stream[r], r, job[r].sent)
                                  /\ Whole(stream[r], job[r])
                                  /\ AtEnd(stream[r])

\* The row readLoop holds for a stream is its next one, and the END(ok) it holds
\* comes after the last.
NextInHand(r) == InHand(r) /\ (rl.pc = "send" \/ Current(r)) => rl.f.row = Size(stream[r]) + 1
EndInHand(r)  == rl.pc = "dispatch" /\ OkEnd(rl.f, r) /\ Current(r) =>
                    Size(stream[r]) = job[r].sent
HandOK(r)     == ~stream[r].done => NextInHand(r) /\ EndInHand(r)

PipeOK(r) == Live(r) => Owed(stdout, r, Base(r), job[r].sent)

FaithInv == \A r \in Reqs : StreamOK(r) /\ HandOK(r) /\ PipeOK(r)

\* Next moves the first row of the channel to what was read.
LEMMA KeptTake ==
    ASSUME NEW s \in StreamType, s.rows # <<>>, NEW t,
           t = [s EXCEPT !.rows = Tail(s.rows), !.got = Append(s.got, Head(s.rows))]
    PROVE  /\ Size(t) = Size(s)
           /\ \A r, n : Kept(s, r, n) => Kept(t, r, n)
<1>1. /\ s.rows \in Seq(Row) /\ s.got \in Seq(Row)
      /\ t.rows = Tail(s.rows) /\ t.got = Append(s.got, Head(s.rows))
  BY DEF StreamType
<1>2. /\ Len(s.rows) \in Nat /\ 1 <= Len(s.rows) /\ Head(s.rows) = s.rows[1] /\ 1 \in 1..Len(s.rows)
      /\ s.rows[1] \in Row
      /\ Len(t.rows) = Len(s.rows) - 1
      /\ \A j \in 1..Len(t.rows) : t.rows[j] = s.rows[j + 1] /\ j + 1 \in 1..Len(s.rows)
  BY <1>1, TailParts
<1>3. /\ Len(s.got) \in Nat /\ Len(t.got) = Len(s.got) + 1
      /\ \A j \in 1..Len(s.got) : t.got[j] = s.got[j]
      /\ t.got[Len(s.got) + 1] = s.rows[1]
  BY <1>1, <1>2, AppendParts
<1>4. Size(t) = Size(s)
  <2>1. \A a, b, c, d \in Nat : c = a - 1 /\ d = b + 1 => d + c = b + a
    OBVIOUS
  <2>2. Len(t.rows) \in Nat /\ Len(t.got) \in Nat
    BY <1>2, <1>3
  <2>3. /\ Len(s.rows) \in Nat /\ Len(s.got) \in Nat
        /\ Len(t.rows) = Len(s.rows) - 1 /\ Len(t.got) = Len(s.got) + 1
    BY <1>2, <1>3
  <2>4. Len(t.got) + Len(t.rows) = Len(s.got) + Len(s.rows)
    BY ONLY <2>1, <2>2, <2>3
  <2> QED BY <2>4 DEF Size
<1>5. ASSUME NEW r, NEW n, Kept(s, r, n) PROVE Kept(t, r, n)
  <2>1. ASSUME NEW j \in 1..Len(t.got) PROVE t.got[j] = <<r[2], j>>
    <3>1. CASE j \in 1..Len(s.got)
      BY <3>1, <1>3, <1>5 DEF Kept
    <3>2. CASE j = Len(s.got) + 1
      BY <3>2, <1>2, <1>3, <1>5 DEF Kept
    <3> QED BY <1>3, <3>1, <3>2
  <2>2. ASSUME NEW j \in 1..Len(t.rows) PROVE t.rows[j] = <<r[2], Len(t.got) + j>>
    <3>1. s.rows[j + 1] = <<r[2], Len(s.got) + (j + 1)>>
      BY <1>2, <1>5 DEF Kept
    <3>2. Len(s.got) + (j + 1) = Len(t.got) + j
      <4>1. \A a, b, i \in Nat : b = a + 1 => a + (i + 1) = b + i
        OBVIOUS
      <4>2. Len(t.got) \in Nat /\ j \in Nat
        BY <1>3
      <4> QED BY <1>3, <4>1, <4>2
    <3> QED BY <1>2, <3>1, <3>2
  <2>3. Size(t) <= n
    BY <1>4, <1>5 DEF Kept
  <2> QED BY <2>1, <2>2, <2>3 DEF Kept
<1> QED BY <1>4, <1>5

\* dispatchRows puts the next row behind those in the channel.
LEMMA KeptPut ==
    ASSUME NEW s \in StreamType, NEW r \in Reqs, NEW n \in Nat, NEW x, x = Size(s) + 1, x <= n,
           NEW t, t = [s EXCEPT !.rows = Append(s.rows, <<r[2], x>>)],
           Kept(s, r, n), <<r[2], x>> \in Row
    PROVE  Size(t) = Size(s) + 1 /\ Kept(t, r, n)
<1>1. /\ s.rows \in Seq(Row) /\ s.got \in Seq(Row)
      /\ t.rows = Append(s.rows, <<r[2], x>>) /\ t.got = s.got
  BY DEF StreamType
<1>2. /\ Len(s.rows) \in Nat /\ Len(t.rows) = Len(s.rows) + 1
      /\ \A j \in 1..Len(s.rows) : t.rows[j] = s.rows[j]
      /\ t.rows[Len(s.rows) + 1] = <<r[2], x>>
  BY <1>1, AppendParts
<1>3. Len(s.got) \in Nat
  BY <1>1
<1>4. Size(t) = Size(s) + 1 /\ x = Len(s.got) + (Len(s.rows) + 1)
  <2>1. \A a, b, c \in Nat : c = b + 1 => a + c = (a + b) + 1 /\ (a + b) + 1 = a + (b + 1)
    OBVIOUS
  <2>2. Len(t.rows) \in Nat
    BY <1>2
  <2>3. /\ Len(s.rows) \in Nat /\ Len(s.got) \in Nat
        /\ Len(t.rows) = Len(s.rows) + 1 /\ t.got = s.got
    BY <1>1, <1>2, <1>3
  <2>4. /\ Len(s.got) + Len(t.rows) = (Len(s.got) + Len(s.rows)) + 1
        /\ (Len(s.got) + Len(s.rows)) + 1 = Len(s.got) + (Len(s.rows) + 1)
    BY ONLY <2>1, <2>2, <2>3
  <2> QED BY <2>3, <2>4 DEF Size
<1>5. ASSUME NEW j \in 1..Len(t.rows) PROVE t.rows[j] = <<r[2], Len(t.got) + j>>
  <2>1. CASE j \in 1..Len(s.rows)
    BY <2>1, <1>1, <1>2 DEF Kept
  <2>2. CASE j = Len(s.rows) + 1
    BY <2>2, <1>1, <1>2, <1>4
  <2> QED BY <1>2, <2>1, <2>2
<1> QED BY <1>1, <1>4, <1>5 DEF Kept

\* The row counts of a typed state are numbers.
LEMMA Counts ==
    ASSUME TypeOK, NEW r \in Reqs
    PROVE  /\ stream[r] \in StreamType /\ Len(stream[r].got) \in Nat /\ Len(stream[r].rows) \in Nat
           /\ Size(stream[r]) \in Nat /\ Base(r) \in Nat /\ job[r].sent \in Nat
<1>1. stream[r] \in StreamType
  BY DEF TypeOK, StreamsOK
<1>2. stream[r].rows \in Seq(Row) /\ stream[r].got \in Seq(Row)
  BY <1>1 DEF StreamType
<1>3. Len(stream[r].rows) \in Nat /\ Len(stream[r].got) \in Nat
  BY <1>2
<1>4. job[r].sent \in Nat
  BY ConstantsAssumption DEF TypeOK, SidecarOK, JobType
<1>5. \A a, b \in Nat : a + b \in Nat /\ (a + b) + 1 \in Nat
  OBVIOUS
<1> QED BY <1>1, <1>3, <1>4, <1>5 DEF Size, Base

\* readLoop closes the channel of stream r: with the error of its END, or to
\* fail it; the session forgets r in the same step.
Shuts(r, e) ==
    /\ Current(r) /\ r[2] # Nil
    /\ curRows' = [curRows EXCEPT ![r[1]] = Nil]
    /\ stream' = [stream EXCEPT ![r].shut = TRUE, ![r].err = e]

\* The steps that change stream r.
Moves(r) ==
    \/ stream'[r] = stream[r]
    \/ stream'[r] = [stream[r] EXCEPT !.done = TRUE]
    \/ \E k \in Callers : NextRow(k, r) \/ NextEnd(k, r)
    \/ SendRow /\ Target = r
    \/ DispatchEnd /\ rl.f.conn = r[1] /\ rl.f.id = r[2] /\ Shuts(r, EndErr(rl.f))
    \/ Shuts(r, TRUE)

\* A failing call gives up its own stream and no other.
LEMMA GiveUpMoves ==
    ASSUME TypeOK, NEW k \in Callers, call[k].pc # "idle", GiveUp(k), NEW r \in Reqs
    PROVE  stream'[r] = stream[r] \/ stream'[r] = [stream[r] EXCEPT !.done = TRUE]
<1>1. CASE call[k].op = "QUERY"
  BY <1>1 DEF GiveUp, GiveUpStream, TypeOK, StreamsOK
<1>2. CASE call[k].op # "QUERY"
  BY <1>2 DEF GiveUp
<1> QED BY <1>1, <1>2

\* Aborting a session closes its current stream and no other.
LEMMA AbortMoves ==
    ASSUME TypeOK, NEW c \in Conns, AbortStream(c), NEW r \in Reqs
    PROVE  stream'[r] = stream[r] \/ Shuts(r, TRUE)
<1>1. CASE curRows[c] = Nil
  BY <1>1 DEF AbortStream
<1>2. CASE curRows[c] # Nil
  <2>1. r # <<c, curRows[c]>> => stream'[r] = stream[r]
    BY <1>2 DEF AbortStream, TypeOK, StreamsOK
  <2>2. r = <<c, curRows[c]>> => Shuts(r, TRUE)
    BY <1>2 DEF AbortStream, Shuts, Current
  <2> QED BY <2>1, <2>2
<1> QED BY <1>1, <1>2

\* Every step moves stream r in one of these ways.
LEMMA StreamMoves ==
    ASSUME TypeOK, [Next]_vars, NEW r \in Reqs
    PROVE  Moves(r)
<1> USE DEF TypeOK
<1>1. ASSUME NEW k \in Callers, Caller(k) PROVE Moves(r)
  <2>1. CASE NewSession(k) \/ Drop(k) \/ \E c \in Conns, op \in UserOps : Call(k, c, op)
    BY <2>1 DEF NewSession, Call, Drop, Moves
  <2>2. CASE Lock(k) \/ Write(k)
    BY <2>2 DEF Lock, Write, Moves
  <2>3. CASE Receive(k) \/ Cancelled(k) \/ Abandon(k)
    <3>1. call[k].pc # "idle" /\ (GiveUp(k) \/ UNCHANGED stream)
      BY <2>3 DEF Receive, Cancelled, Abandon
    <3> QED BY <3>1, GiveUpMoves DEF Moves
  <2>4. ASSUME NEW q \in Reqs, NextRow(k, q) PROVE Moves(r)
    <3>1. q # r => stream'[r] = stream[r]
      BY <2>4 DEF NextRow, StreamsOK
    <3> QED BY <2>4, <3>1 DEF Moves
  <2>5. ASSUME NEW q \in Reqs, NextEnd(k, q) PROVE Moves(r)
    <3>1. q # r => stream'[r] = stream[r]
      BY <2>5 DEF NextEnd, StreamsOK
    <3> QED BY <2>5, <3>1 DEF Moves
  <2>6. ASSUME NEW q \in Reqs, CloseStream(k, q) PROVE Moves(r)
    BY <2>6 DEF CloseStream, GiveUpStream, Moves, StreamsOK
  <2> QED BY <1>1, <2>1, <2>2, <2>3, <2>4, <2>5, <2>6 DEF Caller, CallStep, Read
<1>2. CASE ProcClose \/ Die \/ Finished \/ UNCHANGED vars
  BY <1>2 DEF ProcClose, Die, Finished, vars, goVars, Moves
<1>3. ASSUME NEW q \in Reqs, Handle(q) PROVE Moves(r)
  BY <1>3 DEF Handle, Respond, RespondHeader, EmitRow, EmitFault, EmitEnd, goVars, Moves
<1>4. CASE ReadFrame \/ DispatchResponse \/ DispatchRow \/ ReadFails \/ AbortSnapshot \/ AbortDone
  BY <1>4 DEF ReadFrame, DispatchResponse, DispatchRow, ReadFails, AbortSnapshot, AbortDone, Moves
<1>5. CASE SendRow
  <2>1. Target # r => stream'[r] = stream[r]
    BY <1>5 DEF SendRow, StreamsOK
  <2> QED BY <1>5, <2>1 DEF Moves
<1>6. CASE DispatchEnd
  <2>1. CASE ~IsCurrent(rl.f)
    BY <1>6, <2>1 DEF DispatchEnd, Moves
  <2>2. CASE IsCurrent(rl.f)
    <3>1. rl.f.id \in Ids /\ curRows[rl.f.conn] = rl.f.id
      BY <2>2 DEF IsCurrent, LoopOK, LoopType, Frame, FrameShape
    <3>2. r # <<rl.f.conn, curRows[rl.f.conn]>> => stream'[r] = stream[r]
      BY <1>6, <2>2 DEF DispatchEnd, StreamsOK
    <3>3. r = <<rl.f.conn, curRows[rl.f.conn]>> =>
             rl.f.conn = r[1] /\ rl.f.id = r[2] /\ Shuts(r, EndErr(rl.f))
      BY <1>6, <2>2, <3>1, NilType DEF DispatchEnd, Shuts, Current, AfterEnd
    <3> QED BY <1>6, <3>2, <3>3 DEF Moves
  <2> QED BY <2>1, <2>2
<1>7. CASE DispatchBadRow \/ \E c \in Conns : AbortOne(c)
  <2>1. \E c \in Conns : AbortStream(c)
    BY <1>7 DEF DispatchBadRow, AbortOne, LoopOK
  <2> QED BY <2>1, AbortMoves DEF Moves
<1> QED BY <1>1, <1>2, <1>3, <1>4, <1>5, <1>6, <1>7 DEF Next, ReadLoop

\* A channel that readLoop closes was open.
LEMMA ShutsOpen ==
    ASSUME TypeOK, NoChannelPanic, NEW r \in Reqs, NEW e \in BOOLEAN, Shuts(r, e)
    PROVE  /\ ~stream[r].shut
           /\ stream'[r] = [stream[r] EXCEPT !.shut = TRUE, !.err = e]
           /\ ~Current(r)'
<1>1. r[1] \in Conns /\ r = <<r[1], r[2]>>
  BY ReqParts DEF Reqs
<1>2. ~stream[r].shut
  BY <1>1 DEF Shuts, Current, NoChannelPanic
<1>3. ~Current(r)'
  BY <1>1 DEF Shuts, Current, TypeOK, RequestsOK
<1>4. stream'[r] = [stream[r] EXCEPT !.shut = TRUE, !.err = e]
  BY DEF Shuts, TypeOK, StreamsOK, StreamType
<1> QED BY <1>2, <1>3, <1>4

\* The channel readLoop sends to is open.
LEMMA SendMoves ==
    ASSUME TypeOK, NoChannelPanic, Captured, NEW r \in Reqs, SendRow, Target = r
    PROVE  /\ ~stream[r].shut /\ rl.pc = "send" /\ InHand(r) /\ rl.f \in Frame /\ ~Inside'
           /\ \/ stream[r].done /\ stream'[r] = stream[r]
              \/ stream'[r] = [stream[r] EXCEPT !.rows = Append(stream[r].rows, <<r[2], rl.f.row>>)]
<1>1. rl.pc = "send" /\ rl.f \in Frame /\ rl.f.kind = "row"
  BY DEF SendRow, TypeOK, LoopOK, LoopType
<1>2. rl.f.conn = r[1] /\ rl.f.id = r[2]
  BY <1>1 DEF Target, Captured
<1>3. InHand(r) /\ ~stream[r].shut
  BY <1>1, <1>2 DEF InHand, Inside, RowOf, NoChannelPanic
<1>4. ~Inside'
  BY DEF SendRow, Loop, Inside
<1>5. \/ stream[r].done /\ stream'[r] = stream[r]
      \/ stream'[r] = [stream[r] EXCEPT !.rows = Append(stream[r].rows, <<r[2], rl.f.row>>)]
  BY <1>2 DEF SendRow, TypeOK, StreamsOK
<1> QED BY <1>1, <1>3, <1>4, <1>5

\* Nothing reopens done, and only a row that is sent adds to a stream.
LEMMA StreamGrows ==
    ASSUME TypeOK, NoChannelPanic, Captured, [Next]_vars, NEW r \in Reqs
    PROVE  /\ stream[r].done => stream'[r].done
           /\ ~(SendRow /\ Target = r) => Size(stream'[r]) = Size(stream[r])
<1>0. stream \in [Reqs -> StreamType] /\ stream[r] \in StreamType
  BY DEF TypeOK, StreamsOK
<1>1. CASE stream'[r] = stream[r]
  BY <1>1
<1>2. CASE stream'[r] = [stream[r] EXCEPT !.done = TRUE]
  BY <1>0, <1>2 DEF StreamType, Size
<1>3. ASSUME NEW k \in Callers, NextRow(k, r)
      PROVE  stream'[r].done = stream[r].done /\ Size(stream'[r]) = Size(stream[r])
  <2>1. /\ stream[r].rows # <<>>
        /\ stream'[r] = [stream[r] EXCEPT !.rows = Tail(stream[r].rows),
                                          !.got = Append(stream[r].got, Head(stream[r].rows))]
    BY <1>0, <1>3 DEF NextRow
  <2>2. Size(stream'[r]) = Size(stream[r])
    BY <1>0, <2>1, KeptTake
  <2> QED BY <1>0, <2>1, <2>2 DEF StreamType
<1>4. ASSUME NEW k \in Callers, NextEnd(k, r)
      PROVE  stream'[r].done = stream[r].done /\ Size(stream'[r]) = Size(stream[r])
  BY <1>0, <1>4 DEF NextEnd, StreamType, Size
<1>5. CASE SendRow /\ Target = r
  <2>1. stream'[r].done = stream[r].done
    BY <1>0, <1>5, SendMoves DEF StreamType
  <2> QED BY <1>5, <2>1
<1>6. ASSUME NEW e \in BOOLEAN, Shuts(r, e)
      PROVE  stream'[r].done = stream[r].done /\ Size(stream'[r]) = Size(stream[r])
  BY <1>0, <1>6, ShutsOpen DEF StreamType, Size
<1>7. EndErr(rl.f) \in BOOLEAN /\ TRUE \in BOOLEAN
  BY DEF EndErr
<1>8. CASE \E e \in BOOLEAN : Shuts(r, e)
  BY <1>6, <1>8
<1>9. CASE \E k \in Callers : NextRow(k, r) \/ NextEnd(k, r)
  BY <1>3, <1>4, <1>9
<1> QED BY <1>1, <1>2, <1>5, <1>7, <1>8, <1>9, StreamMoves DEF Moves

\* Every step keeps what the streams hold: one case per way a stream moves.
LEMMA StepStream ==
    ASSUME ClientInv, PipeInv, FaithInv, [Next]_vars, NEW r \in Reqs
    PROVE  StreamOK(r)'
<1> SUFFICES ASSUME ~stream'[r].done
             PROVE  Kept(stream'[r], r, job'[r].sent) /\ Whole(stream'[r], job'[r]) /\ AtEnd(stream'[r])
  BY DEF StreamOK
<1> DEFINE s == stream[r]
           n == job[r].sent
<1>0. /\ TypeOK /\ NoChannelPanic /\ Captured /\ WriteFresh /\ Unsent
      /\ s \in StreamType /\ Size(s) \in Nat /\ n \in Nat
  BY Counts DEF ClientInv, PipeInv, ReaderInv, ChannelInv
<1>1. /\ job'[r].sent \in Nat /\ n <= job'[r].sent
      /\ job[r].st = "over" => job'[r] = job[r]
  BY <1>0, JobGrows
<1>2. ~s.done /\ Kept(s, r, n) /\ Whole(s, job[r]) /\ AtEnd(s)
  BY <1>0, StreamGrows DEF FaithInv, StreamOK
<1> HIDE DEF s, n
<1>3. ASSUME NEW t, Kept(t, r, n), Size(t) \in Nat PROVE Kept(t, r, job'[r].sent)
  BY <1>0, <1>1, <1>3 DEF Kept
<1>4. ASSUME NEW t, Whole(t, job[r]) PROVE Whole(t, job'[r])
  BY <1>1, <1>4 DEF Whole
<1>5. CASE stream'[r] = s
  BY <1>0, <1>2, <1>3, <1>4, <1>5
<1>6. CASE stream'[r] = [s EXCEPT !.done = TRUE]
  BY <1>0, <1>6 DEF StreamType
<1>7. ASSUME NEW k \in Callers, NextRow(k, r)
      PROVE  Kept(stream'[r], r, job'[r].sent) /\ Whole(stream'[r], job'[r]) /\ AtEnd(stream'[r])
  <2>1. /\ s.rows # <<>>
        /\ stream'[r] = [s EXCEPT !.rows = Tail(s.rows), !.got = Append(s.got, Head(s.rows))]
    BY <1>0, <1>7 DEF NextRow, TypeOK, StreamsOK, s
  <2>2. Kept(stream'[r], r, n) /\ Size(stream'[r]) = Size(s)
    BY <1>0, <1>2, <2>1, KeptTake
  <2>3. stream'[r].shut = s.shut /\ stream'[r].err = s.err /\ stream'[r].verdict = s.verdict
    BY <1>0, <2>1 DEF StreamType
  <2>4. Whole(stream'[r], job[r]) /\ AtEnd(stream'[r])
    BY <1>2, <2>1, <2>2, <2>3 DEF Whole, AtEnd
  <2> QED BY <1>0, <1>3, <1>4, <2>2, <2>4
<1>8. ASSUME NEW k \in Callers, NextEnd(k, r)
      PROVE  Kept(stream'[r], r, job'[r].sent) /\ Whole(stream'[r], job'[r]) /\ AtEnd(stream'[r])
  <2>1. /\ s.rows = <<>> /\ s.shut
        /\ stream'[r] = [s EXCEPT !.verdict = IF s.err THEN "err" ELSE "eof"]
    BY <1>0, <1>8 DEF NextEnd, TypeOK, StreamsOK, s
  <2>2. /\ stream'[r].rows = s.rows /\ stream'[r].got = s.got
        /\ stream'[r].shut = s.shut /\ stream'[r].err = s.err
        /\ stream'[r].verdict = "eof" => ~s.err
    BY <1>0, <2>1 DEF StreamType
  <2>3. Size(stream'[r]) = Size(s)
    BY <2>2 DEF Size
  <2>4. Kept(stream'[r], r, n) /\ Whole(stream'[r], job[r]) /\ AtEnd(stream'[r])
    BY <1>2, <2>1, <2>2, <2>3 DEF Kept, Whole, AtEnd
  <2> QED BY <1>0, <1>3, <1>4, <2>3, <2>4
<1>9. ASSUME SendRow, Target = r
      PROVE  Kept(stream'[r], r, job'[r].sent) /\ Whole(stream'[r], job'[r]) /\ AtEnd(stream'[r])
  <2>1. /\ ~s.shut /\ rl.pc = "send" /\ InHand(r) /\ rl.f \in Frame
        /\ stream'[r] = [s EXCEPT !.rows = Append(s.rows, <<r[2], rl.f.row>>)]
    BY <1>0, <1>2, <1>9, SendMoves DEF s
  <2>2. rl.f.row = Size(s) + 1
    BY <1>2, <2>1 DEF FaithInv, HandOK, NextInHand, s
  <2>3. rl.f.row <= n
    BY <2>1 DEF InHand, PipeInv, HandNumbered, Numbered, n
  <2>4. <<r[2], rl.f.row>> \in Row
    <3>1. rl.f.row \in 1..MaxRows
      <4>1. rl.f.row \in 0..MaxRows /\ rl.f.row # 0
        BY <2>1 DEF Frame, FrameShape, InHand, RowOf
      <4> QED BY <4>1, ConstantsAssumption
    <3> QED BY <3>1, ReqParts DEF Row
  <2>5. Kept(stream'[r], r, n) /\ Size(stream'[r]) = Size(s) + 1
    BY <1>0, <1>2, <2>1, <2>2, <2>3, <2>4, KeptPut
  <2>6. ~stream'[r].shut /\ stream'[r].verdict = s.verdict
    BY <1>0, <2>1 DEF StreamType
  <2>7. Whole(stream'[r], job[r]) /\ AtEnd(stream'[r])
    BY <1>2, <2>1, <2>6 DEF Whole, AtEnd
  <2> QED BY <1>0, <1>3, <1>4, <2>5, <2>7
<1>10. ASSUME NEW e \in BOOLEAN, Shuts(r, e),
              ~e => Size(s) = job[r].sent /\ job[r].st = "over"
       PROVE  Kept(stream'[r], r, job'[r].sent) /\ Whole(stream'[r], job'[r]) /\ AtEnd(stream'[r])
  <2>1. ~s.shut /\ stream'[r] = [s EXCEPT !.shut = TRUE, !.err = e]
    BY <1>0, <1>10, ShutsOpen DEF s
  <2>2. /\ stream'[r].rows = s.rows /\ stream'[r].got = s.got /\ stream'[r].verdict = s.verdict
        /\ stream'[r].err = e
    BY <1>0, <2>1 DEF StreamType
  <2>3. Size(stream'[r]) = Size(s)
    BY <2>2 DEF Size
  <2>4. Kept(stream'[r], r, n) /\ Whole(stream'[r], job[r]) /\ AtEnd(stream'[r])
    BY <1>2, <1>10, <2>1, <2>2, <2>3 DEF Kept, Whole, AtEnd
  <2> QED BY <1>0, <1>3, <1>4, <2>3, <2>4
<1>11. CASE DispatchEnd /\ rl.f.conn = r[1] /\ rl.f.id = r[2] /\ Shuts(r, EndErr(rl.f))
  <2>1. rl.pc = "dispatch" /\ rl.f.kind = "end" /\ Current(r) /\ rl.f.ok \in BOOLEAN
    BY <1>0, <1>11 DEF DispatchEnd, Shuts, TypeOK, LoopOK, LoopType, Frame, FrameShape
  <2>2. rl.f.ok => OkEnd(rl.f, r)
    BY <1>11, <2>1 DEF OkEnd
  <2>3. rl.f.ok => Size(s) = job[r].sent
    BY <1>2, <2>1, <2>2 DEF FaithInv, HandOK, EndInHand, s
  <2>4. rl.f.ok => job[r].st = "over"
    BY <2>1, <2>2 DEF PipeInv, HandNumbered, Numbered, Inside
  <2>5. EndErr(rl.f) \in BOOLEAN /\ (~EndErr(rl.f) => rl.f.ok)
    BY DEF EndErr
  <2> QED BY <1>10, <1>11, <2>3, <2>4, <2>5
<1>12. CASE Shuts(r, TRUE)
  BY <1>10, <1>12
<1>13. Moves(r)
  BY <1>0, StreamMoves
<1> QED BY <1>5, <1>6, <1>7, <1>8, <1>9, <1>11, <1>12, <1>13 DEF Moves, s

\* A stream becomes current when its id is taken, and then it is new.
LEMMA CurrentBack ==
    ASSUME ClientInv, [Next]_vars, NEW r \in Reqs, Current(r)'
    PROVE  \/ Current(r)
           \/ /\ \E k \in Callers : Lock(k)
              /\ job[r].st = "none" /\ UNCHANGED <<rl, stdout, job, stream>>
<1> USE DEF ClientInv, TypeOK
<1>0. r[1] \in Conns /\ r[2] \in Ids /\ r[2] # Nil /\ r = <<r[1], r[2]>>
  BY ReqParts, NilType DEF Reqs
<1>1. ASSUME NEW k \in Callers, Lock(k), ~Current(r)
      PROVE  job[r].st = "none" /\ UNCHANGED <<rl, stdout, job, stream>>
  <2>1. r[1] = call[k].conn /\ r[2] = nextID[r[1]]
    BY <1>0, <1>1 DEF Lock, Current, RequestsOK
  <2>2. r[2] >= nextID[r[1]]
    BY <2>1, ReqParts
  <2> QED BY <1>1, <2>2 DEF ReaderInv, FreshUnsent, Lock, sidecarVars
<1>2. CASE ~\E k \in Callers : Lock(k)
  BY <1>0, <1>2, QuietStep DEF Quiet, Current
<1> QED BY <1>1, <1>2

\* Nothing of a request that was not sent is on its way.
LEMMA NothingSent ==
    ASSUME ClientInv, PipeInv, NEW r \in Reqs, job[r].st = "none"
    PROVE  /\ \A f \in Frame : Numbered(job, f) => ~RowOf(f, r) /\ ~OkEnd(f, r)
           /\ job[r].sent = 0
<1>1. job[r].sent = 0
  BY DEF PipeInv, Unsent
<1>2. ASSUME NEW f \in Frame, Numbered(job, f) PROVE ~RowOf(f, r) /\ ~OkEnd(f, r)
  <2>1. RowOf(f, r) => f.row \in Nat /\ 1 <= f.row /\ f.row <= 0
    BY <1>1, <1>2, FrameRow DEF RowOf, Numbered
  <2>2. ~OkEnd(f, r)
    BY <1>2 DEF Numbered
  <2> QED BY <2>1, <2>2
<1> QED BY <1>1, <1>2

\* What readLoop holds after it has read a frame was the first in the pipe.
LEMMA Taken ==
    ASSUME TypeOK, ReadFrame
    PROVE  /\ stdout \in Seq(Frame) /\ stdout # <<>> /\ stdout' = Tail(stdout)
           /\ 1 \in 1..Len(stdout) /\ stdout[1] \in Frame /\ stdout[1].kind # "huge"
           /\ rl.pc = "read" /\ ~Inside /\ UNCHANGED <<registered, curRows, stream, job>>
           /\ rl' = IF stdout[1].conn \in registered THEN Loop("dispatch", stdout[1])
                    ELSE IF stdout[1].kind \in {"badrow", "short"} THEN Loop("snapshot", NoFrame)
                    ELSE Loop("read", NoFrame)
<1>1. stdout \in Seq(Frame) /\ stdout # <<>> /\ stdout' = Tail(stdout)
  BY DEF TypeOK, SidecarOK, ReadFrame
<1>2. Head(stdout) = stdout[1] /\ 1 \in 1..Len(stdout) /\ stdout[1] \in Frame
  BY <1>1
<1> QED BY <1>1, <1>2 DEF ReadFrame, Inside, goExceptLoop

\* Every step keeps what readLoop holds in place.
LEMMA StepHand ==
    ASSUME ClientInv, PipeInv, FaithInv, [Next]_vars, NEW r \in Reqs
    PROVE  HandOK(r)'
<1> SUFFICES ASSUME ~stream'[r].done PROVE NextInHand(r)' /\ EndInHand(r)'
  BY DEF HandOK
<1>0. /\ TypeOK /\ NoChannelPanic /\ Captured /\ WriteFresh /\ Unsent
      /\ Size(stream[r]) \in Nat /\ Base(r) \in Nat /\ job[r].sent \in Nat
  BY Counts DEF ClientInv, PipeInv, ReaderInv, ChannelInv
<1>1. /\ ~stream[r].done
      /\ ~(SendRow /\ Target = r) => Size(stream'[r]) = Size(stream[r])
  BY <1>0, StreamGrows
<1>2. NextInHand(r) /\ EndInHand(r)
  BY <1>1 DEF FaithInv, HandOK
<1>3. CASE ~Inside'
  BY <1>3 DEF NextInHand, EndInHand, InHand, Inside
<1>4. CASE ReadFrame /\ Inside'
  <2>1. /\ stdout \in Seq(Frame) /\ stdout # <<>> /\ 1 \in 1..Len(stdout)
        /\ rl.pc = "read" /\ ~Inside /\ UNCHANGED <<registered, curRows, stream, job>>
        /\ stdout[1].conn \in registered /\ rl'.pc = "dispatch" /\ rl'.f = stdout[1]
    BY <1>0, <1>4, Taken DEF Loop, Inside
  <2>2. ASSUME stdout[1].conn = r[1], Current(r) PROVE Owed(stdout, r, Size(stream[r]), job[r].sent)
    <3>1. Live(r)
      BY <1>1, <2>1, <2>2 DEF Live, Breaking
    <3>2. Base(r) = Size(stream[r])
      BY <2>1 DEF Base, InHand
    <3> QED BY <3>1, <3>2 DEF FaithInv, PipeOK
  <2>3. Current(r)' = Current(r)
    BY <2>1 DEF Current
  <2>4. NextInHand(r)'
    <3> SUFFICES ASSUME RowOf(stdout[1], r), Current(r) PROVE stdout[1].row = Size(stream[r]) + 1
      BY <2>1, <2>3 DEF NextInHand, InHand
    <3>1. stdout[1].row <= job[r].sent
      BY <2>1 DEF PipeInv, PipeNumbered, Numbered
    <3>2. Owed(stdout, r, Size(stream[r]), job[r].sent)
      BY <2>2 DEF RowOf
    <3> QED BY <1>0, <2>1, <3>1, <3>2, OwedTake DEF PipeInv, PipeInOrder
  <2>5. EndInHand(r)'
    <3> SUFFICES ASSUME OkEnd(stdout[1], r), Current(r) PROVE Size(stream[r]) = job[r].sent
      BY <2>1, <2>3 DEF EndInHand
    <3>1. Owed(stdout, r, Size(stream[r]), job[r].sent)
      BY <2>2 DEF OkEnd
    <3> QED BY <1>0, <2>1, <3>1, OwedNothing
  <2> QED BY <2>4, <2>5
<1>5. CASE ~ReadFrame /\ Inside'
  <2>1. Inside /\ rl'.f = rl.f /\ rl.f \in Frame /\ Numbered(job, rl.f)
    BY <1>0, <1>5, HandKept DEF PipeInv, HandNumbered, TypeOK, LoopOK, LoopType
  <2>2. Size(stream'[r]) = Size(stream[r])
    BY <1>0, <1>1, <1>5, SendMoves
  <2>3. ASSUME RowOf(rl.f, r) \/ OkEnd(rl.f, r), Current(r)' PROVE Current(r)
    BY <2>1, <2>3, CurrentBack, NothingSent
  <2>4. rl'.pc = "send" => rl.pc = "send" \/ (DispatchRow /\ IsCurrent(rl.f))
    <3>1. CASE ~ReadLoop
      BY <3>1, LoopKept
    <3>2. CASE DispatchRow
      BY <3>2 DEF DispatchRow, Loop
    <3>3. CASE ReadFrame \/ DispatchResponse \/ DispatchEnd \/ DispatchBadRow \/ AbortDone
      BY <3>3 DEF ReadFrame, DispatchResponse, DispatchEnd, DispatchBadRow, AbortDone, Loop
    <3>4. CASE ReadFails \/ SendRow
      BY <3>4 DEF ReadFails, SendRow, Loop
    <3>5. CASE AbortSnapshot \/ \E c \in Conns : AbortOne(c)
      BY <1>0, <3>5 DEF AbortSnapshot, AbortOne, TypeOK, LoopOK, LoopType
    <3> QED BY <3>1, <3>2, <3>3, <3>4, <3>5 DEF ReadLoop
  <2>5. rl'.pc = "dispatch" => rl.pc = "dispatch"
    <3>1. CASE ~ReadLoop
      BY <3>1, LoopKept
    <3>2. CASE DispatchResponse \/ DispatchRow \/ DispatchEnd \/ DispatchBadRow \/ AbortDone
      BY <3>2 DEF DispatchResponse, DispatchRow, DispatchEnd, DispatchBadRow, AbortDone, Loop
    <3>3. CASE ReadFails \/ SendRow
      BY <3>3 DEF ReadFails, SendRow, Loop
    <3>4. CASE AbortSnapshot \/ \E c \in Conns : AbortOne(c)
      BY <1>0, <3>4 DEF AbortSnapshot, AbortOne, TypeOK, LoopOK, LoopType
    <3> QED BY <1>5, <3>1, <3>2, <3>3, <3>4 DEF ReadLoop
  <2>6. NextInHand(r)'
    <3> SUFFICES ASSUME RowOf(rl.f, r), rl'.pc = "send" \/ Current(r)'
                 PROVE  rl.f.row = Size(stream[r]) + 1
      BY <2>1, <2>2 DEF NextInHand, InHand
    <3>1. rl.pc = "send" \/ Current(r)
      BY <2>3, <2>4 DEF IsCurrent, Current, RowOf
    <3> QED BY <1>2, <2>1, <3>1 DEF NextInHand, InHand
  <2>7. EndInHand(r)'
    <3> SUFFICES ASSUME rl'.pc = "dispatch", OkEnd(rl.f, r), Current(r)'
                 PROVE  Size(stream[r]) = job'[r].sent
      BY <2>1, <2>2 DEF EndInHand
    <3>1. Size(stream[r]) = job[r].sent
      BY <1>2, <2>3, <2>5 DEF EndInHand
    <3>2. job'[r] = job[r]
      BY <1>0, <2>1, JobGrows DEF Numbered
    <3> QED BY <3>1, <3>2
  <2> QED BY <2>6, <2>7
<1> QED BY <1>3, <1>4, <1>5

\* A session registered by a step is new: it reads no stream.
LEMMA RegisteredBack ==
    ASSUME ClientInv, PipeInv, [Next]_vars, NEW r \in Reqs,
           r[1] \in registered', Current(r)
    PROVE  r[1] \in registered
<1>1. /\ r[1] \in Conns /\ r[2] # Nil /\ nextConn \in Nat
  BY ReqParts, NilType, ConstantsAssumption DEF ClientInv, TypeOK, SessionsOK
<1>2. r[1] # nextConn
  BY <1>1 DEF PipeInv, SessionsIssued, Current
<1>3. ASSUME NEW k \in Callers, Caller(k) PROVE registered' \subseteq registered \cup {nextConn}
  <2>1. CASE NewSession(k) \/ Drop(k) \/ \E c \in Conns, op \in UserOps : Call(k, c, op)
    BY <2>1 DEF NewSession, Call, Drop
  <2>2. CASE Lock(k) \/ Write(k) \/ Receive(k) \/ Cancelled(k) \/ Abandon(k)
    BY <2>2 DEF Lock, Write, Receive, Cancelled, Abandon
  <2>3. CASE Read(k) \/ \E q \in Reqs : CloseStream(k, q)
    BY <2>3 DEF Read, NextRow, NextEnd, CloseStream
  <2> QED BY <1>3, <2>1, <2>2, <2>3 DEF Caller, CallStep
<1>4. UNCHANGED registered \/ \E k \in Callers : Caller(k)
  BY DEF Next, ReadLoop, ReadFrame, ReadFails, DispatchResponse, DispatchRow,
     DispatchEnd, DispatchBadRow, SendRow, AbortSnapshot, AbortDone, AbortOne,
     ProcClose, Die, Finished, vars, goVars, goExceptLoop, Handle, Respond,
     RespondHeader, EmitRow, EmitFault, EmitEnd
<1> QED BY <1>2, <1>3, <1>4

\* readLoop stops being about to fail a session only when it has failed it.
LEMMA BreakingStays ==
    ASSUME TypeOK, [Next]_vars, NEW r \in Reqs, Breaking(r),
           Current(r)', r[1] \in registered'
    PROVE  Breaking(r)'
<1> USE DEF TypeOK
<1>0. r[1] \in Conns /\ r[2] # Nil
  BY ReqParts, NilType
<1>1. CASE ~ReadLoop
  BY <1>1, LoopKept DEF Breaking
<1>2. ASSUME AbortStream(r[1]) PROVE FALSE
  BY <1>0, <1>2 DEF AbortStream, Current, RequestsOK
<1>3. CASE DispatchBadRow
  BY <1>2, <1>3 DEF DispatchBadRow, Breaking
<1>4. CASE ReadFrame \/ DispatchResponse \/ DispatchRow \/ DispatchEnd \/ SendRow
  BY <1>4 DEF ReadFrame, DispatchResponse, DispatchRow, DispatchEnd, SendRow, Breaking
<1>5. CASE ReadFails
  BY <1>5 DEF ReadFails, Loop, Breaking
<1>6. CASE AbortSnapshot
  <2>1. rl'.pc = "abort" /\ rl'.todo = registered /\ UNCHANGED registered
    BY <1>6 DEF AbortSnapshot, AbortTodo, goExceptLoop, LoopOK, LoopType
  <2> QED BY <2>1 DEF Breaking
<1>7. ASSUME NEW c \in Conns, AbortOne(c) PROVE Breaking(r)'
  <2>1. /\ rl.pc = "abort" /\ rl'.pc = "abort" /\ rl'.todo = rl.todo \ {c}
        /\ c # r[1]
    BY <1>2, <1>7 DEF AbortOne, LoopOK, LoopType
  <2> QED BY <2>1 DEF Breaking
<1>8. CASE AbortDone
  BY <1>8 DEF AbortDone, Breaking
<1> QED BY <1>1, <1>3, <1>4, <1>5, <1>6, <1>7, <1>8 DEF ReadLoop

\* A stream whose next row will be handed over was such a stream before, or is
\* the new stream of the query that just took its id.
LEMMA LiveBack ==
    ASSUME ClientInv, PipeInv, [Next]_vars, NEW r \in Reqs, Live(r)'
    PROVE  \/ Live(r)
           \/ /\ ~Current(r) /\ ~stream[r].done
              /\ job[r].st = "none" /\ UNCHANGED <<rl, stdout, job, stream>>
<1>1. ~stream[r].done
  BY StreamGrows DEF Live, ClientInv, PipeInv, ReaderInv, ChannelInv
<1>2. CASE Current(r)
  <2>1. r[1] \in registered
    BY <1>2, RegisteredBack DEF Live
  <2>2. ~Breaking(r)
    BY BreakingStays DEF Live, ClientInv
  <2> QED BY <1>1, <1>2, <2>1, <2>2 DEF Live
<1>3. CASE ~Current(r)
  BY <1>1, <1>3, CurrentBack DEF Live
<1> QED BY <1>2, <1>3

\* Reading a frame.
LEMMA PipeTaken ==
    ASSUME ClientInv, PipeInv, FaithInv, [Next]_vars, ReadFrame, NEW r \in Reqs, Live(r), Live(r)'
    PROVE  Owed(stdout', r, Base(r)', job'[r].sent)
<1>1. /\ stdout \in Seq(Frame) /\ stdout # <<>> /\ stdout' = Tail(stdout) /\ 1 \in 1..Len(stdout)
      /\ stdout[1] \in Frame /\ stdout[1].kind # "huge" /\ ~Inside
      /\ UNCHANGED <<registered, curRows, stream, job>>
      /\ rl' = IF stdout[1].conn \in registered THEN Loop("dispatch", stdout[1])
               ELSE IF stdout[1].kind \in {"badrow", "short"} THEN Loop("snapshot", NoFrame)
               ELSE Loop("read", NoFrame)
  BY Taken DEF ClientInv
<1>2. /\ Size(stream[r]) \in Nat /\ job[r].sent \in Nat /\ registered \subseteq Conns
  BY Counts DEF ClientInv, TypeOK, SessionsOK
<1>3. Base(r) = Size(stream[r]) /\ Owed(stdout, r, Size(stream[r]), job[r].sent)
  BY <1>1 DEF Base, InHand, FaithInv, PipeOK
<1>4. Numbered(job, stdout[1])
  BY <1>1 DEF PipeInv, PipeNumbered
<1>5. ~Bad(stdout[1], r)
  <2>1. CASE stdout[1].kind = "short"
    <3>1. stdout[1].conn \notin registered
      BY <1>2, <1>4, <2>1, ConstantsAssumption DEF Numbered, Conns
    <3> QED BY <1>1, <2>1, <3>1 DEF Live, Breaking, Loop
  <2>2. CASE stdout[1].kind = "badrow" /\ stdout[1].conn = r[1]
    BY <1>1, <2>2 DEF Live, Breaking, Loop
  <2> QED BY <1>1, <2>1, <2>2 DEF Bad
<1>6. CASE RowOf(stdout[1], r)
  <2>1. stdout[1].row <= job[r].sent
    BY <1>4, <1>6 DEF Numbered
  <2>2. Owed(Tail(stdout), r, Size(stream[r]) + 1, job[r].sent)
    BY <1>1, <1>2, <1>3, <1>6, <2>1, OwedTake DEF PipeInv, PipeInOrder
  <2>3. rl' = Loop("dispatch", stdout[1])
    BY <1>1, <1>6 DEF RowOf, Live
  <2>4. InHand(r)'
    BY <1>6, <2>3 DEF InHand, Inside, Loop
  <2>5. Base(r)' = Size(stream[r]) + 1
    BY <1>1, <2>4 DEF Base
  <2> QED BY <1>1, <2>2, <2>5
<1>7. CASE ~RowOf(stdout[1], r)
  <2>1. Owed(Tail(stdout), r, Size(stream[r]), job[r].sent)
    BY <1>1, <1>2, <1>3, <1>5, <1>7, OwedSkip
  <2>2. ~InHand(r)'
    <3>1. Inside' => rl'.f = stdout[1]
      BY <1>1 DEF Inside, Loop
    <3> QED BY <1>7, <3>1 DEF InHand
  <2>3. Base(r)' = Size(stream[r])
    BY <1>1, <2>2 DEF Base
  <2> QED BY <1>1, <2>1, <2>3
<1> QED BY <1>6, <1>7

\* Writing a frame.
LEMMA PipePut ==
    ASSUME ClientInv, PipeInv, FaithInv, [Next]_vars, NEW q \in Reqs, Handle(q),
           NEW r \in Reqs, Live(r)
    PROVE  Owed(stdout', r, Base(r)', job'[r].sent)
<1>1. PICK f \in Frame : Puts(q, f)
  BY HandlePuts DEF ClientInv
<1>2. /\ Base(r) \in Nat /\ job[r].sent \in Nat /\ stdout \in Seq(Frame)
      /\ stdout' = Append(stdout, f)
  BY <1>1, Counts DEF Puts, ClientInv, TypeOK, SidecarOK
<1>3. Base(r)' = Base(r)
  BY DEF Handle, Respond, RespondHeader, EmitRow, EmitFault, EmitEnd, goVars, Base, InHand, Inside
<1>4. Owed(stdout, r, Base(r), job[r].sent)
  BY DEF FaithInv, PipeOK
<1>5. /\ job'[r].sent \in {job[r].sent, job[r].sent + 1}
      /\ RowOf(f, r) => f.row = job[r].sent + 1
      /\ job'[r].sent = job[r].sent + 1 => /\ RowOf(f, r) \/ Bad(f, r)
                                           /\ job[r].st = "rows"
  <2>1. CASE r = q
    BY <1>1, <1>2, <2>1 DEF Puts
  <2>2. CASE r # q
    BY <1>1, <1>2, <2>2 DEF Puts
  <2> QED BY <2>1, <2>2
<1>6. job[r].st = "rows" => \A i \in 1..Len(stdout) : ~OkEnd(stdout[i], r)
  BY DEF PipeInv, PipeNumbered, Numbered
<1> QED BY <1>2, <1>3, <1>4, <1>5, <1>6, OwedPut

\* A step that neither reads nor writes a frame, nor hands a row to r, leaves
\* readLoop's hand as full of r as it was, as long as r goes on.
LEMMA HandStays ==
    ASSUME ClientInv, PipeInv, [Next]_vars, NEW r \in Reqs, Live(r), Live(r)', ~ReadFrame,
           ~(SendRow /\ Target = r)
    PROVE  InHand(r)' <=> InHand(r)
<1> USE DEF ClientInv, TypeOK
<1>0. r = <<r[1], r[2]>> /\ r[1] \in Conns /\ r[2] # Nil
  BY ReqParts, NilType DEF Reqs
<1>1. InHand(r)' => InHand(r)
  BY HandKept DEF InHand
<1>2. ASSUME InHand(r) PROVE InHand(r)'
  <2>1. CASE ~ReadLoop
    BY <1>2, <2>1, LoopKept DEF InHand, Inside
  <2>2. rl.pc \in {"dispatch", "send"} /\ rl.f.kind = "row" /\ rl.f.conn = r[1] /\ rl.f.id = r[2]
    BY <1>2 DEF InHand, Inside, RowOf
  <2>3. ~ReadFails /\ ~DispatchResponse /\ ~DispatchEnd /\ ~DispatchBadRow
        /\ ~AbortSnapshot /\ ~AbortDone /\ ~\E c \in Conns : AbortOne(c)
    BY <2>2 DEF ReadFails, DispatchResponse, DispatchEnd, DispatchBadRow, AbortSnapshot,
       AbortDone, AbortOne
  <2>4. ~SendRow
    <3>1. rl.pc = "send" => Target = r
      BY <1>0, <2>2 DEF PipeInv, Captured, Target
    <3> QED BY <3>1 DEF SendRow
  <2>5. CASE DispatchRow
    <3>1. IsCurrent(rl.f)
      BY <2>2 DEF Live, Current, IsCurrent
    <3>2. rl'.pc = "send" /\ rl'.f = rl.f
      BY <2>5, <3>1 DEF DispatchRow, Loop
    <3> QED BY <1>2, <3>2 DEF InHand, Inside
  <2> QED BY <2>1, <2>3, <2>4, <2>5 DEF ReadLoop
<1> QED BY <1>1, <1>2

\* Every step keeps what the pipe owes to the streams that go on.
LEMMA StepPipeOK ==
    ASSUME ClientInv, PipeInv, FaithInv, [Next]_vars, NEW r \in Reqs
    PROVE  PipeOK(r)'
<1> SUFFICES ASSUME Live(r)' PROVE Owed(stdout', r, Base(r)', job'[r].sent)
  BY DEF PipeOK
<1>0. /\ TypeOK /\ NoChannelPanic /\ Captured /\ WriteFresh /\ Unsent
      /\ Size(stream[r]) \in Nat /\ Base(r) \in Nat /\ job[r].sent \in Nat
      /\ rl.f \in Frame
  BY Counts DEF ClientInv, PipeInv, ReaderInv, ChannelInv, TypeOK, LoopOK, LoopType
<1>1. CASE Live(r) /\ ReadFrame
  BY <1>1, PipeTaken
<1>2. CASE Live(r) /\ \E q \in Reqs : Handle(q)
  BY <1>2, PipePut
<1>3. CASE Live(r) /\ ~ReadFrame /\ ~\E q \in Reqs : Handle(q)
  <2>1. stdout' = stdout /\ job'[r].sent = job[r].sent /\ Owed(stdout, r, Base(r), job[r].sent)
    BY <1>0, <1>3, PipeKept, JobGrows DEF FaithInv, PipeOK
  <2>2. CASE SendRow /\ Target = r
    <3>1. /\ InHand(r) /\ ~Inside' /\ rl.pc = "send" /\ ~stream[r].done /\ stream[r] \in StreamType
          /\ stream'[r] = [stream[r] EXCEPT !.rows = Append(stream[r].rows, <<r[2], rl.f.row>>)]
      BY <1>0, <1>3, <2>2, SendMoves, Counts DEF Live
    <3>2. Kept(stream[r], r, job[r].sent) /\ rl.f.row = Size(stream[r]) + 1
      BY <3>1 DEF FaithInv, StreamOK, HandOK, NextInHand
    <3>3. rl.f.row <= job[r].sent /\ rl.f.row \in 1..MaxRows
      <4>1. rl.f.row \in 0..MaxRows /\ rl.f.row # 0
        BY <1>0, <3>1 DEF Frame, FrameShape, InHand, RowOf
      <4> QED BY <3>1, <4>1, ConstantsAssumption DEF InHand, PipeInv, HandNumbered, Numbered
    <3>4. Size(stream'[r]) = Size(stream[r]) + 1
      <4>1. <<r[2], rl.f.row>> \in Row
        BY <3>3, ReqParts DEF Row
      <4> QED BY <1>0, <3>1, <3>2, <3>3, <4>1, KeptPut
    <3>5. Base(r)' = Base(r)
      BY <3>1, <3>4 DEF Base, InHand
    <3> QED BY <2>1, <3>5
  <2>3. CASE ~(SendRow /\ Target = r)
    <3>1. Size(stream'[r]) = Size(stream[r])
      BY <1>0, <2>3, StreamGrows
    <3>2. InHand(r)' <=> InHand(r)
      BY <1>3, <2>3, HandStays
    <3>3. Base(r)' = Base(r)
      BY <3>1, <3>2 DEF Base
    <3> QED BY <2>1, <3>3
  <2> QED BY <2>2, <2>3
<1>4. CASE ~Live(r)
  <2>1. ~stream[r].done /\ job[r].st = "none" /\ UNCHANGED <<rl, stdout, job, stream>>
    BY <1>4, LiveBack
  <2>2. /\ job[r].sent = 0
        /\ \A i \in 1..Len(stdout) : ~RowOf(stdout[i], r) /\ ~OkEnd(stdout[i], r)
        /\ ~InHand(r)
    <3>1. /\ job[r].sent = 0
          /\ \A f \in Frame : Numbered(job, f) => ~RowOf(f, r) /\ ~OkEnd(f, r)
      BY <2>1, NothingSent
    <3>2. \A i \in 1..Len(stdout) : stdout[i] \in Frame /\ Numbered(job, stdout[i])
      BY <1>0 DEF PipeInv, PipeNumbered, TypeOK, SidecarOK
    <3>3. Inside => Numbered(job, rl.f)
      BY DEF PipeInv, HandNumbered
    <3> QED BY <1>0, <3>1, <3>2, <3>3 DEF InHand
  <2>3. Size(stream[r]) = 0
    BY <1>0, <2>1, <2>2 DEF FaithInv, StreamOK, Kept
  <2>4. Base(r)' = 0
    BY <2>1, <2>2, <2>3 DEF Base, InHand, Inside
  <2>5. Owed(stdout, r, 0, 0)
    BY <2>2 DEF Owed
  <2> QED BY <2>1, <2>2, <2>4, <2>5
<1> QED BY <1>1, <1>2, <1>3, <1>4

-----------------------------------------------------------------------------

\* The invariant says what StreamFaithful asks.
LEMMA FaithSuffices ==
    ASSUME TypeOK, FaithInv
    PROVE  StreamFaithful
<1> SUFFICES ASSUME NEW r \in Reqs, ~stream[r].done
             PROVE  /\ stream[r].got = RowsOf(r, Len(stream[r].got))
                    /\ stream[r].verdict = "eof" => /\ Len(stream[r].got) = job[r].sent
                                                    /\ job[r].st = "over"
  BY DEF StreamFaithful
<1> DEFINE s == stream[r]
<1>1. /\ s \in StreamType /\ Len(s.got) \in Nat /\ Len(s.rows) \in Nat /\ s.got \in Seq(Row)
  BY Counts DEF StreamType
<1>2. Kept(s, r, job[r].sent) /\ Whole(s, job[r]) /\ AtEnd(s)
  BY DEF FaithInv, StreamOK
<1>3. s.got = RowsOf(r, Len(s.got))
  <2> DEFINE g == s.got
  <2>1. g \in Seq(Row) /\ \A j \in 1..Len(g) : g[j] = <<r[2], j>>
    BY <1>1, <1>2 DEF Kept
  <2> HIDE DEF g
  <2>2. g = [j \in 1..Len(g) |-> g[j]]
    BY <2>1
  <2>3. g = [j \in 1..Len(g) |-> <<r[2], j>>]
    BY <2>1, <2>2, Zenon
  <2> QED BY <2>3 DEF RowsOf, g
<1>4. ASSUME s.verdict = "eof" PROVE Len(s.got) = job[r].sent /\ job[r].st = "over"
  <2>1. s.shut /\ ~s.err /\ s.rows = <<>>
    BY <1>2, <1>4 DEF AtEnd
  <2>2. Size(s) = job[r].sent /\ job[r].st = "over"
    BY <1>2, <2>1 DEF Whole
  <2>3. Len(s.rows) = 0
    BY <2>1
  <2> QED BY <1>1, <2>2, <2>3 DEF Size
<1> QED BY <1>3, <1>4

\* The initial state owes nothing.
LEMMA InitFaith == Init => ClientInv /\ PipeInv /\ FaithInv
<1> SUFFICES ASSUME Init PROVE ClientInv /\ PipeInv /\ FaithInv
  OBVIOUS
<1>1. TypeOK
  BY InitType
<1>2. ReaderInv
  BY NilType
  DEF Init, ReaderInv, ChannelInv, CurrentIssued, FreshOpen, NoChannelPanic, NewRows,
      Loop, CallIssued, CurrentIsQuery, FreshUnsent, RowsSent, CurrentRead, SendRead, Holds, Idle,
      NoJob
<1>3. OneCallPerSession
  BY DEF Init, OneCallPerSession, Holds, Idle
<1>4. PipeInv
  <2>1. stdout = <<>> /\ rl.pc = "read" /\ \A r \in Reqs : job[r].sent = 0
    BY DEF Init, Loop, NoJob
  <2>2. SessionsIssued
    BY DEF Init, SessionsIssued, Idle
  <2>3. WriteFresh
    BY DEF Init, WriteFresh, Idle
  <2> QED BY <2>1, <2>2, <2>3
          DEF PipeInv, Unsent, PipeNumbered, HandNumbered, Inside, PipeInOrder, InOrder, Captured
<1>5. FaithInv
  <2> SUFFICES ASSUME NEW r \in Reqs PROVE StreamOK(r) /\ HandOK(r) /\ PipeOK(r)
    BY DEF FaithInv
  <2>1. r[1] \in Conns /\ r[2] # Nil
    BY ReqParts, NilType
  <2>2. ~Current(r) /\ rl.pc = "read" /\ stream[r] = NewRows /\ job[r].sent = 0
    BY <2>1 DEF Init, Current, Loop, NoJob
  <2>3. StreamOK(r)
    BY <2>2 DEF StreamOK, NewRows, Kept, Size, Whole, AtEnd
  <2>4. HandOK(r) /\ PipeOK(r)
    BY <2>2 DEF HandOK, NextInHand, EndInHand, InHand, Inside, PipeOK, Live
  <2> QED BY <2>3, <2>4
<1> QED BY <1>1, <1>2, <1>3, <1>4, <1>5 DEF ClientInv

\* What a reader takes from a stream it did not close is a prefix of its own
\* query's rows, in order, without a gap and without a row of another query,
\* and io.EOF comes only after the whole result and its END(ok): whatever was
\* cancelled, closed, aborted or overlapped on the session, and whenever the
\* process dies (client.go:318-376).
THEOREM Faithful == Spec => []StreamFaithful
<1>1. Init => ClientInv /\ PipeInv /\ FaithInv
  BY InitFaith
<1>2. ClientInv /\ [Next]_vars => ClientInv'
  BY StepType, StepOneCall, StepChannel, StepIssued, StepRows, StepCurrentRead, StepSendRead
  DEF ClientInv, ReaderInv
<1>3. ClientInv /\ PipeInv /\ [Next]_vars => PipeInv'
  BY StepPipe
<1>4. ClientInv /\ PipeInv /\ FaithInv /\ [Next]_vars => FaithInv'
  BY StepStream, StepHand, StepPipeOK DEF FaithInv
<1>5. ClientInv /\ FaithInv => StreamFaithful
  BY FaithSuffices DEF ClientInv
<1> QED BY <1>1, <1>2, <1>3, <1>4, <1>5, PTL DEF Spec
=============================================================================
