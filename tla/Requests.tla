----------------------------- MODULE Requests -----------------------------
(***************************************************************************)
(* A statement from the program to the JDBC driver and its rows back: the  *)
(* text is adapted (driver.go, driver_pg.go), the frame is written piece   *)
(* by piece under writeMu into the stdin pipe all goroutines share         *)
(* (client.go, proto.go), main puts the pieces together again and hands    *)
(* the request to the pool (Main.java, Protocol.java), a handler rewrites, *)
(* binds and executes (Session.java).                                      *)
(*                                                                         *)
(* AgentClient writes a frame in one step and never loses one; this module *)
(* shows what that rests on, and what a frame over the limit does.  Each   *)
(* goroutine makes one call, on a session of its own.                      *)
(***************************************************************************)
EXTENDS SqlText, Codec, SequencesExt

CONSTANTS
    Callers,    \* goroutines of the host program
    Jobs,       \* what they may be about to do: functions from Callers to calls
    MaxFrame,   \* bound: largest length of a frame (16 MiB in the code)
    PipeCap     \* pieces the stdin pipe holds

ASSUME RequestsAssumption ==
    /\ MaxFrame \in Nat \ {0} /\ PipeCap \in Nat \ {0}
    /\ \A j \in Jobs : \A k \in Callers :
          /\ j[k].size \in Nat
          /\ j[k].text \in Seq(STRING)
          /\ j[k].args \in Seq(Values(GoTag))
          /\ j[k].rows \in Seq(Seq(Values(JavaTag)))

\* A call and the CANCEL its context may cause are written by two goroutines.
Writers == Callers \X {"call", "cancel"}
NotRun  == <<>>

VARIABLES
    job,      \* the call of each goroutine: its text, family and arguments,
              \* whether it was prepared, the pieces of its payload (0: none),
              \* the rows the database has for it, and whether there may be
              \* trouble: a cancelled context, a failing JDBC, a dying process
    pc,       \* start, write, wait, done
    sql,      \* the text in its request
    outcome,  \* what the call returned: none, ok, error
    dest,     \* the rows Rows.Next delivered
    wr,       \* each writer: none, lock (waits for writeMu), held, over
    sent,     \* pieces of its frame it has written
    closed,   \* AgentProc.closed has been closed
    stdin,    \* pieces in the pipe: <<writer, number>>
    main,     \* main of the sidecar: read, gone
    need,     \* length of the frame main is in, 0 at a header
    got,      \* pieces of that frame
    task,     \* the handler of each call: none, queued, ran, failed, over
    ran,      \* the text it executed and the arguments it bound
    inbox,    \* the answer on its way to the call: none, ok, error
    proc      \* the process: up, dead

callVars    == <<pc, outcome, dest>>
writeVars   == <<wr, sent>>
mainVars    == <<main, need, got>>
handlerVars == <<task, ran, inbox>>
vars == <<job, callVars, sql, writeVars, closed, stdin, mainVars, handlerVars, proc>>

Alive         == proc = "up"
Payload(w)    == IF w[2] = "call" THEN job[w[1]].size ELSE 1
Pieces(w)     == Payload(w) + 2                    \* header, type, payload
Length(piece) == IF piece[2] = 1 THEN Payload(piece[1]) + 1 ELSE 0

-----------------------------------------------------------------------------
(* Seeded faults for the mutation runs *)

AnyTime           == TRUE
NeverExpires      == FALSE
HeaderNotCounted(n) == n < 1 \/ n > MaxFrame + 1

-----------------------------------------------------------------------------
(* The calls *)

\* Prepare adapts the text, and ExecContext or QueryContext adapts it again.
Adapted(j) ==
    LET once == adaptSQL(j.family, j.text)
    IN  IF j.prepared THEN adaptSQL(j.family, once) ELSE once

Begin(k) ==
    /\ pc[k] = "start"
    /\ job[k].size # 0
    /\ pc' = [pc EXCEPT ![k] = "write"]
    /\ sql' = [sql EXCEPT ![k] = Adapted(job[k])]
    /\ wr' = [wr EXCEPT ![<<k, "call">>] = "lock"]
    /\ UNCHANGED <<job, outcome, dest, sent, closed, stdin, mainVars, handlerVars, proc>>

WriteMuFree == \A w \in Writers : wr[w] # "held"

TakeWriteMu(w) ==
    /\ wr[w] = "lock"
    /\ WriteMuFree
    /\ wr' = [wr EXCEPT ![w] = "held"]
    /\ UNCHANGED <<job, callVars, sql, sent, closed, stdin, mainVars, handlerVars, proc>>

Return(k, o) ==
    /\ pc' = [pc EXCEPT ![k] = "done"]
    /\ outcome' = [outcome EXCEPT ![k] = o]

\* writeFrame: the next piece goes into the pipe once there is room for it;
\* after the last one writeMu is free again and the call waits.
WritePiece(w) ==
    LET last == sent[w] + 1 = Pieces(w) IN
    /\ wr[w] = "held"
    /\ Alive
    /\ Len(stdin) < PipeCap
    /\ stdin' = Append(stdin, <<w, sent[w] + 1>>)
    /\ sent' = [sent EXCEPT ![w] = @ + 1]
    /\ wr' = IF last THEN [wr EXCEPT ![w] = "over"] ELSE wr
    /\ pc' = IF last /\ w[2] = "call" THEN [pc EXCEPT ![w[1]] = "wait"] ELSE pc
    /\ UNCHANGED <<job, outcome, dest, sql, closed, mainVars, handlerVars, proc>>

\* EPIPE, wherever in the frame the writer is.
WriteFails(w) ==
    /\ wr[w] = "held"
    /\ ~Alive
    /\ wr' = [wr EXCEPT ![w] = "over"]
    /\ IF w[2] = "call" THEN Return(w[1], "error") ELSE UNCHANGED <<pc, outcome>>
    /\ UNCHANGED <<job, dest, sql, sent, closed, stdin, mainVars, handlerVars, proc>>

RowFrame(family, row) ==
    EncodeRowBatch(0, 0, FlattenSeq([i \in DOMAIN row |-> encodeColumn(family, row[i])]))

Received(j, n) == decodeRowBatch(RowFrame(j.family, j.rows[n])).row

\* Rows.Next copies the values of a row over those of the row before.
Copied(from, to) ==
    [i \in DOMAIN from \cup DOMAIN to |-> IF i \in DOMAIN from THEN from[i] ELSE to[i]]
Delivered(j) ==
    LET after[n \in 0..Len(j.rows)] ==
            IF n = 0 THEN <<>> ELSE Copied(Received(j, n), after[n - 1])
    IN  [n \in DOMAIN j.rows |-> after[n]]

\* The select of exec: the answer, the end of the process, the context, whose
\* CANCEL is written by a new goroutine.
Receive(k) ==
    /\ pc[k] = "wait"
    /\ inbox[k] # "none"
    /\ Return(k, inbox[k])
    /\ dest' = IF inbox[k] = "ok" THEN [dest EXCEPT ![k] = Delivered(job[k])] ELSE dest
    /\ UNCHANGED <<job, sql, writeVars, closed, stdin, mainVars, handlerVars, proc>>

Abandon(k) ==
    /\ pc[k] = "wait"
    /\ closed
    /\ Return(k, "error")
    /\ UNCHANGED <<job, dest, sql, writeVars, closed, stdin, mainVars, handlerVars, proc>>

Cancelled(k) ==
    /\ job[k].trouble
    /\ pc[k] = "wait"
    /\ Return(k, "error")
    /\ wr' = [wr EXCEPT ![<<k, "cancel">>] = "lock"]
    /\ UNCHANGED <<job, dest, sql, sent, closed, stdin, mainVars, handlerVars, proc>>

\* readLoop meets the end of stdout.
Eof ==
    /\ ~Alive
    /\ ~closed
    /\ closed' = TRUE
    /\ UNCHANGED <<job, callVars, sql, writeVars, stdin, mainVars, handlerVars, proc>>

-----------------------------------------------------------------------------
(* The sidecar *)

TooLong(n) == n < 1 \/ n > MaxFrame

\* readFrame at a header.  A length out of range is an IOException that main
\* does not catch: main is gone, the pool's threads are not.
ReadHeader ==
    LET n == Length(Head(stdin)) IN
    /\ Alive /\ main = "read" /\ need = 0 /\ stdin # <<>>
    /\ stdin' = Tail(stdin)
    /\ IF TooLong(n) THEN main' = "gone" /\ UNCHANGED <<need, got>>
       ELSE need' = n /\ got' = <<>> /\ UNCHANGED main
    /\ UNCHANGED <<job, callVars, sql, writeVars, closed, handlerVars, proc>>

\* readFrame behind it.  A whole REQUEST goes to the pool; a CANCEL has no
\* effect here but the failure every handler may meet.
ReadPiece ==
    LET frame == Append(got, Head(stdin))
        w     == frame[1][1]
    IN  /\ Alive /\ main = "read" /\ need # 0 /\ stdin # <<>>
        /\ stdin' = Tail(stdin)
        /\ got' = frame
        /\ need' = IF Len(frame) = need THEN 0 ELSE need
        /\ task' = IF Len(frame) = need /\ w[2] = "call"
                   THEN [task EXCEPT ![w[1]] = "queued"] ELSE task
        /\ UNCHANGED <<job, callVars, sql, writeVars, closed, main, ran, inbox, proc>>

\* The arguments as bind hands them to the JDBC statement.
Bound(args) ==
    decodeArgs(FlattenSeq([i \in DOMAIN args |-> encodeValue(args[i])])).row

Execute(k) ==
    /\ Alive
    /\ task[k] = "queued"
    /\ \/ /\ ran' = [ran EXCEPT ![k] = [text |-> BindRewriter(sql[k]), args |-> Bound(job[k].args)]]
          /\ task' = [task EXCEPT ![k] = "ran"]
       \/ /\ job[k].trouble
          /\ task' = [task EXCEPT ![k] = "failed"]
          /\ UNCHANGED ran
    /\ UNCHANGED <<job, callVars, sql, writeVars, closed, stdin, mainVars, inbox, proc>>

\* The RESPONSE, and for a QUERY its rows and END: what was executed may still
\* be reported as failed.
Answer(k) ==
    /\ Alive
    /\ task[k] \in {"ran", "failed"}
    /\ \E o \in {"ok", "error"} :
        /\ o = "ok" => task[k] = "ran"
        /\ o = "error" => task[k] = "failed" \/ job[k].trouble
        /\ inbox' = [inbox EXCEPT ![k] = o]
    /\ task' = [task EXCEPT ![k] = "over"]
    /\ UNCHANGED <<job, callVars, sql, writeVars, closed, stdin, mainVars, ran, proc>>

\* Without main the JVM ends when its last pool thread has been idle for a
\* minute.
Expires == main = "gone" /\ \A k \in Callers : task[k] \in {"none", "over"}

Die ==
    /\ Alive
    /\ Expires \/ \E k \in Callers : job[k].trouble
    /\ proc' = "dead"
    /\ UNCHANGED <<job, callVars, sql, writeVars, closed, stdin, mainVars, handlerVars>>

-----------------------------------------------------------------------------

Init ==
    /\ job \in Jobs
    /\ pc = [k \in Callers |-> "start"]
    /\ sql = [k \in Callers |-> <<>>]
    /\ outcome = [k \in Callers |-> "none"]
    /\ dest = [k \in Callers |-> <<>>]
    /\ wr = [w \in Writers |-> "none"]
    /\ sent = [w \in Writers |-> 0]
    /\ closed = FALSE
    /\ stdin = <<>>
    /\ main = "read"
    /\ need = 0
    /\ got = <<>>
    /\ task = [k \in Callers |-> "none"]
    /\ ran = [k \in Callers |-> NotRun]
    /\ inbox = [k \in Callers |-> "none"]
    /\ proc = "up"

Write(w)   == TakeWriteMu(w) \/ WritePiece(w) \/ WriteFails(w)
Wait(k)    == Receive(k) \/ Abandon(k)
Main       == ReadHeader \/ ReadPiece
Handler(k) == Execute(k) \/ Answer(k)

\* Nothing is left to do.
Finished ==
    /\ \A k \in Callers : pc[k] = "done" \/ job[k].size = 0
    /\ \A w \in Writers : wr[w] \in {"none", "over"}
    /\ UNCHANGED vars

Next ==
    \/ \E w \in Writers : Write(w)
    \/ \E k \in Callers : Begin(k) \/ Wait(k) \/ Cancelled(k) \/ Handler(k)
    \/ Main \/ Die \/ Eof
    \/ Finished

Spec == Init /\ [][Next]_vars

\* A call whose select has something to take; Wait(k) ends that, so weak
\* fairness of Wait(k) is that it does not last.
MayReturn(k) == pc[k] = "wait" /\ (inbox[k] # "none" \/ closed)

\* Goroutines that can run do, main and the pool's threads run, JDBC calls
\* return, and an idle JVM without main ends.
Fairness ==
    /\ \A w \in Writers : WF_vars(Write(w))
    /\ \A k \in Callers : []<>~MayReturn(k) /\ WF_vars(Handler(k))
    /\ WF_vars(Main) /\ WF_vars(Expires /\ Die) /\ WF_vars(Eof)

FairSpec == Spec /\ Fairness

-----------------------------------------------------------------------------
(* Properties *)

Piece == Writers \X Nat

\* The state stays within its types.
TypeOK ==
    /\ pc \in [Callers -> {"start", "write", "wait", "done"}]
    /\ outcome \in [Callers -> {"none", "ok", "error"}]
    /\ wr \in [Writers -> {"none", "lock", "held", "over"}]
    /\ \A w \in Writers : sent[w] \in 0..Pieces(w)
    /\ closed \in BOOLEAN /\ proc \in {"up", "dead"} /\ main \in {"read", "gone"}
    /\ stdin \in Seq(Piece) /\ Len(stdin) <= PipeCap
    /\ need \in 0..MaxFrame /\ got \in Seq(Piece) /\ Len(got) <= MaxFrame
    /\ task \in [Callers -> {"none", "queued", "ran", "failed", "over"}]
    /\ inbox \in [Callers -> {"none", "ok", "error"}]

\* Piece q may stand behind piece p: the next one of its frame, or the header
\* of another frame behind the last one.
Follows(p, q) ==
    IF p[2] = Pieces(p[1]) THEN q[2] = 1 ELSE q = <<p[1], p[2] + 1>>

\* Frames are never mixed in the pipe, whoever writes, is cancelled or waits
\* for room, and main never takes a piece for a header that is none: comment at
\* client.go:204.
FramesWhole ==
    /\ \A i \in 1..(Len(stdin) - 1) : Follows(stdin[i], stdin[i + 1])
    /\ main = "read" /\ stdin # <<>> =>
          IF need = 0 THEN Head(stdin)[2] = 1
          ELSE got # <<>> => Follows(got[Len(got)], Head(stdin))

\* What is executed for a call is the text the program meant, whichever path
\* it took through Prepare and whatever literals and comments it contains, at
\* most once, and success is an execution (driver_pg.go:7, BindRewriter.java:3).
Calls == INSTANCE AgentCalls WITH
    wanted  <- [k \in Callers |-> Meant(job[k].family, job[k].text)],
    asked   <- {k \in Callers : pc[k] # "start"},
    ran     <- [k \in Callers |-> IF ran[k] = NotRun THEN <<>> ELSE <<ran[k].text>>]
KeepsCalls == Calls!CallsSpec

\* What a value becomes on the other side (docs/protocol.md:92-112): kinds merge,
\* data does not change.
Become ==
    [null |-> "nil", Boolean |-> "bool", Integer |-> "int64", Long |-> "int64",
     Float |-> "float64", Double |-> "float64", BigDecimal |-> "string", Clob |-> "string",
     Object |-> "string", Time |-> "string", Timestamp |-> "time", Date |-> "time",
     bytes |-> "bytes", Blob |-> "bytes"]
Rendered == {"BigDecimal", "Float", "Double", "Timestamp", "Date", "Time", "Clob"}

\* A time Go can hold in an int64 of nanoseconds.
InRange(v) == v.kind \in {"Timestamp", "Date"} => v.data[1] \in -(MaxInt64 + 1)..MaxInt64

\* Every column of every row arrives in its place with its value, or as the text
\* the mysql driver renders; a time with its instant to the nanosecond and its
\* zone, up to the last one int64 holds (proto.go:188).
RowsKept ==
    \A k \in Callers :
        outcome[k] = "ok" =>
            /\ Len(dest[k]) = Len(job[k].rows)
            /\ \A n \in DOMAIN dest[k] : \A i \in DOMAIN job[k].rows[n] :
                  LET v == job[k].rows[n][i] IN
                  InRange(v) => dest[k][n][i] =
                      Value(IF job[k].family = "mysql" /\ v.kind \in Rendered THEN "string"
                            ELSE Become[v.kind], v.data)

\* A time without the milliseconds of its second.
WithoutMillis(t) == t - ((t % NsPerSec) \div NsPerMs) * NsPerMs

\* Every parameter reaches the statement in its place, with its kind and its
\* value; a time with its zone and without the milliseconds of its second, which
\* setNanos overwrites, and with nothing else changed (Session.java:64-83,
\* Protocol.java:93).
ArgsKept ==
    \A k \in Callers :
        ran[k] # NotRun =>
            /\ Len(ran[k].args) = Len(job[k].args)
            /\ \A i \in DOMAIN ran[k].args :
                  LET a == job[k].args[i]
                      b == ran[k].args[i]
                  IN  IF a.kind = "time"
                      THEN b = Value("DateTimeValue", <<WithoutMillis(a.data[1]), a.data[2]>>)
                      ELSE b.data = a.data /\ Become[b.kind] = a.kind

\* Comment at proto.go:136: a time parameter keeps its precision, the Java side
\* restores it with setNanos.
TimesBound ==
    \A k \in Callers : ran[k] # NotRun =>
        \A i \in DOMAIN ran[k].args : job[k].args[i].kind = "time" =>
            ran[k].args[i].data = job[k].args[i].data

\* Every call returns, also when a frame over the limit has made the sidecar
\* deaf and the pipe behind it is full (Main.java:29, client.go:207).
CallsReturn == \A k \in Callers : (pc[k] = "write") ~> (pc[k] = "done")
=============================================================================
