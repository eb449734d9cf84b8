------------------------------ MODULE Sidecar ------------------------------
(***************************************************************************)
(* One session of the sidecar (Main.java, Session.java) and the program    *)
(* that uses it through driver.go: main submits every request to a cached  *)
(* thread pool, so the handlers of one session run concurrently on one     *)
(* JDBC connection; a CANCEL is a request of its own that carries no       *)
(* target.                                                                 *)
(*                                                                         *)
(* Transport, routing and the death of the process are AgentClient's.      *)
(***************************************************************************)
EXTENDS Naturals, Sequences

CONSTANTS
    MaxReq,     \* bound: requests sent on the session
    MaxRows,    \* bound: rows of one result
    UserOps,    \* what the program does on a connected session
    Failures,   \* which JDBC calls may throw by themselves
    Cancels,    \* the calls whose context may be cancelled
    EarlyClose  \* TRUE: the program may leave a result before its END

Ops          == {"CONNECT", "CLOSE", "BEGIN", "COMMIT", "ROLLBACK", "EXEC", "QUERY"}
FailureKinds == {"connect", "prepare", "execute", "meta", "fetch", "close", "tx", "error"}

ASSUME SidecarAssumption ==
    /\ MaxReq \in Nat \ {0} /\ MaxRows \in Nat
    /\ UserOps \subseteq Ops \ {"CONNECT"}
    /\ Failures \subseteq FailureKinds
    /\ Cancels \subseteq {"EXEC", "QUERY"} /\ EarlyClose \in BOOLEAN

Reqs   == 1..MaxReq
Stmts  == Reqs \X {1, 2}      \* statements, by request and attempt
NoStmt == <<0, 0>>

VARIABLES
    next,     \* Session.nextID
    link,     \* the connection as the program knows it: new, open, closed
    app,      \* the call the program is in: idle, or waiting for request id
    reading,  \* the result the program reads, or 0
    left,     \* the results it left before their END
    tx,       \* the program's transaction and what it was told about others
    op,       \* operation of each request
    h,        \* its handler
    log,      \* the frames its handler wrote
    cancel,   \* its CANCEL, if its context was cancelled
    sess,     \* the entry of SESSIONS: none, open, gone
    current,  \* Session.current
    open,     \* statements open on the JDBC connection
    marked,   \* statements on which Statement.cancel was called
    auto,     \* autocommit of the connection
    work      \* the effect of each EXEC in the database

progVars    == <<next, link, app, reading, left, tx>>
sessionVars == <<sess, current, open, marked>>
dbVars      == <<auto, work>>
vars        == <<progVars, op, h, log, cancel, sessionVars, dbVars>>

-----------------------------------------------------------------------------
(* Data *)

NoHandler == [pc |-> "none", try |-> 1, pos |-> 0, owned |-> FALSE,
              failed |-> FALSE, again |-> FALSE]
NoCancel  == [st |-> "none", at |-> NoStmt]
NoTx      == [active |-> FALSE, mine |-> {}, seen |-> {}, kept |-> {}, undone |-> {}]

St(r)        == <<r, h[r].try>>
At(r, o, pc) == op[r] = o /\ h[r].pc = pc
GoTo(r, pc)  == h' = [h EXCEPT ![r].pc = pc]

Response(ok)    == [kind |-> "resp", ok |-> ok, row |-> 0]
RowFrame(n)     == [kind |-> "row", ok |-> TRUE, row |-> n]
EndFrame(ok)    == [kind |-> "end", ok |-> ok, row |-> 0]
Emit(r, f)      == log' = [log EXCEPT ![r] = Append(@, f)]
HeaderSent(r)   == log[r] # <<>>
NoRowSent(r)    == Len(log[r]) <= 1     \* before END: the header at most
Ended(r)        == HeaderSent(r) /\ log[r][Len(log[r])].kind = "end"

\* A JDBC call of the handler may throw: by itself, on a closed connection,
\* or because its statement was cancelled.
Throws(kind)     == kind \in Failures \/ sess # "open"
StmtThrows(r, kind) == Throws(kind) \/ St(r) \in marked

\* What the open transaction of the connection did becomes durable or undone.
Settle(fate) == work' = [r \in Reqs |-> IF work[r] = "pending" THEN fate ELSE work[r]]

-----------------------------------------------------------------------------
(* Seeded faults for the mutation runs *)

MayRetryAnyRow(r)    == h[r].try = 1
MayRetryForever(r)   == NoRowSent(r)
AfterReadingAnswers  == "answer"
VerdictLost(r)       == UNCHANGED log
OutcomeUndone(r)     == "undone"
BeginKeepsAuto       == auto' = auto
AutoOnForgotten      == auto' = auto
PublishForgotten(r)  == UNCHANGED current
ClearForgotten       == UNCHANGED current

-----------------------------------------------------------------------------
(* The program, through driver.go *)

\* Session.mu admits one request at a time; database/sql hands a connection to
\* one user, opens one transaction on it, and closes it outside transactions.
MaySend(o) ==
    /\ link = IF o = "CONNECT" THEN "new" ELSE "open"
    /\ o \in UserOps \cup {"CONNECT"}
    /\ o \in {"BEGIN", "CLOSE"} => ~tx.active
    /\ o \in {"COMMIT", "ROLLBACK"} => tx.active
    /\ ~EarlyClose => reading = 0

Send(o) ==
    /\ app = 0
    /\ next \in Reqs
    /\ MaySend(o)
    /\ next' = next + 1
    /\ app' = next
    /\ reading' = IF o = "QUERY" THEN 0 ELSE reading
    /\ left' = left \cup ({reading} \ {0})
    /\ tx' = IF o = "EXEC" /\ tx.active THEN [tx EXCEPT !.mine = @ \cup {next}] ELSE tx
    /\ op' = [op EXCEPT ![next] = o]
    /\ h' = [h EXCEPT ![next].pc = "start"]
    /\ UNCHANGED <<link, log, cancel, sessionVars, dbVars>>

\* The call returns.  Begin, Commit and Rollback look only at the transport's
\* error: whether resp.OK was set makes no difference to them.
Receive ==
    LET ok == log[app][1].ok IN
    /\ app # 0
    /\ log[app] # <<>>
    /\ app' = 0
    /\ link' = CASE op[app] = "CONNECT" -> IF ok THEN "open" ELSE "closed"
                 [] op[app] = "CLOSE"   -> "closed"
                 [] OTHER               -> link
    /\ reading' = IF op[app] = "QUERY" /\ ok THEN app ELSE reading
    /\ tx' = CASE op[app] = "BEGIN"    -> [tx EXCEPT !.active = TRUE, !.mine = {}]
               [] op[app] = "COMMIT"   -> [tx EXCEPT !.active = FALSE,
                                                     !.kept = @ \cup (tx.mine \cap tx.seen)]
               [] op[app] = "ROLLBACK" -> [tx EXCEPT !.active = FALSE,
                                                     !.undone = @ \cup tx.mine]
               [] op[app] = "EXEC" /\ ok -> [tx EXCEPT !.seen = @ \cup {app}]
               [] OTHER                -> tx
    /\ UNCHANGED <<next, left, op, h, log, cancel, sessionVars, dbVars>>

\* ctx is cancelled during Exec or Query: the call returns and a new goroutine
\* will send a CANCEL.
Cancelled ==
    /\ app # 0
    /\ op[app] \in Cancels
    /\ app' = 0
    /\ cancel' = [cancel EXCEPT ![app].st = "sent"]
    /\ UNCHANGED <<next, link, reading, left, tx, op, h, log, sessionVars, dbVars>>

\* The program reads the result to its END ...
ReadEnd ==
    /\ reading # 0
    /\ Ended(reading)
    /\ reading' = 0
    /\ UNCHANGED <<next, link, app, left, tx, op, h, log, cancel, sessionVars, dbVars>>

\* ... or calls Rows.Close before; the sidecar is not told.
CloseRows ==
    /\ EarlyClose
    /\ reading # 0
    /\ reading' = 0
    /\ left' = left \cup {reading}
    /\ UNCHANGED <<next, link, app, tx, op, h, log, cancel, sessionVars, dbVars>>

-----------------------------------------------------------------------------
(* Handlers of EXEC and QUERY *)

Fail(r, pc) == h' = [h EXCEPT ![r].pc = pc, ![r].failed = TRUE]

\* The catch clause of QUERY: ORA-17027 on the first attempt, with no row sent,
\* is tried once more; anything else becomes the answer.
MayRetry(r) == h[r].try = 1 /\ NoRowSent(r)

Catch(r, owned) ==
    \E again \in BOOLEAN :
        /\ again => MayRetry(r)
        /\ h' = [h EXCEPT ![r].pc = "clean", ![r].owned = owned,
                          ![r].failed = ~again, ![r].again = again]

Publish(r)   == current' = St(r)
ClearCurrent == current' = NoStmt

\* prepareStatement, then current = ps.
Prepare(r) ==
    /\ op[r] \in {"EXEC", "QUERY"}
    /\ h[r].pc = "start"
    /\ \/ /\ sess = "open"
          /\ open' = open \cup {St(r)}
          /\ Publish(r)
          /\ GoTo(r, "ready")
       \/ /\ Throws("prepare")
          /\ IF op[r] = "QUERY" THEN Catch(r, FALSE) ELSE Fail(r, "answer")
          /\ UNCHANGED <<open, current>>
    /\ UNCHANGED <<progVars, op, log, cancel, sess, marked, dbVars>>

\* bind and executeQuery.  When it throws, Main has no reference to close.
ExecuteQuery(r) ==
    /\ At(r, "QUERY", "ready")
    /\ \/ sess = "open" /\ GoTo(r, "meta")
       \/ StmtThrows(r, "execute") /\ Catch(r, FALSE)
    /\ UNCHANGED <<progVars, op, log, cancel, sessionVars, dbVars>>

\* rs.getStatement and getMetaData; the header is sent once.
Header(r) ==
    /\ At(r, "QUERY", "meta")
    /\ \/ /\ sess = "open"
          /\ h' = [h EXCEPT ![r].pc = "rows", ![r].owned = TRUE, ![r].pos = 0]
          /\ IF HeaderSent(r) THEN UNCHANGED log ELSE Emit(r, Response(TRUE))
       \/ /\ StmtThrows(r, "meta")
          /\ \E owned \in BOOLEAN : Catch(r, owned)
          /\ UNCHANGED log
    /\ UNCHANGED <<progVars, op, cancel, sessionVars, dbVars>>

AfterReading == "clean"

\* rs.next: a row, the end of the result, or an exception.
Fetch(r) ==
    /\ At(r, "QUERY", "rows")
    /\ \/ /\ sess = "open"
          /\ h[r].pos < MaxRows
          /\ h' = [h EXCEPT ![r].pos = @ + 1]
          /\ Emit(r, RowFrame(h[r].pos + 1))
       \/ /\ sess = "open"
          /\ GoTo(r, AfterReading)
          /\ UNCHANGED log
       \/ /\ StmtThrows(r, "fetch")
          /\ Catch(r, TRUE)
          /\ UNCHANGED log
    /\ UNCHANGED <<progVars, op, cancel, sessionVars, dbVars>>

\* The finally clause of QUERY: close, clearCurrent, then retry or answer.  What
\* the closes throw is ignored; a statement whose close throws counts as closed.
CleanQuery(r) ==
    /\ At(r, "QUERY", "clean")
    /\ open' = IF h[r].owned THEN open \ {St(r)} ELSE open
    /\ ClearCurrent
    /\ h' = [h EXCEPT ![r] = IF @.again
                             THEN [@ EXCEPT !.pc = "start", !.try = h[r].try + 1,
                                            !.owned = FALSE, !.again = FALSE]
                             ELSE [@ EXCEPT !.pc = "answer"]]
    /\ UNCHANGED <<progVars, op, log, cancel, sess, marked, dbVars>>

\* ps.execute: the effect is durable at once, or part of the transaction.
ExecuteUpdate(r) ==
    /\ At(r, "EXEC", "ready")
    /\ \/ /\ sess = "open"
          /\ work' = [work EXCEPT ![r] = IF auto THEN "durable" ELSE "pending"]
          /\ GoTo(r, "clean")
       \/ /\ StmtThrows(r, "execute")
          /\ Fail(r, "clean")
          /\ UNCHANGED work
    /\ UNCHANGED <<progVars, op, log, cancel, sessionVars, auto>>

\* The finally clause of Session.exec.
CleanExec(r) ==
    /\ At(r, "EXEC", "clean")
    /\ ClearCurrent
    /\ open' = open \ {St(r)}
    /\ \/ GoTo(r, "answer")
       \/ Throws("close") /\ Fail(r, "answer")
    /\ UNCHANGED <<progVars, op, log, cancel, sess, marked, dbVars>>

-----------------------------------------------------------------------------
(* Handlers of the other operations *)

Connect(r) ==
    /\ At(r, "CONNECT", "start")
    /\ \/ sess' = "open" /\ GoTo(r, "answer")
       \/ "connect" \in Failures /\ Fail(r, "answer") /\ UNCHANGED sess
    /\ UNCHANGED <<progVars, op, log, cancel, current, open, marked, dbVars>>

\* SESSIONS.remove, conn.close: an open transaction ends as the driver likes.
Close(r) ==
    /\ At(r, "CLOSE", "start")
    /\ sess' = "gone"
    /\ open' = {}
    /\ \E fate \in {"durable", "undone"} : Settle(fate)
    /\ \/ GoTo(r, "answer")
       \/ "close" \in Failures /\ Fail(r, "answer")
    /\ UNCHANGED <<progVars, op, log, cancel, current, marked, auto>>

AutoOff == auto' = FALSE

Begin(r) ==
    /\ At(r, "BEGIN", "start")
    /\ \/ sess = "open" /\ AutoOff /\ GoTo(r, "answer")
       \/ Throws("tx") /\ Fail(r, "answer") /\ UNCHANGED auto
    /\ UNCHANGED <<progVars, op, log, cancel, sessionVars, work>>

Outcome(r) == IF op[r] = "COMMIT" THEN "durable" ELSE "undone"

\* conn.commit or conn.rollback; a throwing one skips setAutoCommit(true).
EndTx(r) ==
    /\ op[r] \in {"COMMIT", "ROLLBACK"}
    /\ h[r].pc = "start"
    /\ \/ sess = "open" /\ Settle(Outcome(r)) /\ GoTo(r, "restore")
       \/ /\ Throws("tx")
          /\ UNCHANGED work \/ Settle("undone")
          /\ Fail(r, "answer")
    /\ UNCHANGED <<progVars, op, log, cancel, sessionVars, auto>>

AutoOn == auto' = TRUE

\* conn.setAutoCommit(true), which commits what is pending by then.
Restore(r) ==
    /\ h[r].pc = "restore"
    /\ \/ sess = "open" /\ AutoOn /\ Settle("durable") /\ GoTo(r, "answer")
       \/ Throws("tx") /\ Fail(r, "answer") /\ UNCHANGED dbVars
    /\ UNCHANGED <<progVars, op, log, cancel, sessionVars>>

\* END after the header of a QUERY, RESPONSE otherwise.
Verdict(r) ==
    Emit(r, IF op[r] = "QUERY" /\ HeaderSent(r) THEN EndFrame(~h[r].failed)
            ELSE Response(~h[r].failed))

Answer(r) ==
    /\ h[r].pc = "answer"
    /\ Verdict(r)
    /\ GoTo(r, "done")
    /\ UNCHANGED <<progVars, op, cancel, sessionVars, dbVars>>

\* A LinkageError or OutOfMemoryError is no Exception: the pool swallows it.
Escape(r) ==
    /\ "error" \in Failures
    /\ h[r].pc = "start"
    /\ GoTo(r, "lost")
    /\ UNCHANGED <<progVars, op, log, cancel, sessionVars, dbVars>>

\* The CANCEL sent for r: cancelCurrent reads current ...
Aim(r) ==
    /\ cancel[r].st = "sent"
    /\ cancel' = [cancel EXCEPT ![r] = IF sess = "open" /\ current # NoStmt
                                       THEN [st |-> "aimed", at |-> current]
                                       ELSE [st |-> "over", at |-> NoStmt]]
    /\ UNCHANGED <<progVars, op, h, log, sessionVars, dbVars>>

\* ... and cancels what it found; a closed statement throws, which is ignored.
Fire(r) ==
    /\ cancel[r].st = "aimed"
    /\ marked' = marked \cup ({cancel[r].at} \cap open)
    /\ cancel' = [cancel EXCEPT ![r] = [st |-> "over", at |-> NoStmt]]
    /\ UNCHANGED <<progVars, op, h, log, sess, current, open, dbVars>>

-----------------------------------------------------------------------------

Init ==
    /\ next = 1
    /\ link = "new"
    /\ app = 0
    /\ reading = 0
    /\ left = {}
    /\ tx = NoTx
    /\ op = [r \in Reqs |-> "NONE"]
    /\ h = [r \in Reqs |-> NoHandler]
    /\ log = [r \in Reqs |-> <<>>]
    /\ cancel = [r \in Reqs |-> NoCancel]
    /\ sess = "none"
    /\ current = NoStmt
    /\ open = {}
    /\ marked = {}
    /\ auto = TRUE
    /\ work = [r \in Reqs |-> "none"]

Handler(r) ==
    \/ Prepare(r) \/ ExecuteQuery(r) \/ Header(r) \/ Fetch(r) \/ CleanQuery(r)
    \/ ExecuteUpdate(r) \/ CleanExec(r)
    \/ Connect(r) \/ Close(r) \/ Begin(r) \/ EndTx(r) \/ Restore(r)
    \/ Answer(r)

\* No handler runs and the program waits for nothing that will come.
Finished ==
    /\ \A r \in Reqs : h[r].pc \in {"none", "done", "lost"} /\ cancel[r].st \in {"none", "over"}
    /\ UNCHANGED vars

Next ==
    \/ \E o \in Ops : Send(o)
    \/ Receive \/ Cancelled \/ ReadEnd \/ CloseRows
    \/ \E r \in Reqs : Handler(r) \/ Escape(r) \/ Aim(r) \/ Fire(r)
    \/ Finished

Spec == Init /\ [][Next]_vars

\* The pool has a thread for every request and JDBC calls return, so some handler
\* goes on as long as one can; nobody has to send, receive, cancel or close.
Fairness == WF_vars(\E r \in Reqs : Handler(r))

FairSpec == Spec /\ Fairness

-----------------------------------------------------------------------------
(* Properties *)

Frame == [kind : {"resp", "row", "end"}, ok : BOOLEAN, row : 0..MaxRows]

TxType      == [active : BOOLEAN, mine : SUBSET Reqs, seen : SUBSET Reqs,
                kept : SUBSET Reqs, undone : SUBSET Reqs]
HandlerType == [pc : {"none", "start", "ready", "meta", "rows", "clean", "restore",
                      "answer", "done", "lost"},
                try : {1, 2}, pos : 0..MaxRows, owned : BOOLEAN,
                failed : BOOLEAN, again : BOOLEAN]
CancelType  == [st : {"none", "sent", "aimed", "over"}, at : Stmts \cup {NoStmt}]

\* The state stays within its types: in particular a request has at most two
\* statements, the retry's being the last (Main.java:131).
TypeOK ==
    /\ next \in 1..(MaxReq + 1) /\ link \in {"new", "open", "closed"}
    /\ app \in 0..MaxReq /\ reading \in 0..MaxReq /\ left \subseteq Reqs
    /\ tx \in TxType
    /\ op \in [Reqs -> Ops \cup {"NONE"}]
    /\ h \in [Reqs -> HandlerType]
    /\ log \in [Reqs -> Seq(Frame)]
    /\ cancel \in [Reqs -> CancelType]
    /\ sess \in {"none", "open", "gone"} /\ current \in Stmts \cup {NoStmt}
    /\ open \subseteq Stmts /\ marked \subseteq Stmts
    /\ auto \in BOOLEAN /\ work \in [Reqs -> {"none", "pending", "durable", "undone"}]

\* Whatever throws, is cancelled, retried or closed underneath it, a handler
\* writes what client.go relies on: one RESPONSE, rows once and in order also
\* across the retry of Main.java:131, one END after a header, nothing after it.
Answers == INSTANCE AgentAnswers WITH Reqs <- Reqs, op <- op, log <- log
KeepsAnswers == Answers!AnswersSpec

\* When END is written, the statement the rows came from is closed, so the next
\* QUERY of a client that waited for END finds the connection free
\* (Main.java:140-143).
ClosedBeforeEnd == \A r \in Reqs : Ended(r) /\ h[r].owned => St(r) \notin open

\* A handler works on a statement, from prepareStatement to its clean-up ...
Working(r) == h[r].pc \in {"ready", "meta", "rows", "clean"}

\* ... or has left the one its rows came from open.
Busy(r) == Working(r) \/ (h[r].owned /\ St(r) \in open)

\* The program went on without waiting for the end of r.
GivenUp(r) == cancel[r].st # "none" \/ r \in left

\* docs/protocol.md:126: the statements of a session run one after the other.
\* Nothing in the sidecar sees to it: it holds of a client that waits, and only
\* what it gave up overlaps with what it sent later.
Serial == \A r, q \in Reqs : r < q /\ Busy(r) /\ Busy(q) => GivenUp(r)

\* A CANCEL names no statement (Session.java:25-32).  It finds none, or one that
\* is worked on: never one a finally clause should have cleared, and of an
\* earlier call only if that was given up as well.
CancelAims ==
    \A q \in Reqs :
        cancel[q].st = "sent" /\ current # NoStmt =>
            \E r \in Reqs : current = St(r) /\ Working(r) /\ (r < q => GivenUp(r))

\* docs/protocol.md:66: CANCEL cancels the statement that is executed or read.
\* It finds that of the call it was sent for, until the program goes on to the next
\* one, unless an earlier call was given up, whose handler may clear or replace
\* the entry at any time (Main.java:146).
CancelFinds ==
    \A q \in Reqs :
        q = next - 1 /\ h[q].pc \in {"ready", "meta", "rows"}
        => current = St(q) \/ \E r \in 1..(q - 1) : GivenUp(r)

\* No BEGIN, COMMIT or ROLLBACK was answered with an error.
NoTxRefused ==
    \A r \in Reqs : op[r] \in {"BEGIN", "COMMIT", "ROLLBACK"} /\ log[r] # <<>> => log[r][1].ok

\* What Rollback promised to undo is not in the database and will not be: no
\* EXEC of that transaction, answered or abandoned, is ever durable.
RollbackUndoes == \A r \in tx.undone : work[r] # "durable"

\* As long as the sidecar refused no BEGIN, COMMIT or ROLLBACK - the driver does
\* not look - only an EXEC whose context was cancelled outlives its rollback
\* (Session.java:87).
OnlyAbandonedSurvives ==
    NoTxRefused => \A r \in tx.undone : work[r] = "durable" => cancel[r].st # "none"

\* What Commit reported as committed is in the database.
CommitKeeps == \A r \in tx.kept : work[r] = "durable"

\* It is if the sidecar refused none, whatever else failed, was abandoned or
\* still runs beside the transaction (Session.java:86).
CommitKeepsUnrefused == NoTxRefused => CommitKeeps

\* docs/protocol.md:64-65: COMMIT and ROLLBACK restore autocommit, so that what
\* runs after a transaction is not part of another one - if none of them was
\* refused: an exception of commit() skips setAutoCommit(true) (Session.java:86).
AutoRestored == NoTxRefused /\ link = "open" /\ app = 0 /\ ~tx.active => auto

\* Whatever throws, only a QUERY leaves a statement behind, and only by an
\* attempt that failed before Main had a reference to it (Session.java:61,
\* Main.java:95-96).
OnlyUnownedLeft ==
    \A r \in Reqs : h[r].pc = "done" =>
        \A n \in {1, 2} : <<r, n>> \in open =>
            /\ op[r] = "QUERY"
            /\ n = h[r].try => h[r].failed /\ ~h[r].owned

\* docs/protocol.md:58-68: every request gets its RESPONSE, and a QUERY whose
\* header was sent its END, unless its handler died of an Error (Main.java:162):
\* client.go waits for both without a time limit.  Again and again nobody waits.
Answered ==
    []<>\A r \in Reqs :
        \/ op[r] = "NONE"
        \/ log[r] # <<>> /\ (op[r] = "QUERY" /\ log[r][1].ok => Ended(r))
        \/ h[r].pc = "lost"
=============================================================================
