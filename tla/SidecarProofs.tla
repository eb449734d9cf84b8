--------------------------- MODULE SidecarProofs ---------------------------
(***************************************************************************)
(* Theorems about Sidecar, for any number of requests, rows and            *)
(* operations and whatever fails, is cancelled or left early: its types,   *)
(* its answers, its statements, its CANCELs and its transactions.          *)
(***************************************************************************)
EXTENDS Sidecar, TLAPS

(* Types *)

\* The attempt that is repeated is the first.
RetriesOnce == \A r \in Reqs : h[r].again => h[r].try = 1

LEMMA InitType == Init => TypeOK
<1>1. MaxReq \in Nat \ {0} /\ MaxRows \in Nat
  BY SidecarAssumption
<1>2. NoTx \in TxType /\ NoHandler \in HandlerType /\ NoCancel \in CancelType
  BY <1>1 DEF NoTx, TxType, NoHandler, HandlerType, NoCancel, CancelType
<1> QED
  BY <1>1, <1>2 DEF Init, TypeOK

\* A request's number, and the statement of its handler.
LEMMA RequestType ==
  ASSUME TypeOK, NEW r \in Reqs
  PROVE  /\ r \in Nat /\ r # 0 /\ h[r] \in HandlerType /\ St(r) \in Stmts /\ St(r) # NoStmt
         /\ op[r] \in Ops \cup {"NONE"} /\ log[r] \in Seq(Frame) /\ cancel[r] \in CancelType
  BY DEF TypeOK, St, Stmts, Reqs, HandlerType, NoStmt

\* The frames a handler writes.
LEMMA FrameTypes ==
  /\ \A ok \in BOOLEAN : Response(ok) \in Frame /\ EndFrame(ok) \in Frame
  /\ \A n \in 0..MaxRows : RowFrame(n) \in Frame
  BY SidecarAssumption DEF Frame, Response, EndFrame, RowFrame

LEMMA EmitType ==
  ASSUME TypeOK, NEW r \in Reqs, NEW f \in Frame, Emit(r, f)
  PROVE  log' \in [Reqs -> Seq(Frame)]
  BY DEF TypeOK, Emit

\* The changes of a handler's record.
LEMMA GoToType ==
  ASSUME TypeOK, NEW r \in Reqs, NEW pc \in {"start", "ready", "meta", "rows", "clean",
                                             "restore", "answer", "done", "lost"},
         GoTo(r, pc) \/ Fail(r, pc)
  PROVE  h' \in [Reqs -> HandlerType]
<1>1. [h[r] EXCEPT !.pc = pc] \in HandlerType
  BY RequestType DEF HandlerType
<1>2. [h[r] EXCEPT !.pc = pc, !.failed = TRUE] \in HandlerType
  BY RequestType DEF HandlerType
<1> QED
  BY <1>1, <1>2 DEF TypeOK, GoTo, Fail

LEMMA CatchType ==
  ASSUME TypeOK, NEW r \in Reqs, NEW owned \in BOOLEAN, Catch(r, owned)
  PROVE  h' \in [Reqs -> HandlerType]
<1>1. PICK again \in BOOLEAN :
          h' = [h EXCEPT ![r].pc = "clean", ![r].owned = owned,
                         ![r].failed = ~again, ![r].again = again]
  BY DEF Catch
<1>2. [h[r] EXCEPT !.pc = "clean", !.owned = owned, !.failed = ~again, !.again = again]
          \in HandlerType
  BY RequestType DEF HandlerType
<1> QED
  BY <1>1, <1>2 DEF TypeOK

LEMMA SettleType ==
  ASSUME TypeOK, NEW fate \in {"durable", "undone"}, Settle(fate)
  PROVE  work' \in [Reqs -> {"none", "pending", "durable", "undone"}]
  BY DEF TypeOK, Settle

\* Every step keeps the state typed: one case per action.
LEMMA StepType == TypeOK /\ RetriesOnce /\ [Next]_vars => TypeOK'
<1> SUFFICES ASSUME TypeOK, RetriesOnce, [Next]_vars PROVE TypeOK'
  OBVIOUS
<1> USE DEF progVars, sessionVars, dbVars
<1>0. MaxReq \in Nat \ {0} /\ MaxRows \in Nat
  BY SidecarAssumption
<1>1. ASSUME NEW o \in Ops, Send(o) PROVE TypeOK'
  <2>1. /\ next \in Reqs /\ next' \in 1..(MaxReq + 1)
        /\ app' \in 0..MaxReq /\ reading' \in 0..MaxReq
        /\ left' \subseteq Reqs
    BY <1>0, <1>1 DEF Send, Reqs, TypeOK
  <2>2. [h[next] EXCEPT !.pc = "start"] \in HandlerType
    BY <2>1, RequestType DEF HandlerType
  <2>3. h' \in [Reqs -> HandlerType] /\ op' \in [Reqs -> Ops \cup {"NONE"}]
    BY <1>1, <2>1, <2>2 DEF Send, TypeOK
  <2>4. tx' \in TxType
    BY <1>1, <2>1 DEF Send, TypeOK, TxType
  <2> QED
    BY <1>1, <2>1, <2>3, <2>4 DEF Send, TypeOK
<1>2. CASE Receive
  <2>1. app \in Reqs
    BY <1>0, <1>2 DEF Receive, Reqs, TypeOK
  <2>2. app' \in 0..MaxReq /\ reading' \in 0..MaxReq /\ link' \in {"new", "open", "closed"}
    BY <1>0, <1>2 DEF Receive, TypeOK
  <2>3. tx' \in TxType
    BY <1>2, <2>1 DEF Receive, TypeOK, TxType
  <2> QED
    BY <1>2, <2>2, <2>3 DEF Receive, TypeOK
<1>3. CASE Cancelled
  <2>1. app \in Reqs
    BY <1>0, <1>3 DEF Cancelled, Reqs, TypeOK
  <2>2. [cancel[app] EXCEPT !.st = "sent"] \in CancelType
    BY <2>1, RequestType DEF CancelType
  <2>3. cancel' \in [Reqs -> CancelType] /\ app' \in 0..MaxReq
    BY <1>0, <1>3, <2>1, <2>2 DEF Cancelled, TypeOK
  <2> QED
    BY <1>3, <2>3 DEF Cancelled, TypeOK
<1>4. CASE ReadEnd \/ CloseRows
  <2>1. left' \subseteq Reqs /\ reading' \in 0..MaxReq
    <3>1. reading \in 0..MaxReq /\ left \subseteq Reqs
      BY DEF TypeOK
    <3>2. reading # 0 => reading \in Reqs
      BY <1>0, <3>1 DEF Reqs
    <3>3. /\ reading' = 0
          /\ left' = left \/ (reading # 0 /\ left' = left \cup {reading})
      BY <1>4 DEF ReadEnd, CloseRows
    <3> QED
      BY <1>0, <3>1, <3>2, <3>3
  <2> QED
    BY <1>4, <2>1 DEF ReadEnd, CloseRows, TypeOK
<1>5. ASSUME NEW r \in Reqs, Prepare(r) PROVE TypeOK'
  <2>1. h' \in [Reqs -> HandlerType]
    BY <1>5, GoToType, CatchType DEF Prepare
  <2>2. open' \subseteq Stmts /\ current' \in Stmts \cup {NoStmt}
    BY <1>5, RequestType DEF Prepare, Publish, TypeOK
  <2> QED
    BY <1>5, <2>1, <2>2 DEF Prepare, TypeOK
<1>6. ASSUME NEW r \in Reqs, ExecuteQuery(r) PROVE TypeOK'
  <2>1. h' \in [Reqs -> HandlerType]
    BY <1>6, GoToType, CatchType DEF ExecuteQuery
  <2> QED
    BY <1>6, <2>1 DEF ExecuteQuery, TypeOK
<1>7. ASSUME NEW r \in Reqs, Header(r) PROVE TypeOK'
  <2>1. h' \in [Reqs -> HandlerType]
    <3>1. [h[r] EXCEPT !.pc = "rows", !.owned = TRUE, !.pos = 0] \in HandlerType
      <4>1. 0 \in 0..MaxRows /\ h[r] \in HandlerType
        BY <1>0, RequestType
      <4> QED
        BY <4>1 DEF HandlerType
    <3> QED
      BY <1>7, <3>1, CatchType DEF Header, TypeOK
  <2>2. log' \in [Reqs -> Seq(Frame)]
    BY <1>7, EmitType, FrameTypes DEF Header, TypeOK
  <2> QED
    BY <1>7, <2>1, <2>2 DEF Header, TypeOK
<1>8. ASSUME NEW r \in Reqs, Fetch(r) PROVE TypeOK'
  <2>1. h' \in [Reqs -> HandlerType] /\ log' \in [Reqs -> Seq(Frame)]
    <3>1. CASE h[r].pos < MaxRows /\ h' = [h EXCEPT ![r].pos = @ + 1]
               /\ Emit(r, RowFrame(h[r].pos + 1))
      <4>1. h[r].pos + 1 \in 0..MaxRows
        BY <1>0, <3>1, RequestType DEF HandlerType
      <4>2. [h[r] EXCEPT !.pos = @ + 1] \in HandlerType
        BY <4>1, RequestType DEF HandlerType
      <4> QED
        BY <3>1, <4>1, <4>2, EmitType, FrameTypes DEF TypeOK
    <3>2. CASE GoTo(r, AfterReading) /\ UNCHANGED log
      BY <3>2, GoToType DEF AfterReading, TypeOK
    <3>3. CASE Catch(r, TRUE) /\ UNCHANGED log
      BY <3>3, CatchType DEF TypeOK
    <3> QED
      BY <1>8, <3>1, <3>2, <3>3 DEF Fetch
  <2> QED
    BY <1>8, <2>1 DEF Fetch, TypeOK
<1>9. ASSUME NEW r \in Reqs, CleanQuery(r) PROVE TypeOK'
  <2>1. h' \in [Reqs -> HandlerType]
    <3> DEFINE again == [h[r] EXCEPT !.pc = "start", !.try = h[r].try + 1,
                                     !.owned = FALSE, !.again = FALSE]
               over  == [h[r] EXCEPT !.pc = "answer"]
    <3>1. h' = [h EXCEPT ![r] = IF h[r].again THEN again ELSE over]
      BY <1>9 DEF CleanQuery
    <3>2. h[r].again => again \in HandlerType
      <4>1. h[r].again => h[r].try + 1 \in {1, 2}
        BY DEF RetriesOnce
      <4> QED
        BY <4>1, RequestType DEF HandlerType
    <3>3. over \in HandlerType
      BY RequestType DEF HandlerType
    <3> HIDE DEF again, over
    <3> QED
      BY <3>1, <3>2, <3>3 DEF TypeOK
  <2>2. open' \subseteq Stmts /\ current' \in Stmts \cup {NoStmt}
    BY <1>9 DEF CleanQuery, ClearCurrent, TypeOK
  <2> QED
    BY <1>9, <2>1, <2>2 DEF CleanQuery, TypeOK
<1>10. ASSUME NEW r \in Reqs, ExecuteUpdate(r) PROVE TypeOK'
  <2>1. h' \in [Reqs -> HandlerType]
    BY <1>10, GoToType DEF ExecuteUpdate
  <2>2. work' \in [Reqs -> {"none", "pending", "durable", "undone"}]
    BY <1>10 DEF ExecuteUpdate, TypeOK
  <2> QED
    BY <1>10, <2>1, <2>2 DEF ExecuteUpdate, TypeOK
<1>11. ASSUME NEW r \in Reqs, CleanExec(r) PROVE TypeOK'
  <2>1. h' \in [Reqs -> HandlerType]
    BY <1>11, GoToType DEF CleanExec
  <2> QED
    BY <1>11, <2>1 DEF CleanExec, ClearCurrent, TypeOK
<1>12. ASSUME NEW r \in Reqs, Connect(r) \/ Begin(r) PROVE TypeOK'
  <2>1. h' \in [Reqs -> HandlerType]
    BY <1>12, GoToType DEF Connect, Begin
  <2> QED
    BY <1>12, <2>1 DEF Connect, Begin, AutoOff, TypeOK
<1>13. ASSUME NEW r \in Reqs, Close(r) PROVE TypeOK'
  <2>1. h' \in [Reqs -> HandlerType]
    BY <1>13, GoToType DEF Close
  <2>2. work' \in [Reqs -> {"none", "pending", "durable", "undone"}]
    BY <1>13, SettleType DEF Close
  <2> QED
    BY <1>13, <2>1, <2>2 DEF Close, TypeOK
<1>14. ASSUME NEW r \in Reqs, EndTx(r) PROVE TypeOK'
  <2>1. h' \in [Reqs -> HandlerType]
    BY <1>14, GoToType DEF EndTx
  <2>2. work' \in [Reqs -> {"none", "pending", "durable", "undone"}]
    BY <1>14, SettleType DEF EndTx, Outcome, TypeOK
  <2> QED
    BY <1>14, <2>1, <2>2 DEF EndTx, TypeOK
<1>15. ASSUME NEW r \in Reqs, Restore(r) PROVE TypeOK'
  <2>1. h' \in [Reqs -> HandlerType]
    BY <1>15, GoToType DEF Restore
  <2>2. work' \in [Reqs -> {"none", "pending", "durable", "undone"}] /\ auto' \in BOOLEAN
    BY <1>15, SettleType DEF Restore, AutoOn, TypeOK
  <2> QED
    BY <1>15, <2>1, <2>2 DEF Restore, TypeOK
<1>16. ASSUME NEW r \in Reqs, Answer(r) PROVE TypeOK'
  <2>1. h' \in [Reqs -> HandlerType]
    BY <1>16, GoToType DEF Answer
  <2>2. h[r].failed \in BOOLEAN
    BY RequestType DEF HandlerType
  <2>3. log' \in [Reqs -> Seq(Frame)]
    BY <1>16, <2>2, EmitType, FrameTypes DEF Answer, Verdict
  <2> QED
    BY <1>16, <2>1, <2>3 DEF Answer, TypeOK
<1>17. ASSUME NEW r \in Reqs, Escape(r) PROVE TypeOK'
  <2>1. h' \in [Reqs -> HandlerType]
    BY <1>17, GoToType DEF Escape
  <2> QED
    BY <1>17, <2>1 DEF Escape, TypeOK
<1>18. ASSUME NEW r \in Reqs, Aim(r) PROVE TypeOK'
  <2>1. cancel' \in [Reqs -> CancelType]
    BY <1>18 DEF Aim, TypeOK, CancelType
  <2> QED
    BY <1>18, <2>1 DEF Aim, TypeOK
<1>19. ASSUME NEW r \in Reqs, Fire(r) PROVE TypeOK'
  <2>1. [st |-> "over", at |-> NoStmt] \in CancelType
    BY DEF CancelType
  <2>2. cancel' \in [Reqs -> CancelType]
    BY <1>19, <2>1 DEF Fire, TypeOK
  <2>3. marked' \subseteq Stmts
    BY <1>19 DEF Fire, TypeOK
  <2> QED
    BY <1>19, <2>2, <2>3 DEF Fire, TypeOK
<1>20. CASE Finished \/ UNCHANGED vars
  BY <1>20 DEF Finished, vars, TypeOK
<1> QED
  BY <1>1, <1>2, <1>3, <1>4, <1>5, <1>6, <1>7, <1>8, <1>9, <1>10, <1>11, <1>12, <1>13,
     <1>14, <1>15, <1>16, <1>17, <1>18, <1>19, <1>20 DEF Next, Handler

\* Only Catch asks for another attempt, and only after the first.
LEMMA StepRetries == TypeOK /\ RetriesOnce /\ [Next]_vars => RetriesOnce'
<1> SUFFICES ASSUME TypeOK, RetriesOnce, [Next]_vars PROVE RetriesOnce'
  OBVIOUS
<1> USE DEF progVars, sessionVars, dbVars
<1>0. h \in [Reqs -> HandlerType]
  BY DEF TypeOK
<1>1. ASSUME NEW r \in Reqs, NEW pc, GoTo(r, pc) \/ Fail(r, pc) PROVE RetriesOnce'
  BY <1>0, <1>1 DEF GoTo, Fail, HandlerType, RetriesOnce
<1>2. ASSUME NEW r \in Reqs, NEW owned, Catch(r, owned) PROVE RetriesOnce'
  BY <1>0, <1>2 DEF Catch, MayRetry, HandlerType, RetriesOnce
<1>3. ASSUME UNCHANGED h PROVE RetriesOnce'
  BY <1>3 DEF RetriesOnce
<1>4. ASSUME NEW o \in Ops, Send(o) PROVE RetriesOnce'
  BY <1>0, <1>4 DEF Send, HandlerType, RetriesOnce
<1>5. CASE Receive \/ Cancelled \/ ReadEnd \/ CloseRows \/ Finished \/ UNCHANGED vars
  BY <1>3, <1>5 DEF Receive, Cancelled, ReadEnd, CloseRows, Finished, vars
<1>6. ASSUME NEW r \in Reqs, Aim(r) \/ Fire(r) PROVE RetriesOnce'
  BY <1>3, <1>6 DEF Aim, Fire
<1>7. ASSUME NEW r \in Reqs, Prepare(r) \/ ExecuteQuery(r) PROVE RetriesOnce'
  BY <1>1, <1>2, <1>7 DEF Prepare, ExecuteQuery
<1>8. ASSUME NEW r \in Reqs, Header(r) PROVE RetriesOnce'
  <2>1. CASE h' = [h EXCEPT ![r].pc = "rows", ![r].owned = TRUE, ![r].pos = 0]
    BY <1>0, <2>1 DEF HandlerType, RetriesOnce
  <2> QED
    BY <1>2, <1>8, <2>1 DEF Header
<1>9. ASSUME NEW r \in Reqs, Fetch(r) PROVE RetriesOnce'
  <2>1. CASE h' = [h EXCEPT ![r].pos = @ + 1]
    BY <1>0, <2>1 DEF HandlerType, RetriesOnce
  <2> QED
    BY <1>1, <1>2, <1>9, <2>1 DEF Fetch
<1>10. ASSUME NEW r \in Reqs, CleanQuery(r) PROVE RetriesOnce'
  BY <1>0, <1>10 DEF CleanQuery, HandlerType, RetriesOnce
<1>11. ASSUME NEW r \in Reqs,
              \/ ExecuteUpdate(r) \/ CleanExec(r) \/ Connect(r) \/ Close(r) \/ Begin(r)
              \/ EndTx(r) \/ Restore(r) \/ Answer(r) \/ Escape(r)
       PROVE  RetriesOnce'
  BY <1>1, <1>11 DEF ExecuteUpdate, CleanExec, Connect, Close, Begin, EndTx, Restore, Answer, Escape
<1> QED
  BY <1>4, <1>5, <1>6, <1>7, <1>8, <1>9, <1>10, <1>11 DEF Next, Handler

LEMMA TypesHold == Spec => [](TypeOK /\ RetriesOnce)
<1>1. Init => RetriesOnce
  BY DEF Init, NoHandler, RetriesOnce
<1> QED
  BY <1>1, InitType, StepType, StepRetries, PTL DEF Spec

\* The state stays within its types, for any number of requests and rows; in
\* particular a QUERY is attempted at most twice (Main.java:131).
THEOREM TypeCorrect == Spec => []TypeOK
  BY TypesHold, PTL

-----------------------------------------------------------------------------
(* What a handler writes, whatever throws, is cancelled or retried *)

\* Where a request's handler may be.
Placed(r) ==
    /\ op[r] = "NONE" <=> h[r].pc = "none"
    /\ h[r].pc = "none" => h[r] = NoHandler /\ log[r] = <<>>
    /\ r >= next => op[r] = "NONE"
    /\ h[r].pc \in {"ready", "clean"} => op[r] \in {"EXEC", "QUERY"}
    /\ h[r].pc \in {"meta", "rows"} => op[r] = "QUERY"
    /\ h[r].pc = "restore" => op[r] \in {"COMMIT", "ROLLBACK"}
    /\ h[r].owned => op[r] = "QUERY"

\* What it has written there: nothing, or the header and rows of a QUERY.
Written(r) ==
    /\ Ended(r) => op[r] = "QUERY" /\ h[r].pc = "done"
    /\ h[r].pc # "done" /\ log[r] # <<>> => op[r] = "QUERY" /\ log[r][1] = Response(TRUE)
    /\ h[r].pc \in {"start", "ready", "meta"} => Len(log[r]) <= 1
    /\ h[r].pc = "rows" => Len(log[r]) = h[r].pos + 1
    /\ h[r].again => op[r] = "QUERY" /\ h[r].pc = "clean" /\ Len(log[r]) <= 1

\* The statement Main had a reference to is closed before the answer.
Closed(r) == h[r].pc \in {"answer", "done"} /\ h[r].owned => St(r) \notin open

AnswerInv == \A r \in Reqs : Placed(r) /\ Written(r) /\ Closed(r)

LEMMA AnswerInit == Init => AnswerInv
<1> SUFFICES ASSUME Init, NEW r \in Reqs PROVE Placed(r) /\ Written(r) /\ Closed(r)
  BY DEF AnswerInv
<1>1. op[r] = "NONE" /\ h[r] = NoHandler /\ log[r] = <<>>
  BY DEF Init
<1> QED
  BY <1>1 DEF Placed, Written, Closed, NoHandler, Ended, HeaderSent

\* A step of one handler leaves the other requests as they were: it opens no
\* statement but its own.
LEMMA OthersKept ==
  ASSUME TypeOK, AnswerInv, NEW r \in Reqs,
         op' = op, next' = next, open' \subseteq open \cup {St(r)},
         \A q \in Reqs : q # r => h'[q] = h[q] /\ log'[q] = log[q],
         Placed(r)', Written(r)', Closed(r)'
  PROVE  AnswerInv'
<1> SUFFICES ASSUME NEW q \in Reqs, q # r PROVE Placed(q)' /\ Written(q)' /\ Closed(q)'
  BY DEF AnswerInv
<1>1. h'[q] = h[q] /\ log'[q] = log[q] /\ St(q) # St(r) /\ St(q)' = St(q)
  BY DEF St
<1>2. Placed(q) /\ Written(q) /\ Closed(q)
  BY DEF AnswerInv
<1> QED
  BY <1>1, <1>2 DEF Placed, Written, Closed, Ended, HeaderSent

\* A step that changes neither requests, handlers nor frames and opens no
\* statement.
LEMMA NothingSaid ==
  ASSUME AnswerInv, UNCHANGED <<next, op, h, log>>, open' \subseteq open
  PROVE  AnswerInv'
<1> SUFFICES ASSUME NEW q \in Reqs PROVE Placed(q)' /\ Written(q)' /\ Closed(q)'
  BY DEF AnswerInv
<1>1. Placed(q) /\ Written(q) /\ Closed(q)
  BY DEF AnswerInv
<1>2. Placed(q)'
  BY <1>1 DEF Placed
<1>3. Written(q)'
  BY <1>1 DEF Written, Ended, HeaderSent
<1>4. Closed(q)'
  BY <1>1 DEF Closed, St
<1> QED
  BY <1>2, <1>3, <1>4

\* The fields of a handler's record after a move ...
LEMMA Moved ==
  ASSUME TypeOK, NEW r \in Reqs, NEW pc, GoTo(r, pc) \/ Fail(r, pc)
  PROVE  /\ \A q \in Reqs : q # r => h'[q] = h[q]
         /\ h'[r].pc = pc /\ h'[r].try = h[r].try /\ h'[r].pos = h[r].pos
         /\ h'[r].owned = h[r].owned /\ h'[r].again = h[r].again
         /\ GoTo(r, pc) => h'[r].failed = h[r].failed
         /\ Fail(r, pc) => h'[r].failed = TRUE
  BY DEF TypeOK, HandlerType, GoTo, Fail

\* ... and after an exception.
LEMMA Caught ==
  ASSUME TypeOK, NEW r \in Reqs, NEW owned, Catch(r, owned)
  PROVE  /\ \A q \in Reqs : q # r => h'[q] = h[q]
         /\ h'[r].pc = "clean" /\ h'[r].try = h[r].try /\ h'[r].pos = h[r].pos
         /\ h'[r].owned = owned /\ h'[r].failed = ~h'[r].again
         /\ h'[r].again => h[r].try = 1 /\ Len(log[r]) <= 1
  BY DEF TypeOK, HandlerType, Catch, MayRetry, NoRowSent

\* A frame behind those of a request.
LEMMA Empty ==
  ASSUME NEW S, NEW s \in Seq(S) PROVE s = <<>> <=> Len(s) = 0
  OBVIOUS

LEMMA AppendOne ==
  ASSUME NEW S, NEW s \in Seq(S), NEW e \in S
  PROVE  /\ Append(s, e) # <<>> /\ Len(Append(s, e)) = Len(s) + 1 /\ Len(s) \in Nat
         /\ Append(s, e)[Len(s) + 1] = e
         /\ s = <<>> <=> Len(s) = 0
         /\ Append(s, e)[1] = IF s = <<>> THEN e ELSE s[1]
  OBVIOUS

LEMMA Emitted ==
  ASSUME TypeOK, NEW r \in Reqs, NEW f \in Frame, Emit(r, f)
  PROVE  /\ \A q \in Reqs : q # r => log'[q] = log[q]
         /\ log'[r] = Append(log[r], f)
         /\ log'[r] # <<>> /\ Len(log'[r]) = Len(log[r]) + 1 /\ Len(log[r]) \in Nat
         /\ log'[r][Len(log'[r])] = f
         /\ log[r] = <<>> <=> Len(log[r]) = 0
         /\ log'[r][1] = IF log[r] = <<>> THEN f ELSE log[r][1]
<1>1. log[r] \in Seq(Frame) /\ log' = [log EXCEPT ![r] = Append(log[r], f)] /\ r \in DOMAIN log
      /\ DOMAIN log = Reqs
  BY DEF TypeOK, Emit
<1>2. log'[r] = Append(log[r], f) /\ \A q \in Reqs : q # r => log'[q] = log[q]
  BY <1>1
<1> QED
  BY <1>1, <1>2, AppendOne

LEMMA SendSays ==
  ASSUME TypeOK, AnswerInv, NEW o \in Ops, Send(o) PROVE AnswerInv'
<1>r. PICK r \in Reqs : r = next
  BY DEF Send
<1>1. /\ next' = r + 1 /\ UNCHANGED <<log, open>>
      /\ op' = [op EXCEPT ![r] = o] /\ h' = [h EXCEPT ![r].pc = "start"] /\ r = next
  BY <1>r DEF Send, sessionVars
<1>2. Reqs \subseteq Nat
  BY DEF Reqs
<1>3. /\ op[r] = "NONE" /\ h[r] = NoHandler /\ log[r] = <<>> /\ r \in Nat
  <2>1. Placed(r) /\ r \in Nat
    BY <1>1, <1>2 DEF AnswerInv
  <2> QED
    BY <1>1, <2>1 DEF Placed
<1>4. /\ h'[r].pc = "start" /\ ~h'[r].owned /\ ~h'[r].again /\ op'[r] = o /\ o # "NONE"
      /\ \A q \in Reqs : q # r => h'[q] = h[q] /\ op'[q] = op[q]
  BY <1>1, <1>3 DEF TypeOK, NoHandler, Ops
<1> SUFFICES ASSUME NEW q \in Reqs PROVE Placed(q)' /\ Written(q)' /\ Closed(q)'
  BY DEF AnswerInv
<1>5. CASE q = r
  <2>1. Placed(r)'
    <3>1. ~(r >= next')
      BY <1>1, <1>3
    <3> QED
      BY <1>1, <1>4, <3>1 DEF Placed
  <2>2. Written(r)'
    <3>1. log'[r] = <<>> /\ Len(log'[r]) = 0
      BY <1>1, <1>3
    <3> QED
      BY <1>4, <3>1 DEF Written, Ended, HeaderSent
  <2>3. Closed(r)'
    BY <1>4 DEF Closed
  <2> QED
    BY <1>5, <2>1, <2>2, <2>3
<1>6. CASE q # r
  <2>1. Placed(q) /\ Written(q) /\ Closed(q) /\ q \in Nat
    BY <1>2 DEF AnswerInv
  <2>2. h'[q] = h[q] /\ op'[q] = op[q] /\ log'[q] = log[q]
    BY <1>1, <1>4, <1>6
  <2>3. q >= next' => q >= next
    BY <1>1, <1>3, <2>1
  <2>4. Placed(q)'
    BY <2>1, <2>2, <2>3 DEF Placed
  <2>5. Written(q)'
    BY <2>1, <2>2 DEF Written, Ended, HeaderSent
  <2>6. Closed(q)'
    BY <1>1, <2>1, <2>2 DEF Closed, St
  <2> QED
    BY <2>4, <2>5, <2>6
<1> QED
  BY <1>5, <1>6

\* A handler moves on, or its JDBC call throws, and nothing is written.
LEMMA MoveSays ==
  ASSUME TypeOK, AnswerInv, NEW r \in Reqs,
         NEW pc \in {"ready", "meta", "clean", "restore", "answer", "lost"},
         GoTo(r, pc) \/ Fail(r, pc), UNCHANGED <<next, op, log>>, op[r] # "NONE",
         pc = "ready" => op[r] \in {"EXEC", "QUERY"} /\ h[r].pc = "start",
         pc = "meta" => op[r] = "QUERY" /\ h[r].pc = "ready",
         pc = "clean" => op[r] \in {"EXEC", "QUERY"},
         pc = "restore" => op[r] \in {"COMMIT", "ROLLBACK"},
         h[r].pc # "done", ~h[r].again,
         open' \subseteq open \cup {St(r)},
         pc = "answer" /\ h[r].owned => St(r) \notin open'
  PROVE  AnswerInv'
<1>0. Placed(r) /\ Written(r)
  BY DEF AnswerInv
<1>1. /\ h'[r].pc = pc /\ h'[r].owned = h[r].owned /\ h'[r].again = h[r].again
      /\ h'[r].try = h[r].try /\ op'[r] = op[r] /\ log'[r] = log[r] /\ next' = next
      /\ \A q \in Reqs : q # r => h'[q] = h[q]
  BY Moved
<1>2. Placed(r)'
  BY <1>0, <1>1 DEF Placed
<1>3. Written(r)'
  BY <1>0, <1>1 DEF Written, Ended, HeaderSent
<1>4. Closed(r)'
  BY <1>1 DEF Closed, St
<1> QED
  BY <1>1, <1>2, <1>3, <1>4, OthersKept

LEMMA CatchSays ==
  ASSUME TypeOK, AnswerInv, NEW r \in Reqs, NEW owned \in BOOLEAN, Catch(r, owned),
         UNCHANGED <<next, op, log>>, op[r] = "QUERY", h[r].pc # "done",
         open' \subseteq open \cup {St(r)}
  PROVE  AnswerInv'
<1>0. Placed(r) /\ Written(r)
  BY DEF AnswerInv
<1>1. /\ h'[r].pc = "clean" /\ h'[r].owned = owned
      /\ h'[r].again => Len(log[r]) <= 1
      /\ h'[r].try = h[r].try /\ op'[r] = op[r] /\ log'[r] = log[r] /\ next' = next
      /\ \A q \in Reqs : q # r => h'[q] = h[q]
  BY Caught
<1>2. Placed(r)'
  BY <1>0, <1>1 DEF Placed
<1>3. Written(r)'
  BY <1>0, <1>1 DEF Written, Ended, HeaderSent
<1>4. Closed(r)'
  BY <1>1 DEF Closed, St
<1> QED
  BY <1>1, <1>2, <1>3, <1>4, OthersKept

LEMMA HandlerSays ==
  ASSUME TypeOK, AnswerInv, NEW r \in Reqs, Handler(r) \/ Escape(r) PROVE AnswerInv'
<1> USE DEF progVars, sessionVars, dbVars, At
<1>0. /\ Placed(r) /\ Written(r) /\ Closed(r)
      /\ h[r] \in HandlerType /\ log[r] \in Seq(Frame) /\ Len(log[r]) \in Nat
  BY RequestType DEF AnswerInv, TypeOK
<1>p. h[r].pc \notin {"none", "done"} => op[r] # "NONE"
  BY <1>0 DEF Placed
<1>a. h[r].pc # "clean" => ~h[r].again
  BY <1>0 DEF Written
<1>o. op[r] # "QUERY" => ~h[r].owned /\ ~h[r].again
  BY <1>0 DEF Placed, Written
<1>1. CASE Prepare(r)
  <2>1. CASE GoTo(r, "ready") /\ open' = open \cup {St(r)}
    BY <1>1, <1>a, <2>1, MoveSays DEF Prepare
  <2>2. CASE Catch(r, FALSE) /\ op[r] = "QUERY" /\ UNCHANGED open
    BY <1>1, <2>2, CatchSays DEF Prepare
  <2>3. CASE Fail(r, "answer") /\ op[r] # "QUERY" /\ UNCHANGED open
    BY <1>1, <1>a, <1>o, <2>3, MoveSays DEF Prepare
  <2> QED
    BY <1>1, <2>1, <2>2, <2>3 DEF Prepare
<1>2. CASE ExecuteQuery(r)
  <2>1. CASE GoTo(r, "meta")
    BY <1>2, <1>a, <2>1, MoveSays DEF ExecuteQuery
  <2>2. CASE Catch(r, FALSE)
    BY <1>2, <2>2, CatchSays DEF ExecuteQuery
  <2> QED
    BY <1>2, <2>1, <2>2 DEF ExecuteQuery
<1>3. CASE Header(r)
  <2>1. CASE /\ h' = [h EXCEPT ![r].pc = "rows", ![r].owned = TRUE, ![r].pos = 0]
             /\ IF HeaderSent(r) THEN UNCHANGED log ELSE Emit(r, Response(TRUE))
    <3>1. /\ h'[r].pc = "rows" /\ h'[r].owned /\ h'[r].pos = 0 /\ ~h'[r].again
          /\ \A q \in Reqs : q # r => h'[q] = h[q]
      BY <1>a, <1>3, <2>1 DEF Header, TypeOK, HandlerType
    <3>2. /\ Len(log'[r]) = 1 /\ log'[r][1] = Response(TRUE) /\ log'[r] # <<>>
          /\ \A q \in Reqs : q # r => log'[q] = log[q]
      <4>1. CASE HeaderSent(r)
        <5>1. Len(log[r]) # 0
          BY <1>0, <4>1, Empty DEF HeaderSent
        <5>2. Len(log[r]) <= 1
          BY <1>0, <1>3 DEF Header, Written
        <5>3. Len(log[r]) = 1
          <6>1. \A n \in Nat : n # 0 /\ n <= 1 => n = 1
            OBVIOUS
          <6> QED
            BY <1>0, <5>1, <5>2, <6>1
        <5> QED
          BY <1>0, <1>3, <2>1, <4>1, <5>3 DEF Header, Written, HeaderSent
      <4>2. CASE ~HeaderSent(r)
        <5>1. Emit(r, Response(TRUE)) /\ Response(TRUE) \in Frame /\ log[r] = <<>>
          BY <2>1, <4>2, FrameTypes DEF HeaderSent
        <5>2. /\ Len(log'[r]) = Len(log[r]) + 1 /\ log'[r] # <<>>
              /\ log'[r][1] = IF log[r] = <<>> THEN Response(TRUE) ELSE log[r][1]
              /\ \A q \in Reqs : q # r => log'[q] = log[q]
          BY <5>1, Emitted
        <5>3. Len(log[r]) = 0
          BY <1>0, <5>1, Empty
        <5> QED
          BY <5>1, <5>2, <5>3
      <4> QED
        BY <4>1, <4>2
    <3>3. ~(Ended(r)')
      BY <3>2 DEF Ended, HeaderSent, Response
    <3>4. op'[r] = "QUERY" /\ UNCHANGED <<next, op, open>>
      BY <1>3 DEF Header
    <3>5. Placed(r)'
      BY <1>0, <3>1, <3>4 DEF Placed
    <3>6. Written(r)'
      BY <3>1, <3>2, <3>3, <3>4 DEF Written
    <3>7. Closed(r)'
      BY <3>1 DEF Closed
    <3> QED
      BY <3>1, <3>2, <3>4, <3>5, <3>6, <3>7, OthersKept
  <2>2. ASSUME NEW owned \in BOOLEAN, Catch(r, owned), UNCHANGED log PROVE AnswerInv'
    BY <1>3, <2>2, CatchSays DEF Header
  <2> QED
    BY <1>3, <2>1, <2>2 DEF Header
<1>4. CASE Fetch(r)
  <2>1. CASE /\ h[r].pos < MaxRows /\ h' = [h EXCEPT ![r].pos = @ + 1]
             /\ Emit(r, RowFrame(h[r].pos + 1))
    <3>0. h[r].pos \in Nat /\ RowFrame(h[r].pos + 1) \in Frame
      BY <1>0, <2>1, FrameTypes, SidecarAssumption DEF HandlerType
    <3>1. /\ h'[r].pc = "rows" /\ h'[r].pos = h[r].pos + 1 /\ ~h'[r].again
          /\ h'[r].owned = h[r].owned /\ \A q \in Reqs : q # r => h'[q] = h[q]
      BY <1>a, <1>4, <2>1 DEF Fetch, TypeOK, HandlerType
    <3>2. /\ log[r] # <<>> /\ log[r][1] = Response(TRUE) /\ Len(log[r]) = h[r].pos + 1
      <4>1. Len(log[r]) = h[r].pos + 1
        BY <1>0, <1>4 DEF Fetch, Written
      <4>2. log[r] # <<>>
        BY <1>0, <3>0, <4>1
      <4> QED
        BY <1>0, <1>4, <4>1, <4>2 DEF Fetch, Written
    <3>3. /\ Len(log'[r]) = h[r].pos + 2 /\ log'[r][1] = Response(TRUE) /\ log'[r] # <<>>
          /\ log'[r][Len(log'[r])] = RowFrame(h[r].pos + 1)
          /\ \A q \in Reqs : q # r => log'[q] = log[q]
      <4>1. Len(log'[r]) = Len(log[r]) + 1 /\ log'[r][1] = log[r][1] /\ log'[r] # <<>>
        BY <2>1, <3>0, <3>2, Emitted
      <4>2. Len(log[r]) + 1 = h[r].pos + 2
        BY <3>0, <3>2
      <4>3. /\ log'[r][Len(log'[r])] = RowFrame(h[r].pos + 1)
            /\ \A q \in Reqs : q # r => log'[q] = log[q]
        BY <2>1, <3>0, Emitted
      <4> QED
        BY <3>2, <4>1, <4>2, <4>3
    <3>4. ~(Ended(r)')
      BY <3>3 DEF Ended, HeaderSent, RowFrame
    <3>5. op'[r] = "QUERY" /\ UNCHANGED <<next, op, open>>
      BY <1>4 DEF Fetch
    <3>6. Placed(r)'
      BY <1>0, <3>1, <3>5 DEF Placed
    <3>7. Written(r)'
      BY <3>0, <3>1, <3>3, <3>4, <3>5 DEF Written
    <3>8. Closed(r)'
      BY <3>1 DEF Closed
    <3> QED
      BY <3>1, <3>3, <3>5, <3>6, <3>7, <3>8, OthersKept
  <2>2. CASE GoTo(r, AfterReading) /\ UNCHANGED log
    BY <1>4, <1>a, <2>2, MoveSays DEF Fetch, AfterReading
  <2>3. CASE Catch(r, TRUE) /\ UNCHANGED log
    BY <1>4, <2>3, CatchSays DEF Fetch
  <2> QED
    BY <1>4, <2>1, <2>2, <2>3 DEF Fetch
<1>5. CASE CleanQuery(r)
  <2>1. CASE h[r].again
    <3>1. h' = [h EXCEPT ![r] = [h[r] EXCEPT !.pc = "start", !.try = h[r].try + 1,
                                             !.owned = FALSE, !.again = FALSE]]
      BY <1>5, <2>1 DEF CleanQuery
    <3>2. /\ h'[r].pc = "start" /\ ~h'[r].owned /\ ~h'[r].again
          /\ \A q \in Reqs : q # r => h'[q] = h[q]
      BY <3>1 DEF TypeOK, HandlerType
    <3>3. op'[r] = "QUERY" /\ UNCHANGED <<next, op, log>> /\ open' \subseteq open
      BY <1>5 DEF CleanQuery
    <3>4. Placed(r)'
      BY <1>0, <3>2, <3>3 DEF Placed
    <3>5. Written(r)'
      BY <1>0, <1>5, <2>1, <3>2, <3>3 DEF CleanQuery, Written, Ended, HeaderSent
    <3>6. Closed(r)'
      BY <3>2 DEF Closed
    <3> QED
      BY <3>2, <3>3, <3>4, <3>5, <3>6, OthersKept
  <2>2. CASE ~h[r].again
    <3>1. GoTo(r, "answer")
      BY <1>5, <2>2 DEF CleanQuery, GoTo
    <3>2. open' \subseteq open /\ (h[r].owned => St(r) \notin open')
      BY <1>5 DEF CleanQuery
    <3> QED
      BY <1>5, <2>2, <3>1, <3>2, MoveSays DEF CleanQuery
  <2> QED
    BY <2>1, <2>2
<1>6. CASE ExecuteUpdate(r)
  BY <1>6, <1>a, MoveSays DEF ExecuteUpdate
<1>7. CASE CleanExec(r)
  BY <1>7, <1>o, MoveSays DEF CleanExec
<1>8. CASE Connect(r) \/ Close(r) \/ Begin(r) \/ EndTx(r)
  <2>1. /\ GoTo(r, "answer") \/ Fail(r, "answer") \/ (GoTo(r, "restore") /\ EndTx(r))
        /\ UNCHANGED <<next, op, log>> /\ h[r].pc = "start" /\ op[r] # "QUERY"
        /\ open' \subseteq open
    BY <1>8 DEF Connect, Close, Begin, EndTx
  <2> QED
    BY <1>a, <1>o, <1>p, <2>1, MoveSays DEF EndTx
<1>9. CASE Restore(r)
  <2>1. op[r] # "QUERY"
    BY <1>0, <1>9 DEF Restore, Placed
  <2> QED
    BY <1>9, <1>a, <1>o, <1>p, <2>1, MoveSays DEF Restore
<1>10. CASE Answer(r)
  <2>1. /\ h'[r].pc = "done" /\ h'[r].owned = h[r].owned /\ ~h'[r].again /\ h'[r].try = h[r].try
        /\ \A q \in Reqs : q # r => h'[q] = h[q]
    BY <1>10, <1>a, Moved DEF Answer
  <2>2. PICK f \in Frame : Emit(r, f) /\ (f.kind = "end" => op[r] = "QUERY")
    <3>1. h[r].failed \in BOOLEAN
      BY <1>0 DEF HandlerType
    <3>2. Response(~h[r].failed).kind # "end"
      BY DEF Response
    <3> QED
      BY <1>10, <3>1, <3>2, FrameTypes DEF Answer, Verdict
  <2>3. /\ log'[r] # <<>> /\ log'[r][Len(log'[r])] = f
        /\ \A q \in Reqs : q # r => log'[q] = log[q]
    BY <2>2, Emitted
  <2>4. Ended(r)' => op[r] = "QUERY"
    BY <2>2, <2>3 DEF Ended, HeaderSent
  <2>5. UNCHANGED <<next, op, open>> /\ h[r].pc = "answer"
    BY <1>10 DEF Answer
  <2>6. Placed(r)'
    BY <1>0, <1>p, <2>1, <2>5 DEF Placed
  <2>7. Written(r)'
    BY <2>1, <2>4, <2>5 DEF Written
  <2>8. Closed(r)'
    BY <1>0, <2>1, <2>5 DEF Closed, St
  <2> QED
    BY <2>1, <2>3, <2>5, <2>6, <2>7, <2>8, OthersKept
<1>11. CASE Escape(r)
  BY <1>11, <1>a, <1>p, MoveSays DEF Escape
<1> QED
  BY <1>1, <1>2, <1>3, <1>4, <1>5, <1>6, <1>7, <1>8, <1>9, <1>10, <1>11 DEF Handler

LEMMA AnswerStep == TypeOK /\ AnswerInv /\ [Next]_vars => AnswerInv'
<1> SUFFICES ASSUME TypeOK, AnswerInv, [Next]_vars PROVE AnswerInv'
  OBVIOUS
<1>1. ASSUME NEW o \in Ops, Send(o) PROVE AnswerInv'
  BY <1>1, SendSays
<1>2. CASE Receive \/ Cancelled \/ ReadEnd \/ CloseRows \/ Finished \/ UNCHANGED vars
  BY <1>2, NothingSaid DEF Receive, Cancelled, ReadEnd, CloseRows, Finished, vars, progVars,
                           sessionVars, dbVars
<1>3. ASSUME NEW r \in Reqs, Aim(r) \/ Fire(r) PROVE AnswerInv'
  BY <1>3, NothingSaid DEF Aim, Fire, progVars, sessionVars, dbVars
<1>4. ASSUME NEW r \in Reqs, Handler(r) \/ Escape(r) PROVE AnswerInv'
  BY <1>4, HandlerSays
<1> QED
  BY <1>1, <1>2, <1>3, <1>4 DEF Next

LEMMA AnswersHold == Spec => [](TypeOK /\ AnswerInv)
<1>1. TypeOK /\ AnswerInv /\ [Next]_vars => AnswerInv'
  BY AnswerStep
<1> QED
  BY <1>1, AnswerInit, TypesHold, PTL DEF Spec

\* Whatever throws, is cancelled, closed or retried: when END is written, the
\* statement its rows came from is closed (Main.java:140-143).
THEOREM StatementsClosed == Spec => []ClosedBeforeEnd
<1>1. AnswerInv => ClosedBeforeEnd
  BY DEF AnswerInv, Written, Closed, ClosedBeforeEnd
<1> QED
  BY <1>1, AnswersHold, PTL

-----------------------------------------------------------------------------
(* What it writes is what a client is owed: Sidecar implements AgentAnswers *)

AnswersDo == [Answers!AnswersNext]_<<op, log>>

LEMMA FrameNames ==
  /\ \A ok : Answers!Response(ok) = Response(ok) /\ Answers!EndFrame(ok) = EndFrame(ok)
  /\ \A n : Answers!RowFrame(n) = RowFrame(n)
  BY DEF Response, EndFrame, RowFrame, Answers!Response, Answers!EndFrame, Answers!RowFrame

LEMMA AnswersStart == Init => Answers!AnswersInit
  BY DEF Init, Answers!AnswersInit

LEMMA SendAccepts ==
  ASSUME TypeOK, AnswerInv, NEW o \in Ops, Send(o) PROVE AnswersDo
<1>r. PICK r \in Reqs : r = next
  BY DEF Send
<1>1. op[r] = "NONE"
  <2>1. Placed(r) /\ r >= next
    BY <1>r DEF AnswerInv, Reqs
  <2> QED
    BY <2>1 DEF Placed
<1>2. op' = [op EXCEPT ![r] = o] /\ UNCHANGED log
  BY <1>r DEF Send
<1>3. Answers!Accept(r, o)
  BY <1>1, <1>2 DEF Answers!Accept
<1> QED
  BY <1>3 DEF AnswersDo, Answers!AnswersNext, Ops

\* A handler that is reading has sent its header and no END.
LEMMA ReadingStreams ==
  ASSUME TypeOK, AnswerInv, NEW r \in Reqs, op[r] = "QUERY", h[r].pc # "done", log[r] # <<>>
  PROVE  Answers!Streaming(r)
<1>1. Written(r)
  BY DEF AnswerInv
<1>2. ~Ended(r) /\ log[r][1] = Response(TRUE)
  BY <1>1 DEF Written
<1> QED
  BY <1>2, FrameNames DEF Answers!Streaming, Ended, HeaderSent

LEMMA HandlerImplements ==
  ASSUME TypeOK, AnswerInv, NEW r \in Reqs, Handler(r) PROVE AnswersDo
<1> USE DEF At
<1>0. Placed(r) /\ Written(r) /\ h[r] \in HandlerType /\ log[r] \in Seq(Frame)
  BY RequestType DEF AnswerInv
<1>1. op' = op
  BY DEF Handler, Prepare, ExecuteQuery, Header, Fetch, CleanQuery, ExecuteUpdate, CleanExec,
         Connect, Close, Begin, EndTx, Restore, Answer
<1>2. CASE UNCHANGED log
  BY <1>1, <1>2 DEF AnswersDo
<1>3. CASE Header(r) /\ ~UNCHANGED log
  <2>1. Emit(r, Response(TRUE)) /\ log[r] = <<>> /\ op[r] = "QUERY"
    BY <1>3 DEF Header, HeaderSent
  <2>2. Answers!Reply(r, TRUE)
    BY <1>1, <2>1, FrameNames DEF Answers!Reply, Answers!Write, Emit
  <2> QED
    BY <2>2 DEF AnswersDo, Answers!AnswersNext
<1>4. CASE Fetch(r) /\ ~UNCHANGED log
  <2>1. Emit(r, RowFrame(h[r].pos + 1)) /\ op[r] = "QUERY" /\ h[r].pc = "rows"
    BY <1>4 DEF Fetch
  <2>2. Len(log[r]) = h[r].pos + 1 /\ h[r].pos \in Nat
    BY <1>0, <2>1, SidecarAssumption DEF Written, HandlerType
  <2>3. log[r] # <<>>
    BY <1>0, <2>2, Empty
  <2>4. Answers!Streaming(r)
    BY <2>1, <2>3, ReadingStreams
  <2>5. Answers!SendRow(r)
    BY <1>1, <2>1, <2>2, <2>4, FrameNames DEF Answers!SendRow, Answers!Write, Emit
  <2> QED
    BY <2>5 DEF AnswersDo, Answers!AnswersNext
<1>5. CASE Answer(r)
  <2>1. h[r].pc = "answer" /\ (~h[r].failed) \in BOOLEAN
    BY <1>0, <1>5 DEF Answer, HandlerType
  <2>2. CASE op[r] = "QUERY" /\ HeaderSent(r)
    <3>1. Answers!Streaming(r)
      BY <2>1, <2>2, ReadingStreams DEF HeaderSent
    <3>2. Emit(r, EndFrame(~h[r].failed))
      BY <1>5, <2>2 DEF Answer, Verdict
    <3>3. Answers!SendEnd(r, ~h[r].failed)
      BY <1>1, <3>1, <3>2, FrameNames DEF Answers!SendEnd, Answers!Write, Emit
    <3> QED
      BY <2>1, <3>3 DEF AnswersDo, Answers!AnswersNext
  <2>3. CASE ~(op[r] = "QUERY" /\ HeaderSent(r))
    <3>1. op[r] # "NONE" /\ log[r] = <<>>
      BY <1>0, <2>1, <2>3 DEF Placed, Written, HeaderSent
    <3>2. Emit(r, Response(~h[r].failed))
      BY <1>5, <2>3 DEF Answer, Verdict
    <3>3. Answers!Reply(r, ~h[r].failed)
      BY <1>1, <3>1, <3>2, FrameNames DEF Answers!Reply, Answers!Write, Emit
    <3> QED
      BY <2>1, <3>3 DEF AnswersDo, Answers!AnswersNext
  <2> QED
    BY <2>2, <2>3
<1>6. UNCHANGED log \/ Header(r) \/ Fetch(r) \/ Answer(r)
  BY DEF Handler, Prepare, ExecuteQuery, CleanQuery, ExecuteUpdate, CleanExec, Connect, Close,
         Begin, EndTx, Restore
<1> QED
  BY <1>2, <1>3, <1>4, <1>5, <1>6

LEMMA StepImplements == TypeOK /\ AnswerInv /\ [Next]_vars => AnswersDo
<1> SUFFICES ASSUME TypeOK, AnswerInv, [Next]_vars PROVE AnswersDo
  OBVIOUS
<1>1. ASSUME NEW o \in Ops, Send(o) PROVE AnswersDo
  BY <1>1, SendAccepts
<1>2. ASSUME NEW r \in Reqs, Handler(r) PROVE AnswersDo
  BY <1>2, HandlerImplements
<1>3. ASSUME UNCHANGED <<op, log>> PROVE AnswersDo
  BY <1>3 DEF AnswersDo
<1>4. CASE Receive \/ Cancelled \/ ReadEnd \/ CloseRows \/ Finished \/ UNCHANGED vars
  BY <1>3, <1>4 DEF Receive, Cancelled, ReadEnd, CloseRows, Finished, vars
<1>5. ASSUME NEW r \in Reqs, Escape(r) \/ Aim(r) \/ Fire(r) PROVE AnswersDo
  BY <1>3, <1>5 DEF Escape, Aim, Fire
<1> QED
  BY <1>1, <1>2, <1>4, <1>5 DEF Next

\* Whatever throws, is cancelled, closed or retried underneath them, the
\* handlers write what client.go relies on: one RESPONSE for each request, for
\* a QUERY its rows once and in order behind it, one END, nothing after it.
THEOREM AnswersKept == Spec => KeepsAnswers
<1>1. TypeOK /\ AnswerInv /\ [Next]_vars => [Answers!AnswersNext]_(Answers!answerVars)
  BY StepImplements DEF AnswersDo, Answers!answerVars
<1> QED
  BY <1>1, AnswersStart, AnswersHold, PTL DEF Spec, KeepsAnswers, Answers!AnswersSpec

-----------------------------------------------------------------------------
(* What a session promises a program that may cancel its contexts and leave *)
(* its results early: which statements are open and worked on together,     *)
(* what a CANCEL finds, and how its transactions end.                       *)

\* A handler runs for the request.
Active(r) == h[r].pc \notin {"none", "done"}

\* The call the program waits for.
Doing(o) == app # 0 /\ op[app] = o

\* A handler works only for a request that has not been answered, and moves
\* nothing but its own request and the connection.
LEMMA HandlerFrame ==
  ASSUME TypeOK, NEW r \in Reqs, Handler(r) \/ Escape(r)
  PROVE  /\ Active(r)
         /\ UNCHANGED <<next, link, app, reading, left, tx, op, cancel, marked>>
         /\ \A q \in Reqs : q # r => h'[q] = h[q] /\ log'[q] = log[q]
<1> USE DEF progVars, sessionVars, dbVars, At
<1>1. Active(r)
  BY DEF Active, Handler, Prepare, ExecuteQuery, Header, Fetch, CleanQuery, ExecuteUpdate,
         CleanExec, Connect, Close, Begin, EndTx, Restore, Answer, Escape
<1>2. UNCHANGED <<next, link, app, reading, left, tx, op, cancel, marked>>
  BY DEF Handler, Prepare, ExecuteQuery, Header, Fetch, CleanQuery, ExecuteUpdate,
         CleanExec, Connect, Close, Begin, EndTx, Restore, Answer, Escape
<1>3. \A q \in Reqs : q # r => h'[q] = h[q]
  <2>1. ASSUME NEW pc, GoTo(r, pc) \/ Fail(r, pc) PROVE \A q \in Reqs : q # r => h'[q] = h[q]
    BY <2>1, Moved
  <2>2. ASSUME NEW owned, Catch(r, owned) PROVE \A q \in Reqs : q # r => h'[q] = h[q]
    BY <2>2, Caught
  <2>3. CASE \/ Prepare(r) \/ ExecuteQuery(r) \/ ExecuteUpdate(r) \/ CleanExec(r)
             \/ Connect(r) \/ Close(r) \/ Begin(r) \/ EndTx(r) \/ Restore(r) \/ Answer(r)
             \/ Escape(r)
    BY <2>1, <2>2, <2>3 DEF Prepare, ExecuteQuery, ExecuteUpdate, CleanExec, Connect, Close,
                            Begin, EndTx, Restore, Answer, Escape
  <2>4. CASE Header(r)
    BY <2>2, <2>4 DEF Header, TypeOK
  <2>5. CASE Fetch(r)
    BY <2>1, <2>2, <2>5 DEF Fetch, TypeOK
  <2>6. CASE CleanQuery(r)
    BY <2>6 DEF CleanQuery, TypeOK
  <2> QED
    BY <2>3, <2>4, <2>5, <2>6 DEF Handler
<1>4. \A q \in Reqs : q # r => log'[q] = log[q]
  <2>1. ASSUME NEW f, Emit(r, f) PROVE \A q \in Reqs : q # r => log'[q] = log[q]
    BY <2>1 DEF Emit, TypeOK
  <2> QED
    BY <2>1 DEF Handler, Prepare, ExecuteQuery, Header, Fetch, CleanQuery, ExecuteUpdate,
                CleanExec, Connect, Close, Begin, EndTx, Restore, Answer, Escape, Verdict
<1> QED
  BY <1>1, <1>2, <1>3, <1>4

-----------------------------------------------------------------------------
(* Calls *)

\* Only a QUERY, or an EXEC whose context was cancelled, goes on working behind
\* the program's back, and a call is cancelled while the program is in it.
CallsAlone ==
    \A r \in Reqs :
        /\ Active(r) /\ op[r] # "QUERY"
           => r = app \/ (op[r] = "EXEC" /\ cancel[r].st # "none")
        /\ cancel[r].st # "none" => op[r] \in {"EXEC", "QUERY"} /\ r # app

\* A RESPONSE says what happened, and a handler that is done has sent one.
Verdicts ==
    \A r \in Reqs : op[r] # "QUERY" =>
        /\ log[r] # <<>> => log[r][1].ok = ~h[r].failed
        /\ h[r].pc = "done" => log[r] # <<>>

\* The connection the program may use is open in the sidecar, until its CLOSE.
SessionUp ==
    /\ link = "new" => app = 0 \/ op[app] = "CONNECT"
    /\ link = "open" =>
          /\ ~Doing("CONNECT")
          /\ sess = "open" \/ (Doing("CLOSE") /\ h[app].pc # "start")
    /\ link = "closed" => app = 0
    /\ Doing("CONNECT") /\ h[app].pc \in {"answer", "done"} /\ ~h[app].failed => sess = "open"

CallsInv == CallsAlone /\ Verdicts /\ SessionUp

LEMMA CallsInit == Init => CallsInv
  BY DEF Init, NoHandler, NoCancel, Active, Doing, CallsInv, CallsAlone, Verdicts, SessionUp

\* A request that was answered is over, unless it is a QUERY whose header came.
LEMMA AnsweredIsOver ==
  ASSUME AnswerInv, NEW r \in Reqs, log[r] # <<>>
  PROVE  Active(r) => op[r] = "QUERY" /\ log[r][1].ok
<1>1. Written(r)
  BY DEF AnswerInv
<1> QED
  BY <1>1 DEF Written, Active, Response

\* The request that is sent is a new one.
LEMMA SentIsNew ==
  ASSUME TypeOK, AnswerInv, NEW o \in Ops, Send(o)
  PROVE  \E r \in Reqs :
           /\ r = next /\ next' = r + 1 /\ r # 0 /\ op[r] = "NONE" /\ h[r] = NoHandler /\ log[r] = <<>>
           /\ app = 0 /\ app' = r /\ op'[r] = o /\ h'[r].pc = "start" /\ MaySend(o)
           /\ \A q \in Reqs : q # r => h'[q] = h[q] /\ op'[q] = op[q]
           /\ UNCHANGED <<link, log, cancel, sess, current, open, marked, auto, work>>
<1>1. PICK r \in Reqs : r = next
  BY DEF Send
<1>2. r \in Nat /\ r # 0
  BY DEF Reqs
<1>3. op[r] = "NONE" /\ h[r] = NoHandler /\ log[r] = <<>>
  <2>1. Placed(r)
    BY DEF AnswerInv
  <2> QED
    BY <1>1, <1>2, <2>1 DEF Placed
<1>4. next' = r + 1 /\ op' = [op EXCEPT ![r] = o] /\ h' = [h EXCEPT ![r].pc = "start"] /\ app = 0 /\ app' = r
      /\ MaySend(o) /\ UNCHANGED <<link, log, cancel, sess, current, open, marked, auto, work>>
  BY <1>1 DEF Send, sessionVars, dbVars
<1>5. /\ op'[r] = o /\ h'[r].pc = "start"
      /\ \A q \in Reqs : q # r => h'[q] = h[q] /\ op'[q] = op[q]
  BY <1>3, <1>4 DEF TypeOK, NoHandler
<1> QED
  BY <1>1, <1>2, <1>3, <1>4, <1>5

LEMMA CallsAloneStep ==
  ASSUME TypeOK, AnswerInv, CallsAlone, [Next]_vars PROVE CallsAlone'
<1>0. \A q \in Reqs : q # 0
  BY DEF Reqs
<1>1. ASSUME NEW o \in Ops, Send(o) PROVE CallsAlone'
  <2>1. PICK r \in Reqs :
           /\ app = 0 /\ app' = r /\ op[r] = "NONE" /\ UNCHANGED cancel
           /\ \A q \in Reqs : q # r => h'[q] = h[q] /\ op'[q] = op[q]
    BY <1>1, SentIsNew
  <2>2. cancel[r].st = "none"
    BY <2>1 DEF CallsAlone
  <2> QED
    BY <1>0, <2>1, <2>2 DEF CallsAlone, Active
<1>2. CASE Receive
  <2>1. /\ app \in Reqs /\ ~(Active(app) /\ op[app] # "QUERY") /\ app' = 0
        /\ UNCHANGED <<op, h, cancel>>
    BY <1>2, AnsweredIsOver, SidecarAssumption DEF Receive, TypeOK, Reqs
  <2> QED
    BY <1>0, <2>1 DEF CallsAlone, Active
<1>3. CASE Cancelled
  <2>1. /\ app \in Reqs /\ app' = 0 /\ UNCHANGED <<op, h>> /\ op[app] \in {"EXEC", "QUERY"}
        /\ cancel' = [cancel EXCEPT ![app].st = "sent"]
    BY <1>3, SidecarAssumption DEF Cancelled, TypeOK, Reqs
  <2>2. cancel'[app].st = "sent" /\ \A q \in Reqs : q # app => cancel'[q] = cancel[q]
    BY <2>1 DEF TypeOK, CancelType
  <2> QED
    BY <1>0, <2>1, <2>2 DEF CallsAlone, Active
<1>4. CASE ReadEnd \/ CloseRows \/ Finished \/ UNCHANGED vars
  BY <1>4 DEF ReadEnd, CloseRows, Finished, vars, progVars, CallsAlone, Active
<1>5. ASSUME NEW r \in Reqs, Handler(r) \/ Escape(r) PROVE CallsAlone'
  BY <1>5, HandlerFrame DEF CallsAlone, Active
<1>6. ASSUME NEW r \in Reqs, Aim(r) \/ Fire(r) PROVE CallsAlone'
  <2>1. cancel[r].st # "none" /\ cancel'[r].st # "none" /\ UNCHANGED <<app, op, h>>
        /\ \A q \in Reqs : q # r => cancel'[q] = cancel[q]
    BY <1>6 DEF Aim, Fire, progVars, TypeOK
  <2> QED
    BY <2>1 DEF CallsAlone, Active
<1> QED
  BY <1>1, <1>2, <1>3, <1>4, <1>5, <1>6 DEF Next

\* Only the answer ends a handler.
LEMMA OnlyAnswerEnds ==
  ASSUME TypeOK, NEW r \in Reqs, Handler(r) \/ Escape(r), h'[r].pc = "done"
  PROVE  Answer(r)
<1>1. ASSUME NEW pc, GoTo(r, pc) \/ Fail(r, pc) PROVE pc = "done"
  BY <1>1, Moved
<1>2. ASSUME NEW owned, Catch(r, owned) PROVE FALSE
  BY <1>2, Caught
<1>3. ~Prepare(r) /\ ~ExecuteQuery(r) /\ ~ExecuteUpdate(r) /\ ~CleanExec(r) /\ ~Connect(r)
      /\ ~Close(r) /\ ~Begin(r) /\ ~EndTx(r) /\ ~Restore(r) /\ ~Escape(r)
  BY <1>1, <1>2 DEF Prepare, ExecuteQuery, ExecuteUpdate, CleanExec, Connect, Close, Begin,
                    EndTx, Restore, Escape
<1>4. ~Header(r)
  <2>1. CASE h' = [h EXCEPT ![r].pc = "rows", ![r].owned = TRUE, ![r].pos = 0]
    <3>1. h'[r].pc = "rows"
      BY <2>1 DEF TypeOK, HandlerType
    <3> QED
      BY <3>1
  <2> QED
    BY <1>2, <2>1 DEF Header
<1>5. ~Fetch(r)
  <2>1. h' # [h EXCEPT ![r].pos = @ + 1] \/ h[r].pc # "rows"
    BY DEF TypeOK, HandlerType
  <2> QED
    BY <1>1, <1>2, <2>1 DEF Fetch, AfterReading, At
<1>6. ~CleanQuery(r)
  <2>1. ASSUME CleanQuery(r) PROVE h'[r].pc \in {"start", "answer"}
    BY <2>1 DEF CleanQuery, TypeOK, HandlerType
  <2> QED
    BY <2>1
<1> QED
  BY <1>3, <1>4, <1>5, <1>6 DEF Handler

LEMMA VerdictsStep ==
  ASSUME TypeOK, AnswerInv, Verdicts, [Next]_vars PROVE Verdicts'
<1> USE DEF Verdicts
<1>1. ASSUME NEW o \in Ops, Send(o) PROVE Verdicts'
  <2>1. PICK r \in Reqs :
           /\ log[r] = <<>> /\ UNCHANGED log /\ h'[r].pc = "start"
           /\ \A q \in Reqs : q # r => h'[q] = h[q] /\ op'[q] = op[q]
    BY <1>1, SentIsNew
  <2> QED
    BY <2>1
<1>2. CASE UNCHANGED <<op, h, log>>
  BY <1>2
<1>3. ASSUME NEW r \in Reqs, Handler(r) \/ Escape(r) PROVE Verdicts'
  <2>1. /\ Active(r) /\ op' = op
        /\ \A q \in Reqs : q # r => h'[q] = h[q] /\ log'[q] = log[q]
    BY <1>3, HandlerFrame
  <2>2. op[r] # "QUERY" => log[r] = <<>>
    BY <2>1, AnsweredIsOver
  <2>3. ASSUME op[r] # "QUERY", log'[r] # <<>> PROVE log'[r][1].ok = ~h'[r].failed
    <3>1. Answer(r)
      BY <1>3, <2>2, <2>3 DEF Handler, Prepare, ExecuteQuery, Header, Fetch, CleanQuery,
           ExecuteUpdate, CleanExec, Connect, Close, Begin, EndTx, Restore, Escape, At
    <3>2. Emit(r, Response(~h[r].failed)) /\ h'[r].failed = h[r].failed
      BY <2>3, <3>1, Moved DEF Answer, Verdict
    <3>3. Response(~h[r].failed) \in Frame
      BY FrameTypes, RequestType DEF HandlerType
    <3>4. log'[r][1] = Response(~h[r].failed)
      BY <2>2, <2>3, <3>2, <3>3, Emitted
    <3> QED
      BY <3>2, <3>4 DEF Response
  <2>4. ASSUME h'[r].pc = "done" PROVE log'[r] # <<>>
    <3>1. Answer(r)
      BY <1>3, <2>4, OnlyAnswerEnds
    <3>2. PICK f \in Frame : Emit(r, f)
      BY <3>1, FrameTypes, RequestType DEF Answer, Verdict, HandlerType
    <3> QED
      BY <3>2, Emitted
  <2> QED
    BY <2>1, <2>3, <2>4
<1>4. CASE Receive \/ Cancelled \/ ReadEnd \/ CloseRows \/ Finished \/ UNCHANGED vars
  BY <1>2, <1>4 DEF Receive, Cancelled, ReadEnd, CloseRows, Finished, vars
<1>5. ASSUME NEW r \in Reqs, Aim(r) \/ Fire(r) PROVE Verdicts'
  BY <1>2, <1>5 DEF Aim, Fire
<1> QED
  BY <1>1, <1>3, <1>4, <1>5 DEF Next

LEMMA SessionUpStep ==
  ASSUME TypeOK, AnswerInv, CallsInv, [Next]_vars PROVE SessionUp'
<1> USE DEF Doing
<1>0. SessionUp /\ CallsAlone /\ Verdicts
  BY DEF CallsInv
<1>1. ASSUME NEW o \in Ops, Send(o) PROVE SessionUp'
  <2>1. PICK r \in Reqs :
           /\ r # 0 /\ app = 0 /\ app' = r /\ op'[r] = o /\ h'[r].pc = "start" /\ MaySend(o)
           /\ UNCHANGED <<link, sess>>
    BY <1>1, SentIsNew
  <2>2. link = IF o = "CONNECT" THEN "new" ELSE "open"
    BY <2>1 DEF MaySend
  <2> QED
    BY <1>0, <2>1, <2>2 DEF SessionUp
<1>2. CASE Receive
  <2>1. app \in Reqs /\ app' = 0 /\ log[app] # <<>> /\ UNCHANGED <<sess, h>>
    BY <1>2, SidecarAssumption DEF Receive, TypeOK, Reqs, sessionVars
  <2>2. CASE op[app] = "CONNECT"
    <3>1. link' = IF log[app][1].ok THEN "open" ELSE "closed"
      BY <1>2, <2>2 DEF Receive
    <3>2. h[app].pc = "done"
      <4>1. ~Active(app) /\ Placed(app)
        BY <2>1, <2>2, AnsweredIsOver DEF AnswerInv
      <4> QED
        BY <2>2, <4>1 DEF Active, Placed
    <3>3. log[app][1].ok => ~h[app].failed
      BY <1>0, <2>1, <2>2 DEF Verdicts
    <3>4. log[app][1].ok => sess = "open"
      BY <1>0, <2>1, <2>2, <3>2, <3>3 DEF SessionUp, Reqs
    <3> QED
      BY <2>1, <3>1, <3>4 DEF SessionUp
  <2>3. CASE op[app] = "CLOSE"
    <3>1. link' = "closed"
      BY <1>2, <2>3 DEF Receive
    <3> QED
      BY <2>1, <3>1 DEF SessionUp
  <2>4. CASE op[app] \notin {"CONNECT", "CLOSE"}
    <3>1. link' = link
      BY <1>2, <2>4 DEF Receive
    <3> QED
      BY <1>0, <2>1, <2>4, <3>1 DEF SessionUp, Reqs
  <2> QED
    BY <2>2, <2>3, <2>4
<1>3. CASE UNCHANGED <<link, app, op, h, sess>>
  BY <1>0, <1>3 DEF SessionUp
<1>4. ASSUME NEW r \in Reqs, Handler(r) \/ Escape(r) PROVE SessionUp'
  <2>1. /\ Active(r) /\ UNCHANGED <<link, app, op>> /\ Placed(r) /\ r # 0
        /\ \A q \in Reqs : q # r => h'[q] = h[q]
    BY <1>4, HandlerFrame DEF AnswerInv, Reqs
  <2>2. op[r] \in {"CONNECT", "CLOSE"} => r = app
    BY <1>0, <2>1 DEF CallsAlone
  <2>3. CASE Connect(r)
    <3>1. op[app] = "CONNECT" /\ app = r /\ h[r].pc = "start"
      BY <2>2, <2>3 DEF Connect, At
    <3>2. sess' = "open" \/ (sess' = sess /\ h'[r].failed)
      BY <2>3, Moved DEF Connect
    <3> QED
      BY <1>0, <2>1, <3>1, <3>2 DEF SessionUp
  <2>4. CASE Close(r)
    <3>1. op[app] = "CLOSE" /\ app = r
      BY <2>2, <2>4 DEF Close, At
    <3>2. h'[r].pc = "answer"
      BY <2>4, Moved DEF Close
    <3> QED
      BY <1>0, <2>1, <3>1, <3>2 DEF SessionUp
  <2>5. CASE ~Connect(r) /\ ~Close(r)
    <3>1. sess' = sess
      BY <1>4, <2>5 DEF Handler, Prepare, ExecuteQuery, Header, Fetch, CleanQuery,
           ExecuteUpdate, CleanExec, Begin, EndTx, Restore, Answer, Escape, sessionVars
    <3>2. CASE r # app \/ op[r] \notin {"CONNECT", "CLOSE"}
      BY <1>0, <2>1, <3>1, <3>2 DEF SessionUp, TypeOK, Reqs
    <3>3. CASE r = app /\ op[r] \in {"CONNECT", "CLOSE"}
      <4>1. Answer(r) \/ Escape(r)
        BY <1>4, <2>1, <2>5, <3>3 DEF Handler, Prepare, ExecuteQuery, Header, Fetch, CleanQuery,
           ExecuteUpdate, CleanExec, Begin, EndTx, Restore, Placed, At
      <4>2. \/ h[r].pc = "answer" /\ h'[r].pc = "done" /\ h'[r].failed = h[r].failed
            \/ h[r].pc = "start" /\ h'[r].pc = "lost"
        BY <4>1, Moved DEF Answer, Escape
      <4> QED
        BY <1>0, <2>1, <3>1, <3>3, <4>2 DEF SessionUp
    <3> QED
      BY <3>2, <3>3
  <2> QED
    BY <2>3, <2>4, <2>5
<1>5. CASE ReadEnd \/ CloseRows \/ Finished \/ UNCHANGED vars
  BY <1>3, <1>5 DEF ReadEnd, CloseRows, Finished, vars, progVars, sessionVars
<1>6. CASE Cancelled
  <2>1. /\ app # 0 /\ op[app] \in {"EXEC", "QUERY"} /\ app' = 0 /\ UNCHANGED <<link, sess>>
    BY <1>6, SidecarAssumption DEF Cancelled, sessionVars
  <2> QED
    BY <1>0, <2>1 DEF SessionUp
<1>7. ASSUME NEW r \in Reqs, Aim(r) \/ Fire(r) PROVE SessionUp'
  BY <1>3, <1>7 DEF Aim, Fire, progVars, sessionVars
<1> QED
  BY <1>1, <1>2, <1>4, <1>5, <1>6, <1>7 DEF Next

LEMMA CallsHold == Spec => [](TypeOK /\ AnswerInv /\ CallsInv)
<1>1. TypeOK /\ AnswerInv /\ CallsInv /\ [Next]_vars => CallsInv'
  BY CallsAloneStep, VerdictsStep, SessionUpStep DEF CallsInv
<1> QED
  BY <1>1, CallsInit, AnswersHold, PTL DEF Spec

-----------------------------------------------------------------------------
(* Turns *)

\* A handler works for the call the program is in, for the result it reads, or
\* for something it gave up; what it reads came last, unless it was given up.
TurnInv ==
    /\ app # 0 => app = next - 1
    /\ reading # 0 /\ reading \notin left => app = 0 /\ reading = next - 1
    /\ \A r \in Reqs : Active(r) => r = app \/ r = reading \/ GivenUp(r)

LEMMA TurnInit == Init => TurnInv
  BY DEF Init, NoHandler, Active, TurnInv

LEMMA TurnStep ==
  ASSUME TypeOK, AnswerInv, CallsInv, TurnInv, [Next]_vars PROVE TurnInv'
<1> USE DEF GivenUp
<1>0. \A q \in Reqs : q # 0
  BY DEF Reqs
<1>1. ASSUME NEW o \in Ops, Send(o) PROVE TurnInv'
  <2>1. PICK r \in Reqs :
           /\ r = next /\ next' = r + 1 /\ app = 0 /\ app' = r /\ UNCHANGED cancel
           /\ \A q \in Reqs : q # r => h'[q] = h[q] /\ op'[q] = op[q]
    BY <1>1, SentIsNew
  <2>2. /\ left' = left \cup ({reading} \ {0})
        /\ reading' = 0 \/ reading' = reading
    BY <1>1 DEF Send
  <2>3. app' = next' - 1
    BY <2>1 DEF Reqs
  <2> QED
    BY <1>0, <2>1, <2>2, <2>3 DEF TurnInv, Active
<1>2. CASE Receive
  <2>1. /\ app \in Reqs /\ app # 0 /\ app' = 0 /\ log[app] # <<>>
        /\ UNCHANGED <<op, h, left, cancel, next>>
        /\ reading' = IF op[app] = "QUERY" /\ log[app][1].ok THEN app ELSE reading
    BY <1>2, SidecarAssumption DEF Receive, TypeOK, Reqs
  <2>2. Active(app) => reading' = app
    BY <2>1, AnsweredIsOver
  <2>3. reading # 0 => reading \in left
    BY <2>1 DEF TurnInv
  <2>4. ASSUME NEW r \in Reqs, Active(r)' PROVE (r = app \/ r = reading \/ GivenUp(r))'
    <3>1. r = app \/ r = reading \/ GivenUp(r)
      BY <2>1, <2>4 DEF TurnInv, Active
    <3> QED
      BY <1>0, <2>1, <2>2, <2>3, <2>4, <3>1 DEF Active
  <2> QED
    BY <2>1, <2>3, <2>4 DEF TurnInv
<1>3. CASE Cancelled
  <2>1. /\ app \in Reqs /\ app # 0 /\ app' = 0 /\ UNCHANGED <<op, h, left, reading, next>>
        /\ cancel' = [cancel EXCEPT ![app].st = "sent"]
    BY <1>3, SidecarAssumption DEF Cancelled, TypeOK, Reqs
  <2>2. cancel'[app].st = "sent" /\ \A q \in Reqs : q # app => cancel'[q] = cancel[q]
    BY <2>1 DEF TypeOK, CancelType
  <2> QED
    BY <1>0, <2>1, <2>2 DEF TurnInv, Active
<1>4. CASE ReadEnd
  <2>1. reading \in Reqs /\ reading' = 0 /\ UNCHANGED <<app, h, next, left, cancel>>
    BY <1>4, SidecarAssumption DEF ReadEnd, TypeOK, Reqs
  <2>2. ~Active(reading)
    BY <1>4, <2>1 DEF ReadEnd, AnswerInv, Written, Active
  <2> QED
    BY <1>0, <2>1, <2>2 DEF TurnInv, Active
<1>5. CASE CloseRows
  <2>1. reading' = 0 /\ left' = left \cup {reading} /\ UNCHANGED <<app, h, next, cancel>>
    BY <1>5 DEF CloseRows
  <2> QED
    BY <1>0, <2>1 DEF TurnInv, Active
<1>6. CASE Finished \/ UNCHANGED vars
  BY <1>6 DEF Finished, vars, progVars, TurnInv, Active
<1>7. ASSUME NEW r \in Reqs, Handler(r) \/ Escape(r) PROVE TurnInv'
  BY <1>7, HandlerFrame DEF TurnInv, Active
<1>8. ASSUME NEW r \in Reqs, Aim(r) \/ Fire(r) PROVE TurnInv'
  <2>1. /\ cancel'[r].st # "none" /\ UNCHANGED <<app, reading, left, next, op, h>>
        /\ \A q \in Reqs : q # r => cancel'[q] = cancel[q]
    BY <1>8 DEF Aim, Fire, progVars, TypeOK
  <2> QED
    BY <2>1 DEF TurnInv, Active
<1> QED
  BY <1>1, <1>2, <1>3, <1>4, <1>5, <1>6, <1>7, <1>8 DEF Next

LEMMA TurnsHold == Spec => [](TypeOK /\ AnswerInv /\ CallsInv /\ TurnInv)
<1>1. TypeOK /\ AnswerInv /\ CallsInv /\ TurnInv /\ [Next]_vars => TurnInv'
  BY TurnStep
<1> QED
  BY <1>1, TurnInit, CallsHold, PTL DEF Spec

\* A request that was sent.
LEMMA SentBefore ==
  ASSUME TypeOK, AnswerInv, NEW r \in Reqs, op[r] # "NONE"
  PROVE  r < next /\ r \in Nat /\ next \in Nat
<1>1. r \in Nat /\ next \in Nat /\ Placed(r)
  BY SidecarAssumption DEF AnswerInv, TypeOK, Reqs
<1> QED
  BY <1>1 DEF Placed

\* A handler still works behind a later request only if its call was given up.
LEMMA TurnOrder ==
  ASSUME TypeOK, AnswerInv, TurnInv, NEW r \in Reqs, NEW q \in Reqs,
         Active(r), op[q] # "NONE", r < q
  PROVE  GivenUp(r)
<1>1. r \in Nat /\ q \in Nat /\ next \in Nat /\ q < next /\ r # 0
  BY SentBefore DEF Reqs
<1>2. r # next - 1
  BY <1>1
<1> QED
  BY <1>1, <1>2 DEF TurnInv, GivenUp

-----------------------------------------------------------------------------
(* Statements *)

\* Which statements of a request are open: an EXEC's while it is worked on; a
\* QUERY's also when its attempt failed before there was a reference to close.
Opened(r) ==
    \A n \in {1, 2} : <<r, n>> \in open =>
        \/ op[r] = "EXEC" /\ n = h[r].try /\ Working(r)
        \/ /\ op[r] = "QUERY" /\ n <= h[r].try
           /\ n = h[r].try =>
                 Working(r) \/ (h[r].pc \in {"answer", "done"} /\ h[r].failed /\ ~h[r].owned)

Owns(r) ==
    /\ h[r].owned => h[r].pc \in {"rows", "clean", "answer", "done"}
    /\ h[r].pc = "rows" => h[r].owned
    /\ op[r] = "QUERY" /\ h[r].pc = "clean" => h[r].owned \/ h[r].again \/ h[r].failed

StatementsInv == \A r \in Reqs : Opened(r) /\ Owns(r)

LEMMA StatementsInit == Init => StatementsInv
  BY DEF Init, NoHandler, StatementsInv, Opened, Owns

\* It suffices to look at the statements of the handler that moves.
LEMMA OwnStatements ==
  ASSUME TypeOK, StatementsInv, NEW r \in Reqs, Handler(r) \/ Escape(r),
         \A s \in open' : s[1] # r => s \in open,
         Opened(r)', Owns(r)'
  PROVE  StatementsInv'
<1> SUFFICES ASSUME NEW q \in Reqs, q # r PROVE Opened(q)' /\ Owns(q)'
  BY DEF StatementsInv
<1>1. h'[q] = h[q] /\ op' = op
  BY HandlerFrame
<1>2. \A n \in {1, 2} : <<q, n>> \in open' => <<q, n>> \in open
  BY Zenon
<1> QED
  BY <1>1, <1>2 DEF StatementsInv, Opened, Owns, Working

LEMMA HandlerOpens ==
  ASSUME TypeOK, AnswerInv, StatementsInv, NEW r \in Reqs, Handler(r) \/ Escape(r)
  PROVE  StatementsInv'
<1> USE DEF At, sessionVars
<1>1. Active(r) /\ op' = op /\ Placed(r) /\ Written(r) /\ Opened(r) /\ Owns(r)
  BY HandlerFrame DEF AnswerInv, StatementsInv
<1>2. h[r].try \in {1, 2} /\ St(r) = <<r, h[r].try>> /\ h[r] \in HandlerType
  BY RequestType DEF HandlerType, St
<1>3. op[r] \notin {"EXEC", "QUERY"} => \A n \in {1, 2} : <<r, n>> \notin open
  BY <1>1 DEF Opened
<1>4. op[r] = "EXEC" /\ ~Working(r) => \A n \in {1, 2} : <<r, n>> \notin open
  BY <1>1 DEF Opened
<1>5. CASE Prepare(r)
  <2>1. CASE GoTo(r, "ready") /\ open' = open \cup {St(r)}
    <3>1. /\ h'[r].pc = "ready" /\ h'[r].try = h[r].try /\ h'[r].owned = h[r].owned
          /\ h[r].pc = "start" /\ op[r] \in {"EXEC", "QUERY"}
      BY <1>5, <2>1, Moved DEF Prepare
    <3>2. Opened(r)'
      BY <1>1, <1>2, <2>1, <3>1 DEF Opened, Working
    <3>3. Owns(r)'
      BY <1>1, <3>1 DEF Owns
    <3>4. \A s \in open' : s[1] # r => s \in open
      BY <1>2, <2>1
    <3> QED
      BY <3>2, <3>3, <3>4, OwnStatements
  <2>2. CASE Catch(r, FALSE) /\ op[r] = "QUERY" /\ UNCHANGED open
    <3>1. /\ h'[r].pc = "clean" /\ h'[r].try = h[r].try /\ ~h'[r].owned
          /\ h'[r].failed = ~h'[r].again /\ h'[r] \in HandlerType
      BY <2>2, Caught, CatchType
    <3>2. Opened(r)' /\ Owns(r)'
      BY <1>1, <2>2, <3>1 DEF Opened, Owns, Working, HandlerType
    <3> QED
      BY <2>2, <3>2, OwnStatements
  <2>3. CASE Fail(r, "answer") /\ op[r] # "QUERY" /\ UNCHANGED open
    <3>1. h'[r].pc = "answer" /\ h[r].pc = "start" /\ op[r] = "EXEC" /\ h'[r].owned = h[r].owned
      BY <1>5, <2>3, Moved DEF Prepare
    <3>2. Opened(r)' /\ Owns(r)'
      BY <1>1, <1>4, <2>3, <3>1 DEF Opened, Owns, Working
    <3> QED
      BY <2>3, <3>2, OwnStatements
  <2> QED
    BY <1>5, <2>1, <2>2, <2>3 DEF Prepare
<1>6. CASE ExecuteQuery(r) \/ Header(r) \/ Fetch(r)
  <2>1. op[r] = "QUERY" /\ Working(r) /\ UNCHANGED open
    BY <1>6 DEF ExecuteQuery, Header, Fetch, Working
  <2>2. h'[r].try = h[r].try /\ Working(r)' /\ Owns(r)'
    <3>1. ASSUME NEW owned \in BOOLEAN, Catch(r, owned)
          PROVE  h'[r].try = h[r].try /\ Working(r)' /\ Owns(r)'
      <4>1. h'[r] \in HandlerType
        BY <3>1, CatchType
      <4> QED
        BY <3>1, <4>1, Caught DEF Working, Owns, HandlerType
    <3>2. CASE GoTo(r, "meta") /\ h[r].pc = "ready"
      <4>1. h'[r].pc = "meta" /\ h'[r].try = h[r].try /\ h'[r].owned = h[r].owned
        BY <3>2, Moved
      <4> QED
        BY <1>1, <3>2, <4>1 DEF Working, Owns
    <3>3. CASE h' = [h EXCEPT ![r].pc = "rows", ![r].owned = TRUE, ![r].pos = 0]
      <4>1. h'[r].try = h[r].try /\ h'[r].pc = "rows" /\ h'[r].owned
        BY <3>3 DEF TypeOK, HandlerType
      <4> QED
        BY <4>1 DEF Working, Owns
    <3>4. CASE h' = [h EXCEPT ![r].pos = @ + 1] /\ h[r].pc = "rows"
      <4>1. h'[r].try = h[r].try /\ h'[r].pc = "rows" /\ h'[r].owned = h[r].owned
        BY <3>4 DEF TypeOK, HandlerType
      <4> QED
        BY <1>1, <3>4, <4>1 DEF Working, Owns
    <3>5. CASE GoTo(r, "clean") /\ h[r].pc = "rows"
      BY <1>1, <3>5, Moved DEF Working, Owns
    <3> QED
      BY <1>6, <3>1, <3>2, <3>3, <3>4, <3>5 DEF ExecuteQuery, Header, Fetch, AfterReading
  <2>3. Opened(r)'
    BY <1>1, <2>1, <2>2 DEF Opened
  <2> QED
    BY <2>1, <2>2, <2>3, OwnStatements
<1>7. CASE CleanQuery(r)
  <2>0. op[r] = "QUERY" /\ h[r].pc = "clean"
        /\ open' = IF h[r].owned THEN open \ {St(r)} ELSE open
    BY <1>7 DEF CleanQuery
  <2>1. CASE h[r].again
    <3>1. h'[r].pc = "start" /\ h'[r].try = h[r].try + 1 /\ ~h'[r].owned
      BY <1>7, <2>1 DEF CleanQuery, TypeOK, HandlerType
    <3>2. \A n \in {1, 2} : n <= h[r].try => n <= h'[r].try /\ n # h'[r].try
      BY <1>2, <3>1
    <3>3. Opened(r)' /\ Owns(r)'
      BY <1>1, <2>0, <3>1, <3>2 DEF Opened, Owns
    <3> QED
      BY <2>0, <3>3, OwnStatements
  <2>2. CASE ~h[r].again
    <3>1. /\ h'[r].pc = "answer" /\ h'[r].try = h[r].try /\ h'[r].owned = h[r].owned
          /\ h'[r].failed = h[r].failed
      BY <1>7, <2>2 DEF CleanQuery, TypeOK, HandlerType
    <3>2. h[r].owned \/ h[r].failed
      BY <1>1, <2>0, <2>2 DEF Owns
    <3>3. h[r].owned => \A n \in {1, 2} : <<r, n>> \in open' => n # h[r].try
      BY <1>2, <2>0
    <3>4. \A n \in {1, 2} : <<r, n>> \in open' => n <= h[r].try
      BY <1>1, <2>0 DEF Opened
    <3>5. Opened(r)' /\ Owns(r)'
      BY <1>1, <2>0, <3>1, <3>2, <3>3, <3>4 DEF Opened, Owns
    <3> QED
      BY <2>0, <3>5, OwnStatements
  <2> QED
    BY <2>1, <2>2
<1>8. CASE ExecuteUpdate(r)
  <2>1. /\ h'[r].pc = "clean" /\ h'[r].try = h[r].try /\ h'[r].owned = h[r].owned
        /\ op[r] = "EXEC" /\ UNCHANGED open
    BY <1>8, Moved DEF ExecuteUpdate
  <2>2. Opened(r)' /\ Owns(r)'
    BY <1>1, <2>1 DEF Opened, Owns, Working
  <2> QED
    BY <2>1, <2>2, OwnStatements
<1>9. CASE CleanExec(r)
  <2>1. /\ h'[r].pc = "answer" /\ h'[r].owned = h[r].owned /\ op[r] = "EXEC"
        /\ open' = open \ {St(r)}
    BY <1>9, Moved DEF CleanExec
  <2>2. \A n \in {1, 2} : <<r, n>> \notin open'
    BY <1>1, <1>2, <2>1 DEF Opened
  <2>3. Opened(r)' /\ Owns(r)'
    BY <1>1, <1>9, <2>1, <2>2 DEF Opened, Owns, CleanExec
  <2> QED
    BY <2>1, <2>3, OwnStatements
<1>10. CASE Connect(r) \/ Close(r) \/ Begin(r) \/ EndTx(r) \/ Restore(r)
  <2>1. /\ op[r] \notin {"EXEC", "QUERY"} /\ open' \subseteq open
        /\ h'[r].pc \in {"answer", "restore"} /\ h'[r].owned = h[r].owned
    BY <1>1, <1>10, Moved DEF Connect, Close, Begin, EndTx, Restore, Placed
  <2>2. Opened(r)' /\ Owns(r)'
    BY <1>1, <1>3, <2>1 DEF Opened, Owns, Placed
  <2> QED
    BY <2>1, <2>2, OwnStatements
<1>11. CASE Answer(r)
  <2>1. /\ h[r].pc = "answer" /\ h'[r].pc = "done" /\ h'[r].try = h[r].try
        /\ h'[r].owned = h[r].owned /\ h'[r].failed = h[r].failed /\ UNCHANGED open
    BY <1>11, Moved DEF Answer
  <2>2. Opened(r)' /\ Owns(r)'
    BY <1>1, <2>1 DEF Opened, Owns, Working
  <2> QED
    BY <2>1, <2>2, OwnStatements
<1>12. CASE Escape(r)
  <2>1. /\ h[r].pc = "start" /\ h'[r].pc = "lost" /\ h'[r].try = h[r].try
        /\ h'[r].owned = h[r].owned /\ UNCHANGED open
    BY <1>12, Moved DEF Escape
  <2>2. Opened(r)' /\ Owns(r)'
    BY <1>1, <2>1 DEF Opened, Owns, Working
  <2> QED
    BY <2>1, <2>2, OwnStatements
<1> QED
  BY <1>5, <1>6, <1>7, <1>8, <1>9, <1>10, <1>11, <1>12 DEF Handler

LEMMA StatementsStep ==
  ASSUME TypeOK, AnswerInv, StatementsInv, [Next]_vars PROVE StatementsInv'
<1>1. ASSUME NEW o \in Ops, Send(o) PROVE StatementsInv'
  <2>1. PICK r \in Reqs :
           /\ op[r] = "NONE" /\ h[r] = NoHandler /\ h'[r].pc = "start" /\ UNCHANGED open
           /\ \A q \in Reqs : q # r => h'[q] = h[q] /\ op'[q] = op[q]
    BY <1>1, SentIsNew
  <2>2. \A n \in {1, 2} : <<r, n>> \notin open
    BY <2>1 DEF StatementsInv, Opened
  <2>3. Opened(r)' /\ Owns(r)'
    <3>1. ~h'[r].owned
      BY <1>1, <2>1, SendSays DEF AnswerInv, Placed, Send, TypeOK, NoHandler
    <3> QED
      BY <2>1, <2>2, <3>1 DEF Opened, Owns
  <2>4. ASSUME NEW q \in Reqs, q # r PROVE Opened(q)' /\ Owns(q)'
    BY <2>1, <2>4 DEF StatementsInv, Opened, Owns, Working
  <2> QED
    BY <2>3, <2>4 DEF StatementsInv
<1>2. CASE UNCHANGED <<op, h, open>>
  BY <1>2 DEF StatementsInv, Opened, Owns, Working
<1>3. CASE Receive \/ Cancelled \/ ReadEnd \/ CloseRows \/ Finished \/ UNCHANGED vars
  BY <1>2, <1>3 DEF Receive, Cancelled, ReadEnd, CloseRows, Finished, vars, sessionVars
<1>4. ASSUME NEW r \in Reqs, Handler(r) \/ Escape(r) PROVE StatementsInv'
  BY <1>4, HandlerOpens
<1>5. ASSUME NEW r \in Reqs, Aim(r) \/ Fire(r) PROVE StatementsInv'
  BY <1>2, <1>5 DEF Aim, Fire, sessionVars
<1> QED
  BY <1>1, <1>3, <1>4, <1>5 DEF Next

LEMMA StatementsHold ==
  Spec => [](TypeOK /\ AnswerInv /\ CallsInv /\ TurnInv /\ StatementsInv)
<1>1. TypeOK /\ AnswerInv /\ StatementsInv /\ [Next]_vars => StatementsInv'
  BY StatementsStep
<1> QED
  BY <1>1, StatementsInit, TurnsHold, PTL DEF Spec

\* Whatever throws, is cancelled or left early, two statements of a session are
\* worked on or open together only if the program had given up the earlier call
\* before it sent the later (docs/protocol.md:126).
THEOREM OneStatement == Spec => []Serial
<1>1. TypeOK /\ AnswerInv /\ TurnInv /\ StatementsInv => Serial
  <2> SUFFICES ASSUME TypeOK, AnswerInv, TurnInv, StatementsInv,
                      NEW r \in Reqs, NEW q \in Reqs, r < q, Busy(r), Busy(q)
               PROVE  GivenUp(r)
    BY DEF Serial
  <2>1. \A p \in Reqs : Busy(p) => Active(p)
    BY DEF Busy, Working, Active, StatementsInv, Owns, AnswerInv, Closed
  <2>2. op[q] # "NONE"
    BY <2>1 DEF AnswerInv, Placed, Active
  <2> QED
    BY <2>1, <2>2, TurnOrder
<1> QED
  BY <1>1, StatementsHold, PTL

\* Whatever throws, an EXEC leaves no statement open, and a QUERY only those of
\* attempts that failed before Main had a reference to close (Main.java:95-96).
THEOREM StatementsEnd == Spec => []OnlyUnownedLeft
<1>1. StatementsInv => OnlyUnownedLeft
  BY DEF StatementsInv, Opened, Working, OnlyUnownedLeft
<1> QED
  BY <1>1, StatementsHold, PTL

-----------------------------------------------------------------------------
(* CANCELs *)

\* Session.current is the statement of a handler at work; it is that of the last
\* call if nothing was given up before it.
CurrentInv ==
    /\ current # NoStmt => \E r \in Reqs : current = St(r) /\ Working(r)
    /\ CancelFinds

LEMMA CurrentInit == Init => CurrentInv
  BY DEF Init, NoHandler, CurrentInv, CancelFinds

\* What a step of a handler does to Session.current.
LEMMA CurrentMoves ==
  ASSUME TypeOK, AnswerInv, NEW r \in Reqs, Handler(r) \/ Escape(r)
  PROVE  \/ current' = NoStmt /\ h'[r].pc \notin {"ready", "meta", "rows"}
         \/ current' = St(r) /\ h'[r].pc = "ready" /\ h'[r].try = h[r].try
         \/ /\ current' = current
            /\ Working(r) => Working(r)' /\ h'[r].try = h[r].try
            /\ h'[r].pc \in {"ready", "meta", "rows"} => h[r].pc \in {"ready", "meta", "rows"}
<1> USE DEF At, sessionVars
<1>1. CASE Prepare(r)
  <2>1. CASE Publish(r) /\ GoTo(r, "ready")
    BY <2>1, Moved DEF Publish
  <2>2. CASE (Catch(r, FALSE) \/ Fail(r, "answer")) /\ UNCHANGED current
    <3>1. h'[r].pc \in {"clean", "answer"} /\ ~Working(r)
      BY <1>1, <2>2, Caught, Moved DEF Prepare, Working
    <3> QED
      BY <2>2, <3>1
  <2> QED
    BY <1>1, <2>1, <2>2 DEF Prepare
<1>2. CASE ExecuteQuery(r) \/ Header(r) \/ Fetch(r)
  <2>1. UNCHANGED current /\ h[r].pc \in {"ready", "meta", "rows"}
    BY <1>2 DEF ExecuteQuery, Header, Fetch
  <2>2. h'[r].try = h[r].try /\ Working(r)'
    <3>1. ASSUME NEW owned \in BOOLEAN, Catch(r, owned)
          PROVE  h'[r].try = h[r].try /\ Working(r)'
      BY <3>1, Caught DEF Working
    <3>2. ASSUME NEW pc \in {"meta", "clean"}, GoTo(r, pc)
          PROVE  h'[r].try = h[r].try /\ Working(r)'
      BY <3>2, Moved DEF Working
    <3>3. CASE h' = [h EXCEPT ![r].pc = "rows", ![r].owned = TRUE, ![r].pos = 0]
      BY <3>3 DEF Working, TypeOK, HandlerType
    <3>4. CASE h' = [h EXCEPT ![r].pos = @ + 1] /\ h[r].pc = "rows"
      BY <3>4 DEF Working, TypeOK, HandlerType
    <3> QED
      BY <1>2, <3>1, <3>2, <3>3, <3>4 DEF ExecuteQuery, Header, Fetch, AfterReading
  <2> QED
    BY <2>1, <2>2
<1>3. CASE ExecuteUpdate(r)
  BY <1>3, Moved DEF ExecuteUpdate, Working
<1>4. CASE CleanExec(r)
  BY <1>4, Moved DEF CleanExec, ClearCurrent
<1>5. CASE CleanQuery(r)
  BY <1>5 DEF CleanQuery, ClearCurrent, TypeOK, HandlerType
<1>6. CASE \/ Connect(r) \/ Close(r) \/ Begin(r) \/ EndTx(r) \/ Restore(r) \/ Answer(r)
           \/ Escape(r)
  <2>1. /\ UNCHANGED current /\ h[r].pc \in {"start", "restore", "answer"}
        /\ \E pc \in {"answer", "restore", "done", "lost"} : GoTo(r, pc) \/ Fail(r, pc)
    BY <1>6 DEF Connect, Close, Begin, EndTx, Restore, Answer, Escape
  <2>2. h'[r].pc \in {"answer", "restore", "done", "lost"}
    BY <2>1, Moved
  <2> QED
    BY <2>1, <2>2 DEF Working
<1> QED
  BY <1>1, <1>2, <1>3, <1>4, <1>5, <1>6 DEF Handler

LEMMA HandlerCurrent ==
  ASSUME TypeOK, AnswerInv, TurnInv, CurrentInv, NEW r \in Reqs, Handler(r) \/ Escape(r)
  PROVE  CurrentInv'
<1>1. /\ Active(r) /\ UNCHANGED <<op, cancel, left>>
      /\ \A q \in Reqs : q # r => h'[q] = h[q]
  BY HandlerFrame
<1>m. \/ current' = NoStmt /\ h'[r].pc \notin {"ready", "meta", "rows"}
      \/ current' = St(r) /\ h'[r].pc = "ready" /\ h'[r].try = h[r].try
      \/ /\ current' = current
         /\ Working(r) => Working(r)' /\ h'[r].try = h[r].try
         /\ h'[r].pc \in {"ready", "meta", "rows"} => h[r].pc \in {"ready", "meta", "rows"}
  BY CurrentMoves
<1>2. current' # NoStmt => \E q \in Reqs : current' = St(q)' /\ Working(q)'
  <2>1. CASE current' = St(r) /\ h'[r].pc = "ready" /\ h'[r].try = h[r].try
    BY <2>1 DEF St, Working
  <2>2. CASE /\ current' = current /\ current # NoStmt
             /\ Working(r) => Working(r)' /\ h'[r].try = h[r].try
    <3>1. PICK q \in Reqs : current = St(q) /\ Working(q)
      BY <2>2 DEF CurrentInv
    <3>2. CASE q = r
      BY <2>2, <3>1, <3>2 DEF St
    <3>3. CASE q # r
      BY <1>1, <2>2, <3>1, <3>3 DEF St, Working
    <3> QED
      BY <3>2, <3>3
  <2> QED
    BY <1>m, <2>1, <2>2
<1>3. CancelFinds'
  <2>0. UNCHANGED next
    BY HandlerFrame
  <2> SUFFICES ASSUME NEW q \in Reqs, q = next - 1, h'[q].pc \in {"ready", "meta", "rows"},
                      \A p \in 1..(q - 1) : ~GivenUp(p)
               PROVE  current' = St(q)'
    BY <1>1, <2>0 DEF CancelFinds, GivenUp
  <2>1. CASE q = r
    <3>1. CASE current' = St(r) /\ h'[r].try = h[r].try
      BY <2>1, <3>1 DEF St
    <3>2. CASE /\ current' = current /\ h[r].pc \in {"ready", "meta", "rows"}
               /\ Working(r) => Working(r)' /\ h'[r].try = h[r].try
      <4>1. current = St(r)
        BY <2>1, <3>2 DEF CurrentInv, CancelFinds
      <4> QED
        BY <2>1, <3>2, <4>1 DEF St, Working
    <3> QED
      BY <1>m, <2>1, <3>1, <3>2
  <2>2. CASE q # r
    <3>1. Active(q) /\ op[q] # "NONE" /\ op[r] # "NONE"
      BY <1>1, <2>2 DEF Active, AnswerInv, Placed
    <3>2. q \in Nat /\ r \in Nat /\ r >= 1 /\ r < q
      BY <2>2, <3>1, SentBefore DEF Reqs
    <3>3. GivenUp(r)
      BY <1>1, <3>1, <3>2, TurnOrder
    <3> QED
      BY <3>2, <3>3
  <2> QED
    BY <2>1, <2>2
<1> QED
  BY <1>2, <1>3 DEF CurrentInv

LEMMA CurrentStep ==
  ASSUME TypeOK, AnswerInv, TurnInv, CurrentInv, [Next]_vars PROVE CurrentInv'
<1>1. ASSUME NEW o \in Ops, Send(o) PROVE CurrentInv'
  <2>1. PICK r \in Reqs :
           /\ h[r] = NoHandler /\ h'[r].pc = "start" /\ UNCHANGED current
           /\ next' = r + 1
           /\ \A q \in Reqs : q # r => h'[q] = h[q]
    BY <1>1, SentIsNew
  <2>3. ~Working(r)
    BY <2>1 DEF NoHandler, Working
  <2>4. current' # NoStmt => \E q \in Reqs : current' = St(q)' /\ Working(q)'
    BY <2>1, <2>3 DEF CurrentInv, St, Working
  <2>5. CancelFinds'
    BY <2>1 DEF CancelFinds, Reqs
  <2> QED
    BY <2>4, <2>5 DEF CurrentInv
<1>2. ASSUME UNCHANGED <<next, h, current>>, \A q \in Reqs : GivenUp(q) => GivenUp(q)'
      PROVE  CurrentInv'
  <2>1. \A q \in Reqs : q \in Nat /\ \A p \in 1..(q - 1) : p \in Reqs
    BY SidecarAssumption DEF Reqs
  <2> QED
    BY <1>2, <2>1 DEF CurrentInv, CancelFinds, St, Working
<1>3. CASE Receive \/ ReadEnd \/ CloseRows \/ Finished \/ UNCHANGED vars
  <2>1. UNCHANGED <<next, h, current, cancel>> /\ left \subseteq left'
    BY <1>3 DEF Receive, ReadEnd, CloseRows, Finished, vars, progVars, sessionVars
  <2> QED
    BY <1>2, <2>1 DEF GivenUp
<1>4. CASE Cancelled
  <2>1. app \in Reqs /\ UNCHANGED <<next, h, current, left>> /\ cancel' = [cancel EXCEPT ![app].st = "sent"]
    BY <1>4, SidecarAssumption DEF Cancelled, TypeOK, Reqs, sessionVars
  <2>2. cancel'[app].st = "sent" /\ \A q \in Reqs : q # app => cancel'[q] = cancel[q]
    BY <2>1 DEF TypeOK, CancelType
  <2> QED
    BY <1>2, <2>1, <2>2 DEF GivenUp
<1>5. ASSUME NEW r \in Reqs, Handler(r) \/ Escape(r) PROVE CurrentInv'
  BY <1>5, HandlerCurrent
<1>6. ASSUME NEW r \in Reqs, Aim(r) \/ Fire(r) PROVE CurrentInv'
  <2>1. /\ cancel'[r].st # "none" /\ UNCHANGED <<next, h, current, left>>
        /\ \A q \in Reqs : q # r => cancel'[q] = cancel[q]
    BY <1>6 DEF Aim, Fire, progVars, sessionVars, TypeOK
  <2> QED
    BY <1>2, <2>1 DEF GivenUp
<1> QED
  BY <1>1, <1>3, <1>4, <1>5, <1>6 DEF Next

LEMMA CurrentHolds ==
  Spec => [](TypeOK /\ AnswerInv /\ CallsInv /\ TurnInv /\ CurrentInv)
<1>1. TypeOK /\ AnswerInv /\ TurnInv /\ CurrentInv /\ [Next]_vars => CurrentInv'
  BY CurrentStep
<1> QED
  BY <1>1, CurrentInit, TurnsHold, PTL DEF Spec

\* Contexts may be cancelled and results left: a CANCEL aims at nothing, or at a
\* statement that is worked on, of its own call, a later one or one that was
\* given up, too: never at one that a finally clause has done with.
THEOREM CancelAimsWell == Spec => []CancelAims
<1>1. TypeOK /\ AnswerInv /\ CallsInv /\ TurnInv /\ CurrentInv => CancelAims
  <2> SUFFICES ASSUME TypeOK, AnswerInv, CallsInv, TurnInv, CurrentInv,
                      NEW q \in Reqs, cancel[q].st = "sent", current # NoStmt
               PROVE  \E r \in Reqs : current = St(r) /\ Working(r) /\ (r < q => GivenUp(r))
    BY DEF CancelAims
  <2>1. PICK r \in Reqs : current = St(r) /\ Working(r)
    BY DEF CurrentInv
  <2>2. op[q] # "NONE"
    BY DEF CallsInv, CallsAlone
  <2>3. r < q => GivenUp(r)
    BY <2>1, <2>2, TurnOrder DEF Working, Active
  <2> QED
    BY <2>1, <2>3
<1> QED
  BY <1>1, CurrentHolds, PTL

\* ... and the first one finds the statement of its call, executed or read, until
\* the program sends the next request.
THEOREM CancelFindsFirst == Spec => []CancelFinds
<1>1. CurrentInv => CancelFinds
  BY DEF CurrentInv
<1> QED
  BY <1>1, CurrentHolds, PTL

-----------------------------------------------------------------------------
(* Transactions *)

EndOps == {"COMMIT", "ROLLBACK"}
TxOps  == EndOps \cup {"BEGIN"}

\* Nothing the driver ignores has gone wrong: no BEGIN, COMMIT or ROLLBACK
\* failed, answered or not.
TxSound == \A r \in Reqs : op[r] \in TxOps => ~h[r].failed

\* Autocommit is off in a transaction, and while one begins or ends.
AutoFollows ==
    /\ app = 0 \/ op[app] \notin TxOps => auto = ~tx.active
    /\ Doing("BEGIN") => ~tx.active /\ (auto <=> h[app].pc \in {"start", "lost"})
    /\ app # 0 /\ op[app] \in EndOps => tx.active /\ (auto <=> h[app].pc \in {"answer", "done"})

\* The transaction was ended in the database, and the program will learn it.
Ending == app # 0 /\ op[app] \in EndOps /\ h[app].pc \in {"restore", "answer", "done"}

Kept(q) == cancel[q].st = "none"     \* its context was not cancelled

\* What is pending and was not abandoned belongs to the program's transaction;
\* when that has ended, nothing is, and what it did has the outcome asked for.
MineOpen(q) ==
    /\ ~Ending => work[q] \in {"none", "pending"}
    /\ Ending => h[q].pc = "done"
    /\ Ending /\ op[app] = "ROLLBACK" => work[q] # "durable"
    /\ Ending /\ op[app] = "COMMIT" => work[q] # "undone"

TransactionOpen ==
    /\ \A q \in Reqs : Kept(q) /\ work[q] = "pending" => tx.active /\ q \in tx.mine /\ ~Ending
    /\ tx.active => \A q \in tx.mine : Kept(q) => MineOpen(q)
    /\ Doing("CLOSE") => ~tx.active
    /\ Doing("EXEC") /\ tx.active => app \in tx.mine

\* An EXEC has its effect when it is executed, once, and if it did not fail.
EffectOf(q) ==
    /\ work[q] # "none" => op[q] = "EXEC" /\ h[q].pc \notin {"start", "ready"}
    /\ op[q] = "EXEC" /\ h[q].pc \in {"clean", "answer", "done"} /\ ~h[q].failed
       => work[q] # "none"

\* What the program was told of it ...
Seen(q) == op[q] = "EXEC" /\ work[q] # "none" /\ Kept(q) /\ q # app

EffectsInv ==
    /\ \A q \in Reqs : EffectOf(q)
    /\ \A q \in tx.seen : Seen(q)
    /\ \A q \in tx.mine : op[q] = "EXEC"

\* ... is so and stays so.
Told ==
    /\ \A q \in tx.undone : Kept(q) => h[q].pc = "done" /\ work[q] \in {"none", "undone"}
    /\ \A q \in tx.kept : work[q] = "durable"

WorkInv ==
    /\ EffectsInv
    /\ NoTxRefused => Told
    /\ TxSound => AutoFollows /\ TransactionOpen

LEMMA WorkInit == Init => WorkInv
<1> SUFFICES ASSUME Init PROVE WorkInv
  OBVIOUS
<1>1. AutoFollows
  BY DEF Init, NoTx, AutoFollows, Doing
<1>2. TransactionOpen /\ Told
  BY DEF Init, NoTx, TransactionOpen, Told, Doing
<1>3. EffectsInv
  BY DEF Init, NoTx, EffectsInv, EffectOf
<1> QED
  BY <1>1, <1>2, <1>3 DEF WorkInv

\* The fields of the program's transaction.
LEMMA TxFields ==
  ASSUME TypeOK
  PROVE  /\ tx.active \in BOOLEAN /\ tx.mine \subseteq Reqs /\ tx.seen \subseteq Reqs
         /\ tx.undone \subseteq Reqs /\ tx.kept \subseteq Reqs
  BY DEF TypeOK, TxType

\* When no call is under way, or the one that is was answered, what was not
\* refused did not fail.
LEMMA RefusedIfFailed ==
  ASSUME TypeOK, AnswerInv, CallsInv, NoTxRefused, app = 0 \/ log[app] # <<>>
  PROVE  TxSound
<1> SUFFICES ASSUME NEW r \in Reqs, op[r] \in TxOps PROVE ~h[r].failed
  BY DEF TxSound
<1>1. /\ op[r] # "QUERY" /\ op[r] # "EXEC" /\ op[r] # "NONE"
      /\ op[r] \in {"BEGIN", "COMMIT", "ROLLBACK"} /\ r # 0
  BY DEF TxOps, EndOps, Reqs
<1>2. log[r] # <<>>
  <2>1. CASE Active(r)
    BY <1>1, <2>1 DEF CallsInv, CallsAlone
  <2>2. CASE ~Active(r)
    <3>1. h[r].pc = "done"
      BY <1>1, <2>2 DEF Active, AnswerInv, Placed
    <3> QED
      BY <1>1, <3>1 DEF CallsInv, Verdicts
  <2> QED
    BY <2>1, <2>2
<1>3. log[r][1].ok /\ log[r][1].ok = ~h[r].failed
  BY <1>1, <1>2 DEF NoTxRefused, CallsInv, Verdicts
<1> QED
  BY <1>3

\* A call of the transaction runs while the program waits for it.
LEMMA CallRuns ==
  ASSUME TypeOK, CallsInv, NEW r \in Reqs, Active(r), op[r] \notin {"QUERY", "EXEC"}
  PROVE  r = app /\ app # 0
  BY DEF CallsInv, CallsAlone, Reqs

\* What was refused or failed stays so.
LEMMA SoundBefore ==
  ASSUME TypeOK, AnswerInv, [Next]_vars PROVE TxSound' => TxSound
<1> SUFFICES ASSUME TxSound', NEW r \in Reqs, op[r] \in TxOps PROVE ~h[r].failed
  BY DEF TxSound
<1>0. op[r] # "QUERY" /\ op[r] # "NONE"
  BY DEF TxOps, EndOps
<1>1. CASE UNCHANGED <<op, h>>
  BY <1>1 DEF TxSound
<1>2. ASSUME NEW o \in Ops, Send(o) PROVE ~h[r].failed
  BY <1>0, <1>2, SentIsNew DEF TxSound
<1>3. ASSUME NEW q \in Reqs, Handler(q) \/ Escape(q) PROVE ~h[r].failed
  <2>1. op' = op /\ \A p \in Reqs : p # q => h'[p] = h[p]
    BY <1>3, HandlerFrame
  <2>2. CASE r # q
    BY <2>1, <2>2 DEF TxSound
  <2>3. CASE r = q
    <3>1. /\ ~Prepare(r) /\ ~ExecuteQuery(r) /\ ~Header(r) /\ ~Fetch(r) /\ ~CleanQuery(r)
          /\ ~ExecuteUpdate(r) /\ ~CleanExec(r) /\ ~Connect(r) /\ ~Close(r)
      BY DEF Prepare, ExecuteQuery, Header, Fetch, CleanQuery, ExecuteUpdate, CleanExec,
             Connect, Close, At, TxOps, EndOps
    <3>2. Begin(r) \/ EndTx(r) \/ Restore(r) \/ Answer(r) \/ Escape(r)
      BY <1>3, <2>3, <3>1 DEF Handler
    <3>3. \E pc \in {"answer", "restore", "done", "lost"} : GoTo(r, pc) \/ Fail(r, pc)
      BY <3>2 DEF Begin, EndTx, Restore, Answer, Escape
    <3>4. ~h'[r].failed
      BY <2>1 DEF TxSound
    <3> QED
      BY <3>3, <3>4, Moved
  <2> QED
    BY <2>2, <2>3
<1>4. CASE Receive \/ Cancelled \/ ReadEnd \/ CloseRows \/ Finished \/ UNCHANGED vars
  BY <1>1, <1>4 DEF Receive, Cancelled, ReadEnd, CloseRows, Finished, vars
<1>5. ASSUME NEW q \in Reqs, Aim(q) \/ Fire(q) PROVE ~h[r].failed
  BY <1>1, <1>5 DEF Aim, Fire
<1> QED
  BY <1>2, <1>3, <1>4, <1>5 DEF Next

LEMMA UnrefusedBefore ==
  ASSUME TypeOK, AnswerInv, [Next]_vars PROVE NoTxRefused' => NoTxRefused
<1> SUFFICES ASSUME NoTxRefused', NEW r \in Reqs, op[r] \in {"BEGIN", "COMMIT", "ROLLBACK"},
                    log[r] # <<>>
             PROVE  log[r][1].ok
  BY DEF NoTxRefused
<1>1. CASE UNCHANGED <<op, log>>
  BY <1>1 DEF NoTxRefused
<1>2. ASSUME NEW o \in Ops, Send(o) PROVE log[r][1].ok
  BY <1>2, SentIsNew DEF NoTxRefused
<1>3. ASSUME NEW q \in Reqs, Handler(q) \/ Escape(q) PROVE log[r][1].ok
  <2>1. Active(q) /\ op' = op /\ \A p \in Reqs : p # q => log'[p] = log[p]
    BY <1>3, HandlerFrame
  <2>2. r # q
    BY <2>1, AnsweredIsOver
  <2> QED
    BY <2>1, <2>2 DEF NoTxRefused
<1>4. CASE Receive \/ Cancelled \/ ReadEnd \/ CloseRows \/ Finished \/ UNCHANGED vars
  BY <1>1, <1>4 DEF Receive, Cancelled, ReadEnd, CloseRows, Finished, vars
<1>5. ASSUME NEW q \in Reqs, Aim(q) \/ Fire(q) PROVE log[r][1].ok
  BY <1>1, <1>5 DEF Aim, Fire
<1> QED
  BY <1>2, <1>3, <1>4, <1>5 DEF Next

\* What the program was told when a call returns.
LEMMA ReceivedTx ==
  ASSUME TypeOK, AnswerInv, CallsInv, Receive
  PROVE  /\ app \in Reqs /\ app # 0 /\ app' = 0 /\ log[app] # <<>>
         /\ UNCHANGED <<op, h, log, cancel, work, auto>>
         /\ op[app] # "QUERY" => h[app].pc = "done" /\ log[app][1].ok = ~h[app].failed
         /\ op[app] = "BEGIN" =>
              /\ tx'.active = TRUE /\ tx'.mine = {} /\ tx'.seen = tx.seen
              /\ tx'.kept = tx.kept /\ tx'.undone = tx.undone
         /\ op[app] = "COMMIT" =>
              /\ tx'.active = FALSE /\ tx'.mine = tx.mine /\ tx'.seen = tx.seen
              /\ tx'.kept = tx.kept \cup (tx.mine \cap tx.seen) /\ tx'.undone = tx.undone
         /\ op[app] = "ROLLBACK" =>
              /\ tx'.active = FALSE /\ tx'.mine = tx.mine /\ tx'.seen = tx.seen
              /\ tx'.kept = tx.kept /\ tx'.undone = tx.undone \cup tx.mine
         /\ op[app] \notin TxOps =>
              /\ tx'.active = tx.active /\ tx'.mine = tx.mine
              /\ \/ tx'.seen = tx.seen
                 \/ op[app] = "EXEC" /\ log[app][1].ok /\ tx'.seen = tx.seen \cup {app}
              /\ tx'.kept = tx.kept /\ tx'.undone = tx.undone
<1> USE DEF TxOps
<1>1. /\ app \in Reqs /\ app # 0 /\ app' = 0 /\ log[app] # <<>>
      /\ UNCHANGED <<op, h, log, cancel, work, auto>>
  BY SidecarAssumption DEF Receive, TypeOK, Reqs, dbVars
<1>2. op[app] # "QUERY" => h[app].pc = "done" /\ log[app][1].ok = ~h[app].failed
  <2>1. log[app] # <<>> /\ Placed(app) /\ Verdicts
    BY <1>1 DEF Receive, AnswerInv, CallsInv
  <2>2. op[app] # "QUERY" => ~Active(app)
    BY <1>1, <2>1, AnsweredIsOver
  <2> QED
    BY <1>1, <2>1, <2>2 DEF Active, Placed, Verdicts
<1>t. tx \in TxType
  BY DEF TypeOK
<1>3. CASE op[app] = "BEGIN"
  <2>1. tx' = [tx EXCEPT !.active = TRUE, !.mine = {}]
    BY <1>3 DEF Receive
  <2> QED
    BY <1>1, <1>2, <1>3, <1>t, <2>1 DEF TxType, EndOps
<1>4. CASE op[app] = "COMMIT"
  <2>1. tx' = [tx EXCEPT !.active = FALSE, !.kept = tx.kept \cup (tx.mine \cap tx.seen)]
    BY <1>4 DEF Receive
  <2> QED
    BY <1>1, <1>2, <1>4, <1>t, <2>1 DEF TxType, EndOps
<1>5. CASE op[app] = "ROLLBACK"
  <2>1. tx' = [tx EXCEPT !.active = FALSE, !.undone = tx.undone \cup tx.mine]
    BY <1>5 DEF Receive
  <2> QED
    BY <1>1, <1>2, <1>5, <1>t, <2>1 DEF TxType, EndOps
<1>6. CASE op[app] \notin EndOps \cup {"BEGIN"}
  <2>1. tx' = tx \/ (/\ op[app] = "EXEC" /\ log[app][1].ok
                     /\ tx' = [tx EXCEPT !.seen = tx.seen \cup {app}])
    BY <1>6 DEF Receive, EndOps
  <2> QED
    BY <1>1, <1>2, <1>6, <1>t, <2>1 DEF TxType, EndOps
<1> QED
  BY <1>3, <1>4, <1>5, <1>6 DEF EndOps

\* What happens to the transaction when a request is sent.
LEMMA SentTx ==
  ASSUME TypeOK, NEW o \in Ops, Send(o)
  PROVE  /\ tx'.active = tx.active /\ tx'.seen = tx.seen /\ tx'.kept = tx.kept
         /\ tx'.undone = tx.undone
         /\ tx'.mine = IF o = "EXEC" /\ tx.active THEN tx.mine \cup {next} ELSE tx.mine
         /\ o = "BEGIN" \/ o = "CLOSE" => ~tx.active
         /\ o \in EndOps => tx.active
<1>1. tx \in TxType
  BY DEF TypeOK
<1>2. tx' = IF o = "EXEC" /\ tx.active THEN [tx EXCEPT !.mine = tx.mine \cup {next}] ELSE tx
  BY DEF Send
<1>3. /\ o = "BEGIN" \/ o = "CLOSE" => ~tx.active
      /\ o \in EndOps => tx.active
  BY DEF Send, MaySend, EndOps
<1> QED
  BY <1>1, <1>2, <1>3 DEF TxType

\* A context is cancelled during an EXEC or a QUERY.
LEMMA CancelledCall ==
  ASSUME TypeOK, Cancelled
  PROVE  /\ app \in Reqs /\ app # 0 /\ app' = 0 /\ op[app] \in {"EXEC", "QUERY"}
         /\ UNCHANGED <<tx, op, h, log, auto, work>>
         /\ cancel'[app].st # "none" /\ \A q \in Reqs : q # app => cancel'[q] = cancel[q]
<1>1. /\ app \in Reqs /\ app # 0 /\ app' = 0 /\ op[app] \in {"EXEC", "QUERY"}
      /\ UNCHANGED <<tx, op, h, log, auto, work>>
      /\ cancel' = [cancel EXCEPT ![app].st = "sent"]
  BY SidecarAssumption DEF Cancelled, TypeOK, Reqs, dbVars
<1> QED
  BY <1>1 DEF TypeOK, CancelType

\* ... and the goroutine that sends the CANCEL changes nothing else.
LEMMA CancelsOnly ==
  ASSUME TypeOK, NEW r \in Reqs, Aim(r) \/ Fire(r)
  PROVE  /\ UNCHANGED <<app, tx, op, h, log, auto, work>>
         /\ cancel[r].st # "none" /\ cancel'[r].st # "none"
         /\ \A q \in Reqs : q # r => cancel'[q] = cancel[q]
<1>1. cancel[r].st # "none" /\ UNCHANGED <<app, tx, op, h, log, auto, work>>
  BY DEF Aim, Fire, progVars, dbVars
<1>2. cancel'[r].st # "none" /\ \A q \in Reqs : q # r => cancel'[q] = cancel[q]
  BY DEF Aim, Fire, TypeOK
<1> QED
  BY <1>1, <1>2

-----------------------------------------------------------------------------
(* Effects *)

\* How the handler of an EXEC goes on.
LEMMA ExecMoves ==
  ASSUME TypeOK, AnswerInv, NEW r \in Reqs, Handler(r) \/ Escape(r), op[r] = "EXEC"
  PROVE  \/ /\ h[r].pc = "start" /\ work' = work
            /\ h'[r].pc \in {"ready", "lost"} \/ (h'[r].pc = "answer" /\ h'[r].failed)
         \/ /\ h[r].pc = "ready" /\ h'[r].pc = "clean"
            /\ work' = [work EXCEPT ![r] = IF auto THEN "durable" ELSE "pending"]
         \/ h[r].pc = "ready" /\ h'[r].pc = "clean" /\ h'[r].failed /\ work' = work
         \/ /\ h[r].pc \in {"clean", "answer"} /\ h'[r].pc \in {"answer", "done"} /\ work' = work
            /\ h'[r].failed = h[r].failed \/ h'[r].failed
<1>1. Prepare(r) \/ ExecuteUpdate(r) \/ CleanExec(r) \/ Answer(r) \/ Escape(r)
  <2>1. /\ ~ExecuteQuery(r) /\ ~Header(r) /\ ~Fetch(r) /\ ~CleanQuery(r) /\ ~Connect(r)
        /\ ~Close(r) /\ ~Begin(r) /\ ~EndTx(r)
    BY DEF ExecuteQuery, Header, Fetch, CleanQuery, Connect, Close, Begin, EndTx, At
  <2>2. ~Restore(r)
    BY DEF AnswerInv, Placed, Restore
  <2> QED
    BY <2>1, <2>2 DEF Handler
<1>2. CASE Prepare(r) \/ Escape(r)
  <2>1. GoTo(r, "ready") \/ Fail(r, "answer") \/ GoTo(r, "lost")
    BY <1>2 DEF Prepare, Escape
  <2>2. h[r].pc = "start" /\ work' = work
    BY <1>2 DEF Prepare, Escape, dbVars
  <2> QED
    BY <2>1, <2>2, Moved
<1>3. CASE ExecuteUpdate(r)
  <2>1. h[r].pc = "ready"
    BY <1>3 DEF ExecuteUpdate, At
  <2>2. CASE GoTo(r, "clean") /\ work' = [work EXCEPT ![r] = IF auto THEN "durable" ELSE "pending"]
    BY <2>1, <2>2, Moved
  <2>3. CASE Fail(r, "clean") /\ work' = work
    BY <2>1, <2>3, Moved
  <2> QED
    BY <1>3, <2>2, <2>3 DEF ExecuteUpdate
<1>4. CASE CleanExec(r) \/ Answer(r)
  <2>1. h[r].pc \in {"clean", "answer"} /\ work' = work
    BY <1>4 DEF CleanExec, Answer, At, dbVars
  <2>2. GoTo(r, "answer") \/ Fail(r, "answer") \/ GoTo(r, "done")
    BY <1>4 DEF CleanExec, Answer
  <2> QED
    BY <2>1, <2>2, Moved
<1> QED
  BY <1>1, <1>2, <1>3, <1>4

\* What a step of a handler does in the database: it settles what is pending, or
\* executes its own statement for the first time.
LEMMA WorkMoves ==
  ASSUME TypeOK, AnswerInv, EffectsInv, NEW r \in Reqs, Handler(r) \/ Escape(r), NEW q \in Reqs
  PROVE  \/ work'[q] = work[q]
         \/ work[q] = "pending" /\ work'[q] \in {"durable", "undone"}
         \/ /\ q = r /\ op[r] = "EXEC" /\ h'[r].pc = "clean" /\ work[r] = "none"
            /\ work'[r] \in {"durable", "pending"}
<1>1. CASE op[r] = "EXEC"
  <2>1. CASE work' = work
    BY <2>1
  <2>2. CASE /\ h[r].pc = "ready" /\ h'[r].pc = "clean"
             /\ work' = [work EXCEPT ![r] = IF auto THEN "durable" ELSE "pending"]
    <3>1. work[r] = "none"
      BY <2>2 DEF EffectsInv, EffectOf
    <3>2. work'[r] \in {"durable", "pending"} /\ (q # r => work'[q] = work[q])
      BY <2>2 DEF TypeOK
    <3> QED
      BY <1>1, <2>2, <3>1, <3>2
  <2> QED
    BY <1>1, <2>1, <2>2, ExecMoves
<1>2. CASE op[r] # "EXEC"
  <2>1. work' = work \/ \E fate \in {"durable", "undone"} : Settle(fate)
    BY <1>2 DEF Handler, Prepare, ExecuteQuery, Header, Fetch, CleanQuery, ExecuteUpdate,
         CleanExec, Connect, Close, Begin, EndTx, Restore, Answer, Escape, Outcome, At, dbVars
  <2> QED
    BY <2>1 DEF Settle
<1> QED
  BY <1>1, <1>2

LEMMA HandlerEffects ==
  ASSUME TypeOK, AnswerInv, EffectsInv, NEW r \in Reqs, Handler(r) \/ Escape(r)
  PROVE  EffectsInv'
<1>1. /\ UNCHANGED <<app, tx, op, cancel>>
      /\ \A q \in Reqs : q # r => h'[q] = h[q]
  BY HandlerFrame
<1>2. \A q \in Reqs : work'[q] # "none" <=> work[q] # "none" \/ (q = r /\ work'[r] # work[r])
  BY WorkMoves
<1>3. ASSUME NEW q \in Reqs PROVE EffectOf(q)'
  <2>0. EffectOf(q)
    BY DEF EffectsInv
  <2>1. CASE q # r
    BY <1>1, <1>2, <2>0, <2>1 DEF EffectOf
  <2>2. CASE q = r /\ op[r] # "EXEC"
    BY <1>1, <2>0, <2>2, WorkMoves DEF EffectOf
  <2>3. CASE q = r /\ op[r] = "EXEC"
    <3>1. CASE /\ h[r].pc = "ready" /\ h'[r].pc = "clean"
               /\ work' = [work EXCEPT ![r] = IF auto THEN "durable" ELSE "pending"]
      <4>1. work'[r] # "none"
        BY <3>1 DEF TypeOK
      <4> QED
        BY <1>1, <2>3, <3>1, <4>1 DEF EffectOf
    <3>2. CASE /\ h[r].pc = "start" /\ work' = work
               /\ h'[r].pc \in {"ready", "lost"} \/ (h'[r].pc = "answer" /\ h'[r].failed)
      BY <1>1, <2>0, <2>3, <3>2 DEF EffectOf
    <3>3. CASE h[r].pc = "ready" /\ h'[r].pc = "clean" /\ h'[r].failed /\ work' = work
      BY <1>1, <2>0, <2>3, <3>3 DEF EffectOf
    <3>4. CASE /\ h[r].pc \in {"clean", "answer"} /\ h'[r].pc \in {"answer", "done"}
               /\ work' = work
               /\ h'[r].failed = h[r].failed \/ h'[r].failed
      BY <1>1, <2>0, <2>3, <3>4 DEF EffectOf
    <3> QED
      BY <2>3, <3>1, <3>2, <3>3, <3>4, ExecMoves
  <2> QED
    BY <2>1, <2>2, <2>3
<1>4. ASSUME NEW q \in tx.seen PROVE Seen(q)'
  BY <1>1, <1>2, <1>4, TxFields DEF EffectsInv, Seen, Kept
<1> QED
  BY <1>1, <1>3, <1>4 DEF EffectsInv

LEMMA EffectsStep ==
  ASSUME TypeOK, AnswerInv, CallsInv, EffectsInv, [Next]_vars PROVE EffectsInv'
<1>0. \A q \in Reqs : q # 0
  BY DEF Reqs
<1>1. ASSUME NEW o \in Ops, Send(o) PROVE EffectsInv'
  <2>1. PICK r \in Reqs :
           /\ r = next /\ op[r] = "NONE" /\ h[r] = NoHandler /\ app = 0 /\ app' = r
           /\ op'[r] = o /\ h'[r].pc = "start" /\ UNCHANGED <<work, cancel>>
           /\ \A q \in Reqs : q # r => h'[q] = h[q] /\ op'[q] = op[q]
    BY <1>1, SentIsNew
  <2>2. /\ tx'.seen = tx.seen
        /\ tx'.mine = IF o = "EXEC" /\ tx.active THEN tx.mine \cup {r} ELSE tx.mine
    BY <1>1, <2>1, SentTx
  <2>3. work[r] = "none" /\ r \notin tx.seen /\ r \notin tx.mine
    BY <2>1 DEF EffectsInv, EffectOf, Seen
  <2>4. ASSUME NEW q \in Reqs PROVE EffectOf(q)'
    BY <2>1, <2>3 DEF EffectsInv, EffectOf
  <2>5. ASSUME NEW q \in tx.seen PROVE Seen(q)'
    BY <2>1, <2>3, TxFields DEF EffectsInv, Seen, Kept
  <2>6. ASSUME NEW q \in tx'.mine PROVE op'[q] = "EXEC"
    BY <2>1, <2>2, <2>3, TxFields DEF EffectsInv
  <2> QED
    BY <2>2, <2>4, <2>5, <2>6 DEF EffectsInv
<1>2. CASE Receive
  <2>1. /\ app \in Reqs /\ app # 0 /\ app' = 0 /\ UNCHANGED <<op, h, work, cancel>>
        /\ op[app] = "EXEC" => h[app].pc = "done" /\ log[app][1].ok = ~h[app].failed
        /\ cancel[app].st = "none"
    BY <1>2, ReceivedTx DEF CallsInv, CallsAlone
  <2>2. /\ tx'.mine = {} \/ tx'.mine = tx.mine
        /\ \/ tx'.seen = tx.seen
           \/ op[app] = "EXEC" /\ log[app][1].ok /\ tx'.seen = tx.seen \cup {app}
    <3>1. ASSUME op[app] \in TxOps
          PROVE  (tx'.mine = {} \/ tx'.mine = tx.mine) /\ tx'.seen = tx.seen
      BY <1>2, <3>1, ReceivedTx DEF TxOps, EndOps
    <3>2. ASSUME op[app] \notin TxOps
          PROVE  /\ tx'.mine = tx.mine
                 /\ \/ tx'.seen = tx.seen
                    \/ op[app] = "EXEC" /\ log[app][1].ok /\ tx'.seen = tx.seen \cup {app}
      BY <1>2, <3>2, ReceivedTx
    <3> QED
      BY <3>1, <3>2
  <2>3. op[app] = "EXEC" /\ log[app][1].ok => work[app] # "none"
    BY <2>1 DEF EffectsInv, EffectOf
  <2>4. \A q \in tx'.seen : Seen(q)'
    BY <1>0, <2>1, <2>2, <2>3, TxFields DEF EffectsInv, Seen, Kept
  <2> QED
    BY <2>1, <2>2, <2>4 DEF EffectsInv, EffectOf
<1>3. CASE Cancelled
  <2>1. /\ app' = 0 /\ UNCHANGED <<tx, op, h, work>>
        /\ \A q \in Reqs : q # app => cancel'[q] = cancel[q]
    BY <1>3, CancelledCall
  <2>2. \A q \in tx.seen : Seen(q)'
    BY <1>0, <2>1, TxFields DEF EffectsInv, Seen, Kept
  <2> QED
    BY <2>1, <2>2 DEF EffectsInv, EffectOf
<1>4. CASE ReadEnd \/ CloseRows \/ Finished \/ UNCHANGED vars
  <2>1. UNCHANGED <<app, tx, op, h, work, cancel>>
    BY <1>4 DEF ReadEnd, CloseRows, Finished, vars, progVars, dbVars
  <2> QED
    BY <2>1 DEF EffectsInv, EffectOf, Seen, Kept
<1>5. ASSUME NEW r \in Reqs, Handler(r) \/ Escape(r) PROVE EffectsInv'
  BY <1>5, HandlerEffects
<1>6. ASSUME NEW r \in Reqs, Aim(r) \/ Fire(r) PROVE EffectsInv'
  <2>1. \A q \in tx.seen : Seen(q)'
    BY <1>6, CancelsOnly, TxFields DEF EffectsInv, Seen, Kept
  <2> QED
    BY <1>6, <2>1, CancelsOnly DEF EffectsInv, EffectOf
<1> QED
  BY <1>1, <1>2, <1>3, <1>4, <1>5, <1>6 DEF Next

-----------------------------------------------------------------------------
(* What the program was told *)

LEMMA HandlerTold ==
  ASSUME TypeOK, AnswerInv, EffectsInv, Told, NEW r \in Reqs, Handler(r) \/ Escape(r)
  PROVE  Told'
<1>1. /\ Active(r) /\ UNCHANGED <<tx, cancel>>
      /\ \A q \in Reqs : q # r => h'[q] = h[q]
  BY HandlerFrame
<1>2. ASSUME NEW q \in tx.undone, Kept(q) PROVE h'[q].pc = "done" /\ work'[q] \in {"none", "undone"}
  <2>1. q \in Reqs /\ h[q].pc = "done" /\ work[q] \in {"none", "undone"}
    BY <1>2, TxFields DEF Told
  <2>2. q # r
    BY <1>1, <2>1 DEF Active
  <2> QED
    BY <1>1, <2>1, <2>2, WorkMoves
<1>3. ASSUME NEW q \in tx.kept PROVE work'[q] = "durable"
  <2>1. q \in Reqs /\ work[q] = "durable"
    BY <1>3, TxFields DEF Told
  <2> QED
    BY <2>1, WorkMoves
<1> QED
  BY <1>1, <1>2, <1>3 DEF Told, Kept

LEMMA ToldStep ==
  ASSUME TypeOK, AnswerInv, CallsInv, WorkInv, NoTxRefused, [Next]_vars PROVE Told'
<1>0. EffectsInv /\ Told
  BY DEF WorkInv
<1>1. ASSUME NEW o \in Ops, Send(o) PROVE Told'
  <2>1. PICK r \in Reqs :
           /\ h[r] = NoHandler /\ UNCHANGED <<work, cancel>>
           /\ \A q \in Reqs : q # r => h'[q] = h[q]
    BY <1>1, SentIsNew
  <2>2. tx'.kept = tx.kept /\ tx'.undone = tx.undone
    BY <1>1, SentTx
  <2>3. ASSUME NEW q \in tx.undone, Kept(q) PROVE h'[q].pc = "done"
    <3>1. q \in Reqs /\ h[q].pc = "done"
      BY <1>0, <2>3, TxFields DEF Told
    <3> QED
      BY <2>1, <3>1 DEF NoHandler
  <2> QED
    BY <1>0, <2>1, <2>2, <2>3 DEF Told, Kept
<1>2. CASE Receive
  <2>1. /\ app \in Reqs /\ app # 0 /\ UNCHANGED <<op, h, work, cancel>> /\ log[app] # <<>>
        /\ op[app] # "QUERY" => h[app].pc = "done"
    BY <1>2, ReceivedTx
  <2>2. AutoFollows /\ TransactionOpen
    BY <2>1, RefusedIfFailed DEF WorkInv
  <2>3. ASSUME op[app] \in EndOps
        PROVE  /\ Ending /\ tx.active
               /\ \A q \in tx.mine : Kept(q) => /\ MineOpen(q) /\ h[q].pc = "done"
                                                /\ work[q] \in {"none", "durable", "undone"}
    <3>1. Ending /\ tx.active
      BY <2>1, <2>2, <2>3 DEF Ending, AutoFollows, EndOps
    <3>2. ASSUME NEW q \in tx.mine, Kept(q)
          PROVE  MineOpen(q) /\ h[q].pc = "done" /\ work[q] # "pending"
      BY <2>2, <3>1, <3>2, TxFields DEF TransactionOpen, MineOpen
    <3>3. \A q \in tx.mine : work[q] \in {"none", "pending", "durable", "undone"}
      BY TxFields DEF TypeOK
    <3> QED
      BY <3>1, <3>2, <3>3
  <2>4. CASE op[app] = "COMMIT"
    <3>1. tx'.kept = tx.kept \cup (tx.mine \cap tx.seen) /\ tx'.undone = tx.undone
      BY <1>2, <2>4, ReceivedTx
    <3>2. ASSUME NEW q \in tx.mine \cap tx.seen PROVE work[q] = "durable"
      <4>1. Kept(q) /\ work[q] # "none"
        BY <1>0 DEF EffectsInv, Seen
      <4> QED
        BY <2>3, <2>4, <4>1 DEF EndOps, MineOpen
    <3> QED
      BY <1>0, <2>1, <3>1, <3>2 DEF Told, Kept
  <2>5. CASE op[app] = "ROLLBACK"
    <3>1. tx'.kept = tx.kept /\ tx'.undone = tx.undone \cup tx.mine
      BY <1>2, <2>5, ReceivedTx
    <3>2. ASSUME NEW q \in tx.mine, Kept(q)
          PROVE  h[q].pc = "done" /\ work[q] \in {"none", "undone"}
      BY <2>3, <2>5, <3>2 DEF EndOps, MineOpen
    <3> QED
      BY <1>0, <2>1, <3>1, <3>2 DEF Told, Kept
  <2>6. CASE op[app] \notin EndOps
    <3>1. tx'.kept = tx.kept /\ tx'.undone = tx.undone
      BY <1>2, <2>6, ReceivedTx DEF TxOps
    <3> QED
      BY <1>0, <2>1, <3>1 DEF Told, Kept
  <2> QED
    BY <2>4, <2>5, <2>6 DEF EndOps
<1>3. CASE Cancelled
  <2>1. \A q \in Reqs : Kept(q)' => Kept(q)
    BY <1>3, CancelledCall DEF Kept
  <2> QED
    BY <1>0, <1>3, <2>1, CancelledCall, TxFields DEF Told
<1>4. CASE ReadEnd \/ CloseRows \/ Finished \/ UNCHANGED vars
  <2>1. UNCHANGED <<tx, h, work, cancel>>
    BY <1>4 DEF ReadEnd, CloseRows, Finished, vars, progVars, dbVars
  <2> QED
    BY <1>0, <2>1 DEF Told, Kept
<1>5. ASSUME NEW r \in Reqs, Handler(r) \/ Escape(r) PROVE Told'
  BY <1>0, <1>5, HandlerTold
<1>6. ASSUME NEW r \in Reqs, Aim(r) \/ Fire(r) PROVE Told'
  <2>1. \A q \in Reqs : Kept(q)' => Kept(q)
    BY <1>6, CancelsOnly DEF Kept
  <2> QED
    BY <1>0, <1>6, <2>1, CancelsOnly, TxFields DEF Told
<1> QED
  BY <1>1, <1>2, <1>3, <1>4, <1>5, <1>6 DEF Next

-----------------------------------------------------------------------------
(* Autocommit *)

LEMMA AutoStep ==
  ASSUME TypeOK, AnswerInv, CallsInv, AutoFollows, TxSound', [Next]_vars PROVE AutoFollows'
<1> USE DEF Doing, TxOps
<1>1. ASSUME NEW o \in Ops, Send(o) PROVE AutoFollows'
  <2>1. PICK r \in Reqs :
           /\ r # 0 /\ app = 0 /\ app' = r /\ op'[r] = o /\ h'[r].pc = "start" /\ UNCHANGED auto
    BY <1>1, SentIsNew
  <2>2. auto = ~tx.active
    BY <2>1 DEF AutoFollows
  <2> QED
    BY <1>1, <2>1, <2>2, SentTx, TxFields DEF AutoFollows, EndOps
<1>2. CASE Receive
  <2>1. app # 0 /\ app' = 0 /\ auto' = auto
    BY <1>2, ReceivedTx
  <2>2. op[app] \in EndOps \cup {"BEGIN"} => h[app].pc = "done"
    BY <1>2, ReceivedTx DEF EndOps
  <2>3. CASE op[app] = "BEGIN"
    <3>1. tx'.active = TRUE
      BY <1>2, <2>3, ReceivedTx
    <3>2. auto = FALSE
      BY <2>1, <2>2, <2>3 DEF AutoFollows, TypeOK
    <3> QED
      BY <2>1, <3>1, <3>2 DEF AutoFollows
  <2>4. CASE op[app] \in EndOps
    <3>1. tx'.active = FALSE
      BY <1>2, <2>4, ReceivedTx DEF EndOps
    <3>2. auto = TRUE
      BY <2>1, <2>2, <2>4 DEF AutoFollows, TypeOK
    <3> QED
      BY <2>1, <3>1, <3>2 DEF AutoFollows
  <2>5. CASE op[app] \notin EndOps \cup {"BEGIN"}
    <3>1. tx'.active = tx.active
      BY <1>2, <2>5, ReceivedTx
    <3> QED
      BY <2>1, <2>5, <3>1 DEF AutoFollows
  <2> QED
    BY <2>3, <2>4, <2>5
<1>3. CASE Cancelled
  <2>1. op[app] \notin EndOps \cup {"BEGIN"} /\ app' = 0 /\ UNCHANGED <<tx, auto>>
    BY <1>3, CancelledCall DEF EndOps
  <2> QED
    BY <2>1 DEF AutoFollows
<1>4. CASE UNCHANGED <<app, tx, op, h, auto>>
  BY <1>4 DEF AutoFollows
<1>5. ASSUME NEW r \in Reqs, Handler(r) \/ Escape(r) PROVE AutoFollows'
  <2>1. /\ Active(r) /\ UNCHANGED <<app, tx, op>> /\ Placed(r) /\ r # 0
        /\ \A q \in Reqs : q # r => h'[q] = h[q]
    BY <1>5, HandlerFrame DEF AnswerInv, Reqs
  <2>2. op[r] \in TxOps => r = app /\ ~h'[r].failed
    BY <2>1, CallRuns DEF EndOps, TxSound
  <2>3. CASE op[r] \notin TxOps
    <3>1. ~Begin(r) /\ ~Restore(r) /\ ~EndTx(r)
      BY <2>1, <2>3 DEF Begin, Restore, EndTx, EndOps, At, Placed
    <3>2. auto' = auto
      BY <1>5, <3>1 DEF Handler, Prepare, ExecuteQuery, Header, Fetch, CleanQuery, ExecuteUpdate,
           CleanExec, Connect, Close, Answer, Escape, dbVars
    <3>3. app # 0 /\ op[app] \in TxOps => h'[app] = h[app]
      BY <2>1, <2>3, SidecarAssumption DEF TypeOK, Reqs
    <3> QED
      BY <2>1, <3>2, <3>3 DEF AutoFollows, EndOps
  <2>4. CASE op[r] = "BEGIN"
    <3>1. \/ h[r].pc = "start" /\ h'[r].pc = "answer" /\ auto' = FALSE
          \/ h[r].pc = "start" /\ h'[r].pc = "lost" /\ auto' = auto
          \/ h[r].pc = "answer" /\ h'[r].pc = "done" /\ auto' = auto
      <4>1. Begin(r) \/ Answer(r) \/ Escape(r)
        BY <1>5, <2>1, <2>4 DEF Handler, Prepare, ExecuteQuery, Header, Fetch, CleanQuery,
             ExecuteUpdate, CleanExec, Connect, Close, EndTx, Restore, At, Placed
      <4>2. CASE Begin(r)
        <5>1. GoTo(r, "answer") /\ AutoOff /\ h[r].pc = "start"
          BY <2>2, <2>4, <4>2, Moved DEF Begin, At
        <5> QED
          BY <5>1, Moved DEF AutoOff
      <4>3. CASE Answer(r) \/ Escape(r)
        BY <4>3, Moved DEF Answer, Escape, dbVars
      <4> QED
        BY <4>1, <4>2, <4>3
    <3> QED
      BY <2>1, <2>2, <2>4, <3>1 DEF AutoFollows, EndOps
  <2>5. CASE op[r] \in EndOps
    <3>1. \/ h[r].pc = "start" /\ h'[r].pc \in {"restore", "lost"} /\ auto' = auto
          \/ h[r].pc = "restore" /\ h'[r].pc = "answer" /\ auto' = TRUE
          \/ h[r].pc = "answer" /\ h'[r].pc = "done" /\ auto' = auto
      <4>1. EndTx(r) \/ Restore(r) \/ Answer(r) \/ Escape(r)
        BY <1>5, <2>1, <2>5 DEF Handler, Prepare, ExecuteQuery, Header, Fetch, CleanQuery,
             ExecuteUpdate, CleanExec, Connect, Close, Begin, At, Placed, EndOps
      <4>2. CASE EndTx(r)
        <5>1. GoTo(r, "restore") /\ auto' = auto /\ h[r].pc = "start"
          BY <2>2, <2>5, <4>2, Moved DEF EndTx
        <5> QED
          BY <5>1, Moved
      <4>3. CASE Restore(r)
        <5>1. GoTo(r, "answer") /\ AutoOn /\ h[r].pc = "restore"
          BY <2>2, <2>5, <4>3, Moved DEF Restore
        <5> QED
          BY <5>1, Moved DEF AutoOn
      <4>4. CASE Answer(r) \/ Escape(r)
        BY <4>4, Moved DEF Answer, Escape, dbVars
      <4> QED
        BY <4>1, <4>2, <4>3, <4>4
    <3> QED
      BY <2>1, <2>2, <2>5, <3>1 DEF AutoFollows, EndOps
  <2> QED
    BY <2>3, <2>4, <2>5
<1>6. CASE ReadEnd \/ CloseRows \/ Finished \/ UNCHANGED vars
  BY <1>4, <1>6 DEF ReadEnd, CloseRows, Finished, vars, progVars, dbVars
<1>7. ASSUME NEW r \in Reqs, Aim(r) \/ Fire(r) PROVE AutoFollows'
  BY <1>4, <1>7, CancelsOnly
<1> QED
  BY <1>1, <1>2, <1>3, <1>5, <1>6, <1>7 DEF Next

-----------------------------------------------------------------------------
(* The open transaction *)

\* Nothing pending, nothing to settle.
LEMMA NothingToSettle ==
  ASSUME NEW fate, Settle(fate), NEW q \in Reqs, work[q] # "pending"
  PROVE  work'[q] = work[q]
  BY DEF Settle

LEMMA TransactionSent ==
  ASSUME TypeOK, AnswerInv, EffectsInv, TransactionOpen, NEW o \in Ops, Send(o)
  PROVE  TransactionOpen'
<1> USE DEF Doing
<1>1. PICK r \in Reqs :
         /\ r = next /\ r # 0 /\ op[r] = "NONE" /\ app = 0 /\ app' = r
         /\ op'[r] = o /\ h'[r].pc = "start" /\ UNCHANGED <<work, cancel>>
         /\ \A q \in Reqs : q # r => h'[q] = h[q] /\ op'[q] = op[q]
  BY SentIsNew
<1>2. ~Ending /\ ~(Ending')
  BY <1>1 DEF Ending
<1>3. /\ tx'.active = tx.active
      /\ tx'.mine = IF o = "EXEC" /\ tx.active THEN tx.mine \cup {r} ELSE tx.mine
      /\ o = "CLOSE" => ~tx.active
  BY <1>1, SentTx
<1>4. \A q \in Reqs : Kept(q)' /\ work'[q] = "pending" => tx'.active /\ q \in tx'.mine /\ ~Ending'
  BY <1>1, <1>2, <1>3 DEF TransactionOpen, Kept
<1>5. ASSUME tx'.active, NEW q \in tx'.mine, Kept(q)' PROVE MineOpen(q)'
  <2>1. work[q] \in {"none", "pending"}
    <3>1. CASE q = r
      BY <1>1, <3>1 DEF EffectsInv, EffectOf
    <3>2. CASE q # r
      BY <1>1, <1>2, <1>3, <1>5, <3>2 DEF TransactionOpen, MineOpen, Kept
    <3> QED
      BY <3>1, <3>2
  <2> QED
    BY <1>1, <1>2, <2>1 DEF MineOpen
<1>6. (Doing("CLOSE") => ~tx.active)' /\ (Doing("EXEC") /\ tx.active => app \in tx.mine)'
  BY <1>1, <1>3
<1> QED
  BY <1>4, <1>5, <1>6 DEF TransactionOpen

LEMMA TransactionReceived ==
  ASSUME TypeOK, AnswerInv, CallsInv, AutoFollows, TransactionOpen, Receive
  PROVE  TransactionOpen'
<1> USE DEF Doing
<1>1. app \in Reqs /\ app # 0 /\ app' = 0 /\ UNCHANGED <<op, h, work, cancel>>
  BY ReceivedTx
<1>2. ~(Ending')
  BY <1>1 DEF Ending
<1>3. CASE op[app] = "BEGIN"
  <2>1. tx'.active = TRUE /\ tx'.mine = {}
    BY <1>3, ReceivedTx
  <2>2. \A q \in Reqs : Kept(q) => work[q] # "pending"
    BY <1>1, <1>3 DEF AutoFollows, TransactionOpen
  <2> QED
    BY <1>1, <2>1, <2>2 DEF TransactionOpen, Kept
<1>4. CASE op[app] \in EndOps
  <2>1. Ending /\ tx'.active = FALSE
    BY <1>1, <1>4, ReceivedTx DEF Ending, EndOps
  <2>2. \A q \in Reqs : Kept(q) => work[q] # "pending"
    BY <2>1 DEF TransactionOpen
  <2> QED
    BY <1>1, <2>1, <2>2 DEF TransactionOpen, Kept
<1>5. CASE op[app] \notin TxOps
  <2>1. tx'.active = tx.active /\ tx'.mine = tx.mine
    BY <1>5, ReceivedTx
  <2>2. ~Ending
    BY <1>5 DEF Ending, TxOps
  <2> QED
    BY <1>1, <1>2, <2>1, <2>2 DEF TransactionOpen, MineOpen, Kept
<1> QED
  BY <1>3, <1>4, <1>5 DEF TxOps

\* A handler that neither ends the transaction nor touches what was not abandoned.
LEMMA TransactionUntouched ==
  ASSUME TypeOK, AnswerInv, CallsInv, TransactionOpen, NEW r \in Reqs, Handler(r) \/ Escape(r),
         \A q \in Reqs : Kept(q) => work'[q] = work[q], ~EndTx(r)
  PROVE  TransactionOpen'
<1> USE DEF Doing
<1>1. /\ Active(r) /\ UNCHANGED <<app, tx, op, cancel>> /\ Placed(r) /\ r # 0
      /\ \A q \in Reqs : q # r => h'[q] = h[q]
  BY HandlerFrame DEF AnswerInv, Reqs
<1>2. Ending' <=> Ending
  <2>1. CASE r = app /\ op[r] \in EndOps
    <3>1. Restore(r) \/ Answer(r) \/ Escape(r)
      BY <1>1, <2>1 DEF Handler, Prepare, ExecuteQuery, Header, Fetch, CleanQuery,
           ExecuteUpdate, CleanExec, Connect, Close, Begin, At, Placed, EndOps
    <3>2. \/ h[r].pc \in {"restore", "answer"} /\ h'[r].pc \in {"answer", "done"}
          \/ h[r].pc = "start" /\ h'[r].pc = "lost"
      BY <3>1, Moved DEF Restore, Answer, Escape
    <3> QED
      BY <1>1, <2>1, <3>2 DEF Ending
  <2>2. CASE ~(r = app /\ op[r] \in EndOps)
    <3>1. app # 0 => app \in Reqs
      BY SidecarAssumption DEF TypeOK, Reqs
    <3> QED
      BY <1>1, <2>2, <3>1 DEF Ending
  <2> QED
    BY <2>1, <2>2
<1>3. ASSUME tx.active, NEW q \in tx.mine, Kept(q) PROVE MineOpen(q)'
  <2>1. MineOpen(q) /\ q \in Reqs
    BY <1>3, TxFields DEF TransactionOpen
  <2>2. h[q].pc = "done" => h'[q].pc = "done"
    BY <1>1, <2>1 DEF Active
  <2> QED
    BY <1>1, <1>2, <1>3, <2>1, <2>2 DEF MineOpen
<1>4. \A q \in Reqs : Kept(q)' => Kept(q) /\ work'[q] = work[q]
  BY <1>1 DEF Kept
<1>5. \A q \in tx.mine : q \in Reqs
  BY TxFields
<1> QED
  BY <1>1, <1>2, <1>3, <1>4, <1>5 DEF TransactionOpen

\* An EXEC the program waits for is durable at once, or pending in its transaction.
LEMMA TransactionExecuted ==
  ASSUME TypeOK, AnswerInv, CallsInv, AutoFollows, TransactionOpen,
         NEW r \in Reqs, ExecuteUpdate(r), Kept(r),
         work' = [work EXCEPT ![r] = IF auto THEN "durable" ELSE "pending"]
  PROVE  TransactionOpen'
<1> USE DEF Doing
<1>1. /\ Active(r) /\ UNCHANGED <<app, tx, op, cancel>> /\ r # 0 /\ r = app /\ op[r] = "EXEC"
      /\ \A q \in Reqs : q # r => h'[q] = h[q]
  <2>1. Handler(r) /\ op[r] = "EXEC" /\ r # 0
    BY DEF Handler, ExecuteUpdate, At, Reqs
  <2>2. Active(r)
    BY <2>1, HandlerFrame
  <2>3. r = app
    BY <2>1, <2>2 DEF CallsInv, CallsAlone, Kept
  <2> QED
    BY <2>1, <2>2, <2>3, HandlerFrame
<1>2. auto = ~tx.active
  BY <1>1 DEF AutoFollows, TxOps, EndOps
<1>3. /\ work'[r] = IF auto THEN "durable" ELSE "pending"
      /\ \A q \in Reqs : q # r => work'[q] = work[q]
  BY DEF TypeOK
<1>4. ~Ending /\ ~(Ending')
  BY <1>1 DEF Ending, EndOps
<1>5. ASSUME NEW q \in Reqs, Kept(q), work'[q] = "pending" PROVE tx.active /\ q \in tx.mine
  <2>1. CASE q # r
    BY <1>3, <1>5, <2>1 DEF TransactionOpen
  <2>2. CASE q = r
    <3>1. ~auto
      BY <1>3, <1>5, <2>2
    <3>2. tx.active
      BY <1>2, <3>1, TxFields
    <3> QED
      BY <1>1, <2>2, <3>2 DEF TransactionOpen
  <2> QED
    BY <2>1, <2>2
<1>6. ASSUME tx.active, NEW q \in tx.mine, Kept(q) PROVE MineOpen(q)'
  <2>1. MineOpen(q) /\ q \in Reqs
    BY <1>6, TxFields DEF TransactionOpen
  <2>2. ~auto
    BY <1>2, <1>6
  <2>3. work'[r] = "pending"
    BY <1>3, <2>2
  <2>4. work'[q] \in {"none", "pending"}
    BY <1>3, <1>4, <2>1, <2>3 DEF MineOpen
  <2> QED
    BY <1>4, <2>4 DEF MineOpen
<1>7. \A q \in Reqs : Kept(q)' => Kept(q)
  BY <1>1 DEF Kept
<1>8. \A q \in tx.mine : q \in Reqs
  BY TxFields
<1> QED
  BY <1>1, <1>4, <1>5, <1>6, <1>7, <1>8 DEF TransactionOpen

\* COMMIT and ROLLBACK settle what is pending: the program's transaction.
LEMMA TransactionSettled ==
  ASSUME TypeOK, AnswerInv, CallsInv, EffectsInv, AutoFollows, TransactionOpen,
         NEW r \in Reqs, EndTx(r), ~h'[r].failed
  PROVE  TransactionOpen'
<1> USE DEF Doing
<1>1. /\ Active(r) /\ UNCHANGED <<app, tx, op, cancel>> /\ r # 0 /\ r = app
      /\ op[r] \in EndOps /\ h[r].pc = "start"
      /\ \A q \in Reqs : q # r => h'[q] = h[q]
  <2>1. Handler(r) /\ op[r] \in EndOps /\ h[r].pc = "start"
    BY DEF Handler, EndTx, EndOps
  <2> QED
    BY <2>1, HandlerFrame, CallRuns DEF EndOps
<1>2. Settle(Outcome(r)) /\ GoTo(r, "restore")
  BY Moved DEF EndTx
<1>3. h'[r].pc = "restore"
  BY <1>2, Moved
<1>4. \A q \in Reqs : work'[q] = IF work[q] = "pending" THEN Outcome(r) ELSE work[q]
  BY <1>2 DEF Settle
<1>5. ~Ending /\ Ending' /\ tx.active
  BY <1>1, <1>3 DEF Ending, AutoFollows
<1>6. Outcome(r) \in {"durable", "undone"} /\ (op[r] = "COMMIT" => Outcome(r) = "durable")
      /\ (op[r] = "ROLLBACK" => Outcome(r) = "undone")
  BY DEF Outcome
<1>7. \A q \in Reqs : work'[q] # "pending"
  BY <1>4, <1>6
<1>8. ASSUME NEW q \in tx.mine, Kept(q) PROVE MineOpen(q)'
  <2>1. q \in Reqs /\ op[q] = "EXEC" /\ work[q] \in {"none", "pending"}
    BY <1>5, <1>8, TxFields DEF TransactionOpen, MineOpen, EffectsInv
  <2>2. q # r
    BY <1>1, <2>1 DEF EndOps
  <2>3. h[q].pc = "done"
    <3>1. ~Active(q)
      BY <1>1, <1>8, <2>1, <2>2 DEF CallsInv, CallsAlone, Kept
    <3>2. Placed(q)
      BY <2>1 DEF AnswerInv
    <3> QED
      BY <2>1, <3>1, <3>2 DEF Active, Placed
  <2>4. work'[q] \in {"none", Outcome(r)}
    BY <1>4, <2>1
  <2>5. h'[q].pc = "done" /\ op'[app'] = op[r]
    BY <1>1, <2>1, <2>2, <2>3
  <2> QED
    BY <1>5, <1>6, <2>4, <2>5 DEF MineOpen
<1>9. \A q \in tx.mine : q \in Reqs /\ (Kept(q)' => Kept(q))
  BY <1>1, TxFields DEF Kept
<1> QED
  BY <1>1, <1>7, <1>8, <1>9 DEF TransactionOpen, EndOps

LEMMA TransactionStep ==
  ASSUME TypeOK, AnswerInv, CallsInv, EffectsInv, AutoFollows, TransactionOpen, TxSound',
         [Next]_vars
  PROVE  TransactionOpen'
<1> USE DEF Doing
<1>1. ASSUME NEW o \in Ops, Send(o) PROVE TransactionOpen'
  BY <1>1, TransactionSent
<1>2. CASE Receive
  BY <1>2, TransactionReceived
<1>3. CASE Cancelled
  <2>1. /\ app' = 0 /\ UNCHANGED <<tx, op, h, work>> /\ ~Ending /\ ~(Ending')
        /\ \A q \in Reqs : Kept(q)' => Kept(q)
    BY <1>3, CancelledCall DEF Kept, Ending, EndOps
  <2> QED
    BY <2>1, TxFields DEF TransactionOpen, MineOpen
<1>4. ASSUME UNCHANGED <<app, tx, op, h, work>>, \A q \in Reqs : Kept(q)' => Kept(q)
      PROVE  TransactionOpen'
  <2>1. Ending' <=> Ending
    BY <1>4 DEF Ending
  <2>2. \A q \in tx.mine : q \in Reqs
    BY TxFields
  <2> QED
    BY <1>4, <2>1, <2>2 DEF TransactionOpen, MineOpen
<1>5. ASSUME NEW r \in Reqs, Handler(r) \/ Escape(r) PROVE TransactionOpen'
  <2>1. Active(r) /\ Placed(r) /\ op' = op
    BY <1>5, HandlerFrame DEF AnswerInv
  <2>2. op[r] \in TxOps => ~h'[r].failed
    BY <2>1 DEF TxSound
  <2>3. CASE EndTx(r)
    <3>1. ~h'[r].failed
      BY <2>2, <2>3 DEF EndTx, TxOps, EndOps
    <3> QED
      BY <2>3, <3>1, TransactionSettled
  <2>4. CASE ExecuteUpdate(r)
    <3>1. ~EndTx(r)
      BY <2>4 DEF ExecuteUpdate, EndTx, At
    <3>2. CASE work' = work
      BY <1>5, <3>1, <3>2, TransactionUntouched
    <3>3. CASE work' = [work EXCEPT ![r] = IF auto THEN "durable" ELSE "pending"]
      <4>1. CASE Kept(r)
        BY <2>4, <3>3, <4>1, TransactionExecuted
      <4>2. CASE ~Kept(r)
        <5>1. \A q \in Reqs : Kept(q) => work'[q] = work[q]
          BY <3>3, <4>2 DEF TypeOK
        <5> QED
          BY <1>5, <3>1, <5>1, TransactionUntouched
      <4> QED
        BY <4>1, <4>2
    <3> QED
      BY <2>4, <3>2, <3>3 DEF ExecuteUpdate
  <2>5. CASE Close(r)
    <3>1. r = app /\ app # 0 /\ op[app] = "CLOSE" /\ ~EndTx(r)
      BY <2>1, <2>5, CallRuns DEF Close, At, EndTx
    <3>2. \A q \in Reqs : Kept(q) => work[q] # "pending"
      BY <3>1 DEF TransactionOpen
    <3>3. \A q \in Reqs : Kept(q) => work'[q] = work[q]
      BY <2>5, <3>2, NothingToSettle DEF Close
    <3> QED
      BY <1>5, <3>1, <3>3, TransactionUntouched
  <2>6. CASE Restore(r)
    <3>1. h[r].pc = "restore" /\ op[r] \in EndOps /\ ~EndTx(r)
      BY <2>1, <2>6 DEF Restore, Placed, EndOps, EndTx
    <3>2. r = app /\ app # 0
      BY <2>1, <3>1, CallRuns DEF EndOps
    <3>3. \A q \in Reqs : Kept(q) => work[q] # "pending"
      BY <3>1, <3>2 DEF TransactionOpen, Ending
    <3>4. Settle("durable") \/ work' = work
      BY <2>6 DEF Restore, dbVars
    <3>5. \A q \in Reqs : Kept(q) => work'[q] = work[q]
      BY <3>3, <3>4, NothingToSettle
    <3> QED
      BY <1>5, <3>1, <3>5, TransactionUntouched
  <2>7. CASE ~EndTx(r) /\ ~ExecuteUpdate(r) /\ ~Close(r) /\ ~Restore(r)
    <3>1. work' = work
      BY <1>5, <2>7 DEF Handler, Prepare, ExecuteQuery, Header, Fetch, CleanQuery, CleanExec,
           Connect, Begin, Answer, Escape, dbVars
    <3> QED
      BY <1>5, <2>7, <3>1, TransactionUntouched
  <2> QED
    BY <2>3, <2>4, <2>5, <2>6, <2>7
<1>6. CASE ReadEnd \/ CloseRows \/ Finished \/ UNCHANGED vars
  <2>1. UNCHANGED <<app, tx, op, h, work, cancel>>
    BY <1>6 DEF ReadEnd, CloseRows, Finished, vars, progVars, dbVars
  <2> QED
    BY <1>4, <2>1 DEF Kept
<1>7. ASSUME NEW r \in Reqs, Aim(r) \/ Fire(r) PROVE TransactionOpen'
  <2>1. \A q \in Reqs : Kept(q)' => Kept(q)
    BY <1>7, CancelsOnly DEF Kept
  <2> QED
    BY <1>4, <1>7, <2>1, CancelsOnly
<1> QED
  BY <1>1, <1>2, <1>3, <1>5, <1>6, <1>7 DEF Next

LEMMA WorkStep ==
  ASSUME TypeOK, AnswerInv, CallsInv, WorkInv, [Next]_vars PROVE WorkInv'
<1>1. EffectsInv'
  BY EffectsStep DEF WorkInv
<1>2. NoTxRefused' => Told'
  BY UnrefusedBefore, ToldStep
<1>3. TxSound' => AutoFollows' /\ TransactionOpen'
  <2> SUFFICES ASSUME TxSound' PROVE AutoFollows' /\ TransactionOpen'
    OBVIOUS
  <2>1. AutoFollows /\ TransactionOpen /\ EffectsInv
    BY SoundBefore DEF WorkInv
  <2> QED
    BY <2>1, AutoStep, TransactionStep
<1> QED
  BY <1>1, <1>2, <1>3 DEF WorkInv

LEMMA WorkHolds == Spec => [](TypeOK /\ AnswerInv /\ CallsInv /\ WorkInv)
<1>1. TypeOK /\ AnswerInv /\ CallsInv /\ WorkInv /\ [Next]_vars => WorkInv'
  BY WorkStep
<1> QED
  BY <1>1, WorkInit, CallsHold, PTL DEF Spec

\* As long as the sidecar refused no BEGIN, COMMIT or ROLLBACK, autocommit is on
\* again whenever the program is outside a transaction (docs/protocol.md:64-65),
\* whatever it cancelled and whatever else failed.
THEOREM AutoRestores == Spec => []AutoRestored
<1>1. TypeOK /\ AnswerInv /\ CallsInv /\ WorkInv => AutoRestored
  <2> SUFFICES ASSUME TypeOK, AnswerInv, CallsInv, WorkInv, NoTxRefused, app = 0, ~tx.active
               PROVE  auto
    BY DEF AutoRestored
  <2>1. AutoFollows
    BY RefusedIfFailed DEF WorkInv
  <2>2. auto = ~tx.active
    BY <2>1 DEF AutoFollows
  <2> QED
    BY <2>2
<1> QED
  BY <1>1, WorkHolds, PTL

\* ... of a transaction whose Rollback returned, only an EXEC whose context was
\* cancelled is ever durable ...
THEOREM RollbackHolds == Spec => []OnlyAbandonedSurvives
<1>1. WorkInv => OnlyAbandonedSurvives
  BY DEF WorkInv, Told, Kept, OnlyAbandonedSurvives
<1> QED
  BY <1>1, WorkHolds, PTL

\* ... and every EXEC that was answered before its Commit returned is durable.
THEOREM CommitHolds == Spec => []CommitKeepsUnrefused
<1>1. WorkInv => CommitKeepsUnrefused
  BY DEF WorkInv, Told, CommitKeeps, CommitKeepsUnrefused
<1> QED
  BY <1>1, WorkHolds, PTL
=============================================================================
