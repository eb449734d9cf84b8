---------------------------- MODULE AgentAnswers ---------------------------
(***************************************************************************)
(* What the sidecar owes each request (docs/protocol.md, the table of ops, *)
(* as client.go relies on it): one RESPONSE; after the successful RESPONSE *)
(* of a QUERY the rows of its result, each once and in order, and one END; *)
(* nothing else.  Sidecar is shown to implement this.                      *)
(***************************************************************************)
EXTENDS Naturals, Sequences

CONSTANTS Reqs

VARIABLES
    op,    \* the operation of each request, "NONE" before it is sent
    log    \* the frames written for it so far

answerVars == <<op, log>>

Response(ok) == [kind |-> "resp", ok |-> ok, row |-> 0]
RowFrame(n)  == [kind |-> "row", ok |-> TRUE, row |-> n]
EndFrame(ok) == [kind |-> "end", ok |-> ok, row |-> 0]

AnswersInit ==
    /\ op = [r \in Reqs |-> "NONE"]
    /\ log = [r \in Reqs |-> <<>>]

Write(r, f) == log' = [log EXCEPT ![r] = Append(@, f)] /\ UNCHANGED op

Accept(r, o) ==
    /\ op[r] = "NONE"
    /\ op' = [op EXCEPT ![r] = o]
    /\ UNCHANGED log

Reply(r, ok) ==
    /\ op[r] # "NONE"
    /\ log[r] = <<>>
    /\ Write(r, Response(ok))

\* The header of a QUERY was sent and its END was not.
Streaming(r) ==
    /\ op[r] = "QUERY"
    /\ log[r] # <<>>
    /\ log[r][1] = Response(TRUE)
    /\ log[r][Len(log[r])].kind # "end"

SendRow(r)     == Streaming(r) /\ Write(r, RowFrame(Len(log[r])))
SendEnd(r, ok) == Streaming(r) /\ Write(r, EndFrame(ok))

AnswersNext ==
    \E r \in Reqs :
        \/ \E o \in {"CONNECT", "CLOSE", "BEGIN", "COMMIT", "ROLLBACK", "EXEC", "QUERY"} :
              Accept(r, o)
        \/ \E ok \in BOOLEAN : Reply(r, ok) \/ SendEnd(r, ok)
        \/ SendRow(r)

AnswersSpec == AnswersInit /\ [][AnswersNext]_answerVars
=============================================================================
