# owljdbc: a verification project

owljdbc is a Go `database/sql` driver that runs SQL through a JDBC driver in a
child JVM, the *sidecar*. This directory holds TLA+ models of the parts of it
that are hard to get right (goroutines, frames, threads and one shared JDBC
connection), the TLC runs that check them, and TLAPS proofs about them.
Every definition is translated from the source; `PROJECT.json` names the lines.

## The system

| part | source | state | operations |
|---|---|---|---|
| driver | `driver.go` | open transaction, open rows (kept by `database/sql`) | Connect, Close, Begin, Commit, Rollback, ExecContext, QueryContext, Rows.Next, Rows.Close |
| process pool | `manager.go` | map from profile to process and reference count, one mutex | Acquire, Release |
| client | `client.go` | sessions of a process, next conn id, `closed`; per session the next request id, waiting response channels, the current stream; per stream a channel of 256 rows, `done`, `err` | openAgent, NewSession, Exec, Query, Close, Next, QueryStream.Close, readLoop, abortAll, close |
| sidecar | `Main.java`, `Session.java` | sessions; per session the JDBC connection and the statement that runs (`current`) | one handler per request on a cached thread pool: CONNECT, CLOSE, BEGIN, COMMIT, ROLLBACK, CANCEL, EXEC, QUERY, PING |
| wire codec | `proto.go`, `Protocol.java`, `ValueCodec.java`, `DateTimeValue.java` | the stdin pipe, `writeMu`, the frame main is in | frames, requests, row batches, values |
| rewriting | `driver_pg.go`, `BindRewriter.java` | none | `$N` and `:N` to `?` |
| catalogue | `catalog.go`, `catalog_spec.go` | table of profiles, one RWMutex | RegisterSpec(s), ProfileFor, HasProfile, ProfileFamily, ProfileTypes, BuildConfig, FindProfileJars |
| rest | `Json.java`, `config.go` | none | parsing |

How they interact: `database/sql` calls the driver; the driver takes a session
from the pool, which shares one process between all connections of a profile.
Any number of goroutines write whole frames to the process's stdin under
`writeMu`; **one** goroutine, readLoop, reads its stdout and hands each frame to
the waiting call (a channel of capacity 1) or to the session's current stream
(a channel of capacity 256). In the JVM every request runs on a thread of its
own, so the order of requests of one session is kept only by the client, which
sends the next one when the last was answered - or given up.

What makes them correct, and what is hard:

* *client*: a row reaches the stream of its own query or nobody; a broken result
  never ends in `io.EOF`; readLoop never panics and never hangs on a stream that
  has no reader; a dead process fails everything in flight. Hard: cancellation
  and death race with frames under way; readLoop is shared; the current stream
  is captured under a lock and used after it.
* *pool*: a process is killed when its last user is gone and never before. Hard:
  the kill follows the unlock, processes die by themselves, every step of opening
  can fail.
* *sidecar*: each request is answered once, in the form the client waits for;
  statements of a session run one at a time; a transaction does what the driver
  says it did. Hard: handlers overlap as soon as a call is cancelled or a result
  left early; CANCEL names no target; JDBC calls fail at any point.

* *codec and rewriting*: what the database gets is what the program wrote, and
  what the program gets is what the database holds. Hard: frames are written in
  pieces into a pipe many goroutines share; the limit of a frame is checked by its
  reader only; two scanners in two languages must agree on where a literal ends,
  and a prepared text goes through one of them twice; a time is split into fields
  that overlap.
* *catalogue*: a batch of profiles is registered whole or not at all, and a
  configuration is of one profile. Hard: batches, lists and look-ups run
  concurrently; names are normalised after they were told apart; templates are
  checked once and expanded later.

`PROJECT.json` lists the hazards with their lines.

## Modules

| module | models |
|---|---|
| `AgentClient` | `client.go` for one process. The sidecar is the environment: it answers each request it was sent in any order, may corrupt or overlong a batch, and may die. |
| `AgentClientProofs` | theorems about it: types, the channels, the session's turn, readLoop's readers, and that a stream holds its own query's result |
| `Manager` | `manager.go` with the steps of `openAgent`, `NewSession` and `Conn.Close` it orders |
| `AgentLease` | what the pool promises: leases, and retirement of unleased processes only |
| `ManagerProofs` | theorems about `Manager`, and that it implements `AgentLease` |
| `Sidecar` | `Main.java` and `Session.java` for one session, its JDBC connection and database, and the program that drives it through `driver.go` |
| `SidecarProofs` | theorems about `Sidecar`: that it implements `AgentAnswers`, and what holds of the statements, CANCELs and transactions of a session whatever fails, is cancelled or left early |
| `AgentAnswers` | what the sidecar owes each request: one RESPONSE, then for a QUERY rows in order and one END |
| `SqlText` | the two placeholder scanners (`driver_pg.go`, `BindRewriter.java`), and a lexer that says what they are meant to do |
| `SqlTextProofs` | theorem about it: both scanners, one after the other, do what is meant, for every text |
| `Codec` | values of every tag as each side writes and reads them, and row batches |
| `Requests` | a statement from `driver.go` to the JDBC call and its rows back: frames piece by piece through the pipe, main of the sidecar, binding |
| `RequestsProofs` | theorems about `Requests`: types and limits, frames stay whole in the pipe, and that it implements `AgentCalls` |
| `RequestsDataProofs` | theorems about `Requests` with `Codec`: arguments and rows arrive, for all values |
| `AgentCalls` | what a statement call promises: the text meant, executed at most once, success only for an execution |
| `Catalog` | `catalog.go` and `catalog_spec.go`: the table under `specMu`, validation, URLs, jars, configurations |
| `CatalogProofs` | theorems about `Catalog`, and that it implements `ProfileRegistry` |
| `ProfileRegistry` | what the catalogue promises: batches at once, lists and look-ups of one moment |
| `SequenceFacts` | lemmas the proofs share: induction over numbers, parts put together, functions defined by going on |
| `MC*` | the constants of the TLC instances |

The modules divide the system where its interfaces are. `AgentClient` takes from
the sidecar only what `AgentAnswers` says (its actions Respond, RespondHeader,
EmitRow and EmitEnd are those of `AgentAnswers`), and `Sidecar` is checked to
implement `AgentAnswers`. `Manager` sees of a session only that opening it may
fail. `AgentClient` writes a frame in one step and never loses one; `Requests`
opens that step up, with `SqlText` and `Codec` for what travels in it. `Catalog`
ends where a configuration is handed to the driver.

### AgentClient

A goroutine's `call` goes idle, `lock` (waits for `Session.mu`), `write`, `wait`
(the select), `drop` (deletes the session), idle. `Lock` takes the id, registers
the channel and sets `curRows`; these are three critical sections in the code,
but the request is unknown to readLoop and to every other goroutine until it
is written, so nothing can tell them apart. `Receive`, `Cancelled` and `Abandon`
are the three branches of the select with the deferred delete and unlock.
`NewSession`, `Exec`, `Query` and `Close` differ in what follows (`AfterFailure`,
`GiveUp`). No call is made on a session after its `Close`, and `Close` is not
called twice: `database/sql` does neither. (Through the exported `Session` it is
possible, and such a call finds no session in readLoop's map: its answer reaches
nobody and, with a context that is never cancelled, it waits until the process
ends.) readLoop's `rl` goes read, `dispatch` (session looked up), `send` (in
the select of dispatchRows, holding the captured stream) and back; on a failed
read it marks the process closed, takes a snapshot of the sessions and aborts
them one by one. Streams are never freed, so a stream is named by its request.
A ROW_BATCH carries one row, as `docs/protocol.md:90` says.

The CANCEL frame is not sent in this module: it has no answer, and its only
effect, that a request fails, is one the environment always has. A RESPONSE or
END whose JSON does not parse is left out: the sidecar escapes every string it
puts there. `ProcClose` may happen at any time, because `Manager.Release` is
exported and nothing in `client.go` orders it after the calls.

### Manager

A goroutine goes `acquire`, `open` (in openAgent with `Manager.mu` held),
`session` (in NewSession), `conn` (has the connection), `release`, `kill` (after
the unlock, before the kill), idle. `refs` is kept per process, as the entry is.
Release's branch for a missing entry is not an action: `RefsExact`, checked and
proved, says it is never taken (in the model a goroutine that met it would stop,
and TLC would report the deadlock). `database/sql` closes a connection once.

### Sidecar

A handler goes `start`, `ready` (statement prepared and published in `current`),
`meta`, `rows`, `clean` (the finally clause), `answer`, `done`; COMMIT and ROLLBACK
go through `restore`, because `setAutoCommit(true)` is a second JDBC call. `work`
is the effect of each EXEC in the database: pending while in a transaction,
then durable or undone. JDBC is external: a call may throw by itself
(`Failures`), on a closed connection, or because its statement was cancelled.
`left` are the results the program went on without, `GivenUp` what it cancelled or
left: the sidecar learns of the first by a CANCEL, of the second not at all.
`Cancels` says of which calls the context may be cancelled.
Merged steps: `prepareStatement` with `current = ps`; the closes of a finally
clause with `clearCurrent`; `SESSIONS.remove` with `conn.close`. A statement whose
`close` throws counts as closed, in both finally clauses; JDBC says no more of it
than that it threw. A retry is
allowed for any exception of a first attempt without rows, which covers the
ORA-17027 the code looks for. `Escape` stands for an Error; it is modelled where
drivers raise it most, at the handler's first statement.

### Requests, SqlText, Codec

`SqlText` and `Codec` are pure. A text is a sequence of letters; `Rewrite` is the
loop of both scanners, `TokenEnd` its branches. `Meant` states the result without
looking ahead: a lexer of seven modes reads one letter after the other (`Mode`), a
`$` or `:` before a digit is a placeholder where it reads code (`Placeholders`), and
each is `Marked` by one `?` in place of itself and its number. A payload is a sequence of fields, a
value a kind and its data; `encodeValue` and `decodeArgs` are the way of an
argument, `encodeColumn` and `decodeRowBatch` that of a column, with
`columnValue`'s choice by family. Both sides read values one behind the other until
the fields are used up; `Starts` says for each field where those from it on start,
or that one is cut off or unknown. The int64 of a time is `Wrap`ped, with a small
`MaxInt64`; milliseconds and seconds are small too.

In `Requests` each goroutine makes one call (`job`). It goes start, `write`,
`wait`, `done`. A frame is a header, a type and the pieces of its payload:
`TakeWriteMu`, `WritePiece` until the last, blocked while the pipe is full.
A cancelled call starts a second writer, its CANCEL. Main reads a header, then as
many pieces as it says, then hands the request to the pool; a length over the
limit ends main and nothing else, and the JVM ends only when its pool has been
idle for a minute (`Expires`). `Execute` rewrites the text again, binds and runs
it; `Answer` may still report a failure. Rows go through the codec of both sides
and `Rows.Next` when the call takes them. `trouble` confines cancellations,
failing JDBC calls and deaths to the jobs about frames, so that they are not
multiplied with every text and value.

### Catalog

A goroutine has one operation (`plan`). A registration goes `validate` (one entry
at a time, in any order, outside the lock), `lock`, `copy` (one type at a time)
and releases the lock; RegisterSpec is a batch of one. ProfileTypes holds the lock
for reading and visits one type at a time. `Lookup` is ProfileFor, of which
HasProfile and ProfileFamily return a part; BuildConfig and FindProfileJars go on
(`Use`) with the profile they found and without the lock. The files of a
directory and what a glob matches are constants. URLs, hosts and DSNs are
sequences of tokens, a placeholder three of them: `open` and `close` stand for its
brackets. `Registry` maps a writer that
holds the lock to the table it is going to leave. A URL that cannot be built is the
empty one, which BuildConfig refuses as well; why a call was refused is not kept.
`ConfigWhole` states both sides without the code's search: `Refused` names what may
be wanting, `Whole` the configuration in terms of all jars there are (`First`) and of
what each token of a template stands for (`Expanded`).

## Runs

Bounds are constants of each module. Rows and buffer sizes are chosen so that
a buffer is full after one row, a result is longer than the buffer, and the pipe
holds one frame.

| run | question | bounds |
|---|---|---|
| ClientOneSession | every use of one session by two goroutines between `NewSession` and `Close`, with cancellation, abandoned streams, all corrupt frames and death: TypeOK, NoChannelPanic, StreamFaithful, BlockedOnlyOnReader, OneCallPerSession | 1 session, 3 requests (CONNECT and two that overlap), 2 rows, buffer 1 |
| ClientProgress | two sessions on one process that may die while they are opened, read and closed and while abortAll works: NoChannelPanic, StreamFaithful; and Settles, every call returns and every result ends | 2 goroutines, 2 sessions, CONNECT and one request on each, 2 rows, buffer 1; `Disciplined` |
| Pool | TypeOK, RefsExact, NoLiveKill, KeepsLease, Reclaimed, AcquireReturns | 3 goroutines, 2 profiles, 3 processes, 3 connections: enough for a kill to meet a new Acquire of the same and of another profile |
| SidecarAnswers | everything that can fail, be cancelled or left early: KeepsAnswers (refinement of `AgentAnswers`), ClosedBeforeEnd, Serial, CancelAims, CancelFinds, OnlyUnownedLeft, TypeOK | 3 requests (CONNECT and two that may overlap), 1 row: a retry, an overlap and a CANCEL aimed at either of two statements |
| SidecarTransactions | OnlyAbandonedSurvives, CommitKeepsUnrefused, AutoRestored with EXECs that are cancelled and commits, rollbacks and reads that throw; Answered, every request is answered and every result ended | 4 requests: CONNECT, BEGIN, EXEC, COMMIT or ROLLBACK; or a COMMIT that failed and what follows; no rows |
| Requests | FramesWhole, KeepsCalls (refinement of `AgentCalls`), RowsKept, ArgsKept, TypeOK; and CallsReturn, every call returns, whatever was oversized, cancelled, failed or killed | two goroutines, frames of 1 to 4 fields (type included) with a limit of 3, pipe of 2 pieces; every text of three tokens (quotes, both comments, line end, `$1`, `:1` and their parts) with a `$1:2` behind it, direct, prepared and for another family; every kind of value beside each other; times before, at and after the epoch, with each fraction, and at both ends of int64 |
| Catalog | KeepsRegistry (refinement of `ProfileRegistry`), ConfigWhole, TypeOK | three goroutines, two of them registering; three built-in types; batches that add, override, share a name, are partly invalid, or empty; every template of four pieces; every field of a specification and an endpoint, missing, blank and given |
| ClientOrphan, ClientBlockedLoop, SidecarRollback, SidecarCommit, TimestampBind | the findings below | the smallest that show them |

Goroutines are interchangeable, and the client's safety runs use that symmetry;
runs with temporal properties do not. The free client runs switch deadlock
checking off, because a reader of an orphaned stream really is stuck (below);
everywhere else it is on, with an action `Finished` for the states in which
nothing is left to do.

### Fairness

* AgentClient: readLoop and a goroutine inside a call run when they can (the Go
  scheduler); a goroutine that holds a stream goes on reading; a kill arrives;
  the sidecar works on every request while it lives. Nothing obliges a context to
  be cancelled, a call to be made or a process to die.
* Manager: strong fairness for taking `Manager.mu`, since `sync.Mutex` hands the
  lock to a waiter that has starved for a millisecond; weak fairness for the rest.
  The handshake has a time limit. Connections need never be closed.
* Sidecar: every handler has a thread of the cached pool and JDBC calls return, so
  some handler goes on as long as one can. Nothing is asked of the program or of
  CANCELs, and an Error may end a handler at its start.
* Requests: writers, waiting calls, main and the handlers run when they can; a JVM
  without main ends once its pool is idle (`newCachedThreadPool` lets a thread go
  after a minute); readLoop notices the end of stdout. For a waiting call the weak
  fairness is written as a formula on its guard, `MayReturn`, which its step makes
  false for good: TLC need not decode its rows to see whether it is enabled.
* Catalog has no liveness property: every operation holds the lock for finitely
  many steps and takes it once, and deadlock is checked.

## What the checks show

What holds, for what the hazards fear:

* Frames of a cancelled, failed or closed query never reach another stream, in
  any interleaving with the next query; a broken result never ends in EOF; a
  closed channel is never sent on or closed again.
* A stream that was given up never holds readLoop.
* The pool's count is exact although Release looks its entry up again, and the
  kill after the unlock never meets a user.
* Whatever fails and whatever is cancelled, the sidecar's answers have the form
  the client waits for; the retry repeats neither header nor row.
* Statements of a session overlap only when the program gave up the earlier one. A
  CANCEL never meets a statement whose finally clause is over; the first one of a
  session finds the statement it was meant for until the program goes on to its next
  call; what a late or later one hits instead is of a later call or of one that was
  given up too.
* The one statement ever left open is that of a QUERY attempt that failed before
  Main had a reference to it.
* As long as the sidecar refuses no BEGIN, COMMIT or ROLLBACK, transactions do what
  the driver reported, whatever else failed and whatever runs beside them, with one
  exception: an EXEC whose context was cancelled may outlive its rollback.

* Frames are never mixed in the pipe, and main never reads a piece for a header.
* Both scanners, in any succession a text can meet them, replace exactly the
  placeholders outside literals and comments; a text is executed at most once.
* Every value of a row arrives in its place with its data, a time up to the last one
  an int64 of nanoseconds holds, although its milliseconds travel twice. (Outside
  1678..2262 the time that arrives is another one; `RowsKept` promises nothing for it.)
* Every argument is bound in its place with its data, except a time: of that the
  milliseconds, and nothing else, are lost.
* An oversized request kills nothing but main, and every call still returns,
  because the idle JVM ends; the program sees an error a minute later.
* A batch with colliding names registers one of them and the rest, never a part of
  the batch; a configuration built while its type is registered again is of the
  profile it started with.

Assumptions the passing runs name, and what happens without them:

* `Disciplined` (ClientProgress): a goroutine leaves no stream open
  while it calls, and no session is used by two at once. Without it ClientProgress
  deadlocks with a living process too: the frame a call waits for is behind rows
  that only the same goroutine could read.
* `GivenUp` (Serial, CancelAims, CancelFinds): without the excuse `Serial` fails,
  since nothing waits for the handler of a statement that was given up, against
  `docs/protocol.md:126` (statements of a session run one after the other). So do the
  two others, against `docs/protocol.md:66`: after a cancellation or an early
  `Rows.Close`, the finally clause of the old handler clears the new statement's
  `current` and a CANCEL finds none, or a late CANCEL finds the next statement. All
  of this happens in the run; what the properties say is that nothing else does.
* `NoTxRefused` (OnlyAbandonedSurvives, CommitKeepsUnrefused, AutoRestored): the
  driver does not look at `resp.OK` of BEGIN, COMMIT and ROLLBACK. When `commit()` or
  `rollback()` throws, `setAutoCommit(true)` is skipped (`Session.java:86-87`), against
  `docs/protocol.md:64-65`, and the next EXEC is part of a transaction nobody knows of.
  The run has these failures; what follows one is excused.
* `OnlyUnownedLeft` names the statements that are left: the comment at
  `Session.java:61` says that Main closes them all, but when `executeQuery` throws
  Main has no reference to the statement.
* `h[r].pc = "lost"` (Answered): an Error is not an Exception (`Main.java:162`), the pool
  swallows it, and the call of that handler waits for ever. No other call does.
* What the settings of SidecarTransactions leave out of it (`EarlyClose`, cancelled
  QUERYs, rows, some failures) is left out for the size of the state space; the
  three theorems about transactions hold with all of it.
* One profile has one JVM (`docs/protocol.md:124`) only between kills: Release
  unlocks before it kills, and an Acquire in between starts a second one. No
  property asks for it; `NoLiveKill` shows it harms nobody.

Findings (runs that TLC must find violated):

* ClientOrphan: a second Query on a session orphans the first stream; when the
  process exits it is not failed, and its reader waits for ever. `Close` on a session
  whose stream is open does the same: abortAll does not find the session any more.
* ClientBlockedLoop: a full stream stops readLoop for the whole process; its holder
  waits on another session and is never told that the process exited.
* SidecarRollback: an EXEC given up by its context executes between `rollback()`
  and `setAutoCommit(true)`, which commits it.
* TimestampBind: a bound time loses its milliseconds, because `setNanos` replaces
  what `new Timestamp(millis)` holds of the second (`Protocol.java:93`), against the
  comment at `proto.go:136`. A row's time does not: `decodeValue` adds.
* SidecarCommit: `Tx.Commit` reports success for a COMMIT that was answered with
  `ok=false`. `Conn.Begin` (`driver.go:61`) and `Tx.Rollback` (`driver.go:119`) drop
  `resp.OK` in the same way: a transaction that never began runs with auto-commit on,
  and a rollback that failed is reported as done.

Disagreements met while reading, of documents with each other or with data, which
no run is about: `docs/protocol.md:105` gives a DATETIME 10 bytes, both sides write
14 behind the tag; `catalog_spec_test.go:75` takes the built-in `dm` for a profile
whose DSN is its URL, which it is not, so the assertion behind it cannot fail;
`Main.java:185` expects LocalDateTime values to travel as DATETIME, but
`ValueCodec.java:57` writes their text; `catalog.go:252` names an EnsureAgentJar
that does not exist; the comment at `driver_pg.go:20` says that `E''` strings are skipped,
but the scanner takes `\'` for the end of a string, so in `E'\'$1'` the `$1` inside the
literal becomes a `?`; `Session.java:61` (statements closed by Main), `docs/protocol.md:66`
(what a CANCEL cancels), `:64-65` (autocommit is restored) and `:126` (statements one
after the other) promise more than the code keeps, as listed above.

## What is proved

For every value of the constants that satisfies the named assumptions
(`ConstantsAssumption`, `ManagerAssumption`, `SidecarAssumption`, `RequestsAssumption`,
`CodecAssumption`, `NamesAssumption`, `PlansAssumption`, `FilesAssumption`), and for
every text and every file there may be:

* `AgentClientProofs`: `TypeCorrect` (one step per action); `NoPanic`, from
  `ChannelInv`: `NoChannelPanic` is not inductive by itself, because a stream
  becomes current when its id is taken: one needs that current streams have
  issued ids and that no stream of an id still to come was ever closed;
  `Serialised`, where `OneCallPerSession` is inductive given the types;
  `NoOrphanBlock`, from `ReaderInv`: a current stream, and the one readLoop is
  sending to, has a reader or was given up, unless its request never reached the
  sidecar, in which case no row of it exists.
* `AgentClientProofs`, second part: `Faithful`, from `ClientInv`, `PipeInv` and `FaithInv`.
  `StreamFaithful` speaks of rows that have arrived; to keep it one must know what
  is still to come. `FaithInv` follows a query from the stream back to the sidecar:
  the stream holds the first rows of the result (`StreamOK`); what readLoop has in
  hand for it is the next row or the END behind the last (`HandOK`); and as long as
  the stream can still be reached, the pipe `Owes` the rest, in order, ending with
  END or with a damaged frame that breaks the stream (`PipeOK`). The lemmas
  `OwedSkip`, `OwedTake`, `OwedPut` and `OwedNothing` say how frames of others, the
  next frame, and new frames change what is owed. `PipeInv` is what makes a frame's
  owner known: no frame carries the id of a request still to come, and a stream that
  was captured before it was replaced is of the session the frame names.
* `ManagerProofs`: `PoolInvariant`, by one lemma per action, for `PoolInv`: who
  holds the mutex, that entries name processes that were not closed, that a
  process being opened or about to be killed is in no entry, and the exact count;
  from it `PoolTypes`, `ReferencesCounted`, `NoKillUnderUser`, and `Implements`
  (every step of Manager is a step of AgentLease or a stutter). The set of
  goroutines is assumed finite, since the count is its cardinality.
* `SidecarProofs`: `TypeCorrect`, in which `try` stays below 3 because a retry needs
  a first attempt (`RetriesOnce`); `StatementsClosed` and `AnswersKept` from
  `AnswerInv`, which ties a handler's place in its code to what its request was sent
  (`Placed`, `Written`) and to its statement (`Closed`): no RESPONSE before `answer`
  or the header, rows up to `pos` behind the header, END only at `done`. A retry
  starts again from the first row, so the invariant must say that it never follows a
  header. Every step is then one of `AgentAnswers` or a stutter, with every failure,
  cancellation and abandoned result in it.
* `SidecarProofs`, second part: what a program can rely on, with no condition on what
  fails, is cancelled or left early. `CallsInv` says who is at work behind the
  program's back: QUERYs, and EXECs whose context was cancelled (`CallsAlone`), that a
  RESPONSE says what happened (`Verdicts`), and when the connection is open
  (`SessionUp`). `OneStatement` then follows from `TurnInv` (a handler works for the call the
  program is in, for the result it reads, or for something it gave up, and ids grow)
  with `StatementsInv` (which statements of a request are open at each place of its
  handler), which also gives `StatementsEnd`. `CancelAimsWell` and `CancelFindsFirst`
  need `CurrentInv`: neither is inductive without knowing that `current` is always
  the statement of a handler at work, because a handler clears whatever is there.
* `SidecarProofs`, third part: `AutoRestores`, `RollbackHolds` and `CommitHolds`, from
  `WorkInv`. The difficulty is that the properties speak of refusals that were
  *answered* (`NoTxRefused`), while a transaction goes wrong when JDBC throws, before
  the answer. So the invariant has a stronger hypothesis beside it, `TxSound` (no
  handler of a BEGIN, COMMIT or ROLLBACK has failed), under which auto-commit follows
  the program's transaction (`AutoFollows`) and what is pending is its own
  (`TransactionOpen`, place by place of a COMMIT or ROLLBACK). What the program was
  `Told` stays true under `NoTxRefused` alone: when the first refusal is under way,
  nothing reported so far can change any more.
* `RequestsProofs`: `WholeFrames`, from `FramesInv`: one writer holds `writeMu`;
  the last piece in the pipe is the last of its frame, with nobody in the middle
  of one, or the last its writer has sent; main is at a header and the pipe goes on
  with one, or it is in the frame of one writer and the pipe goes on with that
  writer's next piece, or nothing is in the pipe and that writer holds `writeMu`.
  `FramesWhole` alone is not inductive: what an empty pipe will hold next is known
  from the writer only. A writer that fails in the middle of a frame breaks none
  of this because it fails only when the process, and main with it, is dead.
  `TypeCorrect` and `CallsKept` from `CallsInv`, which goes on where `FramesInv` ends:
  a writer has sent no more than its frame (`Written`), the pieces in the pipe and in
  main are numbered within theirs (`Numbered`), a frame's first piece is nowhere twice
  (`OneFrame`), so a request reaches the pool once and after its call began
  (`Handed`), and a handler, the answer on its way and the outcome say the same of
  what was executed (`Progress`). That the text executed is the one
  meant is `TextsKept`; neither theorem has a hypothesis besides the assumptions.
* `SqlTextProofs`: `TextsKept`, that `BindRewriter` makes what is `Meant` of every text
  that went through `adaptSQL` once or, prepared, twice. A scanner reads tokens, the
  lexer letters, so first: where a token starts in code, the next one does
  (`TokenIs`, with `StringEnd` for the doubled quotes of a string, which the lexer
  reads as its end and a new start), and no letter within a token is a placeholder. Hence
  each scanner replaces exactly the placeholders of its own syntax (`LoopMarks`, by
  induction from the end of the text). Then, one scanner after the other: the text
  of the first has shorter numbers but the same tokens, so the lexer is in the same
  mode at each letter that stayed, and the second finds in it the placeholders it would
  have found before. A text with none left is not changed, which is the second pass
  of a prepared text.
* `RequestsDataProofs`: `ArgsArrive` and `RowsArrive`, for values of every kind,
  texts and rows of any length, and any number of them. The fields of the values are
  put together by a fold and cut again by a recursive function, and the library's
  induction theorems cannot be used; the inductions are those of `SequenceFacts`.
  `StartsEquation` says that `Starts` has the values its equation gives; `Found` that
  values that follow each other to the end are all found; `ReadBack`, kind by kind,
  that a value that stands somewhere is read there. `Nested`, `TimeToTimestamp` and
  `TimestampToTime` are the arithmetic of the fields of a time: an argument is the time
  `WithoutMillis`, exactly, and a row's time is itself, because the two overflows of
  `ms*1e6 + nanos` cancel each other (`WrapSum`). Both theorems then
  follow from `CallsInv`.
* `CatalogProofs`: `TypeCorrect` and `RegistryKept`, from `CatalogInv`: `Exclusion` (one
  writer, or readers, or nobody holds `specMu`), and what each operation has seen so
  far: a batch that is being checked passed up to its entry, one that is being copied
  is valid and the table is the one before it with some of its types (`Batched`), a
  list holds the types visited of a table that stands still (`Asked`). A batch takes
  effect, for `ProfileRegistry`, when its writer gets the lock: all that follows
  is a stutter, because nobody can look. That a batch is accepted exactly when its
  entries mean something needs that the scan for placeholders agrees with the
  definition of a well-formed template (`ScanSound`, by induction from the end of
  the template).
  `ConfigsWhole`, from `AllInformed`: a build that has looked up a type holds a
  `Usable` profile, whose template passed validation or whose URL is one of the
  built-in ones, and answers what `BuildConfig` makes of that one. What that is, is
  `BuildConfigIs`, a lemma about the operator: `ReplaceIsExpanded` (the replacer goes
  on behind what it has put in, and so meets each token of a well-formed template
  where its meaning has it), `ExpandedNotEmpty` and `FormatNotEmpty` (no URL is empty by
  accident), `TrimSpaceIs`, and `findFileIs`, `ResolveDriverJarsIs` and `ResolveAgentJarIs`
  (the nested searches end at the first of all jars, or there is none). The property
  as it was first stated, that only blanks and missing driver jars make a call fail,
  was not provable: it held in the run because its working directory has an agent.
* `SequenceFacts`: what all these need of numbers and sequences. The library's induction
  theorems cannot be used, so `Upward`, `Downward` and `Onward` are proved from the
  well-foundedness of the numbers, for sets instead of operators; `Forwards` and
  `Backwards` give the functions that recursive definitions choose; `Flattening`,
  `Running` and `PartInWhole` say what a sequence put together from parts is, and where
  each part stands in it.

Only model-checked: all liveness, with the fairness it needs, which is out of the
prover's reach: Settles, Reclaimed, AcquireReturns, Answered, CallsReturn. Every
invariant and every safety property of a passing run is stated by a theorem, for every value of
the constants: none has a hypothesis besides the named assumptions. The findings are
counterexamples of TLC.

## What is not modelled

* `Json.java` and `config.go`: parsing of what the other side produced. The
  headers of REQUEST, RESPONSE and END are records here.
* PING of a live session, SHUTDOWN (which nobody sends) and unknown ops: they
  change no state but the end of the process, which `AgentClient` has at any time.
* Bytes of a number, the text of error messages, column names and types; zone
  offsets below a minute; a Clob or Blob that cannot be read and becomes NULL
  (`ValueCodec.java:38`); a batch of several rows, which the sidecar never writes.
* What SQL text means to a database beyond what both scanners know: `E'...'`
  with a backslash (the disagreement above), dollar-quoted strings, `arr[1:2]`.
* The setter `bind` picks for a kind (`Session.java:68-81`): there is one per kind, and
  `Bound` ends with the kind and the value it is given. A `[]byte` that is nil, which
  `proto.go:122` writes as an empty one: the program reads back an empty value where
  it meant NULL. `columnValue` chooses by the column's SQL type; here by the Java kind
  the driver has for it, which comes to the same for the kinds listed.
* Which argument a placeholder takes: JDBC counts them, so a repeated or unordered
  `$N` gets another one (a hazard without a property).
* `decodeRequestPayload`, used by the fake agent of the tests.
* `logLoop`, which copies stderr; the environment variable for debugging.
* Runtime exceptions of `Statement.cancel`, which would send a RESPONSE for
  request 0.

## Plan

Done: the modules above, their abstract specifications, and the theorems listed,
every safety property of the runs among them. What could follow: `profileKey` with its
unescaped separator and the arguments a repeated `$N` takes, both hazards without a
property, and the headers' JSON (`Json.java`), which the models take as records.
