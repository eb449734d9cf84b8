-------------------------- MODULE RequestsProofs --------------------------
(***************************************************************************)
(* Proof that frames stay whole in the stdin pipe, for any number of       *)
(* goroutines, any calls, any limit of a frame and any pipe.               *)
(***************************************************************************)
EXTENDS Requests, SqlTextProofs

HeldBy(w) == wr[w] = "held"

(* The inductive invariant *)

Types ==
    /\ \A k \in Callers : job[k].size \in Nat
    /\ pc \in [Callers -> {"start", "write", "wait", "done"}]
    /\ wr \in [Writers -> {"none", "lock", "held", "over"}]
    /\ sent \in [Writers -> Nat]
    /\ stdin \in Seq(Writers \X Nat)
    /\ got \in Seq(Writers \X Nat)
    /\ need \in Nat
    /\ proc \in {"up", "dead"}

\* One writer at a time; who has not begun to write has sent nothing.
OneWriter ==
    /\ \A v, w \in Writers : HeldBy(v) /\ HeldBy(w) => v = w
    /\ \A w \in Writers : wr[w] \in {"none", "lock"} => sent[w] = 0

\* A call has its writer while it writes, and its CANCEL only when it is over.
Turns ==
    \A k \in Callers :
        /\ pc[k] = "start" => wr[<<k, "call">>] = "none"
        /\ wr[<<k, "call">>] \in {"lock", "held"} => pc[k] = "write"
        /\ pc[k] # "done" => wr[<<k, "cancel">>] = "none"

Chained == \A i \in 1..(Len(stdin) - 1) : Follows(stdin[i], stdin[i + 1])

\* The last piece in the pipe is the last of its frame, with nobody in the middle
\* of one, or the last its writer, who holds writeMu, has sent.
LastPiece ==
    Alive /\ stdin # <<>> =>
        LET p == stdin[Len(stdin)] IN
        IF p[2] = Pieces(p[1]) THEN \A w \in Writers : HeldBy(w) => sent[w] = 0
        ELSE HeldBy(p[1]) /\ sent[p[1]] = p[2]

\* Main is at a header: the pipe goes on with one.
AtHeader ==
    main = "read" /\ need = 0 =>
        IF stdin = <<>> THEN Alive => \A w \in Writers : HeldBy(w) => sent[w] = 0
        ELSE Head(stdin)[2] = 1

\* Main has read the header of w's frame, and its pieces 2 to Len(got) + 1.
InFrame(w) ==
    /\ need = Payload(w) + 1
    /\ Len(got) < need
    /\ got # <<>> => got[Len(got)] = <<w, Len(got) + 1>>
    /\ IF stdin = <<>> THEN Alive => HeldBy(w) /\ sent[w] = Len(got) + 1
       ELSE Head(stdin) = <<w, Len(got) + 2>>

BehindHeader == main = "read" /\ need # 0 => \E w \in Writers : InFrame(w)

FramesInv ==
    Types /\ OneWriter /\ Turns /\ Chained /\ LastPiece /\ AtHeader /\ BehindHeader

-----------------------------------------------------------------------------

LEMMA FramesInit == Init => FramesInv
  BY RequestsAssumption DEF Init, FramesInv, Types, OneWriter, Turns, Chained, LastPiece, AtHeader,
     BehindHeader, HeldBy, Writers

\* What the invariant is about, but the turns of calls and writers.
pipeVars == <<job, sent, stdin, main, need, got, proc>>

\* Steps that neither take nor give back writeMu leave the pipe as it is.
LEMMA PipeUntouched ==
  ASSUME FramesInv, UNCHANGED pipeVars,
         \A w \in Writers : (wr'[w] = "held") <=> (wr[w] = "held")
  PROVE  Chained' /\ LastPiece' /\ AtHeader' /\ BehindHeader'
<1> USE DEF FramesInv, pipeVars, Alive
<1>1. Chained'
  BY DEF Chained, Follows, Pieces, Payload
<1>2. LastPiece'
  <2> SUFFICES ASSUME Alive, stdin # <<>>
               PROVE  LET p == stdin[Len(stdin)] IN
                      IF p[2] = Pieces(p[1]) THEN \A w \in Writers : HeldBy(w)' => sent[w] = 0
                      ELSE HeldBy(p[1])' /\ sent[p[1]] = p[2]
    BY DEF LastPiece, Pieces, Payload
  <2>1. stdin[Len(stdin)][1] \in Writers
    BY DEF Types
  <2> QED
    BY <2>1 DEF LastPiece, HeldBy
<1>3. AtHeader'
  BY DEF AtHeader, HeldBy
<1>4. BehindHeader'
  BY DEF BehindHeader, InFrame, HeldBy, Payload
<1> QED
  BY <1>1, <1>2, <1>3, <1>4

-----------------------------------------------------------------------------
(* The calls *)

LEMMA BeginKeeps ==
  ASSUME FramesInv, NEW k \in Callers, Begin(k) PROVE FramesInv'
<1> USE DEF FramesInv, Begin, callVars, mainVars, handlerVars
<1> DEFINE w == <<k, "call">>
<1>1. w \in Writers /\ wr[w] = "none" /\ wr' = [wr EXCEPT ![w] = "lock"]
  BY DEF Turns, Writers
<1>2. Types'
  BY <1>1 DEF Types
<1>3. OneWriter'
  BY <1>1 DEF OneWriter, HeldBy, Types
<1>4. Turns'
  <2> SUFFICES ASSUME NEW c \in Callers
               PROVE  /\ pc'[c] = "start" => wr'[<<c, "call">>] = "none"
                      /\ wr'[<<c, "call">>] \in {"lock", "held"} => pc'[c] = "write"
                      /\ pc'[c] # "done" => wr'[<<c, "cancel">>] = "none"
    BY DEF Turns
  <2>1. <<c, "call">> \in Writers /\ <<c, "cancel">> \in Writers
    BY DEF Writers
  <2> QED
    BY <1>1, <2>1 DEF Turns, Types
<1>5. \A v \in Writers : (wr'[v] = "held") <=> (wr[v] = "held")
  BY <1>1 DEF Types
<1> QED
  BY <1>2, <1>3, <1>4, <1>5, PipeUntouched DEF pipeVars

LEMMA TakeWriteMuKeeps ==
  ASSUME FramesInv, NEW w \in Writers, TakeWriteMu(w) PROVE FramesInv'
<1> USE DEF FramesInv, TakeWriteMu, WriteMuFree, callVars, mainVars, handlerVars
<1>1. Types' /\ OneWriter' /\ Turns'
  BY DEF Types, OneWriter, Turns, HeldBy
<1>2. /\ sent[w] = 0
      /\ \A v \in Writers : HeldBy(v)' => v = w
      /\ \A v \in Writers : ~HeldBy(v)
  BY DEF Types, OneWriter, HeldBy
<1>3. stdin # <<>> => stdin[Len(stdin)][1] \in Writers
  BY DEF Types
<1>4. Chained'
  BY DEF Chained, Follows, Pieces, Payload
<1>5. LastPiece'
  BY <1>2, <1>3 DEF LastPiece, Alive, Pieces, Payload
<1>6. AtHeader'
  BY <1>2 DEF AtHeader, Alive
<1>7. BehindHeader'
  BY <1>2 DEF BehindHeader, InFrame, Alive, Payload
<1> QED
  BY <1>1, <1>4, <1>5, <1>6, <1>7

\* The piece continues what the pipe ends with.
LEMMA WritePieceKeeps ==
  ASSUME FramesInv, NEW w \in Writers, WritePiece(w) PROVE FramesInv'
<1> USE DEF FramesInv, WritePiece, mainVars, handlerVars
<1> DEFINE piece == <<w, sent[w] + 1>>
           last  == sent[w] + 1 = Pieces(w)
<1>1. /\ HeldBy(w) /\ Alive /\ proc' = proc /\ job' = job
      /\ stdin' = Append(stdin, piece)
      /\ sent' = [sent EXCEPT ![w] = @ + 1]
      /\ wr' = IF last THEN [wr EXCEPT ![w] = "over"] ELSE wr
      /\ UNCHANGED <<main, need, got>>
  BY DEF HeldBy
<1>2. piece \in Writers \X Nat /\ Pieces(w) \in Nat /\ Pieces(w) > 1
  BY DEF Types, Pieces, Payload, Writers
<1>3. /\ stdin' \in Seq(Writers \X Nat) /\ Len(stdin') = Len(stdin) + 1
      /\ stdin'[Len(stdin')] = piece /\ stdin' # <<>>
      /\ \A i \in 1..Len(stdin) : stdin'[i] = stdin[i]
      /\ Head(stdin') = IF stdin = <<>> THEN piece ELSE Head(stdin)
  BY <1>1, <1>2 DEF Types
<1>4. Types' /\ OneWriter' /\ Turns'
  <2>1. Types'
    BY <1>1, <1>2, <1>3 DEF Types, Writers
  <2>2. OneWriter'
    BY <1>1 DEF Types, OneWriter, HeldBy
  <2>3. Turns'
    <3> SUFFICES ASSUME NEW c \in Callers
                 PROVE  /\ pc'[c] = "start" => wr'[<<c, "call">>] = "none"
                        /\ wr'[<<c, "call">>] \in {"lock", "held"} => pc'[c] = "write"
                        /\ pc'[c] # "done" => wr'[<<c, "cancel">>] = "none"
      BY DEF Turns
    <3> DEFINE a == <<c, "call">>
               b == <<c, "cancel">>
    <3>1. a \in Writers /\ b \in Writers
      BY DEF Writers
    <3>2. /\ wr[w] = "held"
          /\ wr' = IF last THEN [wr EXCEPT ![w] = "over"] ELSE wr
          /\ pc' = IF last /\ w[2] = "call" THEN [pc EXCEPT ![w[1]] = "wait"] ELSE pc
      OBVIOUS
    <3>3. CASE w = a
      BY <3>1, <3>2, <3>3 DEF Turns, Types
    <3>4. CASE w = b
      BY <3>1, <3>2, <3>4 DEF Turns, Types
    <3>5. CASE w # a /\ w # b
      <4>1. w[1] # c \/ w[2] # "call"
        BY <3>5 DEF Writers
      <4> QED
        BY <3>1, <3>2, <3>5, <4>1 DEF Turns, Types
    <3> QED
      BY <3>3, <3>4, <3>5
  <2> QED
    BY <2>1, <2>2, <2>3
<1>5. stdin # <<>> => Follows(stdin[Len(stdin)], piece)
  <2> SUFFICES ASSUME stdin # <<>> PROVE Follows(stdin[Len(stdin)], piece)
    OBVIOUS
  <2>1. stdin[Len(stdin)] \in Writers \X Nat
    BY DEF Types
  <2>2. CASE stdin[Len(stdin)][2] = Pieces(stdin[Len(stdin)][1])
    BY <1>1, <2>1, <2>2 DEF LastPiece, Follows
  <2>3. CASE stdin[Len(stdin)][2] # Pieces(stdin[Len(stdin)][1])
    BY <1>1, <2>1, <2>3 DEF LastPiece, Follows, OneWriter
  <2> QED
    BY <2>2, <2>3
<1>6. Chained'
  <2> SUFFICES ASSUME NEW i \in 1..(Len(stdin') - 1)
               PROVE  Follows(stdin'[i], stdin'[i + 1])
    BY <1>1 DEF Chained, Follows, Pieces, Payload
  <2>1. CASE i = Len(stdin)
    BY <1>3, <1>5, <2>1 DEF Types
  <2>2. CASE i # Len(stdin)
    <3>1. i \in 1..(Len(stdin) - 1) /\ i + 1 \in 1..Len(stdin)
      BY <1>3, <2>2 DEF Types
    <3> QED
      BY <1>3, <3>1 DEF Chained
  <2> QED
    BY <2>1, <2>2
<1>7. LastPiece'
  <2>1. CASE last
    <3>1. \A v \in Writers : wr'[v] # "held"
      BY <1>1, <2>1 DEF OneWriter, HeldBy, Types
    <3>2. piece[2] = Pieces(piece[1])'
      BY <1>1, <2>1 DEF Pieces, Payload
    <3> QED
      BY <1>3, <3>1, <3>2 DEF LastPiece, HeldBy
  <2>2. CASE ~last
    BY <1>1, <1>2, <1>3, <2>2 DEF LastPiece, HeldBy, Types, Pieces, Payload
  <2> QED
    BY <2>1, <2>2
<1>8. AtHeader'
  BY <1>1, <1>3 DEF AtHeader
<1>9. BehindHeader'
  <2> SUFFICES ASSUME main = "read", need # 0 PROVE \E v \in Writers : InFrame(v)'
    BY <1>1 DEF BehindHeader
  <2>1. PICK v \in Writers : InFrame(v)
    BY DEF BehindHeader
  <2>2. CASE stdin = <<>>
    <3>1. v = w /\ sent[w] = Len(got) + 1
      BY <1>1, <2>1, <2>2 DEF InFrame, OneWriter
    <3> QED
      BY <1>1, <1>3, <2>1, <2>2, <3>1 DEF InFrame, Payload, Types
  <2>3. CASE stdin # <<>>
    BY <1>1, <1>3, <2>1, <2>3 DEF InFrame, Payload
  <2> QED
    BY <2>2, <2>3
<1> QED
  BY <1>4, <1>6, <1>7, <1>8, <1>9

\* A writer that meets a dead process leaves the pipe to nobody.
LEMMA WriteFailsKeeps ==
  ASSUME FramesInv, NEW w \in Writers, WriteFails(w) PROVE FramesInv'
<1> USE DEF FramesInv, WriteFails, Return, mainVars, handlerVars
<1>1. /\ wr[w] = "held" /\ ~Alive /\ ~Alive'
      /\ wr' = [wr EXCEPT ![w] = "over"]
      /\ pc' = IF w[2] = "call" THEN [pc EXCEPT ![w[1]] = "done"] ELSE pc
      /\ UNCHANGED pipeVars
  BY DEF Alive, pipeVars
<1>2. Types'
  BY <1>1 DEF Types, Writers, pipeVars
<1>3. OneWriter'
  BY <1>1 DEF OneWriter, HeldBy, Types, pipeVars
<1>4. Turns'
  <2> SUFFICES ASSUME NEW c \in Callers
               PROVE  /\ pc'[c] = "start" => wr'[<<c, "call">>] = "none"
                      /\ wr'[<<c, "call">>] \in {"lock", "held"} => pc'[c] = "write"
                      /\ pc'[c] # "done" => wr'[<<c, "cancel">>] = "none"
    BY DEF Turns
  <2> DEFINE a == <<c, "call">>
             b == <<c, "cancel">>
  <2>1. a \in Writers /\ b \in Writers
    BY DEF Writers
  <2>2. CASE w = a
    BY <1>1, <2>1, <2>2 DEF Turns, Types
  <2>3. CASE w = b
    BY <1>1, <2>1, <2>3 DEF Turns, Types
  <2>4. CASE w # a /\ w # b
    <3>1. w[1] # c \/ w[2] # "call"
      BY <2>4 DEF Writers
    <3> QED
      BY <1>1, <2>1, <2>4, <3>1 DEF Turns, Types
  <2> QED
    BY <2>2, <2>3, <2>4
<1>5. Chained' /\ LastPiece' /\ AtHeader'
  BY <1>1 DEF Chained, LastPiece, AtHeader, Follows, Pieces, Payload, pipeVars
<1>6. BehindHeader'
  BY <1>1 DEF BehindHeader, InFrame, Payload, pipeVars
<1> QED
  BY <1>2, <1>3, <1>4, <1>5, <1>6

\* A call that ends without its CANCEL.
LEMMA ReturnKeeps ==
  ASSUME FramesInv, NEW k \in Callers, pc[k] = "wait",
         pc' = [pc EXCEPT ![k] = "done"], UNCHANGED <<wr, pipeVars>>
  PROVE  FramesInv'
<1> USE DEF FramesInv, pipeVars
<1>1. Types' /\ OneWriter'
  BY DEF Types, OneWriter, HeldBy
<1>2. Turns'
  BY DEF Turns, Types
<1> QED
  BY <1>1, <1>2, PipeUntouched

LEMMA CancelledKeeps ==
  ASSUME FramesInv, NEW k \in Callers, Cancelled(k) PROVE FramesInv'
<1> USE DEF FramesInv, Cancelled, Return, mainVars, handlerVars
<1> DEFINE w == <<k, "cancel">>
<1>1. /\ w \in Writers /\ wr[w] = "none" /\ pc[k] = "wait"
      /\ wr' = [wr EXCEPT ![w] = "lock"] /\ pc' = [pc EXCEPT ![k] = "done"]
  BY DEF Turns, Writers
<1>2. Types'
  BY <1>1 DEF Types
<1>3. OneWriter'
  BY <1>1 DEF OneWriter, HeldBy, Types
<1>4. Turns'
  <2> SUFFICES ASSUME NEW c \in Callers
               PROVE  /\ pc'[c] = "start" => wr'[<<c, "call">>] = "none"
                      /\ wr'[<<c, "call">>] \in {"lock", "held"} => pc'[c] = "write"
                      /\ pc'[c] # "done" => wr'[<<c, "cancel">>] = "none"
    BY DEF Turns
  <2>1. <<c, "call">> \in Writers /\ <<c, "cancel">> \in Writers
    BY DEF Writers
  <2> QED
    BY <1>1, <2>1 DEF Turns, Types
<1>5. \A v \in Writers : (wr'[v] = "held") <=> (wr[v] = "held")
  BY <1>1 DEF Types
<1> QED
  BY <1>2, <1>3, <1>4, <1>5, PipeUntouched DEF pipeVars

-----------------------------------------------------------------------------
(* The sidecar *)

LEMMA TailOne ==
  ASSUME NEW S, NEW s \in Seq(S), s # <<>>, Tail(s) = <<>>
  PROVE  Head(s) = s[Len(s)]
<1> DEFINE n == Len(s)
           t == Len(Tail(s))
<1>1. n \in Nat /\ n > 0 /\ t = n - 1
  OBVIOUS
<1>2. t = 0
  BY Tail(s) = <<>>, Len(<<>>) = 0
<1>3. n = 1
  <2> HIDE DEF n, t
  <2> QED
    BY <1>1, <1>2
<1> QED
  BY <1>3

LEMMA TailMore ==
  ASSUME NEW S, NEW s \in Seq(S), s # <<>>
  PROVE  /\ Tail(s) \in Seq(S) /\ Len(Tail(s)) = Len(s) - 1
         /\ Head(s) = s[1] /\ Head(s) \in S
         /\ \A i \in 1..Len(Tail(s)) : Tail(s)[i] = s[i + 1]
         /\ Tail(s) # <<>> => /\ Len(Tail(s)) > 0 /\ Head(Tail(s)) = s[2]
                              /\ Tail(s)[Len(Tail(s))] = s[Len(s)]
<1> DEFINE t == Tail(s)
           n == Len(s)
<1>1. t \in Seq(S) /\ Len(t) = n - 1 /\ n \in Nat
  OBVIOUS
<1>2. Head(s) = s[1] /\ Head(s) \in S
  OBVIOUS
<1>3. \A i \in 1..Len(t) : t[i] = s[i + 1]
  OBVIOUS
<1>4. ASSUME t # <<>>
      PROVE  Len(t) > 0 /\ Head(t) = t[1]
  <2> HIDE DEF t
  <2> QED
    BY <1>1, <1>4
<1>5. ASSUME t # <<>>
      PROVE  t[1] = s[2] /\ t[Len(t)] = s[n]
  <2>1. 1 \in 1..Len(t) /\ Len(t) \in 1..Len(t) /\ Len(t) + 1 = n
    <3> HIDE DEF t, n
    <3> QED
      BY <1>1, <1>4, <1>5
  <2> HIDE DEF t, n
  <2> QED
    BY <1>3, <2>1
<1> QED
  BY <1>1, <1>2, <1>3, <1>4, <1>5

\* What main finds in the pipe behind the piece it takes.
LEMMA TakePiece ==
  ASSUME FramesInv, stdin # <<>>, stdin' = Tail(stdin), UNCHANGED <<job, wr, sent, proc>>
  PROVE  /\ Chained' /\ LastPiece'
         /\ Head(stdin) \in Writers \X Nat
         /\ stdin' \in Seq(Writers \X Nat)
         /\ stdin' = <<>> => Head(stdin) = stdin[Len(stdin)]
         /\ stdin' # <<>> => Follows(Head(stdin), Head(stdin'))
<1> USE DEF FramesInv
<1> DEFINE S == Writers \X Nat
<1>0. stdin \in Seq(S)
  BY DEF Types
<1>1. /\ stdin' \in Seq(Writers \X Nat) /\ Len(stdin') = Len(stdin) - 1
      /\ \A i \in 1..Len(stdin') : stdin'[i] = stdin[i + 1]
      /\ Head(stdin) = stdin[1] /\ Head(stdin) \in Writers \X Nat
      /\ stdin' # <<>> => Len(stdin') > 0 /\ Head(stdin') = stdin[2]
                          /\ stdin'[Len(stdin')] = stdin[Len(stdin)]
  <2> HIDE DEF S
  <2>1. /\ stdin' \in Seq(S) /\ Len(stdin') = Len(stdin) - 1
        /\ \A i \in 1..Len(stdin') : stdin'[i] = stdin[i + 1]
        /\ Head(stdin) = stdin[1] /\ Head(stdin) \in S
        /\ stdin' # <<>> => Len(stdin') > 0 /\ Head(stdin') = stdin[2]
                            /\ stdin'[Len(stdin')] = stdin[Len(stdin)]
    BY <1>0, TailMore
  <2> QED
    BY <2>1 DEF S
<1>2. Len(stdin) \in Nat
  BY <1>0
<1>3. stdin' = <<>> => Head(stdin) = stdin[Len(stdin)]
  <2> HIDE DEF S
  <2> QED
    BY <1>0, TailOne
<1>4. stdin' # <<>> => Follows(Head(stdin), Head(stdin'))
  <2>1. ASSUME stdin' # <<>> PROVE 1 \in 1..(Len(stdin) - 1)
    BY <1>1, <1>2, <2>1
  <2> QED
    BY <1>1, <2>1 DEF Chained
<1>5. Chained'
  <2> SUFFICES ASSUME NEW i \in 1..(Len(stdin') - 1) PROVE Follows(stdin'[i], stdin'[i + 1])
    BY DEF Chained, Follows, Pieces, Payload
  <2>1. i + 1 \in 1..(Len(stdin) - 1) /\ stdin'[i] = stdin[i + 1] /\ stdin'[i + 1] = stdin[(i + 1) + 1]
    BY <1>1, <1>2
  <2> QED
    BY <2>1 DEF Chained
<1>6. LastPiece'
  BY <1>1 DEF LastPiece, HeldBy, Alive, Pieces, Payload
<1> QED
  BY <1>1, <1>3, <1>4, <1>5, <1>6

LEMMA AppendOne ==
  ASSUME NEW S, NEW s \in Seq(S), NEW e \in S
  PROVE  /\ Append(s, e) \in Seq(S) /\ Append(s, e) # <<>>
         /\ Len(s) \in Nat /\ Len(Append(s, e)) = Len(s) + 1
         /\ Append(s, e)[Len(Append(s, e))] = e
  OBVIOUS

LEMMA FrameLength ==
  ASSUME Types, NEW w \in Writers
  PROVE  Payload(w) \in Nat /\ Pieces(w) = Payload(w) + 2
  BY DEF Types, Payload, Pieces, Writers

LEMMA ReadHeaderKeeps == FramesInv /\ ReadHeader => FramesInv'
<1> SUFFICES ASSUME FramesInv, ReadHeader PROVE FramesInv'
  OBVIOUS
<1> USE DEF FramesInv
<1> DEFINE p == Head(stdin)
<1>1. /\ Alive /\ main = "read" /\ need = 0 /\ stdin # <<>> /\ stdin' = Tail(stdin)
      /\ UNCHANGED <<job, wr, sent, proc, pc>>
      /\ IF TooLong(Length(p)) THEN main' = "gone" /\ UNCHANGED <<need, got>>
         ELSE need' = Length(p) /\ got' = <<>> /\ UNCHANGED main
  BY DEF ReadHeader, callVars, writeVars, handlerVars
<1>2. /\ Chained' /\ LastPiece' /\ p \in Writers \X Nat
      /\ stdin' \in Seq(Writers \X Nat)
      /\ stdin' = <<>> => p = stdin[Len(stdin)]
      /\ stdin' # <<>> => Follows(p, Head(stdin'))
  BY <1>1, TakePiece
<1>3. PICK w \in Writers : p = <<w, 1>>
  BY <1>1, <1>2 DEF AtHeader
<1>4. Payload(w) \in Nat /\ Pieces(w) = Payload(w) + 2
  BY FrameLength
<1>5. OneWriter' /\ Turns'
  BY <1>1 DEF OneWriter, Turns, HeldBy
<1>6. CASE TooLong(Length(p))
  BY <1>1, <1>2, <1>5, <1>6 DEF Types, AtHeader, BehindHeader
<1>7. CASE ~TooLong(Length(p))
  <2>1. need' = Payload(w) + 1 /\ got' = <<>> /\ main' = main
    BY <1>1, <1>3, <1>7 DEF Length
  <2>2. Types' /\ need' # 0
    <3>1. need' \in Nat /\ need' # 0 /\ got' \in Seq(Writers \X Nat)
      BY <1>4, <2>1
    <3> QED
      BY <1>1, <1>2, <3>1 DEF Types
  <2>3. stdin' = <<>> => HeldBy(w) /\ sent[w] = 1
    BY <1>1, <1>2, <1>3, <1>4 DEF LastPiece
  <2>4. stdin' # <<>> => Head(stdin') = <<w, 2>>
    BY <1>2, <1>3, <1>4 DEF Follows
  <2>5. InFrame(w)'
    <3>1. Payload(w)' = Payload(w) /\ Len(got') = 0
      BY <1>1, <2>1 DEF Payload
    <3>2. stdin' = <<>> => HeldBy(w)' /\ sent'[w] = Len(got') + 1
      BY <1>1, <2>3, <3>1 DEF HeldBy
    <3>3. stdin' # <<>> => Head(stdin') = <<w, Len(got') + 2>>
      BY <2>4, <3>1
    <3>4. Len(got') < need' /\ got' = <<>>
      BY <1>4, <2>1, <3>1
    <3> QED
      BY <2>1, <3>1, <3>2, <3>3, <3>4 DEF InFrame
  <2> QED
    <3>1. BehindHeader'
      BY <1>3, <2>5 DEF BehindHeader
    <3>2. AtHeader'
      BY <2>2 DEF AtHeader
    <3> QED
      BY <1>2, <1>5, <2>2, <3>1, <3>2
<1> QED
  BY <1>6, <1>7

LEMMA ReadPieceKeeps == FramesInv /\ ReadPiece => FramesInv'
<1> SUFFICES ASSUME FramesInv, ReadPiece PROVE FramesInv'
  OBVIOUS
<1> USE DEF FramesInv
<1> DEFINE p == Head(stdin)
<1>1. /\ Alive /\ main = "read" /\ need # 0 /\ stdin # <<>> /\ stdin' = Tail(stdin)
      /\ got' = Append(got, p) /\ main' = main
      /\ need' = IF Len(Append(got, p)) = need THEN 0 ELSE need
      /\ UNCHANGED <<job, wr, sent, proc, pc>>
  BY DEF ReadPiece, callVars, writeVars
<1>2. /\ Chained' /\ LastPiece' /\ p \in Writers \X Nat
      /\ stdin' \in Seq(Writers \X Nat)
      /\ stdin' = <<>> => p = stdin[Len(stdin)]
      /\ stdin' # <<>> => Follows(p, Head(stdin'))
  BY <1>1, TakePiece
<1>3. /\ got' \in Seq(Writers \X Nat) /\ got' # <<>>
      /\ Len(got') = Len(got) + 1 /\ got'[Len(got')] = p
  <2>1. got \in Seq(Writers \X Nat)
    BY DEF Types
  <2> HIDE DEF p
  <2>2. /\ Append(got, p) \in Seq(Writers \X Nat) /\ Append(got, p) # <<>>
        /\ Len(Append(got, p)) = Len(got) + 1
        /\ Append(got, p)[Len(Append(got, p))] = p
    <3>1. p \in Writers \X Nat
      BY <1>2
    <3> DEFINE S == Writers \X Nat
    <3>2. got \in Seq(S) /\ p \in S
      BY <2>1, <3>1
    <3> HIDE DEF S
    <3>3. /\ Append(got, p) \in Seq(S) /\ Append(got, p) # <<>>
          /\ Len(Append(got, p)) = Len(got) + 1
          /\ Append(got, p)[Len(Append(got, p))] = p
      BY <3>2, AppendOne
    <3> QED
      BY <3>3 DEF S
  <2> QED
    BY <1>1, <2>2
<1>4. PICK w \in Writers : InFrame(w)
  BY <1>1 DEF BehindHeader
<1>5. /\ p = <<w, Len(got) + 2>> /\ need = Payload(w) + 1 /\ Len(got) < need
      /\ Pieces(w) = Payload(w) + 2 /\ Payload(w) \in Nat /\ Len(got) \in Nat
  <2>1. Len(got) \in Nat
    BY DEF Types
  <2>2. Pieces(w) = Payload(w) + 2 /\ Payload(w) \in Nat
    BY FrameLength
  <2> QED
    BY <1>1, <1>4, <2>1, <2>2 DEF InFrame
<1>6. Types' /\ OneWriter' /\ Turns'
  BY <1>1, <1>2, <1>3 DEF Types, OneWriter, Turns, HeldBy
<1>7. CASE Len(got) + 1 = need
  <2>1. need' = 0 /\ p[2] = Pieces(p[1])
    BY <1>1, <1>3, <1>5, <1>7
  <2>2. stdin' = <<>> => \A v \in Writers : HeldBy(v) => sent[v] = 0
    BY <1>1, <1>2, <2>1 DEF LastPiece
  <2>3. stdin' # <<>> => Head(stdin')[2] = 1
    BY <1>2, <2>1 DEF Follows
  <2>4. AtHeader'
    BY <1>1, <2>2, <2>3 DEF AtHeader, HeldBy
  <2> QED
    BY <1>2, <1>6, <2>1, <2>4 DEF BehindHeader
<1>8. CASE Len(got) + 1 # need
  <2>1. need' = need /\ p[2] # Pieces(p[1])
    BY <1>1, <1>3, <1>5, <1>8
  <2>2. stdin' = <<>> => HeldBy(w) /\ sent[w] = Len(got) + 2
    BY <1>1, <1>2, <1>5, <2>1 DEF LastPiece
  <2>3. stdin' # <<>> => Head(stdin') = <<w, Len(got) + 3>>
    <3>1. p[1] = w /\ p[2] = Len(got) + 2 /\ (Len(got) + 2) + 1 = Len(got) + 3
      BY <1>5
    <3> QED
      BY <1>2, <2>1, <3>1 DEF Follows
  <2>4. InFrame(w)'
    <3>1. Payload(w)' = Payload(w) /\ got'[Len(got')] = <<w, Len(got') + 1>>
      BY <1>1, <1>3, <1>5 DEF Payload
    <3>2. stdin' = <<>> => HeldBy(w)' /\ sent'[w] = Len(got') + 1
      BY <1>1, <1>3, <1>5, <2>2 DEF HeldBy
    <3>3. stdin' # <<>> => Head(stdin') = <<w, Len(got') + 2>>
      BY <1>3, <1>5, <2>3
    <3>4. Len(got') < need' /\ need' = Payload(w) + 1
      BY <1>3, <1>5, <1>8, <2>1
    <3> QED
      BY <3>1, <3>2, <3>3, <3>4 DEF InFrame
  <2> QED
    BY <1>1, <1>2, <1>6, <2>1, <2>4 DEF BehindHeader, AtHeader
<1> QED
  BY <1>7, <1>8

\* The handlers and the end of the process leave the pipe and its writers alone.
LEMMA ElsewhereKeeps ==
  ASSUME FramesInv, UNCHANGED <<pc, wr, job, sent, stdin, main, need, got>>,
         proc' \in {proc, "dead"}
  PROVE  FramesInv'
<1> USE DEF FramesInv
<1>1. Types' /\ OneWriter' /\ Turns'
  BY DEF Types, OneWriter, Turns, HeldBy
<1>2. Alive' => Alive
  BY DEF Alive
<1>3. Chained' /\ LastPiece' /\ AtHeader'
  BY <1>2 DEF Chained, LastPiece, AtHeader, Follows, Pieces, Payload, HeldBy
<1>4. BehindHeader'
  BY <1>2 DEF BehindHeader, InFrame, Payload, HeldBy
<1> QED
  BY <1>1, <1>3, <1>4

-----------------------------------------------------------------------------

LEMMA FramesStep == FramesInv /\ [Next]_vars => FramesInv'
<1> SUFFICES ASSUME FramesInv, [Next]_vars PROVE FramesInv'
  OBVIOUS
<1> USE DEF vars, callVars, writeVars, mainVars, handlerVars, pipeVars
<1>1. CASE \E w \in Writers : Write(w)
  BY <1>1, TakeWriteMuKeeps, WritePieceKeeps, WriteFailsKeeps DEF Write
<1>2. ASSUME NEW k \in Callers, Begin(k) PROVE FramesInv'
  BY <1>2, BeginKeeps
<1>3. ASSUME NEW k \in Callers, Wait(k) PROVE FramesInv'
  <2>1. pc[k] = "wait" /\ pc' = [pc EXCEPT ![k] = "done"] /\ UNCHANGED <<wr, pipeVars>>
    BY <1>3 DEF Wait, Receive, Abandon, Return
  <2> QED
    BY <2>1, ReturnKeeps
<1>4. ASSUME NEW k \in Callers, Cancelled(k) PROVE FramesInv'
  BY <1>4, CancelledKeeps
<1>5. ASSUME NEW k \in Callers, Handler(k) PROVE FramesInv'
  <2>1. UNCHANGED <<pc, wr, job, sent, stdin, main, need, got, proc>>
    BY <1>5 DEF Handler, Execute, Answer
  <2> QED
    BY <2>1, ElsewhereKeeps
<1>6. CASE Main
  BY <1>6, ReadHeaderKeeps, ReadPieceKeeps DEF Main
<1>7. CASE Die
  BY <1>7, ElsewhereKeeps DEF Die
<1>8. CASE Eof
  BY <1>8, ElsewhereKeeps DEF Eof
<1>9. CASE UNCHANGED vars
  BY <1>9, ElsewhereKeeps
<1> QED
  BY <1>1, <1>2, <1>3, <1>4, <1>5, <1>6, <1>7, <1>8, <1>9 DEF Next, Finished

LEMMA FramesInvGives == FramesInv => FramesWhole
<1> SUFFICES ASSUME FramesInv PROVE FramesWhole
  OBVIOUS
<1> USE DEF FramesInv
<1>1. ASSUME main = "read", stdin # <<>>, need # 0, got # <<>>
      PROVE  Follows(got[Len(got)], Head(stdin))
  <2>1. PICK w \in Writers : InFrame(w)
    BY <1>1 DEF BehindHeader
  <2>2. /\ got[Len(got)] = <<w, Len(got) + 1>> /\ Head(stdin) = <<w, Len(got) + 2>>
        /\ Len(got) < Payload(w) + 1 /\ Payload(w) \in Nat /\ Len(got) \in Nat
    <3>1. Len(got) \in Nat
      BY DEF Types
    <3>2. Payload(w) \in Nat
      BY FrameLength
    <3> QED
      BY <1>1, <2>1, <3>1, <3>2 DEF InFrame
  <2> QED
    BY <2>2 DEF Follows, Pieces
<1> QED
  BY <1>1 DEF FramesWhole, Chained, AtHeader

\* Frames are never mixed in the stdin pipe and main never takes a piece for a
\* header that is none, whichever goroutines write calls and CANCELs, wait for
\* room, give up, or find the process dead (writeMu in client.go, proto.go).
THEOREM WholeFrames == Spec => []FramesWhole
<1>1. Init => FramesInv
  BY FramesInit
<1>2. FramesInv /\ [Next]_vars => FramesInv'
  BY FramesStep
<1>3. FramesInv => FramesWhole
  BY FramesInvGives
<1> QED
  BY <1>1, <1>2, <1>3, PTL DEF Spec
-----------------------------------------------------------------------------
(* What a call comes to *)

Limits ==
    /\ Len(stdin) <= PipeCap
    /\ need <= MaxFrame /\ Len(got) <= MaxFrame
    /\ closed \in BOOLEAN /\ main \in {"read", "gone"}
    /\ outcome \in [Callers -> {"none", "ok", "error"}]
    /\ task \in [Callers -> {"none", "queued", "ran", "failed", "over"}]
    /\ inbox \in [Callers -> {"none", "ok", "error"}]
    /\ DOMAIN ran = Callers /\ DOMAIN sql = Callers /\ DOMAIN dest = Callers

\* A writer sends no more than its frame, and has not sent it all before the end.
Written ==
    \A w \in Writers :
        /\ sent[w] <= Pieces(w)
        /\ wr[w] # "over" => sent[w] < Pieces(w)

\* The pieces of a writer are in the pipe in the order it sent them.
Numbered ==
    /\ \A i \in 1..Len(stdin) : stdin[i][2] <= sent[stdin[i][1]]
    /\ \A i, j \in 1..Len(stdin) :
          i < j /\ stdin[i][1] = stdin[j][1] => stdin[i][2] < stdin[j][2]

\* The pieces main has put together are of one writer.
OneFrame == main = "read" /\ need # 0 /\ got # <<>> => got[1][1] = got[Len(got)][1]

\* Main has handed the request of k to the pool: nothing of it is left to read.
Handed(k) ==
    task[k] # "none" =>
        /\ sent[<<k, "call">>] = Pieces(<<k, "call">>)
        /\ \A i \in 1..Len(stdin) : stdin[i][1] # <<k, "call">>

Executed(k) == [text |-> BindRewriter(Adapted(job[k])), args |-> Bound(job[k].args)]

Progress(k) ==
    /\ pc[k] # "done" => outcome[k] = "none"
    /\ pc[k] # "start" => sql[k] = Adapted(job[k])
    /\ task[k] \in {"none", "queued"} => ran[k] = NotRun /\ inbox[k] = "none"
    /\ ran[k] \in {NotRun, Executed(k)}
    /\ task[k] = "ran" \/ inbox[k] = "ok" => ran[k] = Executed(k)
    /\ outcome[k] = "ok" => dest[k] = Delivered(job[k])

CallsInv ==
    /\ job \in Jobs
    /\ FramesInv /\ Limits /\ Written /\ Numbered /\ OneFrame
    /\ \A k \in Callers : Handed(k) /\ Progress(k)

LEMMA CallsInit == Init => CallsInv
<1> SUFFICES ASSUME Init PROVE CallsInv
  OBVIOUS
<1>1. FramesInv
  BY FramesInit
<1>2. Limits
  <2>1. Len(stdin) = 0 /\ Len(got) = 0 /\ 0 <= PipeCap /\ 0 <= MaxFrame
    BY RequestsAssumption DEF Init
  <2>2. Len(stdin) <= PipeCap /\ need <= MaxFrame /\ Len(got) <= MaxFrame
    BY <2>1 DEF Init
  <2> QED
    BY <2>2 DEF Init, Limits
<1>3. Numbered /\ OneFrame
  BY DEF Init, Numbered, OneFrame
<1>4. Written
  BY <1>1, FrameLength DEF Init, Written, FramesInv
<1>5. ASSUME NEW k \in Callers PROVE Handed(k) /\ Progress(k)
  BY DEF Init, Handed, Progress
<1> QED
  BY <1>1, <1>2, <1>3, <1>4, <1>5 DEF CallsInv, Init

\* What the actions are, one by one.
LEMMA ByAction ==
  ASSUME [Next]_vars,
         NEW P,
         \A w \in Writers : TakeWriteMu(w) => P,
         \A w \in Writers : WritePiece(w) => P,
         \A w \in Writers : WriteFails(w) => P,
         \A k \in Callers : Begin(k) => P,
         \A k \in Callers : Receive(k) => P,
         \A k \in Callers : Abandon(k) => P,
         \A k \in Callers : Cancelled(k) => P,
         \A k \in Callers : Execute(k) => P,
         \A k \in Callers : Answer(k) => P,
         ReadHeader => P, ReadPiece => P, Die => P, Eof => P,
         UNCHANGED vars => P
  PROVE  P
  BY DEF Next, Write, Wait, Handler, Main, Finished

LEMMA JobKept == [Next]_vars => job' = job
  BY ByAction DEF vars, TakeWriteMu, WritePiece, WriteFails, Begin, Receive, Abandon, Cancelled,
     Execute, Answer, ReadHeader, ReadPiece, Die, Eof
\* What of the state is about pieces.
LEMMA PiecesKept ==
  ASSUME CallsInv, [Next]_vars, NEW w \in Writers
  PROVE  /\ Pieces(w)' = Pieces(w) /\ Payload(w)' = Payload(w)
         /\ Payload(w) \in Nat /\ Pieces(w) = Payload(w) + 2 /\ sent[w] \in Nat
<1>1. Types
  BY DEF CallsInv, FramesInv
<1> QED
  BY <1>1, JobKept, FrameLength DEF Pieces, Payload, Types

LEMMA WrittenStep == ASSUME CallsInv, [Next]_vars PROVE Written'
<1> SUFFICES ASSUME NEW w \in Writers
             PROVE  sent'[w] <= Pieces(w) /\ (wr'[w] # "over" => sent'[w] < Pieces(w))
  BY PiecesKept DEF Written
<1>1. /\ sent[w] <= Pieces(w) /\ (wr[w] # "over" => sent[w] < Pieces(w))
      /\ sent \in [Writers -> Nat] /\ wr \in [Writers -> {"none", "lock", "held", "over"}]
  BY DEF CallsInv, Written, FramesInv, Types
<1>2. Pieces(w) \in Nat
  BY PiecesKept
<1>3. CASE UNCHANGED <<sent, wr>>
  BY <1>1, <1>3
<1>4. ASSUME NEW v \in Writers, WritePiece(v)
      PROVE  sent'[w] <= Pieces(w) /\ (wr'[w] # "over" => sent'[w] < Pieces(w))
  <2>1. /\ sent' = [sent EXCEPT ![v] = @ + 1]
        /\ wr' = IF sent[v] + 1 = Pieces(v) THEN [wr EXCEPT ![v] = "over"] ELSE wr
        /\ wr[v] = "held"
    BY <1>4 DEF WritePiece
  <2> QED
    BY <1>1, <1>2, <2>1
<1>5. ASSUME NEW v \in Writers, TakeWriteMu(v) \/ WriteFails(v)
      PROVE  sent'[w] <= Pieces(w) /\ (wr'[w] # "over" => sent'[w] < Pieces(w))
  BY <1>1, <1>5 DEF TakeWriteMu, WriteFails
<1>6. ASSUME NEW k \in Callers, Begin(k) \/ Cancelled(k)
      PROVE  sent'[w] <= Pieces(w) /\ (wr'[w] # "over" => sent'[w] < Pieces(w))
  <2>1. PICK v \in Writers : wr' = [wr EXCEPT ![v] = "lock"] /\ wr[v] = "none" /\ sent' = sent
    BY <1>6 DEF Begin, Cancelled, Writers, CallsInv, FramesInv, Turns
  <2> QED
    BY <1>1, <2>1
<1> QED
  BY <1>3, <1>4, <1>5, <1>6, ByAction DEF vars, writeVars, Receive, Abandon, Execute, Answer,
     ReadHeader, ReadPiece, Die, Eof
\* What main takes from the pipe, as far as frames are concerned.
LEMMA TakenPiece ==
  ASSUME CallsInv, ReadHeader \/ ReadPiece
  PROVE  /\ stdin' = Tail(stdin) /\ stdin # <<>> /\ Len(stdin) \in Nat
         /\ Len(stdin') = Len(stdin) - 1 /\ Head(stdin) = stdin[1]
         /\ \A i \in 1..Len(stdin') : stdin'[i] = stdin[i + 1]
         /\ UNCHANGED <<job, wr, sent, pc, proc>>
<1> DEFINE S == Writers \X Nat
<1>1. stdin \in Seq(S)
  BY DEF CallsInv, FramesInv, Types
<1>2. /\ stdin' = Tail(stdin) /\ stdin # <<>> /\ UNCHANGED <<job, wr, sent, pc, proc>>
  BY DEF ReadHeader, ReadPiece, callVars, writeVars, handlerVars
<1> HIDE DEF S
<1>3. /\ Len(Tail(stdin)) = Len(stdin) - 1 /\ Head(stdin) = stdin[1]
      /\ \A i \in 1..Len(Tail(stdin)) : Tail(stdin)[i] = stdin[i + 1]
  BY <1>1, <1>2, TailMore
<1> QED
  BY <1>1, <1>2, <1>3

LEMMA NumberedStep == ASSUME CallsInv, [Next]_vars PROVE Numbered'
<1>1. /\ Numbered /\ sent \in [Writers -> Nat] /\ stdin \in Seq(Writers \X Nat)
  BY DEF CallsInv, FramesInv, Types
<1>2. /\ Len(stdin) \in Nat
      /\ \A i \in 1..Len(stdin) : stdin[i][1] \in Writers /\ stdin[i][2] \in Nat
  BY <1>1
<1>3. CASE UNCHANGED <<sent, stdin>>
  BY <1>1, <1>3 DEF Numbered
<1>4. ASSUME NEW w \in Writers, WritePiece(w) PROVE Numbered'
  <2> DEFINE p == <<w, sent[w] + 1>>
  <2>1. stdin' = Append(stdin, p) /\ sent' = [sent EXCEPT ![w] = @ + 1]
    BY <1>4 DEF WritePiece
  <2>2. p \in Writers \X Nat
    BY <1>1
  <2>3. /\ Len(stdin') = Len(stdin) + 1 /\ stdin'[Len(stdin) + 1] = p
        /\ \A i \in 1..Len(stdin) : stdin'[i] = stdin[i]
    BY <1>1, <2>1, <2>2
  <2>4. p[1] = w /\ p[2] = sent[w] + 1
    OBVIOUS
  <2> HIDE DEF p
  <2>5. \A i \in 1..Len(stdin') : i = Len(stdin) + 1 \/ i \in 1..Len(stdin)
    BY <1>2, <2>3
  <2>6. \A v \in Writers : sent[v] \in Nat /\ sent'[v] \in Nat /\ sent[v] <= sent'[v]
    BY <1>1, <2>1
  <2>7. ASSUME NEW i \in 1..Len(stdin') PROVE stdin'[i][2] <= sent'[stdin'[i][1]]
    <3>1. CASE i = Len(stdin) + 1
      BY <1>1, <2>1, <2>3, <2>4, <3>1
    <3>2. CASE i \in 1..Len(stdin)
      <4>1. stdin'[i] = stdin[i] /\ stdin[i][2] <= sent[stdin[i][1]]
        BY <1>1, <2>3, <3>2 DEF Numbered
      <4> QED
        BY <1>2, <2>6, <3>2, <4>1
    <3> QED
      BY <2>5, <3>1, <3>2
  <2>8. ASSUME NEW i \in 1..Len(stdin'), NEW j \in 1..Len(stdin'), i < j,
               stdin'[i][1] = stdin'[j][1]
        PROVE  stdin'[i][2] < stdin'[j][2]
    <3>1. i \in 1..Len(stdin) /\ stdin'[i] = stdin[i]
      BY <1>2, <2>3, <2>8
    <3>2. CASE j = Len(stdin) + 1
      <4>1. stdin[i][1] = w /\ stdin[i][2] <= sent[w] /\ sent[w] \in Nat
        BY <1>1, <2>3, <2>4, <2>8, <3>1, <3>2 DEF Numbered
      <4> QED
        BY <1>2, <2>3, <2>4, <3>1, <3>2, <4>1
    <3>3. CASE j \in 1..Len(stdin)
      BY <1>1, <2>3, <2>8, <3>1, <3>3 DEF Numbered
    <3> QED
      BY <2>5, <3>2, <3>3
  <2> QED
    BY <2>7, <2>8 DEF Numbered
<1>5. ASSUME ReadHeader \/ ReadPiece PROVE Numbered'
  <2>1. /\ Len(stdin') = Len(stdin) - 1 /\ sent' = sent
        /\ \A i \in 1..Len(stdin') : stdin'[i] = stdin[i + 1] /\ i + 1 \in 1..Len(stdin)
    BY <1>2, <1>5, TakenPiece
  <2>2. \A i \in 1..Len(stdin') : stdin'[i][2] <= sent'[stdin'[i][1]]
    BY <1>1, <2>1 DEF Numbered
  <2>3. ASSUME NEW i \in 1..Len(stdin'), NEW j \in 1..Len(stdin'), i < j,
               stdin'[i][1] = stdin'[j][1]
        PROVE  stdin'[i][2] < stdin'[j][2]
    <3>1. i + 1 < j + 1
      BY <2>3
    <3> QED
      BY <1>1, <2>1, <2>3, <3>1 DEF Numbered
  <2> QED
    BY <2>2, <2>3 DEF Numbered
<1> QED
  BY <1>3, <1>4, <1>5, ByAction DEF vars, writeVars, TakeWriteMu, WriteFails, Begin, Receive,
     Abandon, Cancelled, Execute, Answer, Die, Eof

LEMMA OneFrameStep == ASSUME CallsInv, [Next]_vars PROVE OneFrame'
<1>1. OneFrame /\ got \in Seq(Writers \X Nat) /\ BehindHeader
  BY DEF CallsInv, FramesInv, Types
<1>2. CASE UNCHANGED <<main, need, got>>
  BY <1>1, <1>2 DEF OneFrame
<1>3. CASE ReadHeader
  BY <1>1, <1>3 DEF OneFrame, ReadHeader
<1>4. CASE ReadPiece
  <2> DEFINE p == Head(stdin)
  <2>1. main = "read" /\ need # 0 /\ stdin # <<>> /\ got' = Append(got, p)
    BY <1>4 DEF ReadPiece
  <2>2. PICK w \in Writers : InFrame(w)
    BY <1>1, <2>1 DEF BehindHeader
  <2>3. p = <<w, Len(got) + 2>> /\ p \in Writers \X Nat
    BY <1>1, <2>1, <2>2 DEF InFrame
  <2>4. got # <<>> => got[1][1] = w
    BY <1>1, <2>1, <2>2 DEF InFrame, OneFrame
  <2>5. /\ Len(got') = Len(got) + 1 /\ got'[Len(got')] = p /\ Len(got) \in Nat
        /\ \A i \in 1..Len(got) : got'[i] = got[i]
    BY <1>1, <2>1, <2>3
  <2>6. CASE got = <<>>
    BY <2>5, <2>6 DEF OneFrame
  <2>7. CASE got # <<>>
    <3>1. 1 \in 1..Len(got)
      BY <1>1, <2>7
    <3> QED
      BY <2>3, <2>4, <2>5, <2>7, <3>1 DEF OneFrame
  <2> QED
    BY <2>6, <2>7
<1> QED
  BY <1>2, <1>3, <1>4, ByAction DEF vars, mainVars, TakeWriteMu, WritePiece, WriteFails, Begin,
     Receive, Abandon, Cancelled, Execute, Answer, Die, Eof
\* The piece that completes a frame is the last of the writer its first is of.
LEMMA Completed ==
  ASSUME CallsInv, ReadPiece, NEW frame, frame = Append(got, Head(stdin))
  PROVE  /\ frame[1][1] \in Writers
         /\ Head(stdin)[1] = frame[1][1]
         /\ Len(frame) = need => Head(stdin)[2] = Pieces(frame[1][1])
<1>1. /\ OneFrame /\ got \in Seq(Writers \X Nat) /\ BehindHeader /\ Types
      /\ main = "read" /\ need # 0 /\ stdin # <<>>
  BY DEF CallsInv, FramesInv, Types, ReadPiece
<1>2. PICK w \in Writers : InFrame(w)
  BY <1>1 DEF BehindHeader
<1>3. Head(stdin) = <<w, Len(got) + 2>> /\ need = Payload(w) + 1
  BY <1>1, <1>2 DEF InFrame
<1>4. Payload(w) \in Nat /\ Pieces(w) = Payload(w) + 2
  BY <1>1, FrameLength
<1>5. Len(got) \in Nat /\ Len(frame) = Len(got) + 1
  BY <1>1
<1>6. frame[1][1] = w
  <2>1. CASE got = <<>>
    BY <1>3, <2>1
  <2>2. CASE got # <<>>
    <3>1. 1 \in 1..Len(got)
      BY <1>1, <2>2
    <3>2. frame[1] = got[1]
      BY <1>1, <1>3, <3>1
    <3>3. got[1][1] = w
      BY <1>1, <1>2, <2>2 DEF InFrame, OneFrame
    <3> QED
      BY <3>2, <3>3
  <2> QED
    BY <2>1, <2>2
<1> QED
  BY <1>3, <1>4, <1>5, <1>6

LEMMA HandedStep == ASSUME CallsInv, [Next]_vars, NEW k \in Callers PROVE Handed(k)'
<1> DEFINE w == <<k, "call">>
<1>1. /\ w \in Writers /\ Pieces(w)' = Pieces(w) /\ Pieces(w) \in Nat /\ sent[w] \in Nat
  BY PiecesKept DEF Writers
<1>2. /\ Handed(k) /\ Written /\ Numbered /\ sent \in [Writers -> Nat]
      /\ stdin \in Seq(Writers \X Nat) /\ DOMAIN task = Callers
  BY DEF CallsInv, FramesInv, Types, Limits
<1> SUFFICES ASSUME task'[k] # "none"
             PROVE  sent'[w] = Pieces(w) /\ \A i \in 1..Len(stdin') : stdin'[i][1] # w
  BY <1>1 DEF Handed
<1> HIDE DEF w
<1>3. task[k] # "none" => sent[w] = Pieces(w) /\ \A i \in 1..Len(stdin) : stdin[i][1] # w
  BY <1>2 DEF Handed, w
<1> DEFINE Goal == sent'[w] = Pieces(w) /\ \A i \in 1..Len(stdin') : stdin'[i][1] # w
<1>4. CASE UNCHANGED <<sent, stdin>> /\ task[k] # "none"
  BY <1>3, <1>4
<1>5. ASSUME NEW v \in Writers, WritePiece(v) PROVE Goal
  <2>1. /\ stdin' = Append(stdin, <<v, sent[v] + 1>>) /\ sent' = [sent EXCEPT ![v] = @ + 1]
        /\ task' = task /\ wr[v] = "held"
    BY <1>5 DEF WritePiece, handlerVars
  <2>2. sent[w] = Pieces(w) /\ \A i \in 1..Len(stdin) : stdin[i][1] # w
    BY <1>3, <2>1
  <2>3. v # w
    <3>1. sent[v] < Pieces(v)
      BY <1>2, <2>1 DEF Written
    <3> QED
      BY <1>1, <2>2, <3>1
  <2>4. ASSUME NEW i \in 1..Len(stdin') PROVE stdin'[i][1] # w
    <3>1. CASE i \in 1..Len(stdin)
      BY <1>2, <2>1, <2>2, <3>1
    <3>2. CASE i \notin 1..Len(stdin)
      BY <1>2, <2>1, <2>3, <3>2
    <3> QED
      BY <3>1, <3>2
  <2> QED
    BY <1>2, <2>1, <2>2, <2>3, <2>4
<1>6. ASSUME NEW c \in Callers, Execute(c) \/ Answer(c) PROVE Goal
  <2>1. sent' = sent /\ stdin' = stdin /\ task[k] # "none"
    BY <1>2, <1>6 DEF Execute, Answer, writeVars
  <2> QED
    BY <1>3, <2>1
<1>7. ASSUME ReadHeader \/ ReadPiece, task[k] # "none" PROVE Goal
  <2>1. /\ sent' = sent
        /\ \A i \in 1..Len(stdin') : stdin'[i] = stdin[i + 1] /\ i + 1 \in 1..Len(stdin)
    BY <1>7, TakenPiece
  <2> QED
    BY <1>3, <1>7, <2>1
<1>8. ASSUME ReadPiece, task[k] = "none" PROVE Goal
  <2> DEFINE frame == Append(got, Head(stdin))
  <2>1. Len(frame) = need /\ frame[1][1] = w
    <3>1. task' = IF Len(frame) = need /\ frame[1][1][2] = "call"
                  THEN [task EXCEPT ![frame[1][1][1]] = "queued"] ELSE task
      BY <1>8 DEF ReadPiece
    <3>2. frame[1][1] \in Writers
      BY <1>8, Completed
    <3> HIDE DEF frame
    <3>3. Len(frame) = need /\ frame[1][1][2] = "call" /\ frame[1][1][1] = k
      BY <1>2, <1>8, <3>1
    <3> QED
      BY <3>2, <3>3 DEF Writers, w
  <2>2. Head(stdin)[1] = w /\ Head(stdin)[2] = Pieces(w)
    BY <1>8, <2>1, Completed
  <2>3. /\ sent' = sent /\ Head(stdin) = stdin[1] /\ Len(stdin) \in Nat /\ stdin # <<>>
        /\ Len(stdin') = Len(stdin) - 1
        /\ \A i \in 1..Len(stdin') : stdin'[i] = stdin[i + 1] /\ i + 1 \in 1..Len(stdin)
    BY <1>8, TakenPiece
  <2>4. 1 \in 1..Len(stdin)
    BY <1>2, <2>3
  <2>5. sent[w] = Pieces(w)
    <3>1. Pieces(w) <= sent[w]
      BY <1>2, <2>2, <2>3, <2>4 DEF Numbered
    <3> QED
      BY <1>1, <1>2, <3>1 DEF Written
  <2>6. ASSUME NEW i \in 1..Len(stdin'), stdin'[i][1] = w PROVE FALSE
    <3>1. 1 < i + 1 /\ i + 1 \in 1..Len(stdin) /\ stdin[i + 1][1] = w
      BY <2>3, <2>6
    <3>2. Pieces(w) < stdin[i + 1][2] /\ stdin[i + 1][2] <= sent[w]
      BY <1>2, <2>2, <2>3, <2>4, <3>1 DEF Numbered
    <3>3. stdin[i + 1][2] \in Nat
      BY <1>2, <3>1
    <3> QED
      BY <1>1, <2>5, <3>2, <3>3
  <2> QED
    BY <2>3, <2>5, <2>6
<1>9. UNCHANGED task => task[k] # "none"
  OBVIOUS
<1> QED
  <2>1. ReadHeader => Goal
    BY <1>7, <1>9 DEF ReadHeader, handlerVars
  <2>2. ReadPiece => Goal
    BY <1>7, <1>8
  <2> SUFFICES Goal
    OBVIOUS
  <2> HIDE DEF Goal
  <2>3. UNCHANGED <<sent, stdin, task>> => Goal
    BY <1>4, <1>9 DEF Goal
  <2>4. /\ \A v \in Writers : TakeWriteMu(v) \/ WriteFails(v) => Goal
        /\ \A c \in Callers : Begin(c) \/ Receive(c) \/ Abandon(c) \/ Cancelled(c) => Goal
        /\ Die \/ Eof \/ UNCHANGED vars => Goal
    BY <2>3 DEF vars, writeVars, handlerVars, TakeWriteMu, WriteFails, Begin, Receive, Abandon,
       Cancelled, Die, Eof
  <2> QED
    BY <1>5, <1>6, <2>1, <2>2, <2>4, ByAction
LEMMA LimitsStep == ASSUME CallsInv, [Next]_vars PROVE Limits'
<1>1. /\ Limits /\ BehindHeader /\ Types /\ PipeCap \in Nat /\ MaxFrame \in Nat
      /\ stdin \in Seq(Writers \X Nat) /\ got \in Seq(Writers \X Nat) /\ need \in Nat
  BY RequestsAssumption DEF CallsInv, FramesInv, Types
<1>2. Len(stdin) \in Nat /\ Len(got) \in Nat
  BY <1>1
<1>3. ASSUME NEW w \in Writers, WritePiece(w) PROVE Limits'
  <2>1. stdin' = Append(stdin, <<w, sent[w] + 1>>) /\ Len(stdin) < PipeCap
    BY <1>3 DEF WritePiece
  <2>2. Len(stdin') <= PipeCap
    <3>1. Len(stdin') = Len(stdin) + 1
      BY <1>1, <2>1 DEF Types
    <3> QED
      BY <1>1, <1>2, <2>1, <3>1
  <2> QED
    BY <1>1, <1>3, <2>2 DEF Limits, WritePiece, mainVars, handlerVars
<1>4. ASSUME ReadHeader \/ ReadPiece PROVE Len(stdin') <= PipeCap
  <2>1. Len(stdin') = Len(stdin) - 1
    BY <1>4, TakenPiece
  <2> QED
    BY <1>1, <1>2, <2>1 DEF Limits
<1>5. CASE ReadHeader
  <2> DEFINE n == Length(Head(stdin))
  <2>1. IF TooLong(n) THEN main' = "gone" /\ UNCHANGED <<need, got>>
        ELSE need' = n /\ got' = <<>> /\ UNCHANGED main
    BY <1>5 DEF ReadHeader
  <2>2. need' <= MaxFrame /\ Len(got') <= MaxFrame /\ main' \in {"read", "gone"}
    <3>1. CASE TooLong(n)
      BY <1>1, <2>1, <3>1 DEF Limits
    <3>2. CASE ~TooLong(n)
      <4>1. n <= MaxFrame /\ n >= 1 /\ need' = n /\ got' = <<>> /\ main' = main
        <5>1. n \in Int
          <6>1. Head(stdin) \in Writers \X Nat
            BY <1>1, <1>5 DEF ReadHeader
          <6>2. Payload(Head(stdin)[1]) \in Nat
            BY <1>1, <6>1, FrameLength
          <6> QED
            BY <6>2 DEF Length
        <5> HIDE DEF n
        <5> QED
          BY <1>1, <2>1, <3>2, <5>1 DEF TooLong
      <4>2. Len(got') = 0
        BY <4>1
      <4> QED
        BY <1>1, <4>1, <4>2 DEF Limits
    <3> QED
      BY <3>1, <3>2
  <2> QED
    BY <1>1, <1>4, <1>5, <2>2 DEF Limits, ReadHeader, callVars, handlerVars
<1>6. CASE ReadPiece
  <2> DEFINE frame == Append(got, Head(stdin))
  <2>1. /\ main = "read" /\ need # 0 /\ stdin # <<>> /\ got' = frame
        /\ need' = IF Len(frame) = need THEN 0 ELSE need
        /\ task' = IF Len(frame) = need /\ frame[1][1][2] = "call"
                   THEN [task EXCEPT ![frame[1][1][1]] = "queued"] ELSE task
        /\ UNCHANGED <<outcome, sql, dest, closed, main, ran, inbox>>
    BY <1>6 DEF ReadPiece, callVars
  <2>2. Len(frame) = Len(got) + 1
    BY <1>1, <2>1
  <2> HIDE DEF frame
  <2>3. need' <= MaxFrame /\ Len(got') <= MaxFrame
    <3>1. Len(got) < need /\ need <= MaxFrame
      BY <1>1, <2>1 DEF BehindHeader, InFrame, Limits
    <3> QED
      BY <1>1, <1>2, <2>1, <2>2, <3>1
  <2>4. task' \in [Callers -> {"none", "queued", "ran", "failed", "over"}]
    BY <1>1, <2>1 DEF Limits
  <2> QED
    BY <1>1, <1>4, <1>6, <2>1, <2>3, <2>4 DEF Limits
<1>7. ASSUME NEW k \in Callers, Receive(k) PROVE Limits'
  BY <1>1, <1>7 DEF Limits, Receive, Return, mainVars, handlerVars
<1>8. ASSUME NEW k \in Callers, Abandon(k) \/ Cancelled(k) PROVE Limits'
  BY <1>1, <1>8 DEF Limits, Abandon, Cancelled, Return, mainVars, handlerVars
<1>9. ASSUME NEW w \in Writers, TakeWriteMu(w) \/ WriteFails(w) PROVE Limits'
  BY <1>1, <1>9 DEF Limits, TakeWriteMu, WriteFails, Return, callVars, mainVars, handlerVars
<1>10. ASSUME NEW k \in Callers, Begin(k) PROVE Limits'
  BY <1>1, <1>10 DEF Limits, Begin, mainVars, handlerVars
<1>11. ASSUME NEW k \in Callers, Execute(k) PROVE Limits'
  BY <1>1, <1>11 DEF Limits, Execute, callVars, mainVars
<1>12. ASSUME NEW k \in Callers, Answer(k) PROVE Limits'
  BY <1>1, <1>12 DEF Limits, Answer, callVars, mainVars
<1>13. CASE Die \/ Eof \/ UNCHANGED vars
  BY <1>1, <1>13 DEF Limits, Die, Eof, vars, callVars, mainVars, handlerVars
<1> QED
  BY <1>3, <1>5, <1>6, <1>7, <1>8, <1>9, <1>10, <1>11, <1>12, <1>13, ByAction

\* A call that has not begun has nothing with a handler.
LEMMA NotBegun ==
  ASSUME CallsInv, NEW k \in Callers, pc[k] = "start" PROVE task[k] = "none"
<1>1. Types /\ OneWriter /\ Turns /\ Handed(k)
  BY DEF CallsInv, FramesInv
<1>2. <<k, "call">> \in Writers
  BY DEF Writers
<1>3. sent[<<k, "call">>] = 0
  BY <1>1, <1>2 DEF Turns, OneWriter
<1>4. Pieces(<<k, "call">>) # 0
  BY <1>1, <1>2, FrameLength
<1> QED
  BY <1>1, <1>3, <1>4 DEF Handed

\* The pool gets a request that no handler has had.
LEMMA HandedOnce ==
  ASSUME CallsInv, ReadPiece, NEW k \in Callers, task'[k] # task[k]
  PROVE  task[k] = "none" /\ task'[k] = "queued"
<1> DEFINE frame == Append(got, Head(stdin))
<1>1. /\ task' = IF Len(frame) = need /\ frame[1][1][2] = "call"
                 THEN [task EXCEPT ![frame[1][1][1]] = "queued"] ELSE task
      /\ stdin # <<>>
  BY DEF ReadPiece
<1>2. frame[1][1] \in Writers /\ Head(stdin)[1] = frame[1][1]
  BY Completed
<1>3. DOMAIN task = Callers /\ Handed(k) /\ stdin \in Seq(Writers \X Nat)
  BY DEF CallsInv, Limits, FramesInv, Types
<1> HIDE DEF frame
<1>4. frame[1][1] = <<k, "call">> /\ task'[k] = "queued"
  BY <1>1, <1>2, <1>3 DEF Writers
<1>5. 1 \in 1..Len(stdin) /\ Head(stdin) = stdin[1]
  BY <1>1, <1>3
<1> QED
  BY <1>2, <1>3, <1>4, <1>5 DEF Handed

LEMMA ProgressStep == ASSUME CallsInv, [Next]_vars, NEW k \in Callers PROVE Progress(k)'
<1>1. /\ Progress(k) /\ Limits /\ Types /\ job' = job
      /\ \A j \in Callers : pc[j] = "start" => task[j] = "none"
  BY JobKept, NotBegun DEF CallsInv, FramesInv
<1>2. Executed(k)' = Executed(k) /\ Adapted(job[k])' = Adapted(job[k])
      /\ Delivered(job[k])' = Delivered(job[k])
  BY <1>1 DEF Executed
<1>3. CASE UNCHANGED <<callVars, sql, handlerVars>>
  BY <1>1, <1>2, <1>3 DEF Progress, callVars, handlerVars
<1>4. ASSUME NEW j \in Callers, Begin(j) PROVE Progress(k)'
  <2>1. /\ pc' = [pc EXCEPT ![j] = "write"] /\ sql' = [sql EXCEPT ![j] = Adapted(job[j])]
        /\ UNCHANGED <<outcome, dest, task, ran, inbox>> /\ pc[j] = "start"
    BY <1>4 DEF Begin, handlerVars
  <2> QED
    BY <1>1, <1>2, <2>1 DEF Progress, Limits, Types
<1>5. ASSUME NEW w \in Writers, WritePiece(w) PROVE Progress(k)'
  <2>1. /\ UNCHANGED <<outcome, dest, sql, task, ran, inbox>> /\ wr[w] = "held"
        /\ \/ pc' = [pc EXCEPT ![w[1]] = "wait"] /\ w[2] = "call"
           \/ pc' = pc
    BY <1>5 DEF WritePiece, handlerVars
  <2>2. \A c \in Callers : w = <<c, "call">> => pc[c] = "write"
    BY <2>1 DEF CallsInv, FramesInv, Turns
  <2>3. w[2] = "call" => w = <<w[1], "call">> /\ w[1] \in Callers
    BY DEF Writers
  <2> QED
    BY <1>1, <1>2, <2>1, <2>2, <2>3 DEF Progress, Types
<1>6. ASSUME NEW w \in Writers, WriteFails(w) PROVE Progress(k)'
  <2>1. /\ UNCHANGED <<dest, sql, task, ran, inbox>> /\ wr[w] = "held"
        /\ \/ /\ pc' = [pc EXCEPT ![w[1]] = "done"] /\ w[2] = "call"
              /\ outcome' = [outcome EXCEPT ![w[1]] = "error"]
           \/ UNCHANGED <<pc, outcome>>
    BY <1>6 DEF WriteFails, Return, handlerVars
  <2>2. \A c \in Callers : w = <<c, "call">> => pc[c] = "write"
    BY <2>1 DEF CallsInv, FramesInv, Turns
  <2>3. w[2] = "call" => w = <<w[1], "call">> /\ w[1] \in Callers
    BY DEF Writers
  <2> QED
    BY <1>1, <1>2, <2>1, <2>2, <2>3 DEF Progress, Types, Limits
<1>7. ASSUME NEW j \in Callers, Receive(j) PROVE Progress(k)'
  <2>1. /\ pc' = [pc EXCEPT ![j] = "done"] /\ outcome' = [outcome EXCEPT ![j] = inbox[j]]
        /\ dest' = IF inbox[j] = "ok" THEN [dest EXCEPT ![j] = Delivered(job[j])] ELSE dest
        /\ UNCHANGED <<sql, task, ran, inbox>> /\ pc[j] = "wait"
    BY <1>7 DEF Receive, Return, handlerVars
  <2> QED
    BY <1>1, <1>2, <2>1 DEF Progress, Types, Limits
<1>8. ASSUME NEW j \in Callers, Abandon(j) \/ Cancelled(j) PROVE Progress(k)'
  <2>1. /\ pc' = [pc EXCEPT ![j] = "done"] /\ outcome' = [outcome EXCEPT ![j] = "error"]
        /\ UNCHANGED <<dest, sql, task, ran, inbox>> /\ pc[j] = "wait"
    BY <1>8 DEF Abandon, Cancelled, Return, handlerVars
  <2> QED
    BY <1>1, <1>2, <2>1 DEF Progress, Types, Limits
<1>9. CASE ReadPiece
  <2>1. UNCHANGED <<callVars, sql, ran, inbox>>
    BY <1>9 DEF ReadPiece
  <2>2. task'[k] # task[k] => task[k] = "none" /\ task'[k] = "queued"
    BY <1>9, HandedOnce
  <2> QED
    BY <1>1, <1>2, <2>1, <2>2 DEF Progress, callVars
<1>10. ASSUME NEW j \in Callers, Execute(j) PROVE Progress(k)'
  <2>1. /\ UNCHANGED <<pc, outcome, dest, sql, inbox>> /\ task[j] = "queued"
        /\ \/ /\ ran' = [ran EXCEPT ![j] = [text |-> BindRewriter(sql[j]), args |-> Bound(job[j].args)]]
              /\ task' = [task EXCEPT ![j] = "ran"]
           \/ task' = [task EXCEPT ![j] = "failed"] /\ UNCHANGED ran
    BY <1>10 DEF Execute, callVars
  <2>2. CASE j # k
    BY <1>1, <1>2, <2>1, <2>2 DEF Progress, Limits
  <2>3. CASE j = k
    <3>1. sql[k] = Adapted(job[k])
      BY <1>1, <2>1, <2>3 DEF Progress
    <3> QED
      BY <1>1, <1>2, <2>1, <2>3, <3>1 DEF Progress, Limits, Executed
  <2> QED
    BY <2>2, <2>3
<1>11. ASSUME NEW j \in Callers, Answer(j) PROVE Progress(k)'
  <2>1. PICK o \in {"ok", "error"} :
          /\ o = "ok" => task[j] = "ran"
          /\ inbox' = [inbox EXCEPT ![j] = o]
    BY <1>11 DEF Answer
  <2>2. UNCHANGED <<callVars, sql, ran>> /\ task' = [task EXCEPT ![j] = "over"]
    BY <1>11 DEF Answer
  <2> QED
    BY <1>1, <1>2, <2>1, <2>2 DEF Progress, Limits, callVars
<1> QED
  <2>1. ReadHeader \/ Die \/ Eof \/ UNCHANGED vars => Progress(k)'
    BY <1>3 DEF ReadHeader, Die, Eof, vars
  <2>2. \A w \in Writers : TakeWriteMu(w) => Progress(k)'
    BY <1>3 DEF TakeWriteMu
  <2> QED
    BY <1>4, <1>5, <1>6, <1>7, <1>8, <1>9, <1>10, <1>11, <2>1, <2>2, ByAction

LEMMA CallsStep == CallsInv /\ [Next]_vars => CallsInv'
  BY JobKept, FramesStep, LimitsStep, WrittenStep, NumberedStep, OneFrameStep, HandedStep, ProgressStep
     DEF CallsInv

LEMMA CallsInvGives == CallsInv => TypeOK
<1> SUFFICES ASSUME CallsInv PROVE TypeOK
  OBVIOUS
<1>1. Types /\ Limits /\ Written /\ MaxFrame \in Nat
  BY RequestsAssumption DEF CallsInv, FramesInv
<1>2. \A w \in Writers : sent[w] \in 0..Pieces(w)
  <2> SUFFICES ASSUME NEW w \in Writers PROVE sent[w] \in 0..Pieces(w)
    OBVIOUS
  <2>1. sent[w] \in Nat /\ Pieces(w) \in Nat /\ sent[w] <= Pieces(w)
    BY <1>1, FrameLength DEF Types, Written
  <2> QED
    BY <2>1
<1> QED
  BY <1>1, <1>2 DEF TypeOK, Types, Limits, Piece

\* The state stays within its types and its limits: the pipe, the frame main is in,
\* what each writer has sent of its own.
THEOREM TypeCorrect == Spec => []TypeOK
<1>1. Init => CallsInv
  BY CallsInit
<1>2. CallsInv /\ [Next]_vars => CallsInv'
  BY CallsStep
<1>3. CallsInv => TypeOK
  BY CallsInvGives
<1> QED
  BY <1>1, <1>2, <1>3, PTL DEF Spec
-----------------------------------------------------------------------------
(* The text that is executed *)

\* What the scanners make of the texts the program may send.
LEMMA TextsMeant ==
  ASSUME NEW j \in Jobs, NEW k \in Callers
  PROVE  BindRewriter(Adapted(j[k])) = Meant(j[k].family, j[k].text)
<1>1. j[k].text \in Text
  <2>1. \A s \in Seq(STRING) : s \in Seq(Alphabet)
    BY DEF Alphabet
  <2> QED
    BY <2>1, RequestsAssumption DEF Text
<1> QED
  BY <1>1, TextsKept DEF Adapted

LEMMA ExecutedIs == ASSUME NEW x, NEW y PROVE [text |-> x, args |-> y] # NotRun
<1>1. DOMAIN [text |-> x, args |-> y] # DOMAIN <<>>
  OBVIOUS
<1> QED
  BY <1>1 DEF NotRun

LEMMA CallsInitMaps == Init => Calls!Init
  BY DEF Init, Calls!Init

LEMMA CallsStepMaps ==
  ASSUME CallsInv, [Next]_vars PROVE [Calls!Next]_(Calls!vars)
<1> DEFINE wanted == [k \in Callers |-> Meant(job[k].family, job[k].text)]
           asked  == {k \in Callers : pc[k] # "start"}
           texts  == [k \in Callers |-> IF ran[k] = NotRun THEN <<>> ELSE <<ran[k].text>>]
<1>1. wanted' = wanted
  BY JobKept
<1>2. /\ Limits /\ Types
      /\ \A k \in Callers : Progress(k) /\ (pc[k] = "start" => task[k] = "none")
      /\ \A k \in Callers : Executed(k).text = wanted[k] /\ Executed(k) # NotRun
  BY NotBegun, TextsMeant, ExecutedIs DEF CallsInv, FramesInv, Executed
<1> HIDE DEF wanted
<1> DEFINE Step == [Calls!Next]_(Calls!vars)
<1> SUFFICES Step
  OBVIOUS
<1>3. CASE UNCHANGED <<asked, texts, outcome>>
  BY <1>1, <1>3 DEF Calls!vars, wanted
<1>4. ASSUME NEW k \in Callers, Begin(k) PROVE Step
  <2>1. /\ pc[k] = "start" /\ pc' = [pc EXCEPT ![k] = "write"] /\ UNCHANGED <<ran, outcome>>
    BY <1>4 DEF Begin, handlerVars
  <2>2. k \notin asked /\ asked' = asked \cup {k} /\ texts' = texts
    BY <1>2, <2>1 DEF Types
  <2>3. Calls!Ask(k)
    BY <1>1, <2>1, <2>2 DEF Calls!Ask, wanted
  <2> QED
    BY <2>3 DEF Calls!Next
<1>5. ASSUME NEW k \in Callers, k \in asked, outcome[k] = "none", NEW o \in {"ok", "error"},
             outcome' = [outcome EXCEPT ![k] = o], o = "ok" => texts[k] # <<>>,
             UNCHANGED <<asked, texts>>
      PROVE  Step
  <2>1. Calls!Return(k)
    BY <1>1, <1>5 DEF Calls!Return, wanted
  <2> QED
    BY <2>1 DEF Calls!Next
<1>6. ASSUME NEW w \in Writers, WritePiece(w) \/ TakeWriteMu(w) PROVE Step
  <2>1. UNCHANGED <<ran, outcome>> /\ (wr[w] = "held" \/ pc' = pc)
        /\ (pc' = pc \/ (pc' = [pc EXCEPT ![w[1]] = "wait"] /\ w[2] = "call"))
    BY <1>6 DEF WritePiece, TakeWriteMu, handlerVars, callVars
  <2>2. wr[w] = "held" => \A c \in Callers : w = <<c, "call">> => pc[c] = "write"
    BY DEF CallsInv, FramesInv, Turns
  <2>3. w[2] = "call" => w = <<w[1], "call">> /\ w[1] \in Callers
    BY DEF Writers
  <2>4. UNCHANGED <<asked, texts, outcome>>
    BY <1>2, <2>1, <2>2, <2>3 DEF Types
  <2> QED
    BY <1>3, <2>4
<1>7. ASSUME NEW w \in Writers, WriteFails(w) PROVE Step
  <2>1. UNCHANGED ran /\ wr[w] = "held"
        /\ \/ /\ pc' = [pc EXCEPT ![w[1]] = "done"] /\ w[2] = "call"
              /\ outcome' = [outcome EXCEPT ![w[1]] = "error"]
           \/ UNCHANGED <<pc, outcome>>
    BY <1>7 DEF WriteFails, Return, handlerVars
  <2>2. \A c \in Callers : w = <<c, "call">> => pc[c] = "write"
    BY <2>1 DEF CallsInv, FramesInv, Turns
  <2>3. w[2] = "call" => w = <<w[1], "call">> /\ w[1] \in Callers
    BY DEF Writers
  <2>4. CASE UNCHANGED <<pc, outcome>>
    BY <1>3, <2>1, <2>4
  <2>5. CASE /\ pc' = [pc EXCEPT ![w[1]] = "done"] /\ w[2] = "call"
             /\ outcome' = [outcome EXCEPT ![w[1]] = "error"]
    <3>1. w[1] \in Callers /\ pc[w[1]] = "write" /\ outcome[w[1]] = "none"
      BY <1>2, <2>2, <2>3, <2>5 DEF Progress
    <3>2. UNCHANGED <<asked, texts>> /\ w[1] \in asked
      BY <1>2, <2>1, <2>5, <3>1 DEF Types
    <3> QED
      BY <1>5, <2>5, <3>1, <3>2
  <2> QED
    BY <2>1, <2>4, <2>5
<1>8. ASSUME NEW k \in Callers, Receive(k) \/ Abandon(k) \/ Cancelled(k) PROVE Step
  <2>1. PICK o \in {"ok", "error"} :
          /\ outcome' = [outcome EXCEPT ![k] = o]
          /\ o = "ok" => inbox[k] = "ok"
    BY <1>2, <1>8 DEF Receive, Abandon, Cancelled, Return, Limits
  <2>2. pc[k] = "wait" /\ pc' = [pc EXCEPT ![k] = "done"] /\ UNCHANGED ran
    BY <1>8 DEF Receive, Abandon, Cancelled, Return, handlerVars
  <2>3. UNCHANGED <<asked, texts>> /\ k \in asked /\ outcome[k] = "none"
    BY <1>2, <2>2 DEF Types, Progress
  <2>4. o = "ok" => texts[k] # <<>>
    BY <1>2, <2>1 DEF Progress
  <2> QED
    BY <1>5, <2>1, <2>3, <2>4
<1>9. ASSUME NEW k \in Callers, Execute(k) PROVE Step
  <2>1. task[k] = "queued" /\ UNCHANGED <<pc, outcome, job, sql>>
    BY <1>9 DEF Execute, callVars
  <2>2. k \in asked /\ ran[k] = NotRun /\ sql[k] = Adapted(job[k])
    BY <1>2, <2>1 DEF Progress
  <2>3. CASE UNCHANGED ran
    BY <1>3, <2>1, <2>3
  <2>4. CASE ran' = [ran EXCEPT ![k] = [text |-> BindRewriter(sql[k]), args |-> Bound(job[k].args)]]
    <3>1. texts' = [texts EXCEPT ![k] = <<wanted[k]>>] /\ texts[k] = <<>>
      BY <1>2, <2>2, <2>4 DEF Limits, Executed
    <3>2. Calls!Execute(k)
      BY <1>1, <2>1, <2>2, <3>1 DEF Calls!Execute, wanted
    <3> QED
      BY <3>2 DEF Calls!Next
  <2> QED
    BY <1>9, <2>3, <2>4 DEF Execute
<1>10. ASSUME NEW k \in Callers, Answer(k) PROVE Step
  BY <1>3, <1>10 DEF Answer, callVars
<1>11. ReadHeader \/ ReadPiece \/ Die \/ Eof \/ UNCHANGED vars => Step
  BY <1>3 DEF ReadHeader, ReadPiece, Die, Eof, vars, callVars, handlerVars
<1> HIDE DEF Step
<1> QED
  BY <1>4, <1>6, <1>7, <1>8, <1>9, <1>10, <1>11, ByAction

\* A call is executed at most once, with the text the program meant, and never
\* before it was made; success is reported only for an execution and an outcome
\* never changes, for any texts, goroutines, frames, pipe and failures.
THEOREM CallsKept == Spec => KeepsCalls
<1>1. Init => CallsInv /\ Calls!Init
  BY CallsInit, CallsInitMaps
<1>2. CallsInv /\ [Next]_vars => CallsInv' /\ [Calls!Next]_(Calls!vars)
  BY CallsStep, CallsStepMaps
<1> QED
  BY <1>1, <1>2, PTL DEF Spec, KeepsCalls, Calls!CallsSpec
=============================================================================
