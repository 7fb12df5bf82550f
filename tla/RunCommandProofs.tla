-------------------------- MODULE RunCommandProofs --------------------------
(***************************************************************************)
(* Theorems about one call of the command runner, for any number of lines  *)
(* and any size of the pipe.                                               *)
(***************************************************************************)
EXTENDS RunCommand, TLAPS

-----------------------------------------------------------------------------
(* Where the caller, the command and the waiter can be together.  Nothing  *)
(* here depends on the text.                                               *)

ControlOK ==
    /\ api \in {"RunFatal", "RunGetOutput", "RunPipe"}
    /\ at \in {"start", "select", "killed", "drain", "drainLate", "returned"}
    /\ result \in {"none", "ok", "ignored", "failed", "timeout", "notStarted", "exit"}
    /\ proc \in {"ready", "running", "killed", "succeeded", "failed"}
    /\ waiter \in {"none", "waiting", "sending", "ended"}
    /\ beat \in {"off", "waiting", "printing", "ended"}

\* The command runs from the start of the call on, unless it never started.
StartedOnce ==
    /\ at = "start" => proc = "ready"
    /\ at \in {"select", "killed", "drain", "drainLate"} => proc # "ready"
    /\ at # "returned" => result = "none"

\* The waiter reports a command that has ended, and RunPipe drains after it.
WaiterTellsTheTruth ==
    /\ waiter \in {"sending", "ended"} => Ended
    /\ at = "drain" => Ended

CallInv == ControlOK /\ StartedOnce /\ WaiterTellsTheTruth

LEMMA VerdictIsOne ==
  ASSUME NEW failure
  PROVE  /\ proc = "succeeded" => Verdict(failure) = "ok"
         /\ proc # "succeeded" => Verdict(failure) \in {"ignored", failure}
BY DEF Verdict

LEMMA CallInit == Init => CallInv
BY DEF Init, CallInv, ControlOK, StartedOnce, WaiterTellsTheTruth, Ended

LEMMA CallNext ==
  ASSUME CallInv, [Next]_vars
  PROVE  CallInv'
<1> USE DEF CallInv, ControlOK, StartedOnce, WaiterTellsTheTruth, Ended, call, command, reading
<1>1. CASE Write \/ Exit \/ ChildExits
  BY <1>1 DEF Write, Exit, ChildExits
<1>2. CASE Reader
  BY <1>2 DEF Reader, Reads, Copy, Fill, TooLong, Load, Store, EndOfFile
<1>3. CASE Waiter
  BY <1>3 DEF Waiter, WaitBuffered, WaitPipes
<1>4. CASE Beat \/ BeatPrints \/ BeatEnds
  BY <1>4 DEF Beat, BeatPrints, BeatEnds
<1>5. CASE Caller
  <2>1. CASE StartFails \/ StartBuffered \/ StartPipe
    BY <2>1 DEF StartFails, StartBuffered, StartPipe
  <2>2. CASE FatalReceives
    BY <2>2, VerdictIsOne DEF FatalReceives
  <2>3. CASE OutputReceives
    BY <2>3, VerdictIsOne DEF OutputReceives
  <2>4. CASE PipeReceives \/ TimedOut
    BY <2>4 DEF PipeReceives, TimedOut
  <2>5. CASE PipeReturns
    BY <2>5, VerdictIsOne DEF PipeReturns
  <2> QED BY <1>5, <2>1, <2>2, <2>3, <2>4, <2>5 DEF Caller
<1>6. CASE Timeout
  BY <1>6 DEF Timeout
<1>7. CASE UNCHANGED vars
  BY <1>7 DEF vars
<1> QED BY <1>1, <1>2, <1>3, <1>4, <1>5, <1>6, <1>7 DEF Next

THEOREM CallInvariant == Spec => []CallInv
BY CallInit, CallNext, PTL DEF Spec

-----------------------------------------------------------------------------
(* The detailed call implements the abstract one. *)

LEMMA PromiseInit == Init => Promise!Init
BY DEF Init, Promise!Init

LEMMA PromiseNext ==
  ASSUME CallInv, [Next]_vars
  PROVE  [Promise!Next]_(Promise!vars)
<1> USE DEF CallInv, ControlOK, StartedOnce, WaiterTellsTheTruth, Ended, Promise!vars,
            call, command, reading
<1>1. CASE Write \/ ChildExits \/ Beat \/ BeatPrints \/ BeatEnds
  BY <1>1 DEF Write, ChildExits, Beat, BeatPrints, BeatEnds
<1>2. CASE Exit
  <2>1. Promise!Finish
    BY <1>2 DEF Exit, Promise!Finish
  <2> QED BY <2>1 DEF Promise!Next
<1>3. CASE Reader
  BY <1>3 DEF Reader, Reads, Copy, Fill, TooLong, Load, Store, EndOfFile
<1>4. CASE Waiter
  BY <1>4 DEF Waiter, WaitBuffered, WaitPipes
<1>5. CASE Caller
  <2>1. CASE StartFails
    BY <2>1 DEF StartFails, Promise!Next, Promise!Return, Promise!Verdicts
  <2>2. CASE StartBuffered \/ StartPipe
    <3>1. Promise!Launch
      BY <2>2 DEF StartBuffered, StartPipe, Promise!Launch
    <3> QED BY <3>1 DEF Promise!Next
  <2>3. CASE FatalReceives \/ OutputReceives
    BY <2>3, VerdictIsOne
    DEF FatalReceives, OutputReceives, Promise!Next, Promise!Return, Promise!Verdicts
  <2>4. CASE PipeReceives
    BY <2>4 DEF PipeReceives
  <2>5. CASE TimedOut
    BY <2>5 DEF TimedOut, Promise!Next, Promise!Return, Promise!Verdicts
  <2>6. CASE PipeReturns
    BY <2>6, VerdictIsOne
    DEF PipeReturns, Promise!Next, Promise!Return, Promise!Verdicts
  <2> QED BY <1>5, <2>1, <2>2, <2>3, <2>4, <2>5, <2>6 DEF Caller
<1>6. CASE Timeout
  BY <1>6 DEF Timeout
<1>7. CASE UNCHANGED vars
  BY <1>7 DEF vars
<1> QED BY <1>1, <1>2, <1>3, <1>4, <1>5, <1>6, <1>7 DEF Next

\* Every call keeps the safety part of the promise of CommandCall: the command
\* is started at most once, the call returns at most once, and what it returns
\* is a verdict that the state of the command allows.
THEOREM CallKeepsPromise ==
  Spec => Promise!Init /\ [][Promise!Next]_(Promise!vars)
BY PromiseInit, PromiseNext, CallInvariant, PTL DEF Spec

-----------------------------------------------------------------------------
(* What the readers hold are numbers of lines that were written, and a     *)
(* reader of RunPipe gives up before the command does only at a long line. *)

LineNumbers ==
    /\ log \in Seq(Line)
    /\ pipe \in [Stream -> Seq(1 .. Len(log))]
    /\ hand \in [Stream -> Seq(1 .. Len(log))]

LongLine == \E i \in 1 .. Len(log) : log[i].kind = "long"

ReadersOK ==
    /\ reader \in [Stream -> {"idle", "storing", "ended"}]
    /\ snap = [s \in Stream |-> snap[s]]
    /\ \A s \in Stream : reader[s] = "storing" => hand[s] # <<>> /\ api = "RunPipe"

GivesUpAtLongLine ==
    /\ proc = "ready" => ReadersEnded
    /\ \A s \in Stream :
         api = "RunPipe" /\ proc # "ready" /\ reader[s] = "ended" => Ended \/ LongLine

WaitsForReaders ==
    /\ at = "killed" => api # "RunPipe"
    /\ at \in {"drain", "drainLate"} => api = "RunPipe"
    /\ api = "RunPipe" /\ at = "returned" =>
         ReadersEnded /\ (proc = "ready" => result = "notStarted")

ReaderInv == CallInv /\ LineNumbers /\ ReadersOK /\ GivesUpAtLongLine /\ WaitsForReaders

LEMMA MoreNumbers ==
  ASSUME NEW m \in Nat, NEW n \in Nat, m <= n
  PROVE  Seq(1 .. m) \subseteq Seq(1 .. n)
<1>1. ASSUME NEW q \in Seq(1 .. m) PROVE q \in Seq(1 .. n)
  <2>1. q \in [1 .. Len(q) -> 1 .. m] /\ Len(q) \in Nat
    OBVIOUS
  <2>2. q \in [1 .. Len(q) -> 1 .. n]
    BY <2>1
  <2> QED BY <2>1, <2>2
<1> QED BY <1>1

LEMMA WriteNumbers ==
  ASSUME LineNumbers, Write
  PROVE  LineNumbers' /\ (LongLine => LongLine')
<1>1. PICK s \in Stream, k \in Kind :
        /\ log' = Append(log, [stream |-> s, kind |-> k])
        /\ pipe' = [pipe EXCEPT ![Into(s)] = Append(@, Len(log'))]
  BY DEF Write
<1>2. /\ log' \in Seq(Line) /\ Len(log') = Len(log) + 1 /\ Len(log) \in Nat
      /\ \A i \in 1 .. Len(log) : log'[i] = log[i]
  BY <1>1 DEF LineNumbers, Line
<1>3. Seq(1 .. Len(log)) \subseteq Seq(1 .. Len(log'))
  BY <1>2, MoreNumbers
<1>4. Into(s) \in Stream
  BY DEF Into, Stream
<1>5. Append(pipe[Into(s)], Len(log')) \in Seq(1 .. Len(log'))
  <2>1. pipe[Into(s)] \in Seq(1 .. Len(log')) /\ Len(log') \in 1 .. Len(log')
    BY <1>2, <1>3, <1>4 DEF LineNumbers
  <2> QED BY <2>1
<1>6. pipe' \in [Stream -> Seq(1 .. Len(log'))]
  BY <1>1, <1>3, <1>5 DEF LineNumbers
<1>7. hand' \in [Stream -> Seq(1 .. Len(log'))]
  BY <1>3 DEF LineNumbers, Write, reading
<1>8. LongLine => LongLine'
  BY <1>2 DEF LongLine
<1> QED BY <1>2, <1>6, <1>7, <1>8 DEF LineNumbers

LEMMA FillNumbers ==
  ASSUME LineNumbers, NEW s \in Stream, Fill(s)
  PROVE  LineNumbers'
<1>1. PICK k \in 1 .. Len(pipe[s]) :
        /\ hand' = [hand EXCEPT ![s] = SubSeq(pipe[s], 1, k)]
        /\ pipe' = [pipe EXCEPT ![s] = SubSeq(@, k + 1, Len(@))]
  BY DEF Fill
<1>2. pipe[s] \in Seq(1 .. Len(log)) /\ log' = log
  BY DEF LineNumbers, Fill, command
<1>3. /\ SubSeq(pipe[s], 1, k) \in Seq(1 .. Len(log))
      /\ SubSeq(pipe[s], k + 1, Len(pipe[s])) \in Seq(1 .. Len(log))
  BY <1>2
<1> QED BY <1>1, <1>2, <1>3 DEF LineNumbers

LEMMA ReaderInit == Init => ReaderInv
<1> SUFFICES ASSUME Init PROVE ReaderInv
  OBVIOUS
<1>1. \A S : <<>> \in Seq(S)
  OBVIOUS
<1>2. LineNumbers
  BY <1>1 DEF Init, LineNumbers
<1>3. ReadersOK /\ GivesUpAtLongLine /\ WaitsForReaders
  BY DEF Init, ReadersOK, GivesUpAtLongLine, WaitsForReaders, ReadersEnded
<1> QED BY <1>2, <1>3, CallInit DEF ReaderInv

LEMMA NumbersNext ==
  ASSUME ReaderInv, [Next]_vars
  PROVE  LineNumbers' /\ (LongLine => LongLine')
<1> USE DEF call, command, reading
<1>0. \A q \in Seq(1 .. Len(log)) : q # <<>> => Tail(q) \in Seq(1 .. Len(log))
  OBVIOUS
<1>1. CASE Write
  BY <1>1, WriteNumbers DEF ReaderInv
<1>2. CASE \E s \in Stream : Fill(s)
  BY <1>2, FillNumbers DEF ReaderInv, Fill, LongLine
<1>3. CASE \E s \in Stream : Store(s)
  <2>1. PICK s \in Stream : Store(s)
    BY <1>3
  <2>2. hand[s] # <<>> /\ hand[s] \in Seq(1 .. Len(log))
    BY <2>1 DEF Store, ReaderInv, ReadersOK, LineNumbers
  <2>3. Tail(hand[s]) \in Seq(1 .. Len(log))
    BY <2>2, <1>0
  <2> QED BY <2>1, <2>3 DEF Store, ReaderInv, LineNumbers, LongLine
<1>4. CASE Copy \/ \E s \in Stream : TooLong(s)
  <2>1. <<>> \in Seq(1 .. Len(log))
    OBVIOUS
  <2> QED BY <1>4, <2>1 DEF Copy, TooLong, ReaderInv, LineNumbers, LongLine
<1>5. CASE WaitPipes
  <2>1. <<>> \in Seq(1 .. Len(log))
    OBVIOUS
  <2> QED BY <1>5, <2>1 DEF WaitPipes, ReaderInv, LineNumbers, LongLine
<1>6. CASE UNCHANGED <<log, pipe, hand>>
  BY <1>6 DEF ReaderInv, LineNumbers, LongLine
<1>7. \/ Write \/ Copy \/ WaitPipes \/ UNCHANGED <<log, pipe, hand>>
      \/ \E s \in Stream : Fill(s) \/ Store(s) \/ TooLong(s)
  <2>1. CASE Reader
    BY <2>1 DEF Reader, Reads, Load, EndOfFile
  <2>2. CASE Caller
    BY <2>2 DEF Caller, StartFails, StartBuffered, StartPipe, FatalReceives, OutputReceives,
                PipeReceives, TimedOut, PipeReturns
  <2> QED BY <2>1, <2>2
       DEF Next, vars, Exit, ChildExits, Waiter, WaitBuffered, Beat, BeatPrints, BeatEnds, Timeout
<1> QED BY <1>1, <1>2, <1>3, <1>4, <1>5, <1>6, <1>7

LEMMA ReadersNext ==
  ASSUME ReaderInv, [Next]_vars
  PROVE  ReadersOK'
<1> USE DEF ReaderInv, CallInv, ControlOK, ReadersOK, call, command, reading
<1>1. CASE \E s \in Stream : Fill(s)
  <2>1. PICK s \in Stream : Fill(s)
    BY <1>1
  <2> QED BY <2>1 DEF Fill, LineNumbers
<1>2. CASE \E s \in Stream : TooLong(s) \/ Load(s) \/ Store(s) \/ EndOfFile(s)
  <2>1. CASE \E s \in Stream : TooLong(s) \/ EndOfFile(s)
    <3>1. PICK r \in Stream : TooLong(r) \/ EndOfFile(r)
      BY <2>1
    <3>2. reader' = [reader EXCEPT ![r] = "ended"] /\ snap' = snap /\ api' = api
      BY <3>1 DEF TooLong, EndOfFile
    <3>3. \A o \in Stream \ {r} : hand'[o] = hand[o]
      BY <3>1 DEF TooLong, EndOfFile, LineNumbers
    <3> QED BY <3>2, <3>3
  <2>2. CASE \E s \in Stream : Load(s)
    <3>1. PICK s \in Stream : Load(s)
      BY <2>2
    <3>2. hand' = hand /\ api' = api /\ api = "RunPipe" /\ hand[s] # <<>>
      BY <3>1 DEF Load
    <3>3. reader' = [reader EXCEPT ![s] = "storing"]
      BY <3>1 DEF Load
    <3>4. PICK seen : snap' = [snap EXCEPT ![s] = seen]
      BY <3>1 DEF Load
    <3>5. snap' = [r \in Stream |-> snap'[r]]
      BY <3>4
    <3> QED BY <3>2, <3>3, <3>5
  <2>3. CASE \E s \in Stream : Store(s)
    <3>1. PICK s \in Stream : Store(s)
      BY <2>3
    <3>2. reader' \in [Stream -> {"idle", "storing", "ended"}] /\ reader'[s] = "idle"
      BY <3>1 DEF Store
    <3>3. snap' = [r \in Stream |-> snap'[r]]
      BY <3>1 DEF Store
    <3>4. \A r \in Stream \ {s} : reader'[r] = reader[r] /\ hand'[r] = hand[r]
      BY <3>1 DEF Store, LineNumbers
    <3>5. api' = api
      BY <3>1 DEF Store
    <3> QED BY <3>2, <3>3, <3>4, <3>5
  <2> QED BY <1>2, <2>1, <2>2, <2>3
<1>3. CASE Copy
  BY <1>3 DEF Copy, LineNumbers
<1>4. CASE Caller
  BY <1>4 DEF Caller, StartFails, StartBuffered, StartPipe, FatalReceives, OutputReceives,
              PipeReceives, TimedOut, PipeReturns, Stream
<1>5. CASE ~Reader /\ ~Caller
  BY <1>5 DEF Next, vars, Write, Exit, ChildExits, Waiter, WaitBuffered, WaitPipes,
              Beat, BeatPrints, BeatEnds, Timeout
<1> QED BY <1>1, <1>2, <1>3, <1>4, <1>5 DEF Reader, Reads

LEMMA GivesUpNext ==
  ASSUME ReaderInv, [Next]_vars
  PROVE  GivesUpAtLongLine' /\ WaitsForReaders'
<1> USE DEF ReaderInv, CallInv, ControlOK, StartedOnce, WaiterTellsTheTruth, Ended,
            ReadersEnded, GivesUpAtLongLine, WaitsForReaders, call, command, reading
<1>1. LongLine => LongLine'
  BY NumbersNext
<1>2. CASE \E s \in Stream : TooLong(s)
  <2>1. PICK s \in Stream : TooLong(s)
    BY <1>2
  <2>2. hand[s] \in Seq(1 .. Len(log)) /\ hand[s] # <<>>
    BY <2>1 DEF TooLong, LineNumbers
  <2>3. Head(hand[s]) \in 1 .. Len(log)
    BY <2>2
  <2>4. LongLine
    BY <2>1, <2>3 DEF TooLong, LongLine
  <2> QED BY <2>1, <2>4, <1>1 DEF TooLong, ReadersOK
<1>3. CASE Copy \/ \E s \in Stream : Fill(s) \/ Load(s) \/ Store(s) \/ EndOfFile(s)
  BY <1>3, <1>1 DEF Copy, Fill, Load, Store, EndOfFile, ReadersOK
<1>4. CASE StartFails \/ StartBuffered \/ StartPipe
  BY <1>4, <1>1 DEF StartFails, StartBuffered, StartPipe, ReadersOK, Stream
<1>5. CASE FatalReceives \/ OutputReceives \/ PipeReceives \/ TimedOut \/ PipeReturns
  BY <1>5, <1>1 DEF FatalReceives, OutputReceives, PipeReceives, TimedOut, PipeReturns
<1>6. CASE Write \/ Exit \/ ChildExits \/ Timeout
  BY <1>6, <1>1 DEF Write, Exit, ChildExits, Timeout
<1>7. CASE Waiter \/ Beat \/ BeatPrints \/ BeatEnds \/ UNCHANGED vars
  BY <1>7, <1>1 DEF Waiter, WaitBuffered, WaitPipes, Beat, BeatPrints, BeatEnds, vars
<1> QED BY <1>2, <1>3, <1>4, <1>5, <1>6, <1>7 DEF Next, Reader, Reads, Caller

THEOREM ReaderInvariant == Spec => []ReaderInv
<1>1. ReaderInv /\ [Next]_vars => ReaderInv'
  BY CallNext, NumbersNext, ReadersNext, GivesUpNext DEF ReaderInv
<1> QED BY ReaderInit, <1>1, PTL DEF Spec

\* RunPipe returns when nothing can print any more, for any output and any
\* size of the pipes.
THEOREM PipeReturnCorrect == Spec => []PipeReturnIsFinal
<1>1. ReaderInv => PipeReturnIsFinal
  <2>1. \E s \in Stream : TRUE
    BY DEF Stream
  <2> QED BY <2>1 DEF ReaderInv, GivesUpAtLongLine, WaitsForReaders, PipeReturnIsFinal,
                      ReadersEnded, LongLine
<1> QED BY <1>1, ReaderInvariant, PTL

-----------------------------------------------------------------------------
(* In a buffered call every line the command wrote is, in order, in the    *)
(* buffer, in the hands of the copy or in the pipe.                        *)

Buffered == api # "RunPipe"
T == Len(text)
H(s) == Len(hand[s])
P(s) == Len(pipe[s])

InOrder ==
    /\ text \in Seq(Nat)
    /\ T + H("out") + P("out") = Len(log)
    /\ \A i \in 1 .. T : text[i] = i
    /\ \A i \in 1 .. H("out") : hand["out"][i] = T + i
    /\ \A i \in 1 .. P("out") : pipe["out"][i] = T + H("out") + i

\* The one reader ends with nothing left to read, and cmd.Wait after it.
CopyIsComplete ==
    /\ reader["err"] = "ended"
    /\ proc # "ready" /\ reader["out"] = "ended" => Ended /\ H("out") = 0 /\ P("out") = 0
    /\ waiter \in {"sending", "ended"} => reader["out"] = "ended"
    /\ result \in {"ok", "ignored", "failed", "exit"} =>
         waiter = "ended" /\ proc # "ready" /\ answer = text

BufferInv == ReaderInv /\ (Buffered => InOrder /\ CopyIsComplete)

LEMMA Streams == Stream = {"out", "err"} /\ "out" \in Stream /\ "err" \in Stream
BY DEF Stream

LEMMA BufferInit == Init => BufferInv
<1> SUFFICES ASSUME Init PROVE BufferInv
  OBVIOUS
<1>1. text = <<>> /\ hand["out"] = <<>> /\ pipe["out"] = <<>> /\ log = <<>>
  BY Streams DEF Init
<1>2. InOrder
  BY <1>1 DEF InOrder, T, H, P
<1>3. CopyIsComplete
  BY Streams DEF Init, CopyIsComplete
<1> QED BY <1>2, <1>3, ReaderInit DEF BufferInv

LEMMA ApiNext ==
  ASSUME [Next]_vars
  PROVE  api' = api
<1> USE DEF call
<1>1. CASE Reader
  BY <1>1 DEF Reader, Reads, Copy, Fill, TooLong, Load, Store, EndOfFile
<1>2. CASE Caller
  BY <1>2 DEF Caller, StartFails, StartBuffered, StartPipe, FatalReceives, OutputReceives,
              PipeReceives, TimedOut, PipeReturns
<1> QED BY <1>1, <1>2
     DEF Next, vars, Write, Exit, ChildExits, Waiter, WaitBuffered, WaitPipes,
         Beat, BeatPrints, BeatEnds, Timeout

LEMMA OrderNext ==
  ASSUME BufferInv, [Next]_vars, Buffered
  PROVE  InOrder'
<1> USE Streams DEF call, command, reading
<1>0. /\ InOrder /\ CopyIsComplete
      /\ hand["out"] \in Seq(1 .. Len(log)) /\ pipe["out"] \in Seq(1 .. Len(log))
      /\ log \in Seq(Line)
      /\ hand \in [Stream -> Seq(1 .. Len(log))] /\ pipe \in [Stream -> Seq(1 .. Len(log))]
      /\ reader["out"] # "storing"
  BY DEF BufferInv, ReaderInv, LineNumbers, ReadersOK, Buffered
<1>1. CASE Write
  <2>1. PICK s \in Stream, k \in Kind :
          /\ log' = Append(log, [stream |-> s, kind |-> k])
          /\ pipe' = [pipe EXCEPT !["out"] = Append(@, Len(log'))]
    BY <1>1 DEF Write, Into, Buffered
  <2>2. Len(log') = Len(log) + 1 /\ pipe'["out"] = Append(pipe["out"], Len(log) + 1)
    BY <2>1, <1>0 DEF Line
  <2>3. Len(pipe'["out"]) = P("out") + 1 /\ pipe'["out"][P("out") + 1] = Len(log) + 1
    BY <2>2, <1>0 DEF P
  <2>4. \A i \in 1 .. P("out") : pipe'["out"][i] = pipe["out"][i]
    BY <2>2, <1>0 DEF P
  <2>5. text' = text /\ hand' = hand
    BY <1>1 DEF Write
  <2>6. T' = T /\ H("out")' = H("out") /\ P("out")' = P("out") + 1 /\ T + H("out") + P("out") = Len(log)
    BY <1>0, <2>3, <2>5 DEF InOrder, T, H, P
  <2>7. ASSUME NEW i \in 1 .. P("out")' PROVE pipe'["out"][i] = T' + H("out")' + i
    <3>1. T \in Nat /\ H("out") \in Nat /\ P("out") \in Nat
      BY <1>0 DEF InOrder, T, H, P
    <3>2. CASE i = P("out") + 1
      BY <3>1, <3>2, <2>3, <2>6
    <3>3. CASE i # P("out") + 1
      <4>1. i \in 1 .. P("out")
        BY <3>1, <3>3, <2>6
      <4> QED BY <4>1, <2>4, <2>6, <1>0 DEF InOrder
    <3> QED BY <3>2, <3>3
  <2>8. T' + H("out")' + P("out")' = Len(log')
    BY <2>2, <2>6, <1>0 DEF InOrder, T, H, P
  <2> QED BY <1>0, <2>5, <2>6, <2>7, <2>8 DEF InOrder
<1>2. CASE Fill("out")
  <2>1. PICK k \in 1 .. P("out") :
          /\ hand' = [hand EXCEPT !["out"] = SubSeq(pipe["out"], 1, k)]
          /\ pipe' = [pipe EXCEPT !["out"] = SubSeq(@, k + 1, Len(@))]
    BY <1>2 DEF Fill, P
  <2>2. H("out") = 0
    BY <1>2 DEF Fill, H
  <2>3. /\ hand'["out"] = SubSeq(pipe["out"], 1, k)
        /\ pipe'["out"] = SubSeq(pipe["out"], k + 1, P("out"))
    BY <2>1, <1>0 DEF P
  <2>4. Len(hand'["out"]) = k /\ \A i \in 1 .. k : hand'["out"][i] = pipe["out"][i]
    BY <2>3, <1>0 DEF P
  <2>5. /\ Len(pipe'["out"]) = P("out") - k
        /\ \A i \in 1 .. P("out") - k : pipe'["out"][i] = pipe["out"][k + i]
    BY <2>3, <1>0 DEF P
  <2>6. text' = text /\ log' = log
    BY <1>2 DEF Fill
  <2>7. T' = T /\ H("out")' = k /\ P("out")' = P("out") - k
    BY <2>4, <2>5, <2>6 DEF T, H, P
  <2>8. T \in Nat /\ P("out") \in Nat /\ k \in Nat
    BY <1>0 DEF InOrder, T, P
  <2>9. ASSUME NEW i \in 1 .. H("out")' PROVE hand'["out"][i] = T' + i
    <3>1. i \in 1 .. k /\ i \in 1 .. P("out") /\ hand'["out"][i] = pipe["out"][i]
      BY <2>4, <2>7, <2>8
    <3>2. pipe["out"][i] = T + 0 + i
      BY <3>1, <2>2, <1>0 DEF InOrder
    <3> QED BY <3>1, <3>2, <2>7, <2>8
  <2>10. ASSUME NEW i \in 1 .. P("out")' PROVE pipe'["out"][i] = T' + H("out")' + i
    <3>1. k + i \in 1 .. P("out")
      BY <2>7, <2>8
    <3>2. pipe["out"][k + i] = T + (k + i)
      BY <3>1, <2>2, <2>8, <1>0 DEF InOrder
    <3>3. i \in 1 .. P("out") - k /\ pipe'["out"][i] = pipe["out"][k + i]
      BY <2>5, <2>7
    <3>4. T' + H("out")' + i = T + (k + i)
      BY <3>3, <2>7, <2>8
    <3> QED BY <3>2, <3>3, <3>4
  <2>11. T' + H("out")' + P("out")' = Len(log')
    <3>1. T + H("out") + P("out") = Len(log) /\ Len(log') = Len(log)
      BY <2>6, <1>0 DEF InOrder
    <3>2. T' + H("out")' + P("out")' = T + k + (P("out") - k)
      BY <2>7
    <3> QED BY <3>1, <3>2, <2>2, <2>8
  <2> QED BY <1>0, <2>6, <2>7, <2>9, <2>10, <2>11 DEF InOrder
<1>3. CASE Copy
  <2>1. text' = text \o hand["out"] /\ hand'["out"] = <<>> /\ pipe' = pipe /\ log' = log
    BY <1>3, <1>0 DEF Copy
  <2>2. hand["out"] \in Seq(Nat)
    <3>1. hand["out"] \in [1 .. H("out") -> 1 .. Len(log)] /\ H("out") \in Nat
      BY <1>0 DEF H
    <3> QED BY <3>1
  <2>3. /\ text' \in Seq(Nat) /\ Len(text') = T + H("out")
        /\ \A i \in 1 .. T : text'[i] = text[i]
        /\ \A i \in 1 .. H("out") : text'[T + i] = hand["out"][i]
    BY <2>1, <2>2, <1>0 DEF InOrder, T, H
  <2>4. \A i \in 1 .. T + H("out") : text'[i] = i
    <3>1. ASSUME NEW i \in 1 .. T + H("out") PROVE text'[i] = i
      <4>1. T \in Nat /\ H("out") \in Nat
        BY <1>0 DEF InOrder, T, H
      <4>2. CASE i \in 1 .. T
        BY <4>2, <2>3, <1>0 DEF InOrder
      <4>3. CASE i \notin 1 .. T
        <5>1. i - T \in 1 .. H("out") /\ i = T + (i - T)
          BY <4>1, <4>3
        <5>2. text'[T + (i - T)] = hand["out"][i - T] /\ hand["out"][i - T] = T + (i - T)
          BY <5>1, <2>3, <1>0 DEF InOrder
        <5> QED BY <5>1, <5>2
      <4> QED BY <4>2, <4>3
    <3> QED BY <3>1
  <2> QED BY <1>0, <2>1, <2>3, <2>4 DEF InOrder, T, H, P
<1>4. CASE UNCHANGED <<text, log, hand["out"], pipe["out"]>>
  BY <1>0, <1>4 DEF InOrder, T, H, P
<1>5. \/ Write \/ Fill("out") \/ Copy
      \/ UNCHANGED <<text, log, hand["out"], pipe["out"]>>
  <2>1. CASE Reader
    <3>1. \A s \in Stream : ~TooLong(s) /\ ~Load(s) /\ ~Store(s)
      BY <1>0 DEF TooLong, Load, Store, Buffered, CopyIsComplete
    <3>2. ~Fill("err")
      BY <1>0 DEF Fill, CopyIsComplete
    <3> QED BY <2>1, <3>1, <3>2 DEF Reader, Reads, EndOfFile
  <2>2. CASE Caller
    BY <2>2 DEF Caller, StartFails, StartBuffered, StartPipe, FatalReceives, OutputReceives,
                PipeReceives, TimedOut, PipeReturns
  <2> QED BY <2>1, <2>2
       DEF Next, vars, Exit, ChildExits, Waiter, WaitBuffered, WaitPipes, Buffered,
           Beat, BeatPrints, BeatEnds, Timeout
<1> QED BY <1>1, <1>2, <1>3, <1>4, <1>5

LEMMA CompleteNext ==
  ASSUME BufferInv, [Next]_vars, Buffered
  PROVE  CopyIsComplete'
<1> USE Streams DEF call, command, reading, Ended, H, P
<1>0. /\ ReaderInv /\ CallInv /\ ReadersOK /\ GivesUpAtLongLine /\ WaitsForReaders
      /\ CopyIsComplete /\ reader["out"] # "storing"
      /\ reader \in [Stream -> {"idle", "storing", "ended"}]
      /\ hand \in [Stream -> Seq(1 .. Len(log))] /\ pipe \in [Stream -> Seq(1 .. Len(log))]
  BY DEF BufferInv, ReaderInv, LineNumbers, ReadersOK, Buffered
<1> USE DEF CallInv, ControlOK, StartedOnce, WaiterTellsTheTruth, CopyIsComplete
<1>1. CASE Write
  BY <1>0, <1>1 DEF Write, Into, Buffered
<1>2. CASE Exit \/ ChildExits \/ Timeout
  BY <1>0, <1>2 DEF Exit, ChildExits, Timeout
<1>3. CASE Reader
  <2>1. \A s \in Stream : ~TooLong(s) /\ ~Load(s) /\ ~Store(s)
    BY <1>0 DEF TooLong, Load, Store, Buffered
  <2>2. ~Fill("err") /\ ~EndOfFile("err")
    BY <1>0 DEF Fill, EndOfFile
  <2>3. CASE Fill("out")
    BY <1>0, <2>3 DEF Fill
  <2>4. CASE EndOfFile("out")
    <3>1. Len(<<>>) = 0
      OBVIOUS
    <3> QED BY <1>0, <2>4, <3>1 DEF EndOfFile
  <2>5. CASE Copy
    BY <1>0, <2>5 DEF Copy
  <2> QED BY <1>3, <2>1, <2>2, <2>3, <2>4, <2>5 DEF Reader, Reads
<1>4. CASE Waiter
  BY <1>0, <1>4 DEF Waiter, WaitBuffered, WaitPipes, ReadersEnded, Buffered
<1>5. CASE Beat \/ BeatPrints \/ BeatEnds
  BY <1>0, <1>5 DEF Beat, BeatPrints, BeatEnds
<1>6. CASE StartFails \/ StartBuffered \/ StartPipe
  BY <1>0, <1>6 DEF StartFails, StartBuffered, StartPipe, Buffered
<1>7. CASE FatalReceives \/ OutputReceives
  BY <1>0, <1>7 DEF FatalReceives, OutputReceives
<1>8. CASE PipeReceives \/ TimedOut \/ PipeReturns
  BY <1>0, <1>8 DEF PipeReceives, TimedOut, PipeReturns, WaitsForReaders, Buffered
<1>9. CASE UNCHANGED vars
  BY <1>0, <1>9 DEF vars
<1> QED BY <1>1, <1>2, <1>3, <1>4, <1>5, <1>6, <1>7, <1>8, <1>9 DEF Next, Caller

THEOREM BufferInvariant == Spec => []BufferInv
<1>1. ReaderInv /\ [Next]_vars => ReaderInv'
  BY CallNext, NumbersNext, ReadersNext, GivesUpNext DEF ReaderInv
<1>2. [Next]_vars /\ Buffered' /\ ReaderInv => Buffered
  BY ApiNext DEF Buffered
<1>3. BufferInv /\ [Next]_vars => BufferInv'
  BY <1>1, <1>2, OrderNext, CompleteNext DEF BufferInv
<1> QED BY BufferInit, <1>3, PTL DEF Spec

\* What a buffered call judged and returned is all the command wrote, in the
\* order it wrote it, whatever it wrote and however the copy was scheduled.
THEOREM BufferedOutputCorrect == Spec => []BufferedOutputIsWhole
<1>1. ASSUME BufferInv PROVE BufferedOutputIsWhole
  <2> SUFFICES ASSUME Buffered, result \in {"ok", "ignored", "failed", "exit"}
               PROVE  answer = [i \in 1 .. Len(log) |-> i]
    BY DEF BufferedOutputIsWhole, Buffered
  <2>1. answer = text /\ H("out") = 0 /\ P("out") = 0 /\ InOrder
    BY <1>1 DEF BufferInv, CopyIsComplete
  <2>2. T = Len(log) /\ text = [i \in 1 .. T |-> text[i]]
    BY <2>1 DEF InOrder, T
  <2> QED BY <2>1, <2>2 DEF InOrder
<1> QED BY <1>1, BufferInvariant, PTL

-----------------------------------------------------------------------------
(* RunPipe, when the command uses one stream: only the reader of that      *)
(* stream has anything to do, so that no line is stored over another.      *)

OneStream(s) == \A i \in 1 .. Len(log) : log[i].stream = s

\* What the other stream holds, what was stored, what is on its way there.
OtherIsQuiet(s) ==
    \A o \in Stream \ {s} : hand[o] = <<>> /\ pipe[o] = <<>> /\ reader[o] # "storing"

StoredInOrder ==
    /\ text \in Seq(Nat) /\ T <= Len(log)
    /\ \A i \in 1 .. T : text[i] = i

ComingInOrder(s) ==
    /\ T + H(s) + P(s) <= Len(log)
    /\ proc \in {"ready", "running"} => T + H(s) + P(s) = Len(log)
    /\ \A i \in 1 .. H(s) : hand[s][i] = T + i
    /\ \A i \in 1 .. P(s) : pipe[s][i] = T + H(s) + i
    /\ reader[s] = "storing" => snap[s] = text

PipeOrder(s) ==
    /\ OtherIsQuiet(s)
    /\ StoredInOrder
    /\ reader[s] # "ended" \/ proc = "ready" => ComingInOrder(s)
    /\ answer = <<>> \/ (at = "returned" /\ answer = text)

PipeInv ==
    /\ ReaderInv
    /\ api = "RunPipe" => \A s \in Stream : OneStream(s) => PipeOrder(s)

LEMMA PipeInit == Init => PipeInv
<1> SUFFICES ASSUME Init PROVE PipeInv
  OBVIOUS
<1>1. text = <<>> /\ log = <<>> /\ answer = <<>>
  BY DEF Init
<1>2. ASSUME NEW s \in Stream PROVE PipeOrder(s)
  <2>1. hand[s] = <<>> /\ pipe[s] = <<>> /\ reader[s] = "ended"
    BY DEF Init
  <2>2. OtherIsQuiet(s)
    BY DEF Init, OtherIsQuiet
  <2>3. StoredInOrder
    BY <1>1 DEF StoredInOrder, T
  <2>4. ComingInOrder(s)
    BY <1>1, <2>1 DEF ComingInOrder, T, H, P
  <2> QED BY <1>1, <2>2, <2>3, <2>4 DEF PipeOrder
<1> QED BY <1>2, ReaderInit DEF PipeInv

LEMMA PipeWrite ==
  ASSUME PipeInv, Write, api = "RunPipe", NEW s \in Stream, OneStream(s)'
  PROVE  PipeOrder(s)'
<1> USE DEF call, reading
<1>1. PICK r \in Stream, k \in Kind :
        /\ log' = Append(log, [stream |-> r, kind |-> k])
        /\ pipe' = [pipe EXCEPT ![r] = Append(@, Len(log'))]
  BY DEF Write, Into
<1>2. /\ log \in Seq(Line) /\ Len(log) \in Nat
      /\ pipe \in [Stream -> Seq(1 .. Len(log))] /\ hand \in [Stream -> Seq(1 .. Len(log))]
  BY DEF PipeInv, ReaderInv, LineNumbers
<1>3. /\ Len(log') = Len(log) + 1 /\ log'[Len(log) + 1].stream = r
      /\ \A i \in 1 .. Len(log) : log'[i] = log[i]
  BY <1>1, <1>2 DEF Line
<1>4. r = s /\ OneStream(s)
  BY <1>2, <1>3 DEF OneStream
<1>5. PipeOrder(s)
  BY <1>4 DEF PipeInv
<1>6. OtherIsQuiet(s)'
  BY <1>1, <1>2, <1>4, <1>5 DEF PipeOrder, OtherIsQuiet, Write
<1>7. T' = T /\ T \in Nat /\ text' = text /\ hand' = hand /\ reader' = reader /\ snap' = snap
  BY <1>5 DEF PipeOrder, StoredInOrder, T, Write
<1>8. StoredInOrder'
  BY <1>2, <1>3, <1>5, <1>7 DEF PipeOrder, StoredInOrder
<1>9. ASSUME reader[s] # "ended" PROVE ComingInOrder(s)'
  <2>1. ComingInOrder(s) /\ proc = "running" /\ proc' = proc
    BY <1>5, <1>9 DEF PipeOrder, Write
  <2>2. H(s) \in Nat /\ P(s) \in Nat /\ Len(log) \in Nat /\ T \in Nat /\ H(s)' = H(s)
    BY <1>2, <1>7 DEF H, P
  <2>3. /\ P(s)' = P(s) + 1 /\ pipe'[s][P(s) + 1] = Len(log) + 1
        /\ \A i \in 1 .. P(s) : pipe'[s][i] = pipe[s][i]
    BY <1>1, <1>2, <1>3, <1>4 DEF P
  <2>4. T + H(s) + P(s) = Len(log)
    BY <2>1 DEF ComingInOrder
  <2>5. ASSUME NEW i \in 1 .. P(s)' PROVE pipe'[s][i] = T + H(s) + i
    <3>1. CASE i = P(s) + 1
      BY <3>1, <2>2, <2>3, <2>4
    <3>2. CASE i # P(s) + 1
      <4>1. i \in 1 .. P(s)
        BY <3>2, <2>2, <2>3
      <4> QED BY <4>1, <2>1, <2>3 DEF ComingInOrder
    <3> QED BY <3>1, <3>2
  <2>6. T' + H(s)' + P(s)' = Len(log') /\ Len(log') <= Len(log')
    <3>1. T' + H(s)' + P(s)' = T + H(s) + (P(s) + 1)
      BY <1>7, <2>2, <2>3
    <3>2. T + H(s) + (P(s) + 1) = T + H(s) + P(s) + 1
      BY <2>2
    <3> QED BY <3>1, <3>2, <2>2, <2>4, <1>3
  <2>7. \A i \in 1 .. H(s)' : hand'[s][i] = T' + i
    BY <1>7, <2>1, <2>2 DEF ComingInOrder
  <2>8. \A i \in 1 .. P(s)' : pipe'[s][i] = T' + H(s)' + i
    BY <1>7, <2>2, <2>5
  <2>9. reader'[s] = "storing" => snap'[s] = text'
    BY <1>7, <2>1 DEF ComingInOrder
  <2> QED BY <2>6, <2>7, <2>8, <2>9 DEF ComingInOrder
<1> QED BY <1>5, <1>6, <1>7, <1>8, <1>9 DEF PipeOrder, Write

\* What the reader of the stream does keeps the order.
LEMMA PipeReads ==
  ASSUME PipeInv, api = "RunPipe", NEW s \in Stream, Reads(s), PipeOrder(s)
  PROVE  PipeOrder(s)'
<1> USE DEF call, command
<1>1. /\ log \in Seq(Line) /\ Len(log) \in Nat /\ log' = log
      /\ pipe \in [Stream -> Seq(1 .. Len(log))] /\ hand \in [Stream -> Seq(1 .. Len(log))]
      /\ reader \in [Stream -> {"idle", "storing", "ended"}]
  <2>1. log' = log
    BY DEF Reads, Fill, TooLong, Load, Store, EndOfFile
  <2> QED BY <2>1 DEF PipeInv, ReaderInv, LineNumbers, ReadersOK
<1>2. reader[s] # "ended" /\ proc # "ready" /\ at # "returned" /\ proc' = proc /\ at' = at
  BY DEF PipeInv, ReaderInv, GivesUpAtLongLine, WaitsForReaders, ReadersEnded,
         Reads, Fill, TooLong, Load, Store, EndOfFile
<1>3. answer' = <<>>
  BY <1>2 DEF PipeOrder, Reads, Fill, TooLong, Load, Store, EndOfFile
<1>4. OtherIsQuiet(s) /\ StoredInOrder /\ ComingInOrder(s)
  BY <1>2 DEF PipeOrder
<1>5. OtherIsQuiet(s)'
  <2>1. \A o \in Stream \ {s} : hand'[o] = hand[o] /\ pipe'[o] = pipe[o] /\ reader'[o] = reader[o]
    BY <1>1 DEF Reads, Fill, TooLong, Load, Store, EndOfFile
  <2> QED BY <2>1, <1>4 DEF OtherIsQuiet
<1>6. T \in Nat /\ H(s) \in Nat /\ P(s) \in Nat
  BY <1>1, <1>4 DEF StoredInOrder, T, H, P
<1>7. CASE Fill(s)
  <2>1. PICK k \in 1 .. P(s) :
          /\ hand' = [hand EXCEPT ![s] = SubSeq(pipe[s], 1, k)]
          /\ pipe' = [pipe EXCEPT ![s] = SubSeq(@, k + 1, Len(@))]
    BY <1>7 DEF Fill, P
  <2>2. H(s) = 0 /\ text' = text /\ T' = T /\ reader' = reader /\ snap' = snap /\ k \in Nat
    BY <1>7, <2>1 DEF Fill, H, T
  <2>3. /\ hand'[s] = SubSeq(pipe[s], 1, k)
        /\ pipe'[s] = SubSeq(pipe[s], k + 1, P(s))
    BY <2>1, <1>1 DEF P
  <2>4. H(s)' = k /\ \A i \in 1 .. k : hand'[s][i] = pipe[s][i]
    BY <2>3, <1>1 DEF P, H
  <2>5. /\ P(s)' = P(s) - k
        /\ \A i \in 1 .. P(s) - k : pipe'[s][i] = pipe[s][k + i]
    BY <2>3, <1>1 DEF P
  <2>6. ASSUME NEW i \in 1 .. H(s)' PROVE hand'[s][i] = T' + i
    <3>1. i \in 1 .. P(s) /\ hand'[s][i] = pipe[s][i]
      BY <1>6, <2>4
    <3>2. pipe[s][i] = T + 0 + i
      BY <3>1, <2>2, <1>4 DEF ComingInOrder
    <3> QED BY <3>1, <3>2, <2>2, <1>6
  <2>7. ASSUME NEW i \in 1 .. P(s)' PROVE pipe'[s][i] = T' + H(s)' + i
    <3>1. k + i \in 1 .. P(s) /\ pipe'[s][i] = pipe[s][k + i]
      BY <1>6, <2>2, <2>5
    <3>2. pipe[s][k + i] = T + 0 + (k + i)
      BY <3>1, <2>2, <1>4 DEF ComingInOrder
    <3>3. T + 0 + (k + i) = T + k + i
      BY <3>1, <1>6, <2>2
    <3> QED BY <3>1, <3>2, <3>3, <2>2, <2>4
  <2>8. T' + H(s)' + P(s)' = T + H(s) + P(s)
    <3>1. T' + H(s)' + P(s)' = T + k + (P(s) - k)
      BY <2>2, <2>4, <2>5
    <3>2. T + k + (P(s) - k) = T + 0 + P(s)
      BY <1>6, <2>2
    <3> QED BY <3>1, <3>2, <2>2
  <2>9. ComingInOrder(s)'
    BY <1>1, <1>2, <1>4, <2>2, <2>6, <2>7, <2>8 DEF ComingInOrder
  <2>10. StoredInOrder'
    BY <1>1, <1>4, <2>2 DEF StoredInOrder
  <2> QED BY <1>3, <1>5, <2>9, <2>10 DEF PipeOrder
<1>8. CASE TooLong(s) \/ EndOfFile(s)
  <2>1. reader'[s] = "ended" /\ text' = text
    BY <1>1, <1>8 DEF TooLong, EndOfFile
  <2>2. StoredInOrder'
    BY <1>1, <1>4, <2>1 DEF StoredInOrder, T
  <2> QED BY <1>2, <1>3, <1>5, <2>1, <2>2 DEF PipeOrder
<1>9. CASE Load(s)
  <2>1. {r \in Stream \ {s} : reader[r] = "storing"} = {}
    BY <1>4 DEF OtherIsQuiet
  <2>2. snap' = [snap EXCEPT ![s] = text] /\ text' = text /\ hand' = hand /\ pipe' = pipe
    BY <1>9, <2>1 DEF Load
  <2>3. snap'[s] = text
    BY <2>2 DEF PipeInv, ReaderInv, ReadersOK
  <2>4. StoredInOrder' /\ T' = T /\ H(s)' = H(s) /\ P(s)' = P(s)
    BY <1>1, <1>4, <2>2 DEF StoredInOrder, T, H, P
  <2>5. ComingInOrder(s)'
    BY <1>1, <1>2, <1>4, <2>2, <2>3, <2>4 DEF ComingInOrder
  <2> QED BY <1>3, <1>5, <2>4, <2>5 DEF PipeOrder
<1>10. CASE Store(s)
  <2>1. /\ hand[s] # <<>> /\ H(s) > 0 /\ reader' = [reader EXCEPT ![s] = "idle"]
        /\ text' = Append(text, Head(hand[s])) /\ hand' = [hand EXCEPT ![s] = Tail(@)]
        /\ pipe' = pipe
    BY <1>1, <1>4, <1>10 DEF Store, PipeInv, ReaderInv, ReadersOK, ComingInOrder, H
  <2>2. Head(hand[s]) = T + 1 /\ T + 1 \in Nat
    <3>1. Head(hand[s]) = hand[s][1] /\ 1 \in 1 .. H(s)
      BY <2>1, <1>1, <1>6
    <3> QED BY <3>1, <1>4, <1>6 DEF ComingInOrder
  <2>3. /\ text' \in Seq(Nat) /\ T' = T + 1 /\ text'[T + 1] = T + 1
        /\ \A i \in 1 .. T : text'[i] = text[i]
    BY <2>1, <2>2, <1>4 DEF StoredInOrder, T
  <2>4. /\ H(s)' = H(s) - 1 /\ P(s)' = P(s)
        /\ \A i \in 1 .. H(s) - 1 : hand'[s][i] = hand[s][i + 1]
    BY <2>1, <1>1 DEF H, P
  <2>5. T' + H(s)' + P(s)' = T + H(s) + P(s) /\ T' <= Len(log)
    <3>1. T' + H(s)' + P(s)' = (T + 1) + (H(s) - 1) + P(s)
      BY <2>3, <2>4
    <3>2. (T + 1) + (H(s) - 1) + P(s) = T + H(s) + P(s)
      BY <1>6
    <3>3. T + H(s) + P(s) <= Len(log)
      BY <1>4 DEF ComingInOrder
    <3>4. T + 1 <= T + H(s) + P(s)
      BY <1>6, <2>1
    <3> QED BY <3>1, <3>2, <3>3, <3>4, <2>2, <2>3, <1>1, <1>6
  <2>6. ASSUME NEW i \in 1 .. T' PROVE text'[i] = i
    <3>1. i = T + 1 \/ i \in 1 .. T
      BY <2>3, <1>6
    <3> QED BY <3>1, <2>3, <1>4 DEF StoredInOrder
  <2>7. StoredInOrder'
    BY <2>3, <2>5, <2>6, <1>1 DEF StoredInOrder
  <2>8. ASSUME NEW i \in 1 .. H(s)' PROVE hand'[s][i] = T' + i
    <3>1. i \in 1 .. H(s) - 1 /\ i + 1 \in 1 .. H(s)
      BY <2>4, <1>6
    <3>2. hand'[s][i] = T + (i + 1)
      BY <3>1, <2>4, <1>4 DEF ComingInOrder
    <3>3. T + (i + 1) = T + 1 + i
      BY <3>1, <1>6
    <3> QED BY <3>2, <3>3, <2>3
  <2>9. ASSUME NEW i \in 1 .. P(s)' PROVE pipe'[s][i] = T' + H(s)' + i
    <3>1. pipe'[s][i] = T + H(s) + i
      BY <2>1, <2>4, <1>4 DEF ComingInOrder
    <3>2. T + H(s) + i = (T + 1) + (H(s) - 1) + i
      BY <1>6, <2>4
    <3> QED BY <3>1, <3>2, <2>3, <2>4
  <2>10. ComingInOrder(s)'
    BY <1>1, <1>2, <1>4, <2>1, <2>5, <2>8, <2>9 DEF ComingInOrder
  <2> QED BY <1>3, <1>5, <2>7, <2>10 DEF PipeOrder
<1> QED BY <1>7, <1>8, <1>9, <1>10 DEF Reads

\* What anybody else does leaves what was written and stored as it is.
LEMMA PipeOthers ==
  ASSUME PipeInv, [Next]_vars, ~Write, ~Reader, api = "RunPipe",
         NEW s \in Stream, PipeOrder(s)
  PROVE  PipeOrder(s)'
<1> USE DEF call, command, reading
<1>1. log' = log /\ hand' = hand /\ text' = text /\ snap' = snap
  BY DEF Next, vars, Exit, ChildExits, Waiter, WaitBuffered, WaitPipes, Beat, BeatPrints,
         BeatEnds, Timeout, Caller, StartFails, StartBuffered, StartPipe, FatalReceives,
         OutputReceives, PipeReceives, TimedOut, PipeReturns
<1>2. pipe \in [Stream -> Seq(1 .. Len(log))] /\ hand \in [Stream -> Seq(1 .. Len(log))]
  BY DEF PipeInv, ReaderInv, LineNumbers
<1>3. T' = T /\ H(s)' = H(s) /\ StoredInOrder'
  BY <1>1 DEF T, H, PipeOrder, StoredInOrder
<1>4. CASE WaitPipes
  <2>1. Ended /\ proc' = proc /\ reader' = reader /\ at' = at /\ answer' = answer
    BY <1>4 DEF WaitPipes
  <2>2. pipe'[s] = <<>> /\ P(s)' = 0 /\ P(s) \in Nat /\ H(s) \in Nat
    BY <1>2, <1>4 DEF WaitPipes, P, H
  <2>3. OtherIsQuiet(s)'
    BY <2>1, <1>1, <1>4 DEF PipeOrder, OtherIsQuiet, WaitPipes
  <2>4. ComingInOrder(s) => ComingInOrder(s)'
    <3> SUFFICES ASSUME ComingInOrder(s) PROVE ComingInOrder(s)'
      OBVIOUS
    <3>1. T + H(s) + 0 <= Len(log)
      <4>1. T + H(s) + P(s) <= Len(log) /\ T \in Nat /\ Len(log) \in Nat
        BY DEF ComingInOrder, PipeOrder, StoredInOrder, T, PipeInv, ReaderInv, LineNumbers
      <4> QED BY <4>1, <2>2
    <3> QED BY <3>1, <1>1, <1>3, <2>1, <2>2 DEF ComingInOrder, Ended
  <2> QED BY <1>3, <2>1, <2>3, <2>4, <1>1 DEF PipeOrder
<1>5. CASE StartPipe
  <2>1. pipe' = pipe /\ proc = "ready" /\ proc' = "running" /\ reader' = [r \in Stream |-> "idle"]
    BY <1>5 DEF StartPipe, PipeInv, ReaderInv, CallInv, StartedOnce
  <2>2. P(s)' = P(s) /\ answer' = answer /\ at = "start"
    BY <2>1, <1>5 DEF P, StartPipe
  <2>3. OtherIsQuiet(s)'
    BY <2>1, <1>1 DEF PipeOrder, OtherIsQuiet
  <2>4. ComingInOrder(s)'
    BY <1>1, <1>3, <2>1, <2>2 DEF PipeOrder, ComingInOrder
  <2> QED BY <1>3, <2>2, <2>3, <2>4 DEF PipeOrder
<1>6. CASE ~WaitPipes /\ ~StartPipe
  <2>1. pipe' = pipe /\ reader' = reader /\ (proc' = proc \/ (proc = "running" /\ Ended')
                                               \/ proc' = "killed" \/ (proc = "killed" /\ Ended'))
    BY <1>6 DEF Next, vars, Exit, ChildExits, Waiter, WaitBuffered, Beat, BeatPrints, BeatEnds,
                Timeout, Caller, StartFails, StartBuffered, FatalReceives, OutputReceives,
                PipeReceives, TimedOut, PipeReturns, Ended
  <2>2. \/ answer' = answer /\ (at' = at \/ at # "returned")
        \/ at' = "returned" /\ answer' = text'
    BY <1>1, <1>6 DEF Next, vars, Exit, ChildExits, Waiter, WaitBuffered, Beat, BeatPrints,
                BeatEnds, Timeout, Caller, StartFails, StartBuffered, FatalReceives,
                OutputReceives, PipeReceives, TimedOut, PipeReturns,
                PipeInv, ReaderInv, WaitsForReaders
  <2>3. P(s)' = P(s) /\ OtherIsQuiet(s)'
    BY <1>1, <2>1 DEF P, PipeOrder, OtherIsQuiet
  <2>4. ComingInOrder(s) => ComingInOrder(s)'
    BY <1>1, <1>3, <2>1, <2>3 DEF ComingInOrder, Ended
  <2>5. proc' = "ready" => proc = "ready"
    BY <2>1 DEF Ended
  <2> QED BY <1>1, <1>3, <2>1, <2>2, <2>3, <2>4, <2>5 DEF PipeOrder
<1> QED BY <1>4, <1>5, <1>6

LEMMA PipeNext ==
  ASSUME PipeInv, [Next]_vars, ReaderInv'
  PROVE  PipeInv'
<1>1. api' = api
  BY ApiNext
<1>2. ASSUME api = "RunPipe", NEW s \in Stream, OneStream(s)' PROVE PipeOrder(s)'
  <2>1. CASE Write
    BY <1>2, <2>1, PipeWrite
  <2>2. CASE ~Write
    <3>1. log' = log
      BY <2>2 DEF Next, vars, call, command, Exit, ChildExits, Waiter, WaitBuffered, WaitPipes,
            Beat, BeatPrints, BeatEnds, Timeout, Caller, StartFails, StartBuffered, StartPipe,
            FatalReceives, OutputReceives, PipeReceives, TimedOut, PipeReturns,
            Reader, Reads, Copy, Fill, TooLong, Load, Store, EndOfFile
    <3>2. PipeOrder(s)
      BY <1>2, <3>1 DEF PipeInv, OneStream
    <3>3. CASE Reads(s)
      BY <1>2, <3>2, <3>3, PipeReads
    <3>4. ASSUME NEW o \in Stream \ {s}, Reads(o) PROVE PipeOrder(s)'
      <4>1. EndOfFile(o)
        <5>1. hand[o] = <<>> /\ pipe[o] = <<>> /\ reader[o] # "storing" /\ Len(<<>>) = 0
          BY <3>2 DEF PipeOrder, OtherIsQuiet
        <5> QED BY <3>4, <5>1 DEF Reads, Fill, TooLong, Load, Store
      <4>2. /\ UNCHANGED <<hand, pipe, snap, text, proc, answer, at>>
            /\ reader' = [reader EXCEPT ![o] = "ended"]
        BY <4>1 DEF EndOfFile, call, command
      <4>3. reader'[s] = reader[s] /\ OtherIsQuiet(s)'
        BY <3>2, <4>2 DEF PipeOrder, OtherIsQuiet, PipeInv, ReaderInv, ReadersOK
      <4>4. T' = T /\ H(s)' = H(s) /\ P(s)' = P(s)
        BY <4>2 DEF T, H, P
      <4>5. StoredInOrder' /\ (ComingInOrder(s) => ComingInOrder(s)')
        BY <3>1, <3>2, <4>2, <4>3, <4>4 DEF PipeOrder, StoredInOrder, ComingInOrder
      <4> QED BY <3>2, <4>2, <4>3, <4>5 DEF PipeOrder
    <3>5. CASE ~Reader
      BY <1>2, <2>2, <3>2, <3>5, PipeOthers
    <3> QED BY <1>2, <3>3, <3>4, <3>5 DEF Reader, Copy
  <2> QED BY <2>1, <2>2
<1> QED BY <1>1, <1>2 DEF PipeInv

\* What RunPipe returns is the beginning of what the command wrote, when it
\* uses one stream, however its readers, its waiter and the timer interleave.
THEOREM PipeTextCorrect == Spec => []PipeTextIsPrefix
<1>1. ReaderInv /\ [Next]_vars => ReaderInv'
  BY CallNext, NumbersNext, ReadersNext, GivesUpNext DEF ReaderInv
<1>2. PipeInv /\ [Next]_vars => PipeInv'
  BY <1>1, PipeNext DEF PipeInv
<1>3. ASSUME PipeInv PROVE PipeTextIsPrefix
  <2> SUFFICES ASSUME api = "RunPipe", NEW s \in Stream, OneStream(s)
               PROVE  Len(answer) <= Len(log) /\ \A i \in 1 .. Len(answer) : answer[i] = i
    BY DEF PipeTextIsPrefix, OneStream
  <2>1. StoredInOrder /\ (answer = <<>> \/ answer = text) /\ Len(log) \in Nat
    BY <1>3 DEF PipeInv, PipeOrder, ReaderInv, LineNumbers
  <2>2. Len(<<>>) = 0
    OBVIOUS
  <2> QED BY <2>1, <2>2 DEF StoredInOrder, T
<1> QED BY PipeInit, <1>2, <1>3, PTL DEF Spec

=============================================================================
