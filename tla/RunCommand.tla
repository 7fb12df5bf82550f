----------------------------- MODULE RunCommand -----------------------------
(***************************************************************************)
(* One call of the command runner, pkg/runtools/runner.go: the command,    *)
(* the goroutines that read its output, the one that waits for it, the     *)
(* heartbeat and the caller, who also watches a timer.                     *)
(*                                                                         *)
(* RunPipe reads two pipes line by line and prints as it goes, RunFatal    *)
(* and RunGetOutput let os/exec copy both streams into one buffer.  Lines  *)
(* are named by the order in which the command wrote them.  A call is      *)
(* given an ignoreMsg, which the lines of kind "pardon" match.             *)
(***************************************************************************)
EXTENDS Integers, Sequences, FiniteSets

CONSTANTS
    MaxLines,   \* bounds what a command writes
    PipeSize,   \* bounds what a pipe holds, in lines
    Lingering   \* a child of the command may keep its output open

ASSUME RunAssumption ==
    /\ MaxLines \in Nat /\ PipeSize \in Nat \ {0}
    /\ Lingering \in BOOLEAN

VARIABLES
    api,        \* which of the three functions was called
    at,         \* where the caller is
    result,     \* what it returned
    answer,     \* the text it returned, or decided by
    proc,       \* the command
    held,       \* a child of a command that ended still holds its output
    log,        \* every line the command wrote
    pipe,       \* lines in the pipe of a stream
    hand,       \* lines a reader took from the pipe
    reader,     \* where the reader of a stream is
    snap,       \* full_output as a reader loaded it
    text,       \* full_output, or the buffer
    waiter,     \* the goroutine in cmd.Wait
    beat        \* the heartbeat goroutine

call == <<api, at, result, answer>>
command == <<proc, held, log>>
reading == <<hand, reader, snap, text>>
vars == <<call, command, pipe, reading, waiter, beat>>

Stream == {"out", "err"}
Kind == {"plain", "pardon", "long"}
Line == [stream : Stream, kind : Kind]

\* What a reader sees that loads the two words of a string while they change.
Torn == 0

TypeOK ==
    /\ api \in {"RunFatal", "RunGetOutput", "RunPipe"}
    /\ at \in {"start", "select", "killed", "drain", "drainLate", "returned"}
    /\ result \in {"none", "ok", "ignored", "failed", "timeout", "notStarted", "exit"}
    /\ proc \in {"ready", "running", "killed", "succeeded", "failed"}
    /\ held \in BOOLEAN
    /\ log \in Seq(Line) /\ Len(log) <= MaxLines
    /\ {answer, text} \subseteq Seq(0 .. MaxLines)
    /\ pipe \in [Stream -> Seq(1 .. MaxLines)]
    /\ hand \in [Stream -> Seq(1 .. MaxLines)]
    /\ snap \in [Stream -> Seq(0 .. MaxLines)]
    /\ reader \in [Stream -> {"idle", "storing", "ended"}]
    /\ waiter \in {"none", "waiting", "sending", "ended"}
    /\ beat \in {"off", "waiting", "printing", "ended"}

Init ==
    /\ api \in {"RunFatal", "RunGetOutput", "RunPipe"}
    /\ at = "start" /\ result = "none" /\ answer = <<>>
    /\ proc = "ready" /\ held = FALSE /\ log = <<>>
    /\ pipe = [s \in Stream |-> <<>>] /\ hand = [s \in Stream |-> <<>>]
    /\ reader = [s \in Stream |-> "ended"] /\ snap = [s \in Stream |-> <<>>]
    /\ text = <<>> /\ waiter = "none" /\ beat = "off"

Ended == proc \in {"succeeded", "failed"}
ReadersEnded == \A s \in Stream : reader[s] = "ended"
Matches(t) == \E i \in 1 .. Len(t) : t[i] # Torn /\ log[t[i]].kind = "pardon"

-----------------------------------------------------------------------------
\* The command.

\* RunFatal and RunGetOutput give the command one pipe for both its streams.
Into(s) == IF api = "RunPipe" THEN s ELSE "out"

Write ==
    /\ proc = "running" /\ Len(log) < MaxLines
    /\ \E s \in Stream, k \in Kind :
         /\ Len(pipe[Into(s)]) < PipeSize
         /\ log' = Append(log, [stream |-> s, kind |-> k])
         /\ pipe' = [pipe EXCEPT ![Into(s)] = Append(@, Len(log'))]
    /\ UNCHANGED <<call, proc, held, reading, waiter, beat>>

\* It ends by itself, or because it was killed.
Exit ==
    /\ \/ proc = "running" /\ proc' \in {"succeeded", "failed"}
       \/ proc = "killed" /\ proc' = "failed"
    /\ held' \in (IF Lingering THEN BOOLEAN ELSE {FALSE})
    /\ UNCHANGED <<call, log, pipe, reading, waiter, beat>>

ChildExits ==
    /\ held /\ held' = FALSE
    /\ UNCHANGED <<call, proc, log, pipe, reading, waiter, beat>>

-----------------------------------------------------------------------------
\* The readers.

\* One read returns some of what the pipe holds.
Fill(s) ==
    /\ reader[s] = "idle" /\ hand[s] = <<>>
    /\ \E k \in 1 .. Len(pipe[s]) :
         /\ hand' = [hand EXCEPT ![s] = SubSeq(pipe[s], 1, k)]
         /\ pipe' = [pipe EXCEPT ![s] = SubSeq(@, k + 1, Len(@))]
    /\ UNCHANGED <<call, command, reader, snap, text, waiter, beat>>

\* bufio.Scanner gives up for good at a line of more than 64 KB.
TooLong(s) ==
    /\ api = "RunPipe" /\ reader[s] = "idle" /\ hand[s] # <<>>
    /\ log[Head(hand[s])].kind = "long"
    /\ reader' = [reader EXCEPT ![s] = "ended"]
    /\ hand' = [hand EXCEPT ![s] = <<>>]
    /\ UNCHANGED <<call, command, pipe, snap, text, waiter, beat>>

\* full_output = full_output + line, without a lock: it is loaded ...
Load(s) ==
    /\ api = "RunPipe" /\ reader[s] = "idle" /\ hand[s] # <<>>
    /\ log[Head(hand[s])].kind # "long"
    /\ \E seen \in {text} \cup {<<Torn>> : o \in {r \in Stream \ {s} : reader[r] = "storing"}} :
         snap' = [snap EXCEPT ![s] = seen]
    /\ reader' = [reader EXCEPT ![s] = "storing"]
    /\ UNCHANGED <<call, command, pipe, hand, text, waiter, beat>>

\* The variant of Store that puts the line first.
StoreInFront(s) ==
    /\ reader[s] = "storing"
    /\ text' = <<Head(hand[s])>> \o snap[s]
    /\ snap' = [snap EXCEPT ![s] = <<>>]
    /\ hand' = [hand EXCEPT ![s] = Tail(@)]
    /\ reader' = [reader EXCEPT ![s] = "idle"]
    /\ UNCHANGED <<call, command, pipe, waiter, beat>>

\* ... and stored with the line appended.
Store(s) ==
    /\ reader[s] = "storing"
    /\ text' = Append(snap[s], Head(hand[s]))
    /\ snap' = [snap EXCEPT ![s] = <<>>]
    /\ hand' = [hand EXCEPT ![s] = Tail(@)]
    /\ reader' = [reader EXCEPT ![s] = "idle"]
    /\ UNCHANGED <<call, command, pipe, waiter, beat>>

\* The goroutine of os/exec writes what it read to the buffer.
Copy ==
    /\ api # "RunPipe" /\ reader["out"] = "idle" /\ hand["out"] # <<>>
    /\ text' = text \o hand["out"]
    /\ hand' = [hand EXCEPT !["out"] = <<>>]
    /\ UNCHANGED <<call, command, pipe, reader, snap, waiter, beat>>

\* End of file: everybody who could write is gone, or RunPipe's end is closed.
EndOfFile(s) ==
    /\ reader[s] = "idle" /\ hand[s] = <<>> /\ pipe[s] = <<>> /\ Ended
    /\ held => (api = "RunPipe" /\ waiter \in {"sending", "ended"})
    /\ reader' = [reader EXCEPT ![s] = "ended"]
    /\ UNCHANGED <<call, command, pipe, hand, snap, text, waiter, beat>>

-----------------------------------------------------------------------------
\* The waiter.  With a buffer, cmd.Wait waits for the copy; with pipes it
\* closes them as soon as the command has ended, read or not.

\* The variant that does not wait for the copy.
WaitBufferedForExit ==
    /\ api # "RunPipe" /\ waiter = "waiting" /\ Ended
    /\ waiter' = "sending"
    /\ UNCHANGED <<call, command, pipe, reading, beat>>

WaitBuffered ==
    /\ api # "RunPipe" /\ waiter = "waiting" /\ Ended /\ ReadersEnded
    /\ waiter' = "sending"
    /\ UNCHANGED <<call, command, pipe, reading, beat>>

WaitPipes ==
    /\ api = "RunPipe" /\ waiter = "waiting" /\ Ended
    /\ pipe' = [s \in Stream |-> <<>>]
    /\ waiter' = "sending"
    /\ UNCHANGED <<call, command, reading, beat>>

-----------------------------------------------------------------------------
\* The heartbeat.  Its select takes any case that is ready.

Beat ==
    /\ beat = "waiting" /\ beat' = "printing"
    /\ UNCHANGED <<call, command, pipe, reading, waiter>>

BeatPrints ==
    /\ beat = "printing" /\ beat' = "waiting"
    /\ UNCHANGED <<call, command, pipe, reading, waiter>>

\* The variant that closes heartbeatDone on the way out of success only.
BeatEndsOnSuccess ==
    /\ beat = "waiting" /\ at = "returned" /\ result = "ok" /\ beat' = "ended"
    /\ UNCHANGED <<call, command, pipe, reading, waiter>>

BeatEnds ==
    /\ beat = "waiting" /\ at = "returned" /\ beat' = "ended"
    /\ UNCHANGED <<call, command, pipe, reading, waiter>>

-----------------------------------------------------------------------------
\* The caller.

\* cmd.Start fails: RunFatal returns 1, the others the error.
StartFails ==
    /\ at = "start"
    /\ at' = "returned" /\ result' = "notStarted"
    /\ UNCHANGED <<api, answer, command, pipe, reading, waiter, beat>>

StartBuffered ==
    /\ at = "start" /\ api # "RunPipe"
    /\ at' = "select" /\ proc' = "running" /\ waiter' = "waiting"
    /\ reader' = [reader EXCEPT !["out"] = "idle"]
    /\ UNCHANGED <<api, result, answer, held, log, pipe, hand, snap, text, beat>>

\* ANYDBVER_PROGRESS_INTERVAL=0 turns the heartbeat off.
StartPipe ==
    /\ at = "start" /\ api = "RunPipe"
    /\ at' = "select" /\ proc' = "running" /\ waiter' = "waiting"
    /\ reader' = [s \in Stream |-> "idle"]
    /\ beat' \in {"off", "waiting"}
    /\ UNCHANGED <<api, result, answer, held, log, pipe, hand, snap, text>>

\* time.After: nobody will receive what the waiter sends.
Timeout ==
    /\ at = "select"
    /\ at' = IF api = "RunPipe" THEN "drainLate" ELSE "killed"
    /\ proc' = IF proc = "running" THEN "killed" ELSE proc
    /\ UNCHANGED <<api, result, answer, held, log, pipe, reading, waiter, beat>>

\* RunGetOutput returns the buffer as it is, while os/exec may be copying.
TimedOut ==
    /\ at = "killed"
    /\ at' = "returned" /\ result' = "timeout"
    /\ answer' \in {text} \cup (IF hand["out"] = <<>> THEN {} ELSE {<<Torn>>})
    /\ UNCHANGED <<api, command, pipe, reading, waiter, beat>>

\* The variant that looks at the output before it looks at the error.
VerdictByOutput(failure) ==
    IF Matches(text) THEN "ignored"
    ELSE IF proc = "succeeded" THEN "ok"
    ELSE failure

\* What a call makes of a command that ended and of its output.
Verdict(failure) ==
    IF proc = "succeeded" THEN "ok"
    ELSE IF Matches(text) THEN "ignored"
    ELSE failure

\* RunFatal ends the program when the error is not to be ignored.
FatalReceives ==
    /\ api = "RunFatal" /\ at = "select" /\ waiter = "sending"
    /\ at' = "returned" /\ waiter' = "ended" /\ answer' = text
    /\ result' = Verdict("exit")
    /\ UNCHANGED <<api, command, pipe, reading, beat>>

OutputReceives ==
    /\ api = "RunGetOutput" /\ at = "select" /\ waiter = "sending"
    /\ at' = "returned" /\ waiter' = "ended" /\ answer' = text
    /\ result' = Verdict("failed")
    /\ UNCHANGED <<api, command, pipe, reading, beat>>

PipeReceives ==
    /\ api = "RunPipe" /\ at = "select" /\ waiter = "sending"
    /\ at' = "drain" /\ waiter' = "ended"
    /\ UNCHANGED <<api, result, answer, command, pipe, reading, beat>>

\* The variant without wg.Wait after a timeout.
PipeReturnsAtOnce ==
    /\ at \in {"drain", "drainLate"} /\ (at = "drain" => ReadersEnded)
    /\ result' = IF at = "drain" THEN Verdict("failed") ELSE "timeout"
    /\ at' = "returned" /\ answer' = text
    /\ UNCHANGED <<api, command, pipe, reading, waiter, beat>>

\* wg.Wait, on both ways out of RunPipe.
PipeReturns ==
    /\ at \in {"drain", "drainLate"} /\ ReadersEnded
    /\ result' = IF at = "drain" THEN Verdict("failed") ELSE "timeout"
    /\ at' = "returned" /\ answer' = text
    /\ UNCHANGED <<api, command, pipe, reading, waiter, beat>>

-----------------------------------------------------------------------------
Reads(s) == Fill(s) \/ TooLong(s) \/ Load(s) \/ Store(s) \/ EndOfFile(s)
Reader == Copy \/ \E s \in Stream : Reads(s)
Waiter == WaitBuffered \/ WaitPipes
Caller ==
    \/ StartFails \/ StartBuffered \/ StartPipe
    \/ FatalReceives \/ OutputReceives \/ PipeReceives
    \/ TimedOut \/ PipeReturns

Next ==
    \/ Write \/ Exit \/ ChildExits
    \/ Reader \/ Waiter
    \/ Beat \/ BeatPrints \/ BeatEnds
    \/ Caller \/ Timeout

\* The goroutines run and the timer expires; the command owes nothing but to
\* die of SIGKILL.  A select that finds its channel closed again and again
\* takes that case at last.
Fairness ==
    /\ WF_vars(Caller) /\ WF_vars(Timeout) /\ WF_vars(Waiter)
    /\ WF_vars(Copy) /\ \A s \in Stream : WF_vars(Reads(s))
    /\ WF_vars(Exit /\ proc = "killed")
    /\ WF_vars(BeatPrints) /\ SF_vars(BeatEnds)

Spec == Init /\ [][Next]_vars /\ Fairness

-----------------------------------------------------------------------------
\* Each call keeps the promise of CommandCall: it returns, once, and agrees
\* with what became of the command.
Promise ==
    INSTANCE CommandCall WITH
        command <- IF proc = "killed" THEN "running" ELSE proc,
        result <- result
KeepsPromise == Promise!Spec

\* A buffered call that was not cut short by the timer judged and returned
\* all the command wrote, in the order it wrote it: cmd.Wait waits for the copy.
BufferedOutputIsWhole ==
    api # "RunPipe" /\ result \in {"ok", "ignored", "failed", "exit"} =>
        answer = [i \in 1 .. Len(log) |-> i]

\* When the command uses one stream, what RunPipe returns is the beginning of
\* what was written: no line is repeated, torn, skipped or out of order.
PipeTextIsPrefix ==
    api = "RunPipe" /\ (\E s \in Stream : \A i \in 1 .. Len(log) : log[i].stream = s) =>
        /\ Len(answer) <= Len(log)
        /\ \A i \in 1 .. Len(answer) : answer[i] = i

\* RunPipe returns when nothing of the command can be printed any more: its
\* readers have ended and, unless a line was too long to read, so has the command,
\* killed or not.  A heartbeat that is about to print still may.
PipeReturnIsFinal ==
    api = "RunPipe" /\ at = "returned" =>
        /\ ReadersEnded
        /\ Ended \/ result = "notStarted" \/ \E i \in 1 .. Len(log) : log[i].kind = "long"

\* The goroutines of a call that did not time out end, the heartbeat of any
\* call; after a timeout the waiter stays for ever, and in a buffered call the
\* copy for as long as a child keeps the output open.
GoroutinesEnd ==
    /\ at = "returned" ~> beat \in {"off", "ended"}
    /\ result \notin {"none", "timeout"} ~> ReadersEnded /\ waiter \in {"none", "ended"}

=============================================================================
