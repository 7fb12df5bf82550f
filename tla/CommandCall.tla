---------------------------- MODULE CommandCall ----------------------------
(***************************************************************************)
(* What every part of anydbver expects of a command it runs: the command   *)
(* is started at most once, the call returns exactly once and always does, *)
(* and what it returns agrees with what became of the command.  RunCommand *)
(* is the code behind it.                                                  *)
(***************************************************************************)

VARIABLES
    command,    \* "ready", "running", "succeeded" or "failed"
    result      \* what the call returned, "none" before it did

vars == <<command, result>>

Results == {"ok", "ignored", "failed", "timeout", "notStarted", "exit"}

Init == command = "ready" /\ result = "none"

Launch ==
    /\ command = "ready" /\ result = "none"
    /\ command' = "running"
    /\ UNCHANGED result

\* The command may also end behind the back of a call that gave up on it.
Finish ==
    /\ command = "running"
    /\ command' \in {"succeeded", "failed"}
    /\ UNCHANGED result

\* The only verdicts a call may return, given the state of the command.
Verdicts ==
    CASE command = "ready" -> {"notStarted"}
      [] command = "running" -> {"timeout"}
      [] command = "succeeded" -> {"ok", "timeout"}
      [] command = "failed" -> {"ignored", "failed", "exit", "timeout"}

Return ==
    /\ result = "none"
    /\ result' \in Verdicts
    /\ UNCHANGED command

Next == Launch \/ Finish \/ Return

Spec == Init /\ [][Next]_vars /\ WF_vars(Return)

=============================================================================
