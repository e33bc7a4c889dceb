------------------------- MODULE ProcessSupervision -------------------------
(***************************************************************************)
(* One AWS CLI child process: run_cli() (widgets/aws_cli.rs) asks          *)
(* run_native() (process.rs) to start it; an owner task reads its output,  *)
(* waits for it, and kills it when the request is cancelled, its caller is *)
(* dropped or its time is over.                                            *)
(*                                                                         *)
(* Time is fresh, then the deadline has passed, then the credentials have  *)
(* expired: the deadline is never the later one.  Clocks agree.  A child   *)
(* may start others, which hold its pipes open after it is gone; whatever  *)
(* holds a pipe may write to it, or close it, or never do either.          *)
(***************************************************************************)
EXTENDS Integers

CONSTANTS
  Streams,    \* stdout and stderr
  Limit       \* the bytes of output kept of a stream

ASSUME ProcessAssumption == Limit \in Nat /\ Streams # {}

VARIABLES
  caller,     \* run_cli() and run_native(), up to its await
  answer,     \* what run_cli() made of the result
  cancelled,  \* ProcessCancellation
  time,
  home,       \* IsolatedHome: none, present, or given up
  child,      \* none, running, exited, or waited for
  success,    \* its exit status
  killed,
  pipe,       \* pipe[s]: bytes written to it, and whether every writer closed it
  output,     \* output[s]: bytes kept, and whether the reader reached the end
  owner,      \* the owner task: none, idle, polling, cleaning or done
  waited,     \* whether its collecting future knows the exit status
  result      \* what the owner task returns

vars == <<caller, answer, cancelled, time, home, child, success, killed, pipe, output,
          owner, waited, result>>

-----------------------------------------------------------------------------
(* run_cli() and run_native() *)

Refuse(why) == caller' = "answered" /\ answer' = why

\* run_cli()'s guards and request_budget(): a caller that is cancelled, or whose
\* credentials are incomplete or expired, starts nothing.  Then the executable may not
\* be found, and the home directory may not be created.
Prepare ==
  /\ caller = "asking"
  /\ \/ cancelled /\ Refuse("cancelled") /\ UNCHANGED home
     \/ ~cancelled /\ Refuse("failed") /\ UNCHANGED home
     \/ /\ ~cancelled
        /\ caller' = "prepared" /\ home' = "present" /\ UNCHANGED answer
  /\ UNCHANGED <<cancelled, time, child, success, killed, pipe, output, owner, waited, result>>

\* The checks are repeated before the spawn; a child whose pipes are missing is owned
\* like any other, but cancelled at once.
Spawn ==
  /\ caller = "prepared"
  /\ \/ /\ Refuse(IF cancelled THEN "cancelled" ELSE "failed") /\ home' = "given up"
        /\ UNCHANGED <<cancelled, child, owner, pipe>>
     \/ /\ ~cancelled /\ time = "fresh"
        /\ child' = "running" /\ owner' = "idle" /\ UNCHANGED <<answer, home>>
        /\ \/ caller' = "waiting" /\ UNCHANGED <<cancelled, pipe>>
           \/ /\ caller' = "waiting without pipes" /\ cancelled' = TRUE
              /\ pipe' = [s \in Streams |-> [bytes |-> 0, closed |-> TRUE]]
  /\ UNCHANGED <<time, success, killed, output, waited, result>>

\* owner.await.  What was cancelled meanwhile is not shown.
Answer ==
  /\ owner = "done" /\ caller \in {"waiting", "waiting without pipes"}
  /\ Refuse(CASE result = "cleanup failed" -> result
              [] result # "cleanup failed" /\ caller = "waiting without pipes" -> "failed"
              [] result = "output" /\ caller = "waiting" ->
                   IF cancelled THEN "cancelled" ELSE IF success THEN "shown" ELSE "failed"
              [] OTHER -> result)
  /\ UNCHANGED <<cancelled, time, home, child, success, killed, pipe, output, owner,
                 waited, result>>

\* Whoever awaits run_cli() drops it: CancelOnDrop.
Drop ==
  /\ caller \in {"waiting", "waiting without pipes"} /\ caller' = "dropped"
  /\ cancelled' = TRUE
  /\ UNCHANGED <<answer, time, home, child, success, killed, pipe, output, owner, waited,
                 result>>

Cancel ==
  /\ ~cancelled /\ cancelled' = TRUE
  /\ UNCHANGED <<caller, answer, time, home, child, success, killed, pipe, output, owner,
                 waited, result>>

-----------------------------------------------------------------------------
(* The owner task: supervise() *)

Give(what) == owner' = "cleaning" /\ result' = what

\* Mutant: the deadline is looked at only when there is nothing to read.
PollUnhurried ==
  /\ owner = "idle"
  /\ \/ cancelled /\ Give("cancelled")
     \/ ~cancelled /\ owner' = "polling" /\ UNCHANGED result
  /\ UNCHANGED <<caller, answer, cancelled, time, home, child, success, killed, pipe,
                 output, waited>>

\* A biased select: first the cancellation, then the deadline, then the child.
Poll ==
  /\ owner = "idle"
  /\ \/ cancelled /\ Give("cancelled")
     \/ ~cancelled /\ time # "fresh" /\ Give("timed out")
     \/ ~cancelled /\ time = "fresh" /\ owner' = "polling" /\ UNCHANGED result
  /\ UNCHANGED <<caller, answer, cancelled, time, home, child, success, killed, pipe,
                 output, waited>>

\* read_capped(): one byte more than the limit tells a full stream from an overflow.
Read(s) ==
  /\ owner = "polling" /\ ~output[s].ended
  /\ \/ /\ pipe[s].bytes > output[s].bytes
        /\ IF output[s].bytes = Limit
             THEN Give("overflow") /\ UNCHANGED output
             ELSE /\ output' = [output EXCEPT ![s].bytes = @ + 1]
                  /\ UNCHANGED <<owner, result>>
     \/ /\ pipe[s].closed /\ pipe[s].bytes = output[s].bytes
        /\ output' = [output EXCEPT ![s].ended = TRUE] /\ UNCHANGED <<owner, result>>
     \/ Give("failed") /\ UNCHANGED output
  /\ UNCHANGED <<caller, answer, cancelled, time, home, child, success, killed, pipe, waited>>

Wait ==
  /\ owner = "polling" /\ ~waited
  /\ \/ child = "exited" /\ child' = "waited" /\ waited' = TRUE /\ UNCHANGED <<owner, result>>
     \/ Give("failed") /\ UNCHANGED <<child, waited>>
  /\ UNCHANGED <<caller, answer, cancelled, time, home, success, killed, pipe, output>>

\* try_join!() is done when both streams and the child are; or the poll finds no more.
EndPoll ==
  /\ owner = "polling"
  /\ IF waited /\ \A s \in Streams : output[s].ended
       THEN owner' = "done" /\ result' = "output" /\ home' = "given up"
       ELSE owner' = "idle" /\ UNCHANGED <<result, home>>
  /\ UNCHANGED <<caller, answer, cancelled, time, child, success, killed, pipe, output, waited>>

\* Mutant: a child that was sent the signal is taken for gone.
CleanUpWithoutWaiting ==
  /\ owner = "cleaning"
  /\ killed' = TRUE /\ owner' = "done" /\ home' = "given up"
  /\ UNCHANGED <<caller, answer, cancelled, time, child, success, pipe, output, waited, result>>

\* Killing may fail, as it does for a child that has exited; waiting tells what happened.
CleanUp ==
  /\ owner = "cleaning"
  /\ \/ ~killed /\ killed' = TRUE /\ UNCHANGED <<child, owner, home, result>>
     \/ /\ killed /\ child \in {"exited", "waited"} /\ child' = "waited"
        /\ owner' = "done" /\ home' = "given up" /\ UNCHANGED <<killed, result>>
     \/ /\ killed /\ result' = "cleanup failed"
        /\ owner' = "done" /\ home' = "given up" /\ UNCHANGED <<killed, child>>
  /\ UNCHANGED <<caller, answer, cancelled, time, success, pipe, output, waited>>

-----------------------------------------------------------------------------
(* The child, those it starts, and time *)

Write(s) ==
  /\ child # "none" /\ ~pipe[s].closed /\ pipe[s].bytes <= Limit
  /\ pipe' = [pipe EXCEPT ![s].bytes = @ + 1]
  /\ UNCHANGED <<caller, answer, cancelled, time, home, child, success, killed, output,
                 owner, waited, result>>

Close(s) ==
  /\ child # "none" /\ ~pipe[s].closed /\ pipe' = [pipe EXCEPT ![s].closed = TRUE]
  /\ UNCHANGED <<caller, answer, cancelled, time, home, child, success, killed, output,
                 owner, waited, result>>

Exit ==
  /\ child = "running" /\ child' = "exited"
  /\ success' \in IF killed THEN {FALSE} ELSE BOOLEAN
  /\ UNCHANGED <<caller, answer, cancelled, time, home, killed, pipe, output, owner,
                 waited, result>>

\* The deadline is counted from when the credentials were found valid.
Tick ==
  /\ caller # "asking"
  /\ \/ time = "fresh" /\ time' = "late"
     \/ time = "late" /\ time' = "expired"
  /\ UNCHANGED <<caller, answer, cancelled, home, child, success, killed, pipe, output,
                 owner, waited, result>>

-----------------------------------------------------------------------------

Init ==
  /\ caller = "asking" /\ answer = "none" /\ cancelled \in BOOLEAN /\ time = "fresh"
  /\ home = "none" /\ child = "none" /\ success = FALSE /\ killed = FALSE
  /\ pipe = [s \in Streams |-> [bytes |-> 0, closed |-> FALSE]]
  /\ output = [s \in Streams |-> [bytes |-> 0, ended |-> FALSE]]
  /\ owner = "none" /\ waited = FALSE /\ result = "none"

Next ==
  \/ Prepare \/ Spawn \/ Answer \/ Drop \/ Cancel
  \/ Poll \/ Wait \/ EndPoll \/ CleanUp \/ Exit \/ Tick
  \/ \E s \in Streams : Read(s) \/ Write(s) \/ Close(s)

\* Tasks are polled, timers fire, and a process that was sent SIGKILL exits; a child
\* that was not need not ever exit, nor write, nor close its pipes.
Fairness ==
  /\ WF_vars(Prepare) /\ WF_vars(Spawn) /\ WF_vars(Answer)
  /\ WF_vars(Poll) /\ WF_vars(EndPoll) /\ WF_vars(CleanUp)
  /\ WF_vars(Tick) /\ WF_vars(killed /\ Exit)

Spec == Init /\ [][Next]_vars
FairSpec == Spec /\ Fairness

-----------------------------------------------------------------------------
(* Properties *)

\* An answer other than that the cleanup failed means that there is no child left: it
\* was never started, or has been waited for; and its home directory was given up, which
\* removes it if it is empty.  What is shown is the whole output of a child that exited
\* by itself.
AnsweredMeansGone ==
  caller = "answered" =>
    /\ answer # "cleanup failed" => child \in {"none", "waited"} /\ home # "present"
    /\ answer = "shown" =>
         \A s \in Streams : output[s].bytes = pipe[s].bytes /\ pipe[s].closed

\* A child that is started does not run for ever, even if it never ends by itself, its
\* pipes stay open, or nobody waits for the answer any more: it is seen to have exited,
\* or the owner reports that it could not see it; and then the home directory goes.
EveryChildEnds ==
  (child = "running") ~> (owner = "done" /\ home = "given up" /\ child # "running")
=============================================================================
