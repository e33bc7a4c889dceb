---------------------------- MODULE RequestProofs ----------------------------
(***************************************************************************)
(* Proofs about what a request goes through: the child process that runs   *)
(* its command (ProcessSupervision), the command (CliCommand), the profile *)
(* it signs in with (SsoProfile) and its shape (Requests).                 *)
(*                                                                         *)
(* The last three are about data, and most of the work is in what the      *)
(* operators return, for any input: their invariants only say what the     *)
(* inputs are made of.                                                     *)
(***************************************************************************)
EXTENDS
  ProcessSupervision, CliCommand, SsoProfile, Requests,
  FiniteSetTheorems, SequenceTheorems, TLAPS

-----------------------------------------------------------------------------
(***************************************************************************)
(* The child process, for any streams and output limit.                    *)
(*                                                                         *)
(* The caller only passes on what the owner task returned, so the argument *)
(* follows the child through the owner: before there is an owner there is  *)
(* no child, and an owner is done only with a child that was waited for or *)
(* with a report that it could not be.                                     *)
(***************************************************************************)

\* Streams are records that can be updated field by field, flags are flags.
Typed ==
  /\ pipe \in [Streams -> [bytes : Int, closed : BOOLEAN]]
  /\ output \in [Streams -> [bytes : Int, ended : BOOLEAN]]
  /\ waited \in BOOLEAN /\ cancelled \in BOOLEAN /\ success \in BOOLEAN /\ killed \in BOOLEAN

\* Nothing was started, read or waited for.
NotStarted ==
  owner = "none" =>
    /\ child = "none" /\ ~waited /\ \A s \in Streams : ~output[s].ended
    /\ caller \in {"asking", "prepared", "answered"}
    /\ caller # "prepared" => home # "present"
    /\ caller = "answered" => answer # "shown"

\* Somebody awaits the owner, has its answer, or was dropped.
Owned ==
  /\ owner # "none" => caller \in {"waiting", "waiting without pipes", "dropped", "answered"}
  /\ caller = "answered" => owner \in {"none", "done"}

\* The owner's end is the child's, unless it says otherwise.
Finished ==
  /\ owner = "done" => home = "given up" /\ (child = "waited" \/ result = "cleanup failed")
  /\ owner = "done" /\ result = "output" => \A s \in Streams : output[s].ended
  /\ owner = "cleaning" => result # "output"
  /\ waited => child = "waited"
  /\ result # "shown"

\* A stream that was read to its end is closed, and all of it was read.
ReadToEnd ==
  \A s \in Streams : output[s].ended => pipe[s].closed /\ output[s].bytes = pipe[s].bytes

\* The answer of a caller that had an owner is the owner's.
PassedOn ==
  caller = "answered" /\ owner = "done" =>
    /\ result = "cleanup failed" => answer = "cleanup failed"
    /\ answer = "shown" => result = "output"

ProcessInv == Typed /\ NotStarted /\ Owned /\ Finished /\ ReadToEnd /\ PassedOn

-----------------------------------------------------------------------------
\* The call has not begun.
LEMMA InitProcess == Init => ProcessInv
<1> SUFFICES ASSUME Init PROVE ProcessInv
  OBVIOUS
<1>1. Typed
  <2>1. /\ [bytes |-> 0, closed |-> FALSE] \in [bytes : Int, closed : BOOLEAN]
        /\ [bytes |-> 0, ended |-> FALSE] \in [bytes : Int, ended : BOOLEAN]
    OBVIOUS
  <2>2. /\ pipe \in [Streams -> [bytes : Int, closed : BOOLEAN]]
        /\ output \in [Streams -> [bytes : Int, ended : BOOLEAN]]
    BY <2>1 DEF Init
  <2>3. waited \in BOOLEAN /\ cancelled \in BOOLEAN /\ success \in BOOLEAN /\ killed \in BOOLEAN
    BY DEF Init
  <2> QED
    BY <2>2, <2>3 DEF Typed
<1>2. NotStarted /\ Owned /\ Finished /\ PassedOn
  BY DEF Init, NotStarted, Owned, Finished, PassedOn
<1>3. ReadToEnd
  BY DEF Init, ReadToEnd
<1> QED
  BY <1>1, <1>2, <1>3 DEF ProcessInv

\* Every step keeps the child in sight.
LEMMA StepProcess == ProcessInv /\ [Next]_vars => ProcessInv'
<1> SUFFICES ASSUME ProcessInv, [Next]_vars PROVE ProcessInv'
  OBVIOUS
<1>0. Typed /\ NotStarted /\ Owned /\ Finished /\ ReadToEnd /\ PassedOn
  BY DEF ProcessInv
<1>1. CASE Prepare
  <2>1. Typed'
    BY <1>1, <1>0 DEF Prepare, Refuse, Typed
  <2>2. NotStarted'
    BY <1>1, <1>0 DEF Prepare, Refuse, Typed, NotStarted, Owned
  <2>3. Owned'
    BY <1>1, <1>0 DEF Prepare, Refuse, Owned, NotStarted
  <2>4. Finished'
    BY <1>1, <1>0 DEF Prepare, Refuse, Typed, Finished, NotStarted, Owned
  <2>5. ReadToEnd'
    BY <1>1, <1>0 DEF Prepare, Refuse, Typed, ReadToEnd, NotStarted
  <2>6. PassedOn'
    BY <1>1, <1>0 DEF Prepare, Refuse, PassedOn, NotStarted, Owned
  <2> QED
    BY <2>1, <2>2, <2>3, <2>4, <2>5, <2>6 DEF ProcessInv
<1>2. CASE Spawn
  <2>1. Typed'
    <3>1. pipe' \in [Streams -> [bytes : Int, closed : BOOLEAN]]
      <4>1. [bytes |-> 0, closed |-> TRUE] \in [bytes : Int, closed : BOOLEAN]
        OBVIOUS
      <4> QED
        BY <1>2, <1>0, <4>1 DEF Spawn, Typed
    <3>2. cancelled' \in BOOLEAN
      BY <1>2, <1>0, Zenon DEF Spawn, Typed
    <3> QED
      BY <1>2, <1>0, <3>1, <3>2 DEF Spawn, Typed
  <2>2. NotStarted'
    BY <1>2, <1>0 DEF Spawn, Refuse, Typed, NotStarted, Owned
  <2>3. Owned'
    BY <1>2, <1>0 DEF Spawn, Refuse, Owned, NotStarted
  <2>4. Finished'
    BY <1>2, <1>0 DEF Spawn, Refuse, Typed, Finished, NotStarted, Owned
  <2>5. ReadToEnd'
    <3>1. output' = output /\ \A s \in Streams : ~output[s].ended
      BY <1>2, <1>0 DEF Spawn, NotStarted, Owned
    <3> QED
      BY <3>1 DEF ReadToEnd
  <2>6. PassedOn'
    BY <1>2, <1>0 DEF Spawn, Refuse, PassedOn, NotStarted, Owned
  <2> QED
    BY <2>1, <2>2, <2>3, <2>4, <2>5, <2>6 DEF ProcessInv
<1>3. CASE Answer
  <2>1. Typed'
    BY <1>3, <1>0 DEF Answer, Refuse, Typed
  <2>2. NotStarted'
    BY <1>3, <1>0 DEF Answer, Refuse, Typed, NotStarted, Owned
  <2>3. Owned'
    BY <1>3, <1>0 DEF Answer, Refuse, Owned, NotStarted
  <2>4. Finished'
    BY <1>3, <1>0 DEF Answer, Refuse, Typed, Finished, NotStarted, Owned
  <2>5. ReadToEnd'
    BY <1>3, <1>0 DEF Answer, Refuse, Typed, ReadToEnd, NotStarted
  <2>6. PassedOn'
    <3>1. result = "cleanup failed" => answer' = "cleanup failed"
      BY <1>3 DEF Answer, Refuse
    <3>2. result # "cleanup failed" /\ result # "output" => answer' \in {result, "failed"}
      BY <1>3 DEF Answer, Refuse
    <3>3. result # "shown"
      BY <1>0, <1>3 DEF Answer, Finished
    <3> QED
      BY <1>3, <3>1, <3>2, <3>3 DEF Answer, PassedOn
  <2> QED
    BY <2>1, <2>2, <2>3, <2>4, <2>5, <2>6 DEF ProcessInv
<1>4. CASE Drop \/ Cancel
  <2>1. Typed'
    BY <1>4, <1>0 DEF Drop, Cancel, Typed
  <2>2. NotStarted'
    BY <1>4, <1>0 DEF Drop, Cancel, Typed, NotStarted, Owned
  <2>3. Owned'
    BY <1>4, <1>0 DEF Drop, Cancel, Owned, NotStarted
  <2>4. Finished'
    <3>1. UNCHANGED <<owner, home, child, result, output, waited>>
      BY <1>4 DEF Drop, Cancel
    <3> QED
      BY <3>1, <1>0 DEF Finished
  <2>5. ReadToEnd'
    BY <1>4, <1>0 DEF Drop, Cancel, Typed, ReadToEnd, NotStarted
  <2>6. PassedOn'
    BY <1>4, <1>0 DEF Drop, Cancel, PassedOn, NotStarted, Owned
  <2> QED
    BY <2>1, <2>2, <2>3, <2>4, <2>5, <2>6 DEF ProcessInv
<1>5. CASE Tick
  <2>1. Typed'
    BY <1>5, <1>0 DEF Tick, Typed
  <2>2. NotStarted'
    BY <1>5, <1>0 DEF Tick, Typed, NotStarted, Owned
  <2>3. Owned'
    BY <1>5, <1>0 DEF Tick, Owned, NotStarted
  <2>4. Finished'
    BY <1>5, <1>0 DEF Tick, Typed, Finished, NotStarted, Owned
  <2>5. ReadToEnd'
    BY <1>5, <1>0 DEF Tick, Typed, ReadToEnd, NotStarted
  <2>6. PassedOn'
    BY <1>5, <1>0 DEF Tick, PassedOn, NotStarted, Owned
  <2> QED
    BY <2>1, <2>2, <2>3, <2>4, <2>5, <2>6 DEF ProcessInv
<1>6. CASE Exit
  <2>1. Typed'
    BY <1>6, <1>0 DEF Exit, Typed
  <2>2. NotStarted'
    BY <1>6, <1>0 DEF Exit, Typed, NotStarted, Owned
  <2>3. Owned'
    BY <1>6, <1>0 DEF Exit, Owned, NotStarted
  <2>4. Finished'
    BY <1>6, <1>0 DEF Exit, Typed, Finished, NotStarted, Owned
  <2>5. ReadToEnd'
    BY <1>6, <1>0 DEF Exit, Typed, ReadToEnd, NotStarted
  <2>6. PassedOn'
    BY <1>6, <1>0 DEF Exit, PassedOn, NotStarted, Owned
  <2> QED
    BY <2>1, <2>2, <2>3, <2>4, <2>5, <2>6 DEF ProcessInv
<1>7. CASE Poll
  <2>1. Typed'
    BY <1>7, <1>0 DEF Poll, Give, Typed
  <2>2. NotStarted'
    BY <1>7, <1>0 DEF Poll, Give, Typed, NotStarted, Owned
  <2>3. Owned'
    BY <1>7, <1>0 DEF Poll, Give, Owned, NotStarted
  <2>4. Finished'
    BY <1>7, <1>0 DEF Poll, Give, Typed, Finished, NotStarted, Owned
  <2>5. ReadToEnd'
    BY <1>7, <1>0 DEF Poll, Give, Typed, ReadToEnd, NotStarted
  <2>6. PassedOn'
    BY <1>7, <1>0 DEF Poll, Give, PassedOn, NotStarted, Owned
  <2> QED
    BY <2>1, <2>2, <2>3, <2>4, <2>5, <2>6 DEF ProcessInv
<1>8. CASE Wait
  <2>1. Typed'
    BY <1>8, <1>0 DEF Wait, Give, Typed
  <2>2. NotStarted'
    BY <1>8, <1>0 DEF Wait, Give, Typed, NotStarted, Owned
  <2>3. Owned'
    BY <1>8, <1>0 DEF Wait, Give, Owned, NotStarted
  <2>4. Finished'
    <3>1. /\ owner' # "done" /\ result' # "shown"
          /\ owner' = "cleaning" => result' = "failed"
      BY <1>8, <1>0 DEF Wait, Give, Finished
    <3>2. waited' => child' = "waited"
      BY <1>8, <1>0 DEF Wait, Finished
    <3> QED
      BY <3>1, <3>2 DEF Finished
  <2>5. ReadToEnd'
    BY <1>8, <1>0 DEF Wait, Give, Typed, ReadToEnd, NotStarted
  <2>6. PassedOn'
    BY <1>8, <1>0 DEF Wait, Give, PassedOn, NotStarted, Owned
  <2> QED
    BY <2>1, <2>2, <2>3, <2>4, <2>5, <2>6 DEF ProcessInv
<1>9. CASE EndPoll
  <2>1. Typed'
    BY <1>9, <1>0 DEF EndPoll, Typed
  <2>2. NotStarted'
    BY <1>9, <1>0 DEF EndPoll, Typed, NotStarted, Owned
  <2>3. Owned'
    BY <1>9, <1>0 DEF EndPoll, Owned, NotStarted
  <2>4. Finished'
    BY <1>9, <1>0 DEF EndPoll, Typed, Finished, NotStarted, Owned
  <2>5. ReadToEnd'
    BY <1>9, <1>0 DEF EndPoll, Typed, ReadToEnd, NotStarted
  <2>6. PassedOn'
    BY <1>9, <1>0 DEF EndPoll, PassedOn, NotStarted, Owned
  <2> QED
    BY <2>1, <2>2, <2>3, <2>4, <2>5, <2>6 DEF ProcessInv
<1>10. CASE CleanUp
  <2>1. Typed'
    BY <1>10, <1>0 DEF CleanUp, Typed
  <2>2. NotStarted'
    BY <1>10, <1>0 DEF CleanUp, Typed, NotStarted, Owned
  <2>3. Owned'
    BY <1>10, <1>0 DEF CleanUp, Owned, NotStarted
  <2>4. Finished'
    BY <1>10, <1>0 DEF CleanUp, Typed, Finished, NotStarted, Owned
  <2>5. ReadToEnd'
    BY <1>10, <1>0 DEF CleanUp, Typed, ReadToEnd, NotStarted
  <2>6. PassedOn'
    BY <1>10, <1>0 DEF CleanUp, PassedOn, NotStarted, Owned
  <2> QED
    BY <2>1, <2>2, <2>3, <2>4, <2>5, <2>6 DEF ProcessInv
<1>11. ASSUME NEW s \in Streams, Read(s) PROVE ProcessInv'
  <2>1. Typed'
    <3>1. output' \in [Streams -> [bytes : Int, ended : BOOLEAN]]
      <4>1. /\ [output[s] EXCEPT !.bytes = @ + 1] \in [bytes : Int, ended : BOOLEAN]
            /\ [output[s] EXCEPT !.ended = TRUE] \in [bytes : Int, ended : BOOLEAN]
        <5>1. output[s] \in [bytes : Int, ended : BOOLEAN]
          BY <1>0 DEF Typed
        <5>2. output[s].bytes \in Int /\ output[s].ended \in BOOLEAN
          BY <5>1
        <5>3. [output[s] EXCEPT !.bytes = @ + 1] \in [bytes : Int, ended : BOOLEAN]
          BY <5>1, <5>2
        <5>4. [output[s] EXCEPT !.ended = TRUE] \in [bytes : Int, ended : BOOLEAN]
          BY <5>1, <5>2
        <5> QED
          BY <5>3, <5>4
      <4>2. \/ output' = output
            \/ output' = [output EXCEPT ![s] = [output[s] EXCEPT !.bytes = @ + 1]]
            \/ output' = [output EXCEPT ![s] = [output[s] EXCEPT !.ended = TRUE]]
        BY <1>11 DEF Read
      <4> QED
        BY <1>0, <4>1, <4>2 DEF Typed
    <3> QED
      BY <1>11, <1>0, <3>1 DEF Read, Typed
  <2>2. NotStarted'
    BY <1>11, <1>0 DEF Read, Give, Typed, NotStarted, Owned
  <2>3. Owned'
    BY <1>11, <1>0 DEF Read, Give, Owned, NotStarted
  <2>4. Finished'
    BY <1>11, <1>0 DEF Read, Give, Typed, Finished, NotStarted, Owned
  <2>5. ReadToEnd'
    BY <1>11, <1>0 DEF Read, Give, Typed, ReadToEnd, NotStarted
  <2>6. PassedOn'
    BY <1>11, <1>0 DEF Read, Give, PassedOn, NotStarted, Owned
  <2> QED
    BY <2>1, <2>2, <2>3, <2>4, <2>5, <2>6 DEF ProcessInv
<1>12. ASSUME NEW s \in Streams, Write(s) PROVE ProcessInv'
  <2>1. Typed'
    BY <1>12, <1>0 DEF Write, Typed
  <2>2. NotStarted'
    BY <1>12, <1>0 DEF Write, Typed, NotStarted, Owned
  <2>3. Owned'
    BY <1>12, <1>0 DEF Write, Owned, NotStarted
  <2>4. Finished'
    BY <1>12, <1>0 DEF Write, Typed, Finished, NotStarted, Owned
  <2>5. ReadToEnd'
    BY <1>12, <1>0 DEF Write, Typed, ReadToEnd, NotStarted
  <2>6. PassedOn'
    BY <1>12, <1>0 DEF Write, PassedOn, NotStarted, Owned
  <2> QED
    BY <2>1, <2>2, <2>3, <2>4, <2>5, <2>6 DEF ProcessInv
<1>13. ASSUME NEW s \in Streams, Close(s) PROVE ProcessInv'
  <2>1. Typed'
    BY <1>13, <1>0 DEF Close, Typed
  <2>2. NotStarted'
    BY <1>13, <1>0 DEF Close, Typed, NotStarted, Owned
  <2>3. Owned'
    BY <1>13, <1>0 DEF Close, Owned, NotStarted
  <2>4. Finished'
    BY <1>13, <1>0 DEF Close, Typed, Finished, NotStarted, Owned
  <2>5. ReadToEnd'
    BY <1>13, <1>0 DEF Close, Typed, ReadToEnd, NotStarted
  <2>6. PassedOn'
    BY <1>13, <1>0 DEF Close, PassedOn, NotStarted, Owned
  <2> QED
    BY <2>1, <2>2, <2>3, <2>4, <2>5, <2>6 DEF ProcessInv
<1>14. CASE UNCHANGED vars
  <2>1. Typed'
    BY <1>14, <1>0 DEF vars, Typed
  <2>2. NotStarted'
    BY <1>14, <1>0 DEF vars, Typed, NotStarted, Owned
  <2>3. Owned'
    BY <1>14, <1>0 DEF vars, Owned, NotStarted
  <2>4. Finished'
    BY <1>14, <1>0 DEF vars, Typed, Finished, NotStarted, Owned
  <2>5. ReadToEnd'
    BY <1>14, <1>0 DEF vars, Typed, ReadToEnd, NotStarted
  <2>6. PassedOn'
    BY <1>14, <1>0 DEF vars, PassedOn, NotStarted, Owned
  <2> QED
    BY <2>1, <2>2, <2>3, <2>4, <2>5, <2>6 DEF ProcessInv
<1> QED
  BY <1>1, <1>2, <1>3, <1>4, <1>5, <1>6, <1>7, <1>8, <1>9, <1>10, <1>11, <1>12, <1>13, <1>14
  DEF Next

\* Whoever is answered, other than that the cleanup failed, leaves no child behind and
\* has given up its home directory, which is removed if it is empty; and what is shown was
\* read to the end of every stream.
THEOREM NoChildOutlivesItsAnswer == Spec => []AnsweredMeansGone
<1>1. ProcessInv => AnsweredMeansGone
  BY DEF ProcessInv, Typed, NotStarted, Owned, Finished, ReadToEnd, PassedOn,
         AnsweredMeansGone
<1> QED
  BY <1>1, InitProcess, StepProcess, PTL DEF Spec

-----------------------------------------------------------------------------
(***************************************************************************)
(* The command, for any values and any number of arguments.                *)
(*                                                                         *)
(* An option and its values that are put behind an argv are read back for  *)
(* themselves, and change nothing about what is before them; so the argv   *)
(* is read back as what was seen after every argument.                     *)
(***************************************************************************)

\* The reviewed arguments.
ArgumentNames ==
  {"--log-group-name", "--log-group-identifier", "--start-time", "--end-time",
   "--stack-status-filter", "--stack-name", "--physical-resource-id",
   "--logical-resource-id", "--log-group-name-prefix", "--log-group-name-pattern",
   "--log-group-class", "--query-id", "--next-token", "--max-items",
   "--log-stream-names", "--log-stream-name-prefix", "--filter-pattern",
   "--log-stream-name", "--limit", "--start-from-head", "--no-start-from-head",
   "--order-by", "--descending", "--no-descending", "--pipeline-name", "--ids",
   "--format", "--namespace", "--package-prefix", "--publish", "--upstream",
   "--package", "--status", "--sort-by", "--origin-type", "--package-version",
   "--function-version", "--master-region", "--resource-type-filters",
   "--domain", "--repository", "--domain-owner", "--starting-token",
   "--no-paginate", "--page-size", "--query"}

Word == PlainWords \cup ArgumentNames \cup {"--output"}

\* The domain of two functions in one.
LEMMA MergedDomain == ASSUME NEW f, NEW g PROVE DOMAIN (f ++ g) = DOMAIN f \cup DOMAIN g
BY DEF ++

\* The domain of a function with one value.
LEMMA DomainOfAll == ASSUME NEW names, NEW value PROVE DOMAIN All(names, value) = names
BY DEF All

\* The arguments that belong to an operation are among the reviewed ones.
LEMMA ReviewedNames ==
  ASSUME NEW op \in Operations
  PROVE  DOMAIN OwnSchema(op) \subseteq ArgumentNames
<1>0. DOMAIN <<>> = {}
  OBVIOUS
<1>1. CASE op \in {"GetCallerIdentity", "ListPipelines"}
  BY <1>1, <1>0 DEF OwnSchema
<1>2. CASE op \in {"ListStacks", "DescribeStackResources", "DescribeStackEvents",
                   "ListPipelineExecutions", "ListActionExecutions", "BatchGetBuilds",
                   "GetResources"}
  BY <1>2, DomainOfAll DEF OwnSchema, ArgumentNames
<1>3. CASE op \in {"DescribeLogGroups", "GetQueryResults", "ListFunctions"}
  BY <1>3, DomainOfAll DEF ++, OwnSchema, ArgumentNames
<1>4. CASE op \in {"FilterLogEvents", "GetLogEvents", "DescribeLogStreams"}
  BY <1>4, DomainOfAll DEF ++, OwnSchema, ArgumentNames, Group, Window
<1>5. CASE op \in {"ListPackages", "ListPackageVersions", "DescribePackageVersion"}
  BY <1>5, DomainOfAll DEF ++, OwnSchema, ArgumentNames
<1> QED
  BY <1>1, <1>2, <1>3, <1>4, <1>5, CommandAssumption

\* So are those of its schema.
LEMMA SchemaNames ==
  ASSUME NEW op \in Operations PROVE DOMAIN Schema(op) \subseteq ArgumentNames
<1> DEFINE
  packages == IF op \in PackageOperations
                THEN All({"--domain", "--repository"}, Needed(One("scalar")))
                       ++ All({"--domain-owner"}, One("account"))
                ELSE <<>>
  paging == IF op \in ItemOperations \cup PagedOperations
              THEN All({"--starting-token"}, One("token")) ++ All({"--max-items"}, One("number"))
                     ++ All({"--no-paginate"}, Flag)
              ELSE <<>>
  sizes == IF op \in PagedOperations THEN All({"--page-size"}, One("number")) ELSE <<>>
  filter == All({"--query"}, One("expression"))
<1>0. DOMAIN <<>> = {}
  OBVIOUS
<1>1. DOMAIN packages \subseteq ArgumentNames
  BY <1>0, DomainOfAll DEF ++, ArgumentNames
<1>2. DOMAIN paging \subseteq ArgumentNames
  BY <1>0, DomainOfAll DEF ++, ArgumentNames
<1>3. DOMAIN sizes \subseteq ArgumentNames
  BY <1>0, DomainOfAll DEF ArgumentNames
<1>4. DOMAIN filter \subseteq ArgumentNames
  BY DomainOfAll DEF ArgumentNames
<1>5. Schema(op) = OwnSchema(op) ++ packages ++ paging ++ sizes ++ filter
  BY DEF Schema
<1> HIDE DEF packages, paging, sizes, filter
<1> QED
  BY <1>1, <1>2, <1>3, <1>4, <1>5, ReviewedNames DEF ++

\* A reviewed argument begins with a dash.
LEMMA NamesAreDashed ==
  /\ \A name \in ArgumentNames \cup {"--output"} : Dashed(name)
  /\ "--output" \notin ArgumentNames /\ ~Dashed("json")
<1>1. PlainWords \cap (ArgumentNames \cup {"--output"}) = {}
  BY DEF PlainWords, ClosedKinds, Members, Numbers, ArgumentNames
<1>2. "--output" \notin ArgumentNames
  BY DEF ArgumentNames
<1>3. "json" \in PlainWords
  BY DEF PlainWords
<1> QED
  BY <1>1, <1>2, <1>3 DEF Dashed

\* An option and its values behind other words are read back after what these
\* say, and change nothing about it.
LEMMA Appended ==
  ASSUME NEW words \in Seq(Word), NEW name \in Word, Dashed(name),
         NEW values \in Seq(PlainWords)
  PROVE  LET after == words \o <<name>> \o values
         IN /\ after \in Seq(Word)
            /\ Options(after) = Options(words) \cup {Len(words) + 1}
            /\ ReadBack(after) = ReadBack(words) \cup {<<name, values>>}
<1> DEFINE after == words \o <<name>> \o values
           n == Len(words) + 1
<1>0. PlainWords \subseteq Word
  BY DEF Word
<1>1. /\ after \in Seq(Word) /\ Len(after) = n + Len(values)
      /\ \A i \in 1..Len(words) : after[i] = words[i]
      /\ after[n] = name
      /\ \A i \in 1..Len(values) : after[n + i] = values[i]
  <2>1. /\ <<name>> \in Seq(Word) /\ Len(<<name>>) = 1 /\ <<name>>[1] = name
        /\ values \in Seq(Word)
    BY <1>0
  <2>2. /\ words \o <<name>> \in Seq(Word) /\ Len(words \o <<name>>) = n
        /\ \A i \in 1..Len(words) : (words \o <<name>>)[i] = words[i]
        /\ (words \o <<name>>)[n] = name
    BY <2>1, ConcatProperties
  <2> QED
    BY <2>1, <2>2, ConcatProperties
<1> HIDE DEF after
<1>2. /\ Len(words) \in Nat /\ Len(values) \in Nat /\ DOMAIN words = 1..Len(words)
      /\ DOMAIN after = 1..Len(after) /\ Len(after) \in Nat
  BY <1>1
<1>3. Options(after) = Options(words) \cup {n}
  <2>1. \A i \in 1..Len(values) : ~Dashed(values[i])
    BY DEF Dashed
  <2>2. ASSUME NEW i \in DOMAIN after PROVE i \in Options(after) <=> i \in Options(words) \cup {n}
    <3>1. CASE i \in 1..Len(words)
      BY <3>1, <1>1, <1>2 DEF Options
    <3>2. CASE i = n
      BY <3>2, <1>1, <1>2 DEF Options
    <3>3. CASE i > n
      <4>1. i - n \in 1..Len(values) /\ i = n + (i - n)
        BY <3>3, <1>1, <1>2
      <4> QED
        BY <4>1, <3>3, <1>1, <1>2, <2>1 DEF Options
    <3> QED
      BY <3>1, <3>2, <3>3, <1>1, <1>2
  <2> QED
    BY <2>2, <1>1, <1>2 DEF Options
<1>4. Options(words) \subseteq 1..Len(words)
  BY <1>2 DEF Options
<1>5. Spans(after) = Spans(words) \cup {<<n, Len(after)>>}
  <2>1. Spans(words) \subseteq Spans(after)
    BY <1>1, <1>2, <1>3, <1>4 DEF Spans
  <2>2. <<n, Len(after)>> \in Spans(after)
    BY <1>1, <1>2, <1>3, <1>4 DEF Spans
  <2>3. ASSUME NEW i \in Options(after), NEW j \in DOMAIN after, <<i, j>> \in Spans(after),
               i # n
        PROVE  <<i, j>> \in Spans(words)
    <3>1. i \in Options(words) /\ i <= j /\ j < n
      BY <2>3, <1>1, <1>2, <1>3, <1>4 DEF Spans
    <3>2. j = Len(words) \/ j + 1 \in Options(words)
      BY <2>3, <3>1, <1>1, <1>2, <1>3, <1>4 DEF Spans
    <3>3. \A k \in Options(words) : k <= i \/ k > j
      BY <2>3, <1>3 DEF Spans
    <3> QED
      BY <3>1, <3>2, <3>3, <1>2 DEF Spans
  <2>4. ASSUME NEW j \in DOMAIN after, <<n, j>> \in Spans(after) PROVE j = Len(after)
    BY <2>4, <1>1, <1>2, <1>3, <1>4 DEF Spans
  <2>5. \A span \in Spans(after) : \E i \in Options(after), j \in DOMAIN after : span = <<i, j>>
    BY DEF Spans
  <2> QED
    BY <2>1, <2>2, <2>3, <2>4, <2>5
<1>6. ASSUME NEW span \in Spans(words)
      PROVE  /\ after[span[1]] = words[span[1]]
             /\ SubSeq(after, span[1] + 1, span[2]) = SubSeq(words, span[1] + 1, span[2])
  <2>1. span[1] \in 1..Len(words) /\ span[2] \in 1..Len(words) /\ span[1] <= span[2]
    BY <1>2, <1>4 DEF Spans
  <2> DEFINE m == span[1] + 1
             l == span[2]
  <2>2. m \in Int /\ l \in Int
    BY <2>1
  <2>3. \A i \in m..l : after[i] = words[i] /\ words[i] \in Word
    BY <2>1, <1>1, <1>2
  <2>4. after[span[1]] = words[span[1]]
    BY <2>1, <1>1, <1>2
  <2> HIDE DEF m, l
  <2>5. \A i \in m..l : after[i] \in Word
    BY <2>3
  <2>6. /\ SubSeq(words, m, l) \in Seq(Word)
        /\ Len(SubSeq(words, m, l)) = IF m <= l THEN l - m + 1 ELSE 0
        /\ \A i \in 1..(l - m + 1) : SubSeq(words, m, l)[i] = words[m + i - 1]
    BY <2>2, <2>3, SubSeqProperties
  <2>7. /\ SubSeq(after, m, l) \in Seq(Word)
        /\ Len(SubSeq(after, m, l)) = IF m <= l THEN l - m + 1 ELSE 0
        /\ \A i \in 1..(l - m + 1) : SubSeq(after, m, l)[i] = after[m + i - 1]
    BY <2>2, <2>5, SubSeqProperties
  <2>8. \A i \in 1..Len(SubSeq(after, m, l)) : SubSeq(after, m, l)[i] = SubSeq(words, m, l)[i]
    BY <2>2, <2>3, <2>6, <2>7
  <2>9. SubSeq(after, m, l) = SubSeq(words, m, l)
    BY <2>6, <2>7, <2>8, SeqEqual
  <2> QED
    BY <2>4, <2>9 DEF m, l
<1>7. after[n] = name /\ SubSeq(after, n + 1, Len(after)) = values
  <2> DEFINE l == Len(after)
             rest == SubSeq(after, n + 1, l)
  <2>1. \A i \in (n + 1)..l : after[i] \in Word
    BY <1>1, <1>2
  <2>2. /\ rest \in Seq(Word)
        /\ Len(rest) = IF n + 1 <= l THEN l - (n + 1) + 1 ELSE 0
        /\ \A i \in 1..(l - (n + 1) + 1) : rest[i] = after[n + 1 + i - 1]
    BY <2>1, <1>2, SubSeqProperties
  <2> HIDE DEF rest
  <2>3. values \in Seq(Word)
    BY <1>0
  <2>4. Len(rest) = Len(values)
    BY <2>2, <1>1, <1>2
  <2>5. ASSUME NEW i \in 1..Len(values) PROVE rest[i] = values[i]
    <3>1. i \in 1..(l - (n + 1) + 1) /\ n + 1 + i - 1 = n + i
      BY <1>1, <1>2
    <3> QED
      BY <3>1, <2>2, <1>1
  <2>6. rest = values
    BY <2>2, <2>3, <2>4, <2>5, SeqEqual
  <2> QED
    BY <2>6, <1>1 DEF rest
<1>8. ReadBack(after) = ReadBack(words) \cup {<<name, values>>}
  <2> DEFINE Taken(span, all) == <<all[span[1]], SubSeq(all, span[1] + 1, span[2])>>
  <2>1. \A span \in Spans(words) : Taken(span, after) = Taken(span, words)
    BY <1>6
  <2>2. Taken(<<n, Len(after)>>, after) = <<name, values>>
    BY <1>7
  <2>3. /\ ReadBack(after) = {Taken(span, after) : span \in Spans(after)}
        /\ ReadBack(words) = {Taken(span, words) : span \in Spans(words)}
    BY DEF ReadBack
  <2> HIDE DEF Taken
  <2> QED
    BY <2>1, <2>2, <2>3, <1>5
<1> QED
  BY <1>1, <1>3, <1>8 DEF after

-----------------------------------------------------------------------------
\* The arguments that were read: reviewed ones, with values that are no options,
\* as many as the argument takes.
SeenInv ==
  /\ verb \in Operations
  /\ DOMAIN seen \subseteq DOMAIN Schema(verb) /\ IsFiniteSet(DOMAIN seen)
  /\ \A name \in DOMAIN seen :
       /\ seen[name] \in Seq(PlainWords)
       /\ LET argument == Schema(verb)[name]
          IN /\ argument.arity = "flag" => seen[name] = <<>>
             /\ argument.arity = "one" => Len(seen[name]) = 1
             /\ argument.arity = "list" => Len(seen[name]) \in 1..argument.most

Pairing == {<<name, seen[name]>> : name \in DOMAIN seen}

\* They are what the argv is read back as, and each of them is one option.
RebuiltInv ==
  outcome # "accepted" =>
    /\ argv \in Seq(Word) /\ ReadBack(argv) = Pairing
    /\ Cardinality(Options(argv)) = Cardinality(DOMAIN seen)

CommandInv == SeenInv /\ RebuiltInv /\ CommandReadsBack

\* Nothing was read.
LEMMA InitCommand == CommandInit => CommandInv
<1> SUFFICES ASSUME CommandInit PROVE CommandInv
  OBVIOUS
<1>1. DOMAIN <<>> = {} /\ IsFiniteSet({}) /\ Cardinality({}) = 0 /\ <<>> \in Seq(Word)
  BY FS_EmptySet
<1>2. SeenInv
  BY <1>1 DEF CommandInit, SeenInv
<1>3. Options(<<>>) = {} /\ Spans(<<>>) = {} /\ ReadBack(<<>>) = {}
  BY <1>1 DEF Options, Spans, ReadBack
<1>4. Pairing = {}
  BY <1>1 DEF CommandInit, Pairing
<1> QED
  BY <1>1, <1>2, <1>3, <1>4 DEF CommandInv, CommandInit, RebuiltInv, CommandReadsBack

\* One more option, and as many values as there are.
LEMMA OneMore ==
  ASSUME NEW words \in Seq(Word), NEW name \in Word, Dashed(name),
         NEW values \in Seq(PlainWords)
  PROVE  Cardinality(Options(words \o <<name>> \o values)) = Cardinality(Options(words)) + 1
<1>1. Options(words) \subseteq 1..Len(words) /\ Len(words) \in Nat
  BY DEF Options
<1>2. IsFiniteSet(1..Len(words))
  BY <1>1, FS_Interval
<1>3. IsFiniteSet(Options(words)) /\ Len(words) + 1 \notin Options(words)
  BY <1>1, <1>2, FS_Subset
<1> QED
  BY <1>3, Appended, FS_AddElement

\* A schema is the operation's.
LEMMA SameSchema == ASSUME UNCHANGED verb PROVE Schema(verb)' = Schema(verb)
BY DEF Schema, OwnSchema

\* An argument that is accepted is one of the schema's that was not read before,
\* with as many values as it takes, none of which begins with a dash.
LEMMA AcceptStep ==
  ASSUME CommandInv, outcome = "reading",
         NEW name \in DOMAIN Schema(verb) \ DOMAIN seen, NEW values \in Seq(PlainWords),
         LET argument == Schema(verb)[name]
         IN /\ argument.arity = "flag" => values = <<>>
            /\ argument.arity = "one" => Len(values) = 1
            /\ argument.arity = "list" => Len(values) \in 1..argument.most,
         Accept(name, values)
  PROVE  CommandInv'
<1>0. SeenInv /\ RebuiltInv
  BY DEF CommandInv
<1>1. name \in ArgumentNames /\ name \in Word /\ Dashed(name)
  BY <1>0, SchemaNames, NamesAreDashed DEF SeenInv, Word
<1>2. /\ DOMAIN seen' = DOMAIN seen \cup {name} /\ seen'[name] = values
      /\ \A other \in DOMAIN seen : seen'[other] = seen[other]
      /\ verb' = verb /\ outcome' = "reading"
      /\ argv' = argv \o <<name>> \o values
  BY DEF Accept, ++, :=
<1>3. SeenInv'
  <2>1. IsFiniteSet(DOMAIN seen')
    BY <1>0, <1>2, FS_AddElement DEF SeenInv
  <2>2. Schema(verb)' = Schema(verb)
    BY <1>2, SameSchema
  <2> QED
    BY <1>0, <1>2, <2>1, <2>2 DEF SeenInv
<1>4. RebuiltInv'
  <2>1. argv \in Seq(Word) /\ ReadBack(argv) = Pairing
        /\ Cardinality(Options(argv)) = Cardinality(DOMAIN seen)
    BY <1>0 DEF RebuiltInv
  <2>2. argv' \in Seq(Word) /\ ReadBack(argv)' = Pairing \cup {<<name, values>>}
    BY <1>1, <1>2, <2>1, Appended
  <2>3. Pairing' = Pairing \cup {<<name, values>>}
    BY <1>2 DEF Pairing
  <2>4. Cardinality(Options(argv))' = Cardinality(DOMAIN seen) + 1
    BY <1>1, <1>2, <2>1, OneMore
  <2>5. Cardinality(DOMAIN seen)' = Cardinality(DOMAIN seen) + 1
    BY <1>0, <1>2, FS_AddElement DEF SeenInv
  <2> QED
    BY <2>2, <2>3, <2>4, <2>5 DEF RebuiltInv
<1>5. CommandReadsBack'
  BY <1>2 DEF CommandReadsBack
<1> QED
  BY <1>3, <1>4, <1>5 DEF CommandInv

\* A command that is refused stays as it was.
LEMMA RejectStep == ASSUME CommandInv, outcome = "reading", Reject PROVE CommandInv'
<1>1. SeenInv'
  BY SameSchema DEF CommandInv, SeenInv, Reject
<1>2. RebuiltInv'
  BY DEF CommandInv, RebuiltInv, Pairing, Reject
<1>3. CommandReadsBack'
  BY DEF Reject, CommandReadsBack
<1> QED
  BY <1>1, <1>2, <1>3 DEF CommandInv

\* What is read next is accepted with values that are no options, or refused.
LEMMA ArgumentStep ==
  ASSUME CommandInv, NEW name, NEW inline \in AtMostOne(Values),
         Argument(name, inline)
  PROVE  CommandInv'
<1> DEFINE argument == Schema(verb)[name]
<1>0. outcome = "reading" /\ name \in DOMAIN Schema(verb) \ DOMAIN seen
  BY DEF Argument
<1>1. CASE argument.arity = "flag" /\ Switch(name, inline)
  <2>1. Reject \/ Accept(name, <<>>)
    BY <1>1 DEF Switch
  <2>2. <<>> \in Seq(PlainWords)
    OBVIOUS
  <2> QED
    BY <1>0, <1>1, <2>1, <2>2, RejectStep, AcceptStep
<1>2. ASSUME argument.arity = "one", NEW next \in AtMostOne(Values \cup {"--query"}),
             Single(name, inline, next)
      PROVE  CommandInv'
  <2> DEFINE values == IF inline # <<>> THEN inline ELSE next
  <2>1. Reject \/ (Accept(name, values) /\ values # <<>> /\ ~Dashed(values[1]))
    BY <1>2 DEF Single, ValidValue
  <2>2. CASE Accept(name, values) /\ values # <<>> /\ ~Dashed(values[1])
    <3>1. PICK value : values = <<value>>
      BY <2>2 DEF AtMostOne
    <3>2. value \in PlainWords
      BY <2>2, <3>1 DEF Dashed
    <3>3. <<value>> \in Seq(PlainWords) /\ Len(<<value>>) = 1
      BY <3>2
    <3> QED
      BY <1>0, <1>2, <2>2, <3>1, <3>3, AcceptStep
  <2> QED
    BY <1>0, <2>1, <2>2, RejectStep
<1>3. ASSUME argument.arity = "list",
             NEW words \in UNION {[1..n -> {v \in Values : ~Dashed(v)}] : n \in 0..MaxWords},
             Several(name, inline, words)
      PROVE  CommandInv'
  <2> DEFINE values == inline \o words
  <2>1. \/ Reject
        \/ /\ Accept(name, values) /\ Len(values) \in 1..argument.most
           /\ \A i \in DOMAIN values : ~Dashed(values[i])
    BY <1>3 DEF Several, ValidListValue, ValidValue
  <2>2. CASE /\ Accept(name, values) /\ Len(values) \in 1..argument.most
             /\ \A i \in DOMAIN values : ~Dashed(values[i])
    <3>1. inline \in Seq(Values)
      <4>1. inline = <<>> \/ \E value \in Values : inline = <<value>>
        BY DEF AtMostOne
      <4>2. ASSUME NEW value \in Values PROVE <<value>> \in Seq(Values)
        OBVIOUS
      <4>3. <<>> \in Seq(Values)
        OBVIOUS
      <4> QED
        BY <4>1, <4>2, <4>3, Zenon
    <3>2. words \in Seq(Values)
      OBVIOUS
    <3>3. values \in Seq(Values)
      BY <3>1, <3>2
    <3> HIDE DEF values
    <3>4. values \in Seq(PlainWords)
      BY <2>2, <3>3 DEF Dashed
    <3> QED
      BY <1>0, <1>3, <2>2, <3>4, AcceptStep
  <2> QED
    BY <1>0, <2>1, <2>2, RejectStep
<1> QED
  BY <1>1, <1>2, <1>3 DEF Argument

\* The end adds what asks for JSON.
LEMMA FinishStep == ASSUME CommandInv, EndOfCommand PROVE CommandInv'
<1>0. SeenInv /\ RebuiltInv /\ outcome = "reading"
  BY DEF CommandInv, EndOfCommand
<1>1. CASE Reject
  BY <1>0, <1>1, RejectStep
<1>2. CASE /\ outcome' = "accepted" /\ argv' = argv \o <<"--output", "json">>
           /\ UNCHANGED <<verb, seen>>
  <2>1. argv \in Seq(Word) /\ ReadBack(argv) = Pairing
        /\ Cardinality(Options(argv)) = Cardinality(DOMAIN seen)
    BY <1>0 DEF RebuiltInv
  <2>2. /\ "--output" \in Word /\ Dashed("--output") /\ <<"json">> \in Seq(PlainWords)
    BY NamesAreDashed DEF Word, Dashed
  <2>3. argv' = argv \o <<"--output">> \o <<"json">>
    BY <1>2, <2>1
  <2>4. ReadBack(argv)' = Pairing \cup {<<"--output", <<"json">>>>}
    BY <2>1, <2>2, <2>3, Appended
  <2>5. Cardinality(Options(argv))' = Cardinality(DOMAIN seen) + 1
    BY <2>1, <2>2, <2>3, OneMore
  <2>6. SeenInv'
    BY <1>0, <1>2, SameSchema DEF SeenInv
  <2>7. CommandReadsBack'
    <3>1. Pairing' = Pairing /\ (DOMAIN seen)' = DOMAIN seen
      BY <1>2 DEF Pairing
    <3> QED
      BY <2>4, <2>5, <2>6, <3>1 DEF CommandReadsBack, Pairing, SeenInv
  <2>8. RebuiltInv'
    BY <1>2 DEF RebuiltInv
  <2> QED
    BY <2>6, <2>7, <2>8 DEF CommandInv
<1> QED
  BY <1>1, <1>2 DEF EndOfCommand

\* Every step keeps what was rebuilt in line with what was reviewed.
LEMMA StepCommand ==
  ASSUME CommandInv, [CommandNext]_commandVars PROVE CommandInv'
<1>1. CASE Unreviewed
  BY <1>1, RejectStep DEF Unreviewed
<1>2. CASE EndOfCommand
  BY <1>2, FinishStep
<1>3. ASSUME NEW name \in DOMAIN Schema(verb), NEW inline \in AtMostOne(Values),
             Argument(name, inline)
      PROVE  CommandInv'
  BY <1>3, ArgumentStep
<1>4. CASE UNCHANGED commandVars
  <2>1. UNCHANGED <<verb, seen, argv, outcome>>
    BY <1>4 DEF commandVars
  <2>2. SeenInv'
    BY <2>1, SameSchema DEF CommandInv, SeenInv
  <2>3. RebuiltInv'
    BY <2>1 DEF CommandInv, RebuiltInv, Pairing
  <2>4. CommandReadsBack'
    BY <2>1, SameSchema DEF CommandInv, CommandReadsBack
  <2> QED
    BY <2>2, <2>3, <2>4 DEF CommandInv
<1> QED
  BY <1>1, <1>2, <1>3, <1>4 DEF CommandNext

\* The executable reads, from the argv of any accepted command, exactly the arguments
\* that were reviewed, whatever the values and however many the arguments.
THEOREM CommandsReadBack == CommandSpec => []CommandReadsBack
<1>1. CommandInit => CommandInv
  BY InitCommand
<1>2. CommandInv /\ [CommandNext]_commandVars => CommandInv'
  BY StepCommand
<1>3. CommandInv => CommandReadsBack
  BY DEF CommandInv
<1> QED
  BY <1>1, <1>2, <1>3, PTL DEF CommandSpec

-----------------------------------------------------------------------------
(***************************************************************************)
(* The profile, for any values and any number of edits.                    *)
(*                                                                         *)
(* The section that is selected is the only one of its name, and so is its *)
(* session's: a reader of the file reaches these two, each of which gives  *)
(* a setting once, and where both give it they agree.                      *)
(***************************************************************************)

\* What a file holds: sections of a few names, whose settings are given values that
\* are not the absent one.
SettingNames ==
  Keys \cup {"sso_account_id", "sso_role_name", "region", "sso_start_url", "sso_region",
             "sso_session"}
Lists == Seq(ConfigValues \cup {"one", "two"})
SettingSets == UNION {[keys -> Lists] : keys \in SUBSET SettingNames}
HeaderSet == Headers \cup {<<"profile", "dev">>, <<"sso-session", "one">>}
Section == [header : HeaderSet, settings : SettingSets]

FileInv == sections \in Seq(Section)

\* A function from setting names to lists of values is one of the settings a section
\* may have.
LEMMA IsSettings ==
  ASSUME NEW keys \in SUBSET SettingNames, NEW f \in [keys -> Lists] PROVE f \in SettingSets
BY DEF SettingSets

\* And these are all of them.
LEMMA SettingsAre ==
  ASSUME NEW f \in SettingSets
  PROVE  /\ DOMAIN f \subseteq SettingNames /\ f \in [DOMAIN f -> Lists]
         /\ \A key \in DOMAIN f : f[key] \in Lists
BY DEF SettingSets

\* A good file is a file.
LEMMA InitFile == ProfileInit => FileInv
<1> SUFFICES ASSUME ProfileInit PROVE FileInv
  OBVIOUS
<1> DEFINE with == Own ++ Provider
           named == "sso_session" := <<"one">>
<1>0. <<"one">> \in Lists
  BY DEF Lists
<1>1. Own \in SettingSets
  BY <1>0, IsSettings DEF Own, SettingNames
<1>2. Provider \in SettingSets
  BY <1>0, IsSettings DEF Provider, SettingNames
<1>3. with \in SettingSets
  <2>1. with \in [{"sso_account_id", "sso_role_name", "region", "sso_start_url", "sso_region"}
                    -> Lists]
    BY <1>0 DEF Own, Provider, ++
  <2> QED
    BY <2>1, IsSettings DEF SettingNames
<1>4. Own ++ named \in SettingSets
  <2>1. Own ++ named \in [{"sso_account_id", "sso_role_name", "region", "sso_session"} -> Lists]
    BY <1>0 DEF Own, ++, :=
  <2> QED
    BY <2>1, IsSettings DEF SettingNames
<1>5. with ++ named \in SettingSets
  <2>1. with ++ named \in
          [{"sso_account_id", "sso_role_name", "region", "sso_start_url", "sso_region",
            "sso_session"} -> Lists]
    BY <1>0 DEF Own, Provider, ++, :=
  <2> QED
    BY <2>1, IsSettings DEF SettingNames
<1>6. {<<"profile", "dev">>, <<"default">>, <<"sso-session", "one">>} \subseteq HeaderSet
  BY DEF HeaderSet, Headers
<1> HIDE DEF with, named
<1>7. \A header \in HeaderSet, settings \in SettingSets : Of(header, settings) \in Section
  BY DEF Of, Section
<1>8. sections \in
       {<<Of(<<"profile", "dev">>, with), Of(<<"default">>, Own)>>,
        <<Of(<<"profile", "dev">>, Own ++ named), Of(<<"sso-session", "one">>, Provider)>>,
        <<Of(<<"profile", "dev">>, with ++ named), Of(<<"sso-session", "one">>, Provider)>>}
  BY DEF ProfileInit, with, named
<1> DEFINE a == Of(<<"profile", "dev">>, with)
           b == Of(<<"default">>, Own)
           c == Of(<<"profile", "dev">>, Own ++ named)
           d == Of(<<"sso-session", "one">>, Provider)
           e == Of(<<"profile", "dev">>, with ++ named)
<1>9. a \in Section /\ b \in Section /\ c \in Section /\ d \in Section /\ e \in Section
  BY <1>1, <1>2, <1>3, <1>4, <1>5, <1>6, <1>7
<1>10. sections \in {<<a, b>>, <<c, d>>, <<e, d>>}
  BY <1>8
<1> HIDE DEF a, b, c, d, e
<1>11. \A x, y \in Section : <<x, y>> \in Seq(Section)
  OBVIOUS
<1> QED
  BY <1>9, <1>10, <1>11 DEF FileInv

\* A file stays one, whatever is edited.
LEMMA StepFile == FileInv /\ [ProfileNext]_profileVars => FileInv'
<1> SUFFICES ASSUME FileInv, [ProfileNext]_profileVars PROVE FileInv'
  OBVIOUS
<1>1. ASSUME NEW i \in DOMAIN sections
      PROVE  /\ sections[i] = [header |-> sections[i].header, settings |-> sections[i].settings]
             /\ sections[i].header \in HeaderSet /\ sections[i].settings \in SettingSets
  <2>1. sections[i] \in Section
    BY DEF FileInv
  <2> QED
    BY <2>1 DEF Section
<1>2. ASSUME NEW i \in DOMAIN sections, NEW section \in Section
      PROVE  [sections EXCEPT ![i] = section] \in Seq(Section)
  BY DEF FileInv
<1>3. ASSUME NEW i \in DOMAIN sections, NEW settings \in SettingSets
      PROVE  [sections EXCEPT ![i].settings = settings] \in Seq(Section)
  <2>1. [sections[i] EXCEPT !.settings = settings] \in Section
    BY <1>1, <1>3 DEF Section
  <2>2. [sections EXCEPT ![i].settings = settings]
          = [sections EXCEPT ![i] = [sections[i] EXCEPT !.settings = settings]]
    OBVIOUS
  <2> QED
    BY <1>2, <2>1, <2>2
<1>4. ASSUME NEW i \in DOMAIN sections, NEW key \in Keys, NEW values \in Lists,
             Set(i, key, values)
      PROVE  FileInv'
  <2> DEFINE f == (key := values) ++ sections[i].settings
  <2>1. DOMAIN f = {key} \cup DOMAIN sections[i].settings /\ f \in [DOMAIN f -> Lists]
    BY <1>1, SettingsAre DEF :=, ++
  <2>2. DOMAIN f \in SUBSET SettingNames
    BY <2>1, <1>1, SettingsAre DEF SettingNames
  <2>3. sections' = [sections EXCEPT ![i].settings = f]
    BY <1>4 DEF Set, EditFile
  <2> HIDE DEF f
  <2> QED
    BY <1>3, <2>1, <2>2, <2>3, IsSettings DEF FileInv
<1>5. ASSUME NEW i \in DOMAIN sections, NEW key \in Keys, Unset(i, key) PROVE FileInv'
  <2> DEFINE f == [k \in DOMAIN sections[i].settings \ {key} |-> sections[i].settings[k]]
  <2>1. DOMAIN f \in SUBSET SettingNames /\ f \in [DOMAIN f -> Lists]
    BY <1>1, SettingsAre
  <2>2. sections' = [sections EXCEPT ![i].settings = f]
    BY <1>5 DEF Unset, EditFile
  <2> HIDE DEF f
  <2> QED
    BY <1>3, <2>1, <2>2, IsSettings DEF FileInv
<1>6. ASSUME NEW i \in DOMAIN sections, NEW header \in Headers, Rename(i, header) PROVE FileInv'
  <2>1. [sections[i] EXCEPT !.header = header] \in Section
    BY <1>1, <1>6 DEF Section, HeaderSet
  <2>2. sections' = [sections EXCEPT ![i] = [sections[i] EXCEPT !.header = header]]
    BY <1>6 DEF Rename, EditFile
  <2> QED
    BY <1>2, <2>1, <2>2 DEF FileInv
<1>7. ASSUME NEW i \in DOMAIN sections, Repeat(i) PROVE FileInv'
  <2>1. sections' = Append(sections, sections[i]) /\ sections[i] \in Section
    BY <1>7 DEF Repeat, EditFile, FileInv
  <2> QED
    BY <2>1 DEF FileInv
<1>8. CASE UNCHANGED profileVars
  BY <1>8 DEF profileVars, FileInv
<1>9. (\A first \in ConfigValues : <<first>> \in Lists) /\ <<"one", "two">> \in Lists
  BY DEF Lists
<1> QED
  BY <1>4, <1>5, <1>6, <1>7, <1>8, <1>9 DEF ProfileNext

-----------------------------------------------------------------------------
\* The settings of a section are lists of values.
LEMMA SectionIs ==
  ASSUME FileInv, NEW i \in DOMAIN sections
  PROVE  \A key \in DOMAIN sections[i].settings : sections[i].settings[key] \in Lists
<1>1. sections[i] \in Section
  BY DEF FileInv
<1>2. sections[i].settings \in SettingSets
  BY <1>1 DEF Section
<1> QED
  BY <1>2, SettingsAre

\* A section holds settings, and a setting that is given is not an absent one.
LEMMA GivenPresent ==
  ASSUME FileInv,
         NEW i \in DOMAIN sections, NEW key \in DOMAIN sections[i].settings
  PROVE  /\ Value(i, key) = Trim(sections[i].settings[key][1])
         /\ Len(sections[i].settings[key]) = 1 => Value(i, key) # Absent
<1>1. sections[i].settings[key] \in Lists
  BY SectionIs
<1>2. Value(i, key) = Trim(sections[i].settings[key][1])
  BY DEF Value
<1>3. Len(sections[i].settings[key]) = 1 => sections[i].settings[key][1] # "absent"
  BY <1>1, ProfileAssumption DEF Lists
<1> QED
  BY <1>2, <1>3 DEF Trim, Absent

\* A section that is selected is the only one of its name, and its settings are known,
\* printable and given once.
LEMMA SelectedIs ==
  ASSUME FileInv, NEW name, NEW session \in BOOLEAN, NEW p \in Selected(name, session)
  PROVE  /\ p \in DOMAIN sections /\ Named(name, session) = {p} /\ Selected(name, session) = {p}
         /\ \A key \in DOMAIN sections[p].settings :
              /\ Supported(key, session) /\ Len(sections[p].settings[key]) = 1
              /\ Printable(sections[p].settings[key][1])
<1>1. /\ p \in Named(name, session) /\ Cardinality(Named(name, session)) = 1
      /\ p \in DOMAIN sections /\ Selected(name, session) \subseteq Named(name, session)
  BY DEF Selected, Named
<1>2. IsFiniteSet(Named(name, session))
  <2>1. Named(name, session) \subseteq 1..Len(sections) /\ Len(sections) \in Nat
    BY DEF FileInv, Named
  <2>2. IsFiniteSet(1..Len(sections))
    BY <2>1, FS_Interval
  <2> QED
    BY <2>1, <2>2, FS_Subset
<1>3. \E x : Named(name, session) = {x}
  BY <1>1, <1>2, FS_Singleton
<1>4. Named(name, session) = {p}
  BY <1>1, <1>3
<1>5. \A key \in DOMAIN sections[p].settings :
        /\ Supported(key, session) /\ Len(sections[p].settings[key]) = 1
        /\ Printable(sections[p].settings[key][1])
  BY DEF Selected
<1> QED
  BY <1>1, <1>4, <1>5

\* What a reader could take from sections that give each setting once: their values.
LEMMA GivenIs ==
  ASSUME FileInv, NEW name, NEW key,
         \A i \in Reachable(name) : i \in DOMAIN sections,
         \A i \in Reachable(name) :
           key \in DOMAIN sections[i].settings => Len(sections[i].settings[key]) = 1
  PROVE  Given(name, key) = {Value(i, key) : i \in Reachable(name)} \ {Absent}
<1> DEFINE Gives(i) == key \in DOMAIN sections[i].settings
<1>1. ASSUME NEW i \in Reachable(name), Gives(i)
      PROVE  /\ {Trim(sections[i].settings[key][k]) : k \in DOMAIN sections[i].settings[key]}
                  = {Value(i, key)}
             /\ Value(i, key) # Absent
  <2>1. sections[i].settings[key] \in Lists
    BY <1>1, SectionIs
  <2>2. DOMAIN sections[i].settings[key] = {1}
    BY <1>1, <2>1 DEF Lists
  <2> QED
    BY <1>1, <2>2, GivenPresent
<1>2. \A i \in Reachable(name) : ~Gives(i) => Value(i, key) = Absent
  BY DEF Value
<1>3. Given(name, key) =
        UNION {{Trim(sections[i].settings[key][k]) : k \in DOMAIN sections[i].settings[key]} :
                 i \in {j \in Reachable(name) : Gives(j)}}
  BY DEF Given
<1> DEFINE Taken(i) ==
             {Trim(sections[i].settings[key][k]) : k \in DOMAIN sections[i].settings[key]}
<1>4. Given(name, key) = UNION {Taken(i) : i \in {j \in Reachable(name) : Gives(j)}}
  BY <1>3
<1>5. \A i \in Reachable(name) : Gives(i) => Taken(i) = {Value(i, key)} /\ Value(i, key) # Absent
  BY <1>1
<1> HIDE DEF Gives, Taken
<1> QED
  BY <1>2, <1>4, <1>5

\* No reader reaches more than the profile that is selected and the session it asks for.
LEMMA ReachableIs ==
  ASSUME FileInv, NEW name, NEW p \in Selected(name, FALSE)
  PROVE  Reachable(name) = {p} \cup (IF Value(p, "sso_session") = Absent THEN {}
                                     ELSE Named(Value(p, "sso_session"), TRUE))
<1>1. /\ Named(name, FALSE) = {p} /\ p \in DOMAIN sections
      /\ \A key \in DOMAIN sections[p].settings : Len(sections[p].settings[key]) = 1
  BY SelectedIs
<1> DEFINE Trimmed(given) == {Trim(given[k]) : k \in DOMAIN given}
           asked == {sections[i].settings["sso_session"] :
                       i \in {j \in Named(name, FALSE) :
                               "sso_session" \in DOMAIN sections[j].settings}}
           names == UNION {Trimmed(given) : given \in asked}
<1>2. Reachable(name) = Named(name, FALSE) \cup UNION {Named(session, TRUE) : session \in names}
  BY DEF Reachable
<1>3. CASE "sso_session" \in DOMAIN sections[p].settings
  <2> DEFINE given == sections[p].settings["sso_session"]
  <2>1. given \in Lists
    BY <1>1, <1>3, SectionIs
  <2>2. DOMAIN given = {1}
    BY <1>1, <1>3, <2>1 DEF Lists
  <2>3. asked = {given}
    BY <1>1, <1>3
  <2>4. Trimmed(given) = {Trim(given[1])}
    BY <2>2
  <2>5. Value(p, "sso_session") = Trim(given[1]) /\ Value(p, "sso_session") # Absent
    BY <1>1, <1>3, GivenPresent
  <2> HIDE DEF given, asked, Trimmed
  <2>6. names = {Trim(given[1])}
    BY <2>3, <2>4
  <2> HIDE DEF names
  <2> QED
    BY <1>1, <1>2, <2>5, <2>6
<1>4. CASE "sso_session" \notin DOMAIN sections[p].settings
  <2>1. names = {}
    BY <1>1, <1>4
  <2>2. Value(p, "sso_session") = Absent
    BY <1>4 DEF Value
  <2> HIDE DEF names
  <2> QED
    BY <1>1, <1>2, <2>1, <2>2
<1> QED
  BY <1>3, <1>4

\* What the list takes for a setting of a selected profile is its value.
LEMMA RawIs ==
  ASSUME FileInv, NEW name, NEW p \in Selected(name, FALSE), NEW key
  PROVE  /\ Raw(Named(name, FALSE), key) = IF Value(p, key) = Absent THEN "" ELSE Value(p, key)
         /\ Printable(Raw(Named(name, FALSE), key))
<1> DEFINE given == {sections[i].settings[key] :
                       i \in {j \in Named(name, FALSE) : key \in DOMAIN sections[j].settings}}
<1>1. /\ Named(name, FALSE) = {p} /\ p \in DOMAIN sections /\ Cardinality({p}) = 1
      /\ key \in DOMAIN sections[p].settings =>
           Len(sections[p].settings[key]) = 1 /\ Printable(sections[p].settings[key][1])
  BY SelectedIs, FS_Singleton
<1>2. Raw(Named(name, FALSE), key) =
        IF \E values \in given : Len(values) = 1
          THEN Trim((CHOOSE values \in given : TRUE)[1]) ELSE ""
  <2>1. Cardinality(Named(name, FALSE)) = 1
    BY <1>1
  <2> QED
    BY <2>1 DEF Raw
<1>3. CASE key \in DOMAIN sections[p].settings
  <2>1. given = {sections[p].settings[key]}
    BY <1>1, <1>3
  <2>2. Value(p, key) = Trim(sections[p].settings[key][1]) /\ Value(p, key) # Absent
    BY <1>1, <1>3, GivenPresent
  <2> HIDE DEF given
  <2>3. Raw(Named(name, FALSE), key) = Value(p, key)
    BY <1>1, <1>2, <1>3, <2>1, <2>2
  <2> QED
    BY <1>1, <1>3, <2>2, <2>3 DEF Trim, Printable
<1>4. CASE key \notin DOMAIN sections[p].settings
  <2>1. given = {} /\ Value(p, key) = Absent
    BY <1>1, <1>4 DEF Value
  <2> HIDE DEF given
  <2> QED
    BY <1>2, <2>1 DEF Printable
<1> QED
  BY <1>3, <1>4

\* A setting of a profile alone is given by no session it asks for.
LEMMA GivenAlone ==
  ASSUME FileInv, NEW name, NEW p \in Selected(name, FALSE), NEW key,
         Value(p, "sso_session") = Absent \/ Session(p) # {}, ~Supported(key, TRUE)
  PROVE  Given(name, key) = {Value(p, key)} \ {Absent}
<1> DEFINE session == Value(p, "sso_session")
<1>1. /\ p \in DOMAIN sections
      /\ \A k \in DOMAIN sections[p].settings : Len(sections[p].settings[k]) = 1
  BY SelectedIs
<1>2. Reachable(name) = {p} \cup (IF session = Absent THEN {} ELSE Named(session, TRUE))
  BY ReachableIs
<1>3. \A i \in Reachable(name) :
        i = p \/ (i \in DOMAIN sections /\ key \notin DOMAIN sections[i].settings)
  <2>1. CASE session = Absent
    BY <1>2, <2>1
  <2>2. CASE session # Absent
    <3>1. PICK s : s \in Selected(session, TRUE)
      BY <2>2 DEF Session
    <3>2. /\ Named(session, TRUE) = {s} /\ s \in DOMAIN sections
          /\ \A k \in DOMAIN sections[s].settings : Supported(k, TRUE)
      BY <3>1, SelectedIs
    <3> HIDE DEF session
    <3> QED
      BY <1>2, <2>2, <3>2
  <2> QED
    BY <2>1, <2>2
<1>4. Given(name, key) = {Value(i, key) : i \in Reachable(name)} \ {Absent}
  BY <1>1, <1>3, GivenIs
<1>5. \A i \in Reachable(name) : i = p \/ Value(i, key) = Absent
  BY <1>3 DEF Value
<1>6. p \in Reachable(name)
  BY <1>2
<1> QED
  BY <1>4, <1>5, <1>6

\* What the list takes for the names of a profile is long just if one of them is.
LEMMA ShownLength ==
  ASSUME FileInv, NEW selection \in Selections, Accepts(selection)
  PROVE  LET name == selection.profile
         IN TooLong(name) <=>
              \/ name = "long"
              \/ \E key \in {"sso_role_name", "region", "sso_session"} :
                   Raw(Named(name, FALSE), key) = "long"
<1> DEFINE name == selection.profile
           keys == {"sso_role_name", "region", "sso_session"}
<1>1. PICK p \in Selected(name, FALSE) : Acceptable(p, selection)
  BY DEF Accepts
<1>2. Value(p, "sso_session") = Absent \/ Session(p) # {}
  BY <1>1 DEF Acceptable
<1>3. \A key \in keys : ~Supported(key, TRUE)
  BY DEF Supported, ProviderSettings
<1>4. ASSUME NEW key \in keys
      PROVE  "long" \in Given(name, key) <=> Raw(Named(name, FALSE), key) = "long"
  <2>1. Given(name, key) = {Value(p, key)} \ {Absent}
    BY <1>1, <1>2, <1>3, GivenAlone
  <2>2. Raw(Named(name, FALSE), key) = IF Value(p, key) = Absent THEN "" ELSE Value(p, key)
    BY <1>1, RawIs
  <2> QED
    BY <2>1, <2>2 DEF Absent
<1>5. TooLong(name) <=> name = "long" \/ \E key \in keys : "long" \in Given(name, key)
  BY DEF TooLong
<1> QED
  BY <1>4, <1>5

\* The names of profiles.
LEMMA NamesOfProfiles == ASSUME FileInv PROVE Profiles \subseteq DOMAIN Rank
<1>0. DOMAIN Rank = {"bad", "default", "dev", "long"}
  BY DEF Rank
<1>1. \A header \in HeaderSet : LogicalName(header, FALSE) \in DOMAIN Rank \cup {Absent}
  BY <1>0 DEF HeaderSet, Headers, LogicalName
<1>2. \A i \in DOMAIN sections : sections[i] \in Section
  BY DEF FileInv
<1>3. \A section \in Section : section.header \in HeaderSet
  BY DEF Section
<1> QED
  BY <1>1, <1>2, <1>3 DEF Profiles

\* A profile that is not in the list has as many before it as the list holds.
LEMMA UnlistedIsPartial ==
  ASSUME FileInv, NEW name \in Profiles, name \notin Listed
  PROVE  Partial
<1>1. Profiles \subseteq DOMAIN Rank
  BY NamesOfProfiles
<1>2. IsFiniteSet(DOMAIN Rank)
  <2>1. DOMAIN Rank = {"bad"} \cup {"default"} \cup {"dev"} \cup {"long"}
    BY DEF Rank
  <2>2. IsFiniteSet({"bad"})
    BY FS_Singleton
  <2>3. IsFiniteSet({"bad"} \cup {"default"})
    BY <2>2, FS_AddElement
  <2>4. IsFiniteSet({"bad"} \cup {"default"} \cup {"dev"})
    BY <2>3, FS_AddElement
  <2> QED
    BY <2>1, <2>4, FS_AddElement
<1>3. IsFiniteSet(Profiles)
  BY <1>1, <1>2, FS_Subset
<1>4. Before(name) \subseteq Profiles /\ name \notin Before(name)
  BY <1>1 DEF Before, Rank
<1>5. IsFiniteSet(Before(name)) /\ Cardinality(Before(name)) \in Nat
  BY <1>3, <1>4, FS_Subset, FS_CardinalityType
<1>6. Cardinality(Before(name) \cup {name}) = Cardinality(Before(name)) + 1
  BY <1>4, <1>5, FS_AddElement
<1>7. Cardinality(Before(name) \cup {name}) <= Cardinality(Profiles)
  BY <1>3, <1>4, FS_Subset
<1>8. ~(Cardinality(Before(name)) < DiscoveryLimit)
  BY DEF Listed
<1>9. Cardinality(Profiles) \in Nat /\ DiscoveryLimit \in Nat
  BY <1>3, FS_CardinalityType, ProfileAssumption
<1> QED
  BY <1>5, <1>6, <1>7, <1>8, <1>9 DEF Partial

\* What is offered fits, and is accepted as it is shown.
LEMMA OfferedIsAccepted ==
  ASSUME FileInv, NEW name \in Profiles, NEW constraint \in Constraints,
         Row(name, constraint).eligibility = "supported_sso"
  PROVE  LET row == Row(name, constraint)
         IN /\ ~TooLong(name)
            /\ \E selection \in Selections :
                 /\ selection.profile = row.name /\ selection.session_override = constraint
                 /\ selection.account = row.account_id /\ Accepts(selection)
<1> DEFINE
  named == Named(name, FALSE)
  account == Raw(named, "sso_account_id")
  shown == [profile |-> name, account |-> account, region |-> "one",
            session_override |-> constraint]
  row == Row(name, constraint)
<1>1. /\ Safe(name) /\ Valid(name) /\ Accepts(shown)
      /\ \A key \in {"sso_role_name", "region", "sso_session"} : Safe(Raw(named, key))
  BY DEF Row
<1>2. row.account_id = (IF ValidAccount(account) THEN account ELSE "") /\ row.name = name
  BY <1>1 DEF Row
<1>3. /\ shown.profile = name /\ shown.account = account /\ shown.region = "one"
      /\ shown.session_override = constraint
  OBVIOUS
<1>4. ValidAccount(account)
  BY <1>1, <1>3 DEF Accepts
<1>5. shown \in Selections
  BY <1>4, NamesOfProfiles DEF Selections, Regions, ValidAccount
<1> HIDE DEF named, account, shown, row
<1>6. ~TooLong(name)
  BY <1>1, <1>3, <1>5, ShownLength DEF Safe, named
<1>7. \E selection \in Selections :
        /\ selection.profile = row.name /\ selection.session_override = constraint
        /\ selection.account = row.account_id /\ Accepts(selection)
  BY <1>1, <1>2, <1>3, <1>4, <1>5
<1> QED
  BY <1>6, <1>7 DEF row

\* What is accepted is offered, if it fits and the list is not too short for it.
LEMMA AcceptedIsOffered ==
  ASSUME FileInv, NEW selection \in Selections, Accepts(selection)
  PROVE  LET row == Row(selection.profile, selection.session_override)
         IN \/ /\ selection.profile \in Listed /\ row.eligibility = "supported_sso"
               /\ row.name = selection.profile /\ row.account_id = selection.account
            \/ TooLong(selection.profile)
            \/ selection.profile \notin Listed /\ Partial
<1> DEFINE
  name == selection.profile
  constraint == selection.session_override
  named == Named(name, FALSE)
  account == Raw(named, "sso_account_id")
  shown == [profile |-> name, account |-> account, region |-> "one",
            session_override |-> constraint]
  row == Row(name, constraint)
<1>1. PICK p \in Selected(name, FALSE) : Acceptable(p, selection)
  BY DEF Accepts
<1>2. Valid(name) /\ ValidAccount(selection.account)
  BY DEF Accepts
<1>3. /\ \A key : Printable(Raw(named, key))
      /\ account = IF Value(p, "sso_account_id") = Absent THEN ""
                   ELSE Value(p, "sso_account_id")
  BY <1>1, RawIs
<1>4. Value(p, "sso_account_id") = selection.account
  BY <1>1 DEF Acceptable
<1>5. account = selection.account
  BY <1>2, <1>3, <1>4 DEF ValidAccount, Absent
<1>6. /\ shown.profile = name /\ shown.account = account /\ shown.region = "one"
      /\ shown.session_override = constraint /\ Valid("one")
  BY DEF Valid
<1> HIDE DEF shown
<1>7. Acceptable(p, shown)
  BY <1>1, <1>5, <1>6 DEF Acceptable
<1>8. Accepts(shown)
  BY <1>1, <1>2, <1>5, <1>6, <1>7 DEF Accepts
<1>9. name \in Profiles
  <2>1. p \in DOMAIN sections /\ LogicalName(sections[p].header, FALSE) = name
    BY <1>1, SelectedIs DEF Selected, Named
  <2>2. name # Absent
    BY <1>2 DEF Valid, Absent
  <2> QED
    BY <2>1, <2>2 DEF Profiles
<1>10. ASSUME name \in Listed, ~TooLong(name)
       PROVE  /\ row.eligibility = "supported_sso" /\ row.name = name
              /\ row.account_id = selection.account
  <2>1. name # "long" /\ \A key \in {"sso_role_name", "region", "sso_session"} :
                            Raw(named, key) # "long"
    BY <1>10, ShownLength
  <2>2. Safe(name) /\ \A key \in {"sso_role_name", "region", "sso_session"} :
                         Safe(Raw(named, key))
    BY <1>2, <1>3, <2>1 DEF Safe, Printable, Valid
  <2> QED
    BY <1>2, <1>5, <1>8, <2>2 DEF Row, shown
<1> QED
  BY <1>9, <1>10, UnlistedIsPartial

\* Nothing is signed in with that a reader of the file could take otherwise.
LEMMA SnapshotExact ==
  ASSUME FileInv, NEW selection \in Selections, Accepts(selection)
  PROVE  LET snapshot == Snapshot(selection)
             given(key) == Given(selection.profile, key)
         IN /\ \A key \in {"sso_role_name", "sso_start_url", "sso_region"} :
                 given(key) = {snapshot[key]}
            /\ given("sso_account_id") = {selection.account}
            /\ given("sso_session") = {snapshot.sso_session} \ {Absent}
            /\ \/ given("sso_registration_scopes") = {snapshot.sso_registration_scopes} \ {Absent}
               \/ snapshot.sso_registration_scopes = Absent /\ snapshot.sso_session # Absent
            /\ selection.session_override \in {Absent, snapshot.sso_session}
            /\ \A i \in Reachable(selection.profile) :
                 "credential_process" \notin DOMAIN sections[i].settings
<1> DEFINE name == selection.profile
           snapshot == Snapshot(selection)
           scopes == "sso_registration_scopes"
<1>1. PICK p \in Selected(name, FALSE) : Acceptable(p, selection)
  BY DEF Accepts
<1>2. /\ p \in DOMAIN sections /\ Selected(name, FALSE) = {p}
      /\ \A key \in DOMAIN sections[p].settings :
           Supported(key, FALSE) /\ Len(sections[p].settings[key]) = 1
  BY SelectedIs
<1> DEFINE session == Value(p, "sso_session")
<1>3. /\ snapshot.account = Value(p, "sso_account_id")
      /\ snapshot.sso_role_name = Value(p, "sso_role_name")
      /\ snapshot["sso_role_name"] = Value(p, "sso_role_name")
      /\ snapshot.sso_session = session
      /\ snapshot["sso_start_url"] = Resolved(p, Session(p), "sso_start_url")
      /\ snapshot["sso_region"] = Resolved(p, Session(p), "sso_region")
      /\ snapshot.sso_registration_scopes = Resolved(p, Session(p), scopes)
  <2>1. (CHOOSE i \in Selected(name, FALSE) : TRUE) = p
    BY <1>2
  <2> QED
    BY <2>1 DEF Snapshot
<1>4. /\ Valid(Value(p, "sso_role_name"))
      /\ Value(p, "sso_account_id") = selection.account /\ ValidAccount(selection.account)
      /\ selection.session_override # Absent => session = selection.session_override
      /\ session = Absent \/ (Valid(session) /\ Session(p) # {})
      /\ Resolves(p, Session(p), "sso_start_url", TRUE)
      /\ Resolves(p, Session(p), "sso_region", TRUE)
      /\ Resolves(p, Session(p), scopes, FALSE)
  BY <1>1 DEF Acceptable
<1>5. \A value : Valid(value) \/ ValidAccount(value) => value # Absent
  BY DEF Valid, ValidAccount, Absent
<1>6. /\ ~Supported("credential_process", FALSE) /\ ~Supported("credential_process", TRUE)
      /\ ~Supported("sso_role_name", TRUE) /\ ~Supported("sso_account_id", TRUE)
      /\ ~Supported("sso_session", TRUE)
  BY DEF Supported, ProviderSettings, ProfileSettings
<1> HIDE DEF snapshot
<1>7. CASE session = Absent
  <2>1. Session(p) = {} /\ Reachable(name) = {p}
    BY <1>1, <1>7, ReachableIs DEF Session
  <2>2. ASSUME NEW key PROVE Given(name, key) = {Value(p, key)} \ {Absent}
    <3>1. Given(name, key) = {Value(i, key) : i \in Reachable(name)} \ {Absent}
      BY <1>2, <2>1, GivenIs
    <3> QED
      BY <2>1, <3>1
  <2>3. /\ Valid(Resolved(p, Session(p), "sso_start_url"))
        /\ Valid(Resolved(p, Session(p), "sso_region"))
        /\ \A key : Resolved(p, Session(p), key) = Value(p, key)
    BY <1>4, <2>1 DEF Resolves, Resolved
  <2>4. /\ Given(name, "sso_role_name") = {snapshot["sso_role_name"]}
        /\ Given(name, "sso_start_url") = {snapshot["sso_start_url"]}
        /\ Given(name, "sso_region") = {snapshot["sso_region"]}
        /\ Given(name, "sso_account_id") = {selection.account}
    BY <1>3, <1>4, <1>5, <2>2, <2>3
  <2>5. /\ Given(name, "sso_session") = {snapshot.sso_session} \ {Absent}
        /\ Given(name, scopes) = {snapshot.sso_registration_scopes} \ {Absent}
        /\ selection.session_override \in {Absent, snapshot.sso_session}
    BY <1>3, <1>4, <2>2, <2>3
  <2>6. \A i \in Reachable(name) : "credential_process" \notin DOMAIN sections[i].settings
    BY <1>2, <1>6, <2>1
  <2> QED
    BY <2>4, <2>5, <2>6 DEF snapshot
<1>8. CASE session # Absent
  <2>1. PICK s : s \in Session(p)
    BY <1>4, <1>8
  <2>2. s \in Selected(session, TRUE)
    BY <1>8, <2>1 DEF Session
  <2>3. /\ s \in DOMAIN sections /\ Session(p) = {s} /\ Named(session, TRUE) = {s}
        /\ \A key \in DOMAIN sections[s].settings :
             Supported(key, TRUE) /\ Len(sections[s].settings[key]) = 1
    BY <1>8, <2>2, SelectedIs DEF Session
  <2>4. Reachable(name) = {p, s}
    BY <1>1, <1>8, <2>3, ReachableIs
  <2>5. ASSUME NEW key PROVE Given(name, key) = {Value(p, key), Value(s, key)} \ {Absent}
    <3>1. Given(name, key) = {Value(i, key) : i \in Reachable(name)} \ {Absent}
      BY <1>2, <2>3, <2>4, GivenIs
    <3> QED
      BY <2>4, <3>1
  <2>6. /\ Value(s, "sso_role_name") = Absent /\ Value(s, "sso_account_id") = Absent
        /\ Value(s, "sso_session") = Absent
    BY <1>6, <2>3 DEF Value
  <2>7. \A key : Resolved(p, Session(p), key) = Value(s, key)
    <3>1. (CHOOSE t \in {s} : TRUE) = s
      OBVIOUS
    <3> QED
      BY <2>3, <3>1 DEF Resolved
  <2>8. \A key \in {"sso_start_url", "sso_region", scopes} :
          Value(p, key) = Absent \/ Value(s, key) = Absent \/ Value(p, key) = Value(s, key)
    BY <1>4, <2>3 DEF Resolves, Conflict
  <2>9. Valid(Value(s, "sso_start_url")) /\ Valid(Value(s, "sso_region"))
    BY <1>4, <2>7 DEF Resolves
  <2>10. /\ Given(name, "sso_role_name") = {snapshot["sso_role_name"]}
         /\ Given(name, "sso_start_url") = {snapshot["sso_start_url"]}
         /\ Given(name, "sso_region") = {snapshot["sso_region"]}
         /\ Given(name, "sso_account_id") = {selection.account}
    BY <1>3, <1>4, <1>5, <2>5, <2>6, <2>7, <2>8, <2>9
  <2>11. /\ Given(name, "sso_session") = {snapshot.sso_session} \ {Absent}
         /\ \/ Given(name, scopes) = {snapshot.sso_registration_scopes} \ {Absent}
            \/ snapshot.sso_registration_scopes = Absent /\ snapshot.sso_session # Absent
         /\ selection.session_override \in {Absent, snapshot.sso_session}
    BY <1>3, <1>4, <1>8, <2>5, <2>6, <2>7, <2>8
  <2>12. \A i \in Reachable(name) : "credential_process" \notin DOMAIN sections[i].settings
    BY <1>2, <1>6, <2>3, <2>4
  <2> QED
    BY <2>10, <2>11, <2>12 DEF snapshot
<1> QED
  BY <1>7, <1>8

\* Profiles are signed in with and offered as they are in the file, whatever is edited,
\* however often, and however many the list may hold.
THEOREM ProfilesExact == ProfileSpec => []ProfileExact
<1>1. FileInv => ProfileExact
  BY SnapshotExact, OfferedIsAccepted, AcceptedIsOffered DEF ProfileExact, Listed
<1> QED
  BY <1>1, InitFile, StepFile, PTL DEF ProfileSpec

-----------------------------------------------------------------------------
(***************************************************************************)
(* The request and the settings, for any number of changes: what an object *)
(* has that fits a shape, and so what is found in it by those who rely on  *)
(* the shape.                                                              *)
(***************************************************************************)

\* A request has its parts, and names a context by one of two names; what was saved
\* has been checked, and is in its normal form.
DraftInv ==
  /\ draft = [command |-> draft.command, fields |-> draft.fields, inputs |-> draft.inputs,
              scopes |-> draft.scopes]
  /\ DOMAIN draft.scopes \subseteq {"context", "account_override"}

SavedInv ==
  /\ saved = [settings |-> saved.settings, tiles |-> saved.tiles]
  /\ \A settings \in {saved.settings[i] : i \in DOMAIN saved.settings} :
       FormShape(settings) /\ NormalForm(settings) = settings
  /\ DashboardShape(saved.tiles)

RequestInv == DraftInv /\ SavedInv

\* The normal form of a normal form is itself.
LEMMA NormalFormOnce == ASSUME NEW p PROVE NormalForm(NormalForm(p)) = NormalForm(p)
<1> DEFINE once == NormalForm(p)
           Blanked(f, field) == /\ Get(f, field, "blank") = "blank"
                                /\ field # "audit_retention" \/ field \notin DOMAIN f
<1>1. /\ DOMAIN once = DOMAIN Defaults
      /\ \A field \in DOMAIN Defaults :
           once[field] = IF Blanked(p, field) THEN Defaults[field] ELSE p[field]
  BY DEF NormalForm
<1>2. NormalForm(once) =
        [field \in DOMAIN Defaults |->
           IF Blanked(once, field) THEN Defaults[field] ELSE once[field]]
  BY DEF NormalForm
<1>3. once = [field \in DOMAIN Defaults |-> once[field]]
  BY DEF NormalForm
<1> HIDE DEF once
<1>4. ASSUME NEW field \in DOMAIN Defaults, Blanked(once, field)
      PROVE  once[field] = Defaults[field]
  BY <1>1, <1>4 DEF Get
<1> HIDE DEF Blanked
<1> QED
  BY <1>2, <1>3, <1>4 DEF once

\* A good request names no context, and nothing was saved.
LEMMA InitRequest == RequestInit => RequestInv
<1> SUFFICES ASSUME RequestInit PROVE RequestInv
  OBVIOUS
<1>1. DOMAIN NoFields = {}
  BY DEF NoFields, All
<1>2. \E command, fields, inputs : draft = Good(command, fields, inputs)
  BY Zenon DEF RequestInit, Fetch
<1>3. DraftInv
  BY <1>1, <1>2 DEF DraftInv, Good
<1>4. SavedInv
  BY DEF RequestInit, SavedInv, DashboardShape
<1> QED
  BY <1>3, <1>4 DEF RequestInv

\* Requests keep their parts, and what is saved has passed the check.
LEMMA StepRequest == RequestInv /\ [RequestNext]_requestVars => RequestInv'
<1> SUFFICES ASSUME RequestInv, [RequestNext]_requestVars PROVE RequestInv'
  OBVIOUS
<1>0. DraftInv /\ SavedInv
  BY DEF RequestInv
<1>1. ASSUME NEW fields, Change([draft EXCEPT !.fields = fields]) PROVE RequestInv'
  <2>1. draft' = [draft EXCEPT !.fields = fields] /\ saved' = saved
    BY <1>1 DEF Change
  <2>2. DraftInv'
    BY <1>0, <2>1 DEF DraftInv
  <2>3. SavedInv'
    BY <1>0, <2>1 DEF SavedInv
  <2> QED
    BY <2>2, <2>3 DEF RequestInv
<1>2. ASSUME NEW inputs, Change([draft EXCEPT !.inputs = inputs]) PROVE RequestInv'
  <2>1. draft' = [draft EXCEPT !.inputs = inputs] /\ saved' = saved
    BY <1>2 DEF Change
  <2>2. DraftInv'
    BY <1>0, <2>1 DEF DraftInv
  <2>3. SavedInv'
    BY <1>0, <2>1 DEF SavedInv
  <2> QED
    BY <2>2, <2>3 DEF RequestInv
<1>3. ASSUME NEW name \in {"context", "account_override"}, NEW scope, SetScope(name, scope)
      PROVE  RequestInv'
  <2>1. draft' = [draft EXCEPT !.scopes = With(draft.scopes, name, scope)] /\ saved' = saved
    BY <1>3 DEF SetScope, Change
  <2>2. DOMAIN With(draft.scopes, name, scope) \subseteq {"context", "account_override"}
    BY <1>0 DEF DraftInv, With, ++, :=
  <2>3. DraftInv'
    BY <1>0, <2>1, <2>2 DEF DraftInv
  <2>4. SavedInv'
    BY <1>0, <2>1 DEF SavedInv
  <2> QED
    BY <2>3, <2>4 DEF RequestInv
<1>4. CASE SaveSettings
  <2> DEFINE form == NormalForm(WithRetention(draft.fields))
  <2>1. FormShape(form) /\ saved' = [saved EXCEPT !.settings = <<form>>] /\ draft' = draft
    BY <1>4 DEF SaveSettings
  <2>2. NormalForm(form) = form
    BY NormalFormOnce
  <2> HIDE DEF form
  <2>3. /\ saved' = [settings |-> <<form>>, tiles |-> saved.tiles]
        /\ saved'.settings = <<form>> /\ saved'.tiles = saved.tiles
    BY <1>0, <2>1 DEF SavedInv
  <2>4. \A settings \in {saved'.settings[i] : i \in DOMAIN saved'.settings} :
          FormShape(settings) /\ NormalForm(settings) = settings
    BY <2>1, <2>2, <2>3
  <2>5. SavedInv'
    BY <1>0, <2>3, <2>4 DEF SavedInv
  <2>6. DraftInv'
    BY <1>0, <2>1 DEF DraftInv
  <2> QED
    BY <2>5, <2>6 DEF RequestInv
<1>5. ASSUME NEW tiles, SaveDashboard(tiles) PROVE RequestInv'
  <2> DEFINE cleaned == Cleaned(tiles)
  <2>1. DashboardShape(cleaned) /\ saved' = [saved EXCEPT !.tiles = cleaned] /\ draft' = draft
    BY <1>5 DEF SaveDashboard
  <2> HIDE DEF cleaned
  <2>2. /\ saved' = [settings |-> saved.settings, tiles |-> cleaned]
        /\ saved'.settings = saved.settings /\ saved'.tiles = cleaned
    BY <1>0, <2>1 DEF SavedInv
  <2>3. SavedInv'
    BY <1>0, <2>1, <2>2 DEF SavedInv
  <2>4. DraftInv'
    BY <1>0, <2>1 DEF DraftInv
  <2> QED
    BY <2>3, <2>4 DEF RequestInv
<1>6. CASE UNCHANGED requestVars
  BY <1>0, <1>6 DEF requestVars, RequestInv, DraftInv, SavedInv
<1>7. ASSUME NEW field, NEW value,
             \/ DropField(field) \/ SetField(field, value)
             \/ DropInput(field) \/ SetInput(field, value)
      PROVE  RequestInv'
  BY <1>1, <1>2, <1>7 DEF DropField, SetField, DropInput, SetInput
<1> QED
  BY <1>3, <1>4, <1>5, <1>6, <1>7 DEF RequestNext

-----------------------------------------------------------------------------
\* What is loaded of what was saved, or shown as a form.
LEMMA ReadBackSettings == ASSUME RequestInv PROVE SavedReadsBack
<1>1. ASSUME SettingsShape(NormalForm(draft.fields)), FieldErrors(NormalForm(draft.fields)) = {}
      PROVE  /\ FormShape(NormalForm(draft.fields))
             /\ NormalForm(NormalForm(draft.fields)) = NormalForm(draft.fields)
  <2>1. SettingsFields \subseteq DOMAIN NormalForm(draft.fields)
    BY DEF NormalForm, Defaults
  <2> QED
    BY <1>1, <2>1, NormalFormOnce DEF FormShape
<1> QED
  BY <1>1 DEF SavedReadsBack, RequestInv, SavedInv

\* Settings and dashboards survive being loaded and saved, whatever was changed in a
\* request before, and however often it is saved.
THEOREM SettingsReadBack == RequestSpec => []SavedReadsBack
<1>1. RequestInv => SavedReadsBack
  BY ReadBackSettings
<1> QED
  BY <1>1, InitRequest, StepRequest, PTL DEF RequestSpec

-----------------------------------------------------------------------------
\* The words of a text.
LEMMA WordsAre ==
  /\ \A value \in Words : value \in JsonStrings /\ value # "blank" /\ value # "null"
  /\ \A value \in Lines : value \in JsonStrings /\ value # "blank"
BY DEF Words, JsonStrings, Lines

\* What an object that fits a shape has.
LEMMA FitsIs ==
  ASSUME NEW p, NEW required, NEW optional, Fits(p, required, optional)
  PROVE  /\ \A field \in DOMAIN required : field \in DOMAIN p /\ p[field] \in required[field]
         /\ \A field \in DOMAIN p :
              field \notin DOMAIN required =>
                field \in DOMAIN optional /\ p[field] \in optional[field]
BY DEF Fits, ++

\* A context of good shape is one of the two.
LEMMA ContextIs ==
  ASSUME NEW scope, ContextShape(scope)
  PROVE  \/ /\ Get(scope, "mode", "blank") \in {"pinned", "blank"}
            /\ \A field \in {"profile", "account_id", "region"} :
                 field \in DOMAIN scope /\ scope[field] \in Words
         \/ /\ Get(scope, "mode", "blank") = "inherit"
            /\ "profile" \in DOMAIN scope => scope["profile"] = "null"
<1> DEFINE identity == {"profile", "account_id", "region"}
           named == All(identity, Words)
           none == All(identity, Null)
           inherit == "mode" := {"inherit"}
           pinned == "mode" := {"pinned", "blank"}
<1>1. /\ DOMAIN named = identity /\ \A field \in identity : named[field] = Words
      /\ DOMAIN none = identity /\ \A field \in identity : none[field] = {"null"}
  BY DEF All, Null
<1>2. /\ DOMAIN inherit = {"mode"} /\ inherit["mode"] = {"inherit"}
      /\ DOMAIN pinned = {"mode"} /\ pinned["mode"] = {"pinned", "blank"}
  BY DEF :=
<1>3. \/ Get(scope, "mode", "pinned") \in {"pinned", "blank"} /\ Fits(scope, named, pinned)
      \/ Get(scope, "mode", "pinned") = "inherit" /\ Fits(scope, inherit, none)
  BY DEF ContextShape
<1> HIDE DEF named, none, inherit, pinned
<1>4. CASE Get(scope, "mode", "pinned") \in {"pinned", "blank"} /\ Fits(scope, named, pinned)
  <2>1. \A field \in identity : field \in DOMAIN scope /\ scope[field] \in Words
    BY <1>1, <1>4, FitsIs
  <2> QED
    BY <1>4, <2>1 DEF Get
<1>5. CASE Get(scope, "mode", "pinned") = "inherit" /\ Fits(scope, inherit, none)
  <2>1. "mode" \in DOMAIN scope /\ scope["mode"] = "inherit"
    BY <1>2, <1>5, FitsIs
  <2>2. "profile" \in DOMAIN scope => scope["profile"] = "null"
    BY <1>1, <1>2, <1>5, FitsIs
  <2> QED
    BY <2>1, <2>2 DEF Get
<1> QED
  BY <1>3, <1>4, <1>5

\* A request is for the context it names.
LEMMA ContextGuarded ==
  ASSUME NEW scopes, RequestContext(scopes),
         DOMAIN scopes \subseteq {"context", "account_override"}
  PROVE  Resolve(scopes) \in
           IF NamesIdentity(scopes) THEN {"pinned", "unsupported"} ELSE {"live"}
<1>1. CASE DOMAIN scopes = {}
  BY <1>1 DEF Resolve, NamesIdentity
<1>2. ASSUME NEW name \in {"context", "account_override"}, DOMAIN scopes = {name}
      PROVE  Resolve(scopes) \in
               IF NamesIdentity(scopes) THEN {"pinned", "unsupported"} ELSE {"live"}
  <2> DEFINE scope == scopes[name]
             mode == Get(scope, "mode", "blank")
  <2>1. ContextShape(scope)
    BY <1>2 DEF RequestContext
  <2>2. (IF "context" \in DOMAIN scopes THEN "context" ELSE "account_override") = name
    BY <1>2
  <2>3. Resolve(scopes) =
          IF mode \in {"pinned", "blank"} \/ mode \notin JsonStrings
            THEN IF \E field \in {"profile", "account_id", "region"} :
                      Get(scope, field, "null") \notin Words
                   THEN "invalid"
                 ELSE IF scope.region \in AllowedRegions THEN "pinned" ELSE "unsupported"
          ELSE IF mode = "inherit" THEN "live" ELSE "invalid"
    BY <1>2, <2>2 DEF Resolve
  <2>4. NamesIdentity(scopes) <=> Get(scope, "profile", "null") # "null"
    BY <1>2 DEF NamesIdentity
  <2> HIDE DEF scope
  <2>5. CASE /\ mode \in {"pinned", "blank"}
             /\ \A field \in {"profile", "account_id", "region"} :
                  field \in DOMAIN scope /\ scope[field] \in Words
    <3>1. Resolve(scopes) \in {"pinned", "unsupported"}
      BY <2>3, <2>5 DEF Get
    <3>2. "profile" \in DOMAIN scope /\ scope["profile"] # "null"
      BY <2>5, WordsAre
    <3> QED
      BY <2>4, <3>1, <3>2 DEF Get
  <2>6. CASE mode = "inherit" /\ ("profile" \in DOMAIN scope => scope["profile"] = "null")
    <3>1. Resolve(scopes) = "live"
      BY <2>3, <2>6 DEF JsonStrings, Words
    <3> QED
      BY <2>4, <2>6, <3>1 DEF Get
  <2> QED
    BY <2>1, <2>5, <2>6, ContextIs
<1>3. DOMAIN scopes = {} \/ \E name \in {"context", "account_override"} : DOMAIN scopes = {name}
  BY DEF RequestContext
<1> QED
  BY <1>1, <1>2, <1>3

-----------------------------------------------------------------------------
\* The policy is asked before the sign-in for all that the widget asks for first.
Guarded(name, p) ==
  LET entry == EntryOperations(name, p)
      asked == IF "StartQuery" \in entry THEN entry \cup {"StopQuery"} ELSE entry
  IN FirstCalls(name, p) \subseteq asked

\* A text that is there is read, and one that is not takes its default.
LEMMA TextIs ==
  ASSUME NEW p, NEW field
  PROVE  /\ field \in DOMAIN p /\ p[field] \in Lines =>
              /\ ~Missing(p, field) /\ ~Emptied(p, field)
              /\ \A default : Text(p, field, default) = p[field]
         /\ field \notin DOMAIN p =>
              /\ ~Emptied(p, field)
              /\ \A default : Text(p, field, default) = default
<1>1. "null" \notin JsonStrings
  BY DEF JsonStrings, Words
<1>2. ASSUME field \in DOMAIN p, p[field] \in Lines
      PROVE  /\ p[field] # "blank"
             /\ \A default : Text(p, field, default) = p[field]
  BY <1>2, WordsAre DEF Text, Get
<1>3. ASSUME field \notin DOMAIN p PROVE \A default : Text(p, field, default) = default
  BY <1>1, <1>3 DEF Text, Get
<1> QED
  BY <1>2, <1>3 DEF Missing, Emptied

\* An input that is required to be a text is found.
LEMMA Found ==
  ASSUME NEW p, NEW required, NEW optional, Fits(p, required, optional),
         NEW field \in DOMAIN required, required[field] \subseteq Lines
  PROVE  ~Missing(p, field)
BY FitsIs, TextIs

\* Widgets that know no modes.
LEMMA PlainGuarded ==
  ASSUME NEW p, NEW mode,
         NEW name \in {"cfn-stacks", "cfn-stack-detail", "pipeline-runs",
                       "pipeline-execution-detail", "codebuild-log", "resource-lookup",
                       "errors-by-stack", "codeartifact-package-version-history"},
         InputShape(name, mode, p)
  PROVE  Guarded(name, p)
<1>1. CASE name \in {"cfn-stacks", "errors-by-stack"}
  BY <1>1 DEF Guarded, FirstCalls, EntryOperations
<1>2. Words \subseteq Lines
  BY DEF Lines
<1>3. ASSUME NEW field, name \in {"cfn-stack-detail", "pipeline-runs", "codebuild-log",
                                  "resource-lookup"},
             NEW optional, Fits(p, field := Words, optional)
      PROVE  ~Missing(p, field)
  BY <1>2, <1>3, Found DEF :=
<1>4. CASE name = "cfn-stack-detail"
  <2>1. ~Missing(p, "stack_name")
    BY <1>3, <1>4 DEF InputShape
  <2> QED
    BY <1>4, <2>1 DEF Guarded, FirstCalls, EntryOperations, Unless
<1>5. CASE name = "pipeline-runs"
  <2>1. ~Missing(p, "pipeline_name")
    BY <1>3, <1>5 DEF InputShape
  <2> QED
    BY <1>5, <2>1 DEF Guarded, FirstCalls, EntryOperations, Unless
<1>6. CASE name = "codebuild-log"
  <2>1. ~Missing(p, "build_id")
    BY <1>3, <1>6 DEF InputShape
  <2> QED
    BY <1>6, <2>1 DEF Guarded, FirstCalls, EntryOperations, Unless
<1>7. CASE name = "resource-lookup"
  <2>1. ~Missing(p, "query")
    BY <1>3, <1>7 DEF InputShape
  <2> QED
    BY <1>7, <2>1 DEF Guarded, FirstCalls, EntryOperations, Unless
<1>8. CASE name = "pipeline-execution-detail"
  <2> DEFINE required == All({"pipeline_name", "execution_id"}, Words)
  <2>1. Fits(p, required, NoFields)
    BY <1>8 DEF InputShape
  <2>2. \A field \in {"pipeline_name", "execution_id"} :
          field \in DOMAIN required /\ required[field] \subseteq Lines
    BY <1>2 DEF All
  <2> HIDE DEF required
  <2>3. ~Missing(p, "pipeline_name") /\ ~Missing(p, "execution_id")
    BY <2>1, <2>2, Found
  <2> QED
    BY <1>8, <2>3 DEF Guarded, FirstCalls, EntryOperations, Unless
<1>9. CASE name = "codeartifact-package-version-history"
  <2> DEFINE texts == All({"domain", "repository", "package"}, Words)
             versions == "versions" := {"pair", "double", "dated"}
             required == texts ++ versions
  <2>1. Fits(p, required, "domain_owner" := Blank)
    BY <1>9 DEF InputShape
  <2>2. /\ \A field \in {"domain", "repository", "package"} :
             field \in DOMAIN required /\ required[field] \subseteq Lines
        /\ "versions" \in DOMAIN required /\ required["versions"] = {"pair", "double", "dated"}
    BY <1>2 DEF All, ++, :=
  <2> HIDE DEF required
  <2>3. \A field \in {"domain", "repository", "package"} : ~Missing(p, field)
    BY <2>1, <2>2, Found
  <2>4. Get(p, "versions", "null") \in {"pair", "double", "dated"}
    BY <2>1, <2>2, FitsIs DEF Get
  <2> QED
    BY <1>9, <2>3, <2>4 DEF Guarded, FirstCalls, EntryOperations, Unless
<1> QED
  BY <1>1, <1>4, <1>5, <1>6, <1>7, <1>8, <1>9

\* Packages, which are listed from a mode and without one, and enriched.
LEMMA PackagesGuarded ==
  ASSUME NEW p, InputShape("codeartifact-packages", Get(p, "mode", ""), p)
  PROVE  Guarded("codeartifact-packages", p)
<1> DEFINE name == "codeartifact-packages"
           fields == {"domain", "repository", "package_prefix"}
           owned == Packages
           listed == Packages ++ ("max_packages" := Integer) ++ ("page_token" := Words)
           plain == Packages ++ ("max_packages" := Integer)
           enriched == ("mode" := {"enrich"}) ++ ("packages" := {"pair"})
           byMode == "mode" := {"list"}
<1>1. /\ \A field \in fields :
           /\ field \in DOMAIN owned /\ owned[field] = Words
           /\ field \in DOMAIN listed /\ listed[field] = Words
           /\ field \in DOMAIN plain /\ plain[field] = Words
      /\ "mode" \notin DOMAIN owned /\ "mode" \notin DOMAIN listed /\ "mode" \notin DOMAIN plain
  BY DEF Packages, All, ++, :=
<1>2. /\ DOMAIN byMode = {"mode"} /\ "mode" \in DOMAIN byMode /\ byMode["mode"] = {"list"}
      /\ DOMAIN enriched = {"mode", "packages"} /\ "mode" \in DOMAIN enriched
      /\ "packages" \in DOMAIN enriched /\ enriched["mode"] = {"enrich"}
      /\ enriched["packages"] = {"pair"}
      /\ DOMAIN NoFields = {}
  BY DEF ++, :=, NoFields, All
<1>3. \/ Get(p, "mode", "") = "list" /\ Fits(p, byMode, listed)
      \/ Get(p, "mode", "") = "enrich" /\ Fits(p, enriched, owned)
      \/ Get(p, "mode", "") = "" /\ Fits(p, NoFields, plain)
  BY DEF InputShape
<1> HIDE DEF owned, listed, plain, enriched, byMode
<1> DEFINE Holds(required) ==
             \A field \in DOMAIN required : field \in DOMAIN p /\ p[field] \in required[field]
           Within(required, optional) ==
             \A field \in DOMAIN p :
               field \notin DOMAIN required =>
                 field \in DOMAIN optional /\ p[field] \in optional[field]
<1>0. /\ Fits(p, byMode, listed) => Holds(byMode) /\ Within(byMode, listed)
      /\ Fits(p, enriched, owned) => Holds(enriched) /\ Within(enriched, owned)
      /\ Fits(p, NoFields, plain) => Within(NoFields, plain)
  BY FitsIs
<1>4. Words \subseteq Lines /\ "list" \in Lines /\ "enrich" \in Lines
  BY DEF Lines, Words
<1>5. \A field \in fields : ~Emptied(p, field)
  <2> SUFFICES ASSUME NEW field \in fields, field \in DOMAIN p PROVE p[field] \in Words
    BY <1>4, TextIs
  <2>1. field \notin DOMAIN byMode /\ field \notin DOMAIN enriched /\ field \notin DOMAIN NoFields
    BY <1>2
  <2>2. p[field] \in listed[field] \/ p[field] \in owned[field] \/ p[field] \in plain[field]
    BY <1>0, <1>3, <2>1
  <2>3. listed[field] = Words /\ owned[field] = Words /\ plain[field] = Words
    BY <1>1
  <2> QED
    BY <2>2, <2>3
<1>6. CASE Get(p, "mode", "") = "list" /\ Fits(p, byMode, listed)
  <2>1. "mode" \in DOMAIN p /\ p["mode"] = "list"
    BY <1>0, <1>2, <1>6
  <2>2. Text(p, "mode", "") = "list"
    BY <1>4, <2>1, TextIs
  <2> QED
    BY <1>5, <1>6, <2>2 DEF Guarded, FirstCalls, EntryOperations, Unless
<1>7. CASE Get(p, "mode", "") = "enrich" /\ Fits(p, enriched, owned)
  <2>1. "mode" \in DOMAIN p /\ p["mode"] = "enrich" /\ Get(p, "packages", "null") = "pair"
    BY <1>0, <1>2, <1>7 DEF Get
  <2>2. Text(p, "mode", "") = "enrich"
    BY <1>4, <2>1, TextIs
  <2> QED
    BY <1>5, <1>7, <2>1, <2>2 DEF Guarded, FirstCalls, EntryOperations, Unless
<1>8. CASE Get(p, "mode", "") = "" /\ Fits(p, NoFields, plain)
  <2>1. "mode" \notin DOMAIN p
    BY <1>0, <1>1, <1>2, <1>8
  <2>2. Text(p, "mode", "") = ""
    BY <2>1, TextIs
  <2> QED
    BY <1>5, <1>8, <2>2 DEF Guarded, FirstCalls, EntryOperations, Unless
<1> QED
  BY <1>3, <1>6, <1>7, <1>8

\* Logs, which are read by mode.
LEMMA LogsGuarded ==
  ASSUME NEW p, NEW name \in {"cloudwatch-logs", "log-tail", "logs-insights"},
         LogShape(name, Get(p, "mode", DefaultMode(name)), p)
  PROVE  Guarded(name, p)
<1> DEFINE mode == Get(p, "mode", DefaultMode(name))
           streams == ("mode" := {"streams"}) ++ ("log_group" := Words)
           events == ("mode" := {"events"}) ++ All({"log_group", "log_stream"}, Words)
           query == ("log_group" := Words) ++ ("query" := Lines)
<1>1. /\ Words \subseteq Lines
      /\ {"list", "groups", "streams", "events", "tail", "query"} \subseteq Lines
  BY DEF Lines, Words
<1>2. mode \in {"list", "groups", "streams", "events", "tail", "query"}
  BY DEF LogShape
<1>3. Text(p, "mode", DefaultMode(name)) = mode
  <2>1. CASE "mode" \in DOMAIN p
    BY <1>1, <1>2, <2>1, TextIs DEF Get
  <2>2. CASE "mode" \notin DOMAIN p
    BY <2>2, TextIs DEF Get
  <2> QED
    BY <2>1, <2>2
<1>4. Get(p, "mode", "") = mode \/ (Get(p, "mode", "") = "" /\ mode = DefaultMode(name))
  BY DEF Get
<1>5. /\ DefaultMode("cloudwatch-logs") = "groups" /\ DefaultMode("log-tail") = "tail"
      /\ DefaultMode("logs-insights") = "query"
  BY DEF DefaultMode
<1>6. ASSUME mode = "streams", name \in {"cloudwatch-logs", "log-tail"}
      PROVE  ~Missing(p, "log_group")
  <2>1. Fits(p, streams, "max_streams" := Integer)
    BY <1>6 DEF LogShape
  <2>2. "log_group" \in DOMAIN streams /\ streams["log_group"] \subseteq Lines
    BY <1>1 DEF ++, :=
  <2> QED
    BY <2>1, <2>2, Found
<1>7. ASSUME mode = "events", name \in {"cloudwatch-logs", "log-tail"}
      PROVE  ~Missing(p, "log_group") /\ ~Missing(p, "log_stream")
  <2>1. Fits(p, events, "limit" := Integer)
    BY <1>7 DEF LogShape
  <2>2. \A field \in {"log_group", "log_stream"} :
          field \in DOMAIN events /\ events[field] \subseteq Lines
    BY <1>1 DEF ++, :=, All
  <2> HIDE DEF events
  <2> QED
    BY <2>1, <2>2, Found
<1>8. ASSUME mode = "tail", name = "log-tail" PROVE ~Missing(p, "log_group")
  <2>1. \E optional : Fits(p, "log_group" := Words, optional)
    BY <1>8 DEF LogShape
  <2>2. /\ "log_group" \in DOMAIN ("log_group" := Words)
        /\ ("log_group" := Words)["log_group"] \subseteq Lines
    BY <1>1 DEF :=
  <2> QED
    BY <2>1, <2>2, Found
<1>9. ASSUME mode = "query", name = "logs-insights"
      PROVE  ~Missing(p, "log_group") /\ ~Missing(p, "query")
  <2>1. \E optional : Fits(p, query, optional)
    BY <1>9 DEF LogShape
  <2>2. \A field \in {"log_group", "query"} :
          field \in DOMAIN query /\ query[field] \subseteq Lines
    BY <1>1 DEF ++, :=
  <2> HIDE DEF query
  <2> QED
    BY <2>1, <2>2, Found
<1> HIDE DEF mode
<1>10. CASE name = "cloudwatch-logs"
  <2>1. mode \in {"groups", "streams", "events"}
    BY <1>10 DEF LogShape, mode
  <2>2. Text(p, "mode", "groups") = mode
    BY <1>3, <1>5, <1>10
  <2>3. CASE mode = "groups"
    BY <1>4, <1>5, <1>10, <2>2, <2>3 DEF Guarded, FirstCalls, EntryOperations
  <2>4. CASE mode = "streams"
    BY <1>4, <1>5, <1>6, <1>10, <2>2, <2>4
       DEF Guarded, FirstCalls, EntryOperations, StreamCalls, Unless
  <2>5. CASE mode = "events"
    BY <1>4, <1>5, <1>7, <1>10, <2>2, <2>5
       DEF Guarded, FirstCalls, EntryOperations, EventCalls, Unless
  <2> QED
    BY <2>1, <2>3, <2>4, <2>5
<1>11. CASE name = "log-tail"
  <2>1. mode \in {"list", "streams", "events", "tail"}
    BY <1>11 DEF LogShape, mode
  <2>2. Text(p, "mode", "tail") = mode
    BY <1>3, <1>5, <1>11
  <2>3. CASE mode = "list"
    BY <1>4, <1>5, <1>11, <2>2, <2>3 DEF Guarded, FirstCalls, EntryOperations
  <2>4. CASE mode = "streams"
    BY <1>4, <1>5, <1>6, <1>11, <2>2, <2>4
       DEF Guarded, FirstCalls, EntryOperations, StreamCalls, Unless
  <2>5. CASE mode = "events"
    BY <1>4, <1>5, <1>7, <1>11, <2>2, <2>5
       DEF Guarded, FirstCalls, EntryOperations, EventCalls, Unless
  <2>6. CASE mode = "tail"
    BY <1>4, <1>5, <1>8, <1>11, <2>2, <2>6 DEF Guarded, FirstCalls, EntryOperations, Unless
  <2> QED
    BY <2>1, <2>3, <2>4, <2>5, <2>6
<1>12. CASE name = "logs-insights"
  <2>1. mode \in {"groups", "query"}
    BY <1>12 DEF LogShape, mode
  <2>2. Text(p, "mode", "query") = mode
    BY <1>3, <1>5, <1>12
  <2>3. CASE mode = "groups"
    BY <1>4, <1>5, <1>12, <2>2, <2>3 DEF Guarded, FirstCalls, EntryOperations
  <2>4. CASE mode = "query"
    BY <1>4, <1>5, <1>9, <1>12, <2>2, <2>4 DEF Guarded, FirstCalls, EntryOperations, Unless
  <2> QED
    BY <2>1, <2>3, <2>4
<1> QED
  BY <1>10, <1>11, <1>12

\* A request that passes the check is read as it was checked.
LEMMA EntryGuarded == ASSUME DraftInv PROVE EntryGuardsFirstCall
<1> DEFINE name == draft.fields.widget
           p == draft.inputs
<1> SUFFICES ASSUME FetchShape(draft)
             PROVE  /\ name = "aws-cli" \/ Guarded(name, p)
                    /\ Resolve(draft.scopes) \in
                         IF NamesIdentity(draft.scopes) THEN {"pinned", "unsupported"}
                                                        ELSE {"live"}
  BY DEF EntryGuardsFirstCall, Guarded
<1>1. "widget" \in DOMAIN draft.fields
  <2> DEFINE required == "widget" := {Get(draft.fields, "widget", "text")}
  <2>1. \E optional : Fits(draft.fields, required, optional)
    BY DEF FetchShape
  <2>2. "widget" \in DOMAIN required
    BY DEF :=
  <2> HIDE DEF required
  <2> QED
    BY <2>1, <2>2, FitsIs
<1>2. Get(draft.fields, "widget", "text") = name
  BY <1>1 DEF Get
<1>3. InputShape(name, Get(p, "mode", DefaultMode(name)), p)
  BY <1>2 DEF FetchShape
<1> HIDE DEF name, p
<1>4. ASSUME name \in {"cfn-stacks", "cfn-stack-detail", "pipeline-runs",
                       "pipeline-execution-detail", "codebuild-log", "resource-lookup",
                       "errors-by-stack", "codeartifact-package-version-history"}
      PROVE  Guarded(name, p)
  BY <1>3, <1>4, PlainGuarded
<1>5. ASSUME name = "codeartifact-packages" PROVE Guarded(name, p)
  <2>1. DefaultMode(name) = ""
    BY <1>5 DEF DefaultMode
  <2> QED
    BY <1>3, <1>5, <2>1, PackagesGuarded
<1>6. ASSUME name \in {"cloudwatch-logs", "log-tail", "logs-insights"} PROVE Guarded(name, p)
  <2>1. LogShape(name, Get(p, "mode", DefaultMode(name)), p)
    BY <1>3, <1>6 DEF InputShape
  <2> QED
    BY <1>6, <2>1, LogsGuarded
<1>7. name \in {"cfn-stacks", "cfn-stack-detail", "pipeline-runs", "aws-cli",
                "pipeline-execution-detail", "codebuild-log", "resource-lookup",
                "errors-by-stack", "codeartifact-package-version-history",
                "codeartifact-packages", "cloudwatch-logs", "log-tail", "logs-insights"}
  BY <1>3 DEF InputShape, LogShape
<1>8. RequestContext(draft.scopes)
  BY DEF FetchShape
<1> QED
  BY <1>4, <1>5, <1>6, <1>7, <1>8, ContextGuarded DEF DraftInv

\* Whatever is changed in a request, and however often: if it passes the check, the
\* policy is asked before the sign-in for what its widget asks for first, the widget
\* finds its inputs, and the request is for the context that it names, or refused for the
\* region of that context alone.
THEOREM EntriesGuarded == RequestSpec => []EntryGuardsFirstCall
<1>1. RequestInv => EntryGuardsFirstCall
  BY EntryGuarded DEF RequestInv
<1> QED
  BY <1>1, InitRequest, StepRequest, PTL DEF RequestSpec
=============================================================================
