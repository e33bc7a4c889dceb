----------------------------- MODULE CliCommand -----------------------------
(***************************************************************************)
(* parse_cli_command: a command line typed for the aws-cli widget is read  *)
(* against the reviewed arguments of its operation and rebuilt, argument   *)
(* by argument, into the argv that is handed to the executable.            *)
(*                                                                         *)
(* A value is one of a few words that stand for what the checks tell       *)
(* apart: "-x" begins with a dash, "[x]" with a bracket, "a=b" has an      *)
(* equals sign, "7" and "9" are numbers.  Lengths, and the decoding of a   *)
(* starting token, are left out.                                           *)
(***************************************************************************)
EXTENDS Integers, FiniteSets, Sequences, Maps

CONSTANTS
  Operations,     \* the operations explored, of those that are reviewed
  Values,         \* the values explored
  MaxArguments,   \* bound: arguments in a command
  MaxWords        \* bound: words after a list argument

ASSUME CommandAssumption ==
  Operations \subseteq
    {"GetCallerIdentity", "ListStacks", "DescribeStackResources", "DescribeStackEvents",
     "DescribeLogGroups", "GetQueryResults", "FilterLogEvents", "GetLogEvents",
     "DescribeLogStreams", "ListPipelines", "ListPipelineExecutions", "ListActionExecutions",
     "BatchGetBuilds", "ListPackages", "ListPackageVersions", "DescribePackageVersion",
     "ListFunctions", "GetResources"}

VARIABLES
  verb,           \* the operation
  seen,           \* the values of the arguments read so far
  argv,           \* what is rebuilt after the service and the operation
  outcome         \* "reading", "accepted" or "refused"

commandVars == <<verb, seen, argv, outcome>>

-----------------------------------------------------------------------------
(* argument_schema *)

Flag == [arity |-> "flag", kind |-> "none", most |-> 0, required |-> FALSE]
One(kind) == [arity |-> "one", kind |-> kind, most |-> 1, required |-> FALSE]
List(kind, most) == [arity |-> "list", kind |-> kind, most |-> most, required |-> FALSE]
Needed(argument) == [argument EXCEPT !.required = TRUE]

Group == All({"--log-group-name", "--log-group-identifier"}, One("scalar"))
Window == All({"--start-time", "--end-time"}, One("number"))

OwnSchema(op) ==
  CASE op = "GetCallerIdentity" -> <<>>
    [] op = "ListStacks" -> All({"--stack-status-filter"}, List("status", 2))
    [] op = "DescribeStackResources" ->
       All({"--stack-name", "--physical-resource-id", "--logical-resource-id"}, One("scalar"))
    [] op = "DescribeStackEvents" -> All({"--stack-name"}, Needed(One("scalar")))
    [] op = "DescribeLogGroups" ->
       All({"--log-group-name-prefix", "--log-group-name-pattern"}, One("scalar"))
         ++ All({"--log-group-class"}, One("class"))
    [] op = "GetQueryResults" ->
       All({"--query-id"}, Needed(One("scalar"))) ++ All({"--next-token"}, One("opaque"))
         ++ All({"--max-items"}, One("number"))
    [] op = "FilterLogEvents" ->
       Group ++ Window ++ All({"--log-stream-names"}, List("stream", 2))
         ++ All({"--log-stream-name-prefix"}, One("stream"))
         ++ All({"--filter-pattern"}, One("expression"))
    [] op = "GetLogEvents" ->
       Group ++ Window ++ All({"--log-stream-name"}, Needed(One("stream")))
         ++ All({"--next-token"}, One("opaque")) ++ All({"--limit"}, One("number"))
         ++ All({"--start-from-head", "--no-start-from-head"}, Flag)
    [] op = "DescribeLogStreams" ->
       Group ++ All({"--log-stream-name-prefix"}, One("stream"))
         ++ All({"--order-by"}, One("order")) ++ All({"--descending", "--no-descending"}, Flag)
    [] op = "ListPipelines" -> <<>>
    [] op = "ListPipelineExecutions" -> All({"--pipeline-name"}, Needed(One("pipeline")))
    [] op = "ListActionExecutions" -> All({"--pipeline-name"}, Needed(One("pipeline")))
    [] op = "BatchGetBuilds" -> All({"--ids"}, Needed(List("scalar", 2)))
    [] op = "ListPackages" ->
       All({"--format"}, One("format")) ++ All({"--namespace", "--package-prefix"}, One("scalar"))
         ++ All({"--publish", "--upstream"}, One("permission"))
    [] op = "ListPackageVersions" ->
       All({"--format"}, Needed(One("format"))) ++ All({"--package"}, Needed(One("scalar")))
         ++ All({"--namespace"}, One("scalar"))
         ++ All({"--status", "--sort-by", "--origin-type"}, One("choice"))
    [] op = "DescribePackageVersion" ->
       All({"--format"}, Needed(One("format")))
         ++ All({"--package", "--package-version"}, Needed(One("scalar")))
         ++ All({"--namespace"}, One("scalar"))
    [] op = "ListFunctions" ->
       All({"--function-version"}, One("version")) ++ All({"--master-region"}, One("scalar"))
    [] op = "GetResources" -> All({"--resource-type-filters"}, List("scalar", 2))

PackageOperations == {"ListPackages", "ListPackageVersions", "DescribePackageVersion"}

\* What the executable pages through itself, and with a page size.
ItemOperations == {"ListStacks", "DescribeStackEvents"}
PagedOperations ==
  {"DescribeLogGroups", "FilterLogEvents", "DescribeLogStreams", "ListPipelines",
   "ListPipelineExecutions", "ListActionExecutions", "ListPackages",
   "ListPackageVersions", "ListFunctions", "GetResources"}

Schema(op) ==
  OwnSchema(op)
    ++ (IF op \in PackageOperations
          THEN All({"--domain", "--repository"}, Needed(One("scalar")))
                 ++ All({"--domain-owner"}, One("account"))
          ELSE <<>>)
    ++ (IF op \in ItemOperations \cup PagedOperations
          THEN All({"--starting-token"}, One("token")) ++ All({"--max-items"}, One("number"))
                 ++ All({"--no-paginate"}, Flag)
          ELSE <<>>)
    ++ (IF op \in PagedOperations THEN All({"--page-size"}, One("number")) ELSE <<>>)
    ++ All({"--query"}, One("expression"))

-----------------------------------------------------------------------------
(* Values *)

Numbers == {"7", "9"}
Exceeds(a, b) == a = "9" /\ b = "7"

\* The values a kind is closed to.
Members(kind) ==
  CASE kind = "number" -> Numbers
    [] kind = "status" -> {"DELETE_COMPLETE"}
    [] kind = "class" -> {"STANDARD"}
    [] kind = "order" -> {"LogStreamName", "LastEventTime"}
    [] kind = "format" -> {"pypi", "maven"}
    [] kind = "permission" -> {"ALLOW"}
    [] kind = "choice" -> {"PUBLISHED_TIME"}
    [] kind = "version" -> {"ALL"}
    [] kind = "account" -> {"123456789012"}
    [] kind = "token" -> {"token"}

ClosedKinds ==
  {"number", "status", "class", "order", "format", "permission", "choice", "version",
   "account", "token"}

Suits(value, kind) ==
  CASE kind \in ClosedKinds -> value \in Members(kind)
    [] kind \in {"scalar", "pipeline"} -> value \notin {"[x]", "a=b"}
    [] kind \in {"stream", "opaque", "expression"} -> TRUE

\* The words that do not begin with a dash.
PlainWords == {"x", "[x]", "a=b", "json"} \cup UNION {Members(kind) : kind \in ClosedKinds}
Dashed(word) == word \notin PlainWords

\* Mutant: a value may begin with a dash.
DashedValue(value, kind) == Suits(value, kind)

\* validate_value and validate_list_value
ValidValue(value, kind) == Suits(value, kind) /\ ~Dashed(value)
ValidListValue(value, kind) == value # "[x]" /\ ValidValue(value, kind)

-----------------------------------------------------------------------------
(* validate_arguments *)

Has(name) == name \in DOMAIN seen
Is(name, value) == Has(name) /\ seen[name] = <<value>>

Pairs ==
  {{"--stack-name", "--physical-resource-id"},
   {"--log-group-name", "--log-group-identifier"},
   {"--log-group-name-prefix", "--log-group-name-pattern"},
   {"--log-stream-names", "--log-stream-name-prefix"},
   {"--descending", "--no-descending"},
   {"--start-from-head", "--no-start-from-head"}}

Alternatives ==
  {<<"--stack-name", "--physical-resource-id">>,
   <<"--log-group-name", "--log-group-identifier">>}

Related ==
  /\ \A pair \in Pairs : ~(pair \subseteq DOMAIN seen)
  /\ \A pair \in Alternatives :
       pair[2] \in DOMAIN Schema(verb) => Has(pair[1]) \/ Has(pair[2])
  /\ ~(Has("--no-paginate") /\ \E name \in {"--starting-token", "--max-items", "--page-size"} :
                                 Has(name))
  /\ ~(\E start, end \in Numbers : /\ Is("--start-time", start) /\ Is("--end-time", end)
                                   /\ Exceeds(start, end))
  /\ ~(Has("--log-stream-name-prefix") /\ Is("--order-by", "LastEventTime"))
  /\ Has("--master-region") => Is("--function-version", "ALL")
  /\ Has("--package-version") =>
       /\ Is("--format", "maven") => Has("--namespace")
       /\ Is("--format", "pypi") => ~Has("--namespace")

CommandInit == verb \in Operations /\ seen = <<>> /\ argv = <<>> /\ outcome = "reading"

Reject == outcome' = "refused" /\ UNCHANGED <<verb, seen, argv>>

Accept(name, values) ==
  /\ seen' = (name := values) ++ seen
  /\ argv' = argv \o <<name>> \o values
  /\ UNCHANGED <<verb, outcome>>

\* Not one line, no "aws", an operation or an argument that is not reviewed, a
\* URL, an argument a second time, a word in the place of an argument.
Unreviewed == outcome = "reading" /\ Reject

\* The next argument, alone or with a value behind an equals sign ...
Switch(name, inline) ==
  IF inline # <<>> THEN Reject ELSE Accept(name, <<>>)

\* ... or with the token that follows, whatever it is.
Single(name, inline, next) ==
  LET values == IF inline # <<>> THEN inline ELSE next
  IN IF values # <<>> /\ ValidValue(values[1], Schema(verb)[name].kind)
       THEN Accept(name, values)
       ELSE Reject

\* A list takes the words up to the next token that begins with a dash.
Several(name, inline, words) ==
  LET argument == Schema(verb)[name]
      values == inline \o words
  IN IF /\ \A i \in DOMAIN values : ValidListValue(values[i], argument.kind)
        /\ Len(values) \in 1..argument.most
       THEN Accept(name, values)
       ELSE Reject

AtMostOne(set) == {<<>>} \cup {<<value>> : value \in set}

Argument(name, inline) ==
  /\ outcome = "reading" /\ Cardinality(DOMAIN seen) < MaxArguments
  /\ name \in DOMAIN Schema(verb) \ DOMAIN seen
  /\ \/ Schema(verb)[name].arity = "flag" /\ Switch(name, inline)
     \/ /\ Schema(verb)[name].arity = "one"
        /\ \E next \in AtMostOne(Values \cup {"--query"}) : Single(name, inline, next)
     \/ /\ Schema(verb)[name].arity = "list"
        /\ \E words \in UNION {[1..n -> {v \in Values : ~Dashed(v)}] : n \in 0..MaxWords} :
             Several(name, inline, words)

\* The end of the command.
EndOfCommand ==
  /\ outcome = "reading"
  /\ IF /\ \A name \in DOMAIN Schema(verb) :
             Schema(verb)[name].required => Has(name)
        /\ Related
       THEN /\ outcome' = "accepted"
            /\ argv' = argv \o <<"--output", "json">>
            /\ UNCHANGED <<verb, seen>>
       ELSE Reject

CommandNext ==
  \/ Unreviewed \/ EndOfCommand
  \/ \E name \in DOMAIN Schema(verb), inline \in AtMostOne(Values) : Argument(name, inline)

CommandSpec == CommandInit /\ [][CommandNext]_commandVars

-----------------------------------------------------------------------------
\* How the executable reads an argv: a word that begins with a dash is an
\* option, and those up to the next one are its values.
Options(words) == {i \in DOMAIN words : Dashed(words[i])}

\* The place of an option and that of its last value, or its own.
Spans(words) ==
  {span \in Options(words) \X DOMAIN words :
     /\ span[1] <= span[2] /\ \A i \in Options(words) : i <= span[1] \/ i > span[2]
     /\ span[2] = Len(words) \/ span[2] + 1 \in Options(words)}

ReadBack(words) ==
  {<<words[span[1]], SubSeq(words, span[1] + 1, span[2])>> : span \in Spans(words)}

\* The executable reads, from the argv it is given, exactly the arguments that
\* were reviewed, each of them once and with the number of values it takes: no
\* value turns into an option, none slips into its neighbour's list.
CommandReadsBack ==
  outcome = "accepted" =>
    /\ ReadBack(argv) =
         {<<name, seen[name]>> : name \in DOMAIN seen} \cup {<<"--output", <<"json">>>>}
    /\ Cardinality(Options(argv)) = Cardinality(DOMAIN seen) + 1
    /\ \A name \in DOMAIN seen :
         LET argument == Schema(verb)[name]
         IN /\ argument.arity = "flag" => seen[name] = <<>>
            /\ argument.arity = "one" => Len(seen[name]) = 1
            /\ argument.arity = "list" => Len(seen[name]) \in 1..argument.most
=============================================================================
