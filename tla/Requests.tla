------------------------------ MODULE Requests ------------------------------
(***************************************************************************)
(* What the webview may ask: the shape check that every command makes      *)
(* before it reads a file or signs in, and the places that rely on it, the *)
(* choice of the context, the policy check before a sign-in and the        *)
(* reading of the inputs by a widget; and the settings and the dashboard,  *)
(* which go through the same check when they are saved and when they are   *)
(* loaded again.                                                           *)
(*                                                                         *)
(* A JSON value is one of a few words for what the checks tell apart: a    *)
(* word is a text; "blank" is a text of spaces or none; "lines" has line   *)
(* breaks; "unfit" is too long or has control characters; "zero", "some"   *)
(* and "beyond" are integers below, in and above a range; "pair" is an     *)
(* array of two different names, "double" of the same name twice, "dated"  *)
(* of versions that carry their dates, "none" of nothing.  An object is a  *)
(* function from its fields.                                               *)
(***************************************************************************)
EXTENDS Integers, Sequences, Maps

CONSTANT Changes  \* bound: how many fields differ from a good request

VARIABLES
  draft,          \* [command, fields, inputs, scopes], as it is being put together
  changes,
  saved           \* the settings and the tiles on disk, as they were saved

requestVars == <<draft, changes, saved>>

Words ==
  {"text", "list", "enrich", "groups", "streams", "events", "tail", "query", "inherit",
   "pinned", "q-1", "dark", "eu-west-1", "preserve"}
JsonStrings == Words \cup {"blank", "lines", "unfit"}
Booleans == {"true", "false"}
Integer == {"some"}
FromZero == {"zero", "some"}
Null == {"null"}

-----------------------------------------------------------------------------
(* Shapes: [required, optional], each a function from fields to the values *)
(* that are accepted.  There may be no other field.                        *)

NoFields == All({}, {})

Fits(p, required, optional) ==
  /\ DOMAIN required \subseteq DOMAIN p
  /\ DOMAIN p \subseteq DOMAIN required \cup DOMAIN optional
  /\ \A field \in DOMAIN p : p[field] \in (required ++ optional)[field]

Blank == Words \cup {"blank"}
Lines == Words \cup {"lines"}

Get(p, field, default) == IF field \in DOMAIN p THEN p[field] ELSE default
With(p, field, value) == (field := value) ++ p
Without(p, field) == [f \in DOMAIN p \ {field} |-> p[f]]

\* query_acknowledgement
Acknowledgement == ("acknowledge_unknown" := Booleans) ++ ("acknowledge_query" := {"q-1"})
Acknowledged(p) ==
  "acknowledge_query" \in DOMAIN p => Get(p, "acknowledge_unknown", "false") = "true"

Packages == All({"domain", "repository", "package_prefix"}, Words) ++ ("domain_owner" := Blank)

\* log_inputs, by mode.
LogShape(name, mode, p) ==
  CASE mode = "list" /\ name = "log-tail" ->
         Fits(p, "mode" := {"list"}, "max_functions" := Integer)
    [] mode = "groups" /\ name \in {"cloudwatch-logs", "logs-insights"} ->
         Fits(p, NoFields, ("mode" := {"groups"}) ++ ("max_groups" := Integer)
                             ++ ("name_pattern" := Blank))
    [] mode = "streams" /\ name \in {"cloudwatch-logs", "log-tail"} ->
         Fits(p, ("mode" := {"streams"}) ++ ("log_group" := Words), "max_streams" := Integer)
    [] mode = "events" /\ name \in {"cloudwatch-logs", "log-tail"} ->
         Fits(p, ("mode" := {"events"}) ++ All({"log_group", "log_stream"}, Words),
              "limit" := Integer)
    [] mode = "tail" /\ name = "log-tail" ->
         Fits(p, "log_group" := Words,
              ("mode" := {"tail"}) ++ ("tail_minutes" := FromZero)
                ++ ("filter" := Blank \cup Lines))
    [] mode = "query" /\ name = "logs-insights" ->
         /\ Fits(p, ("log_group" := Words) ++ ("query" := Lines),
                 Acknowledgement ++ ("mode" := {"query"}) ++ ("range_seconds" := Integer))
         /\ Acknowledged(p)
    [] OTHER -> FALSE

\* widget_inputs, by widget and mode.
InputShape(name, mode, p) ==
  CASE name = "aws-cli" -> Fits(p, "command" := Words, NoFields)
    [] name = "cfn-stacks" ->
         Fits(p, NoFields,
              ("name_prefix" := Blank) ++ ("status_filter" := {"pair", "double", "none"}))
    [] name = "cfn-stack-detail" -> Fits(p, "stack_name" := Words, NoFields)
    [] name = "pipeline-runs" -> Fits(p, "pipeline_name" := Words, "max_results" := Integer)
    [] name = "pipeline-execution-detail" ->
         Fits(p, All({"pipeline_name", "execution_id"}, Words), NoFields)
    [] name = "codebuild-log" -> Fits(p, "build_id" := Words, NoFields)
    [] name = "resource-lookup" -> Fits(p, "query" := Words, "max_results" := Integer)
    [] name = "errors-by-stack" ->
         /\ Fits(p, NoFields, Acknowledgement ++ ("hours" := Integer)
                                ++ ("log_group_pattern" := Blank))
         /\ Acknowledged(p)
    [] name = "codeartifact-packages" ->
         CASE mode = "list" ->
                Fits(p, "mode" := {"list"},
                     Packages ++ ("max_packages" := Integer) ++ ("page_token" := Words))
           [] mode = "enrich" ->
                Fits(p, ("mode" := {"enrich"}) ++ ("packages" := {"pair"}), Packages)
           [] mode = "" -> Fits(p, NoFields, Packages ++ ("max_packages" := Integer))
           [] OTHER -> FALSE
    [] name = "codeartifact-package-version-history" ->
         Fits(p, All({"domain", "repository", "package"}, Words)
                   ++ ("versions" := {"pair", "double", "dated"}),
              "domain_owner" := Blank)
    [] OTHER -> LogShape(name, mode, p)

\* The mode an absent one stands for, in the check.
DefaultMode(name) ==
  CASE name = "cloudwatch-logs" -> "groups" [] name = "logs-insights" -> "query"
    [] name = "log-tail" -> "tail" [] OTHER -> ""

\* Mutant: an inherited context may carry an identity.
ContextShapeLoose(scope) ==
  LET identity == {"profile", "account_id", "region"}
      mode == Get(scope, "mode", "pinned")
  IN /\ mode \in {"pinned", "blank", "inherit"}
     /\ Fits(scope, All(identity, Words), "mode" := {"pinned", "blank", "inherit"})

\* context_shape: a pinned context names its own identity, an inherited one none.
\* A mode that is blank is the empty one.
ContextShape(scope) ==
  LET identity == {"profile", "account_id", "region"}
      mode == Get(scope, "mode", "pinned")
  IN \/ /\ mode \in {"pinned", "blank"}
        /\ Fits(scope, All(identity, Words), "mode" := {"pinned", "blank"})
     \/ mode = "inherit" /\ Fits(scope, "mode" := {"inherit"}, All(identity, Null))

\* request_context: two names for one thing, of which one may be given.
RequestContext(scopes) ==
  /\ DOMAIN scopes # {"context", "account_override"}
  /\ \A name \in DOMAIN scopes : ContextShape(scopes[name])

Cacheable ==
  {"cfn-stack-detail", "pipeline-execution-detail", "codeartifact-package-version-history"}

\* validate("widget_fetch")
FetchShape(d) ==
  LET name == Get(d.fields, "widget", "text")
  IN /\ Fits(d.fields, "widget" := {name},
             ("request_id" := {"text", "null"}) ++ ("reuse_result" := Booleans))
     /\ "reuse_result" \in DOMAIN d.fields => name \in Cacheable
     /\ RequestContext(d.scopes)
     /\ InputShape(name, Get(d.inputs, "mode", DefaultMode(name)), d.inputs)

-----------------------------------------------------------------------------
(* What relies on it *)

\* A region the program knows; any other word is one it does not.
AllowedRegions == {"eu-west-1"}

\* resolve_widget_ctx: the context a request is for.  A saved SSO session cannot
\* conflict with it, as it names none.
Resolve(scopes) ==
  IF DOMAIN scopes = {} THEN "live"
  ELSE LET scope == scopes[IF "context" \in DOMAIN scopes THEN "context" ELSE "account_override"]
           mode == Get(scope, "mode", "blank")
       IN IF mode \in {"pinned", "blank"} \/ mode \notin JsonStrings
            THEN IF \E field \in {"profile", "account_id", "region"} :
                      Get(scope, field, "null") \notin Words
                   THEN "invalid"
                 ELSE IF scope.region \in AllowedRegions THEN "pinned" ELSE "unsupported"
          ELSE IF mode = "inherit" THEN "live" ELSE "invalid"

\* entry_operations
EntryOperations(name, p) ==
  LET mode == Get(p, "mode", "")
  IN CASE name = "cfn-stacks" -> {"ListStacks"}
       [] name = "cfn-stack-detail" -> {"DescribeStackResources"}
       [] name \in {"cloudwatch-logs", "log-tail"} /\ mode = "streams" -> {"DescribeLogStreams"}
       [] name \in {"cloudwatch-logs", "log-tail"} /\ mode = "events" -> {"GetLogEvents"}
       [] name = "log-tail" /\ mode = "list" -> {"ListFunctions"}
       [] name = "log-tail" /\ mode \notin {"streams", "events", "list"} -> {"FilterLogEvents"}
       [] name = "cloudwatch-logs" /\ mode \notin {"streams", "events"} -> {"DescribeLogGroups"}
       [] name = "logs-insights" /\ mode = "groups" -> {"DescribeLogGroups"}
       [] name = "logs-insights" /\ mode # "groups" -> {"StartQuery", "GetQueryResults"}
       [] name = "errors-by-stack" -> {"DescribeLogGroups", "StartQuery", "GetQueryResults"}
       [] name = "resource-lookup" -> {"GetResources"}
       [] name = "pipeline-runs" -> {"ListPipelineExecutions"}
       [] name = "pipeline-execution-detail" -> {"ListActionExecutions"}
       [] name = "codeartifact-packages" /\ mode = "enrich" -> {"ListPackageVersions"}
       [] name = "codeartifact-packages" /\ mode # "enrich" -> {"ListPackages"}
       [] name = "codeartifact-package-version-history" -> {"DescribePackageVersion"}
       [] name = "codebuild-log" -> {"BatchGetBuilds"}
       [] OTHER -> {}

\* input_str: what is not a string counts as absent.
Text(p, field, default) == IF Get(p, field, "null") \in JsonStrings THEN p[field] ELSE default

Missing(p, field) == Text(p, field, "blank") = "blank"
Emptied(p, field) == Text(p, field, "text") = "blank"

\* The start of each widget's fetch: the calls it asks the policy for first, or
\* {"refused"} when it finds an input missing or does not know the mode.
Unless(missing, calls) == IF missing THEN {"refused"} ELSE calls

StreamCalls(p) == Unless(Missing(p, "log_group"), {"DescribeLogStreams"})
EventCalls(p) == Unless(Missing(p, "log_group") \/ Missing(p, "log_stream"), {"GetLogEvents"})

FirstCalls(name, p) ==
  CASE name = "cfn-stacks" -> {"ListStacks"}
    [] name = "cfn-stack-detail" -> Unless(Missing(p, "stack_name"), {"DescribeStackResources"})
    [] name = "pipeline-runs" -> Unless(Missing(p, "pipeline_name"), {"ListPipelineExecutions"})
    [] name = "pipeline-execution-detail" ->
         Unless(Missing(p, "pipeline_name") \/ Missing(p, "execution_id"),
                {"ListActionExecutions"})
    [] name = "codebuild-log" -> Unless(Missing(p, "build_id"), {"BatchGetBuilds"})
    [] name = "resource-lookup" -> Unless(Missing(p, "query"), {"GetResources"})
    [] name = "errors-by-stack" -> {"DescribeLogGroups", "StartQuery", "GetQueryResults"}
    [] name = "cloudwatch-logs" ->
         CASE Text(p, "mode", "groups") = "groups" -> {"DescribeLogGroups"}
           [] Text(p, "mode", "groups") = "streams" -> StreamCalls(p)
           [] Text(p, "mode", "groups") = "events" -> EventCalls(p)
           [] OTHER -> {"refused"}
    [] name = "log-tail" ->
         CASE Text(p, "mode", "tail") = "list" -> {"ListFunctions"}
           [] Text(p, "mode", "tail") = "streams" -> StreamCalls(p)
           [] Text(p, "mode", "tail") = "events" -> EventCalls(p)
           [] OTHER -> Unless(Missing(p, "log_group"), {"FilterLogEvents"})
    [] name = "logs-insights" ->
         CASE Text(p, "mode", "query") = "groups" -> {"DescribeLogGroups"}
           [] Text(p, "mode", "query") = "query" ->
                Unless(Missing(p, "log_group") \/ Missing(p, "query"),
                       {"StartQuery", "GetQueryResults", "StopQuery"})
           [] OTHER -> {"refused"}
    [] name = "codeartifact-packages" ->
         CASE Text(p, "mode", "") \in {"", "list"} ->
                Unless(\E field \in {"domain", "repository", "package_prefix"} : Emptied(p, field),
                       {"ListPackages"})
           [] Text(p, "mode", "") = "enrich" ->
                Unless(\/ Emptied(p, "domain") \/ Emptied(p, "repository")
                       \/ Get(p, "packages", "null") # "pair", {"ListPackageVersions"})
           [] OTHER -> {"refused"}
    [] name = "codeartifact-package-version-history" ->
         Unless(\/ \E field \in {"domain", "repository", "package"} : Missing(p, field)
                \/ Get(p, "versions", "null") \notin {"pair", "double", "dated"},
                IF Get(p, "versions", "null") = "dated" THEN {} ELSE {"DescribePackageVersion"})
    [] OTHER -> {"refused"}

-----------------------------------------------------------------------------
(* Settings and dashboards *)

SettingsFields ==
  {"aws_config_path", "sso_session_name", "default_profile", "default_region", "theme"}

SettingChoices(field) ==
  CASE field = "default_region" -> AllowedRegions [] field = "theme" -> {"dark"}
    [] OTHER -> Words

Defaults ==
  [field \in SettingsFields \cup {"audit_retention"} |->
     CASE field = "default_region" -> "eu-west-1" [] field = "theme" -> "dark"
       [] field = "audit_retention" -> "preserve"
       [] field = "aws_config_path" -> "text" [] OTHER -> "blank"]

\* settings_shape, which a file must fit, and settings_field_errors.
SettingsShape(p) ==
  Fits(p, NoFields, All(SettingsFields, Blank) ++ ("audit_retention" := {"preserve"}))

FieldErrors(p) ==
  {field \in SettingsFields \cap DOMAIN p : p[field] \notin SettingChoices(field) \cup {"blank"}}

\* validate("settings_set"): a form has every field.
FormShape(p) ==
  SettingsShape(p) /\ SettingsFields \subseteq DOMAIN p /\ FieldErrors(p) = {}

\* Mutant: only the fields that are given are cleaned.
NormalFormOfGiven(p) ==
  [field \in DOMAIN Defaults \cap DOMAIN p |->
     IF p[field] = "blank" THEN Defaults[field] ELSE p[field]]

\* normal_form: a blank field takes its default.
NormalForm(p) ==
  [field \in DOMAIN Defaults |->
     IF Get(p, field, "blank") = "blank" /\ (field # "audit_retention" \/ field \notin DOMAIN p)
       THEN Defaults[field] ELSE p[field]]

\* validate("dashboard_set"): a tile, with its context and its drafted inputs.
TileShape(tile) ==
  /\ Fits(tile.fields, "id" := Words,
          ("widget" := Words) ++ ("x" := FromZero) ++ ("y" := FromZero)
            ++ ("w" := Integer) ++ ("h" := Integer))
  /\ tile.config # <<>> => RequestContext(tile.config[1])

DashboardShape(tiles) ==
  /\ \A i \in DOMAIN tiles : TileShape(tiles[i])
  /\ \A i, j \in DOMAIN tiles : tiles[i].fields.id = tiles[j].fields.id => i = j

\* dashboard::save drops fields it does not know, and tiles without an id.
TileFields == {"id", "widget", "x", "y", "w", "h"}
Cleaned(tiles) ==
  SelectSeq([i \in DOMAIN tiles |->
               [tiles[i] EXCEPT !.fields = [f \in DOMAIN @ \cap TileFields |-> @[f]]]],
            LAMBDA tile : "id" \in DOMAIN tile.fields)

-----------------------------------------------------------------------------
Identity == ("region" := "eu-west-1") ++ All({"profile", "account_id"}, "text")

Good(command, fields, inputs) ==
  [command |-> command, fields |-> fields, inputs |-> inputs, scopes |-> NoFields]

Fetch(name, inputs) == Good("widget_fetch", "widget" := name, inputs)

RequestInit ==
  /\ changes = 0
  /\ saved = [settings |-> <<>>, tiles |-> <<>>]
  /\ draft \in
       {Fetch("cfn-stacks", NoFields), Fetch("errors-by-stack", NoFields),
        Fetch("cloudwatch-logs", NoFields), Fetch("logs-insights", "mode" := "groups"),
        Fetch("aws-cli", "command" := "text"), Fetch("cfn-stack-detail", "stack_name" := "text"),
        Fetch("pipeline-runs", "pipeline_name" := "text"),
        Fetch("codebuild-log", "build_id" := "text"),
        Fetch("pipeline-execution-detail", All({"pipeline_name", "execution_id"}, "text")),
        Fetch("resource-lookup", "query" := "text"), Fetch("codeartifact-packages", NoFields),
        Fetch("codeartifact-packages", ("mode" := "enrich") ++ ("packages" := "pair")),
        Fetch("codeartifact-package-version-history",
              All({"domain", "repository", "package"}, "text") ++ ("versions" := "pair")),
        Fetch("log-tail", "log_group" := "text"),
        Fetch("logs-insights", All({"log_group", "query"}, "text")),
        Good("settings_set", All(SettingsFields, "blank"), NoFields),
        Good("dashboard_set", ("id" := "text") ++ All({"x", "y", "w", "h"}, "some"), NoFields)}

Fields ==
  CASE draft.command = "widget_fetch" -> {"widget", "request_id", "reuse_result", "extra"}
    [] draft.command = "settings_set" -> SettingsFields \cup {"audit_retention", "extra"}
    [] draft.command = "dashboard_set" -> {"id", "widget", "x", "w", "extra"}

InputFields ==
  {"mode", "log_group", "log_stream", "query", "domain", "package_prefix", "packages",
   "versions", "acknowledge_unknown", "acknowledge_query"}

FieldValues ==
  {"text", "blank", "unfit", "null", "true", "dark", "eu-west-1", "preserve", "cloudwatch-logs",
   "cfn-stack-detail"}
InputValues ==
  {"text", "blank", "lines", "unfit", "null", "true", "list", "enrich", "groups", "streams",
   "events", "q-1", "double", "dated"}

Change(d) == changes < Changes /\ changes' = changes + 1 /\ draft' = d /\ UNCHANGED saved

SetField(field, value) == Change([draft EXCEPT !.fields = With(@, field, value)])
DropField(field) ==
  field \in DOMAIN draft.fields /\ Change([draft EXCEPT !.fields = Without(@, field)])

SetInput(field, value) ==
  draft.command = "widget_fetch" /\ Change([draft EXCEPT !.inputs = With(@, field, value)])
DropInput(field) ==
  field \in DOMAIN draft.inputs /\ Change([draft EXCEPT !.inputs = Without(@, field)])

Scopes ==
  {NoFields, Identity, "mode" := "inherit", Without(Identity, "region"),
   With(Identity, "region", "text"), With(NoFields, "mode", "text")}
    \cup {With(Identity, "mode", mode) : mode \in {"pinned", "inherit", "blank", "null"}}

SetScope(name, scope) ==
  draft.command # "settings_set" /\ Change([draft EXCEPT !.scopes = With(@, name, scope)])

Tile == [fields |-> draft.fields, config |-> <<draft.scopes>>]
Copy == [fields |-> With(draft.fields, "id", "list"), config |-> <<>>]

\* settings_set_impl and dashboard_set, then settings::save and dashboard::save.
WithRetention(p) ==
  IF "audit_retention" \in DOMAIN p THEN p ELSE With(p, "audit_retention", "preserve")

SaveSettings ==
  /\ draft.command = "settings_set" /\ FormShape(draft.fields)
  /\ FormShape(NormalForm(WithRetention(draft.fields)))
  /\ saved' = [saved EXCEPT !.settings = <<NormalForm(WithRetention(draft.fields))>>]
  /\ UNCHANGED <<draft, changes>>

SaveDashboard(tiles) ==
  /\ draft.command = "dashboard_set"
  /\ DashboardShape(tiles) /\ DashboardShape(Cleaned(tiles))
  /\ saved' = [saved EXCEPT !.tiles = Cleaned(tiles)]
  /\ UNCHANGED <<draft, changes>>

RequestNext ==
  \/ \E field \in Fields : DropField(field) \/ \E value \in FieldValues : SetField(field, value)
  \/ \E field \in InputFields :
       DropInput(field) \/ \E value \in InputValues : SetInput(field, value)
  \/ \E name \in {"context", "account_override"}, scope \in Scopes : SetScope(name, scope)
  \/ SaveSettings \/ SaveDashboard(<<Tile>>) \/ SaveDashboard(<<Tile, Copy>>)

RequestSpec == RequestInit /\ [][RequestNext]_requestVars

-----------------------------------------------------------------------------
NamesIdentity(scopes) ==
  \E name \in DOMAIN scopes : Get(scopes[name], "profile", "null") # "null"

\* A widget request that passes the check is read later as it was checked: the
\* policy is asked, before it signs in, for what the widget asks for first, the
\* widget finds the inputs it needs, and the request is for the context it
\* names, or refused for its region alone: for the live one only if it names
\* none of its own.  The policy check for the start of a query covers its stop.
EntryGuardsFirstCall ==
  draft.command = "widget_fetch" /\ FetchShape(draft) =>
    LET name == draft.fields.widget
        calls == FirstCalls(name, draft.inputs)
        entry == EntryOperations(name, draft.inputs)
        asked == IF "StartQuery" \in entry THEN entry \cup {"StopQuery"} ELSE entry
    IN /\ name = "aws-cli" \/ calls \subseteq asked
       /\ Resolve(draft.scopes) \in
            IF NamesIdentity(draft.scopes) THEN {"pinned", "unsupported"} ELSE {"live"}

\* Settings and dashboards survive being loaded and saved.  What a save accepted
\* is not refused, marked or changed by a load; and whatever a settings file
\* holds, the form it is shown as can be saved as it stands, and stays as it is,
\* unless the page marks one of its fields.
SavedReadsBack ==
  /\ draft.command = "settings_set" /\ SettingsShape(NormalForm(draft.fields)) =>
       LET loaded == NormalForm(draft.fields)
       IN FieldErrors(loaded) = {} => FormShape(loaded) /\ NormalForm(loaded) = loaded
  /\ \A settings \in {saved.settings[i] : i \in DOMAIN saved.settings} :
       FormShape(settings) /\ NormalForm(settings) = settings
  /\ DashboardShape(saved.tiles)
=============================================================================
