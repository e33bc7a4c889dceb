----------------------------- MODULE SsoProfile -----------------------------
(***************************************************************************)
(* What is taken from the user's AWS configuration: the snapshot a         *)
(* connection signs in with (SsoProfileSnapshot::parse) and the list of    *)
(* profiles the settings page offers (inspect, discovery_row), which a     *)
(* profile may miss although it can be signed in with: the list is short,  *)
(* and so are the names in it.                                             *)
(*                                                                         *)
(* The file is edited by the user, and by other programs that read it      *)
(* differently: some merge sections of one name, some take the last of     *)
(* two settings, some prefer the profile's own value to its session's.     *)
(*                                                                         *)
(* A value is "one" or "two", which every field accepts, "long", which     *)
(* every field but the account accepts and the list does not, " one",      *)
(* which is "one" once trimmed, "" once trimmed, "bad", which no validator *)
(* accepts, or "control", which holds a control character.  A header is    *)
(* the sequence of its words; a setting has the values it is given in its  *)
(* section, whatever the case of its key.                                  *)
(***************************************************************************)
EXTENDS Integers, Sequences, FiniteSets, Maps

CONSTANTS
  ConfigEdits,    \* bound: how far the file is from a good one
  ConfigValues,   \* the values explored
  Keys,           \* the settings explored
  DiscoveryLimit  \* the profiles the settings page is given (500 in the code)

ASSUME ProfileAssumption == "absent" \notin ConfigValues /\ DiscoveryLimit \in Nat \ {0}

VARIABLES
  sections,       \* the file: a sequence of [header, settings]
  edited

profileVars == <<sections, edited>>

Absent == "absent"
Regions == {"one", "two"}
Trim(value) == IF value = " one" THEN "one" ELSE value
Printable(value) == value # "control"

\* validate_name, _region and _start_url, which do not limit a length; _account does.
Valid(value) == value \in {"one", "two", "long", "dev", "default"}
ValidAccount(value) == value \in {"one", "two"}

-----------------------------------------------------------------------------
(* Sections *)

\* logical_section_name and ConfigSections::new
LogicalName(header, session) ==
  IF header = <<"default">>
    THEN IF session THEN Absent ELSE "default"
    ELSE IF Len(header) = 2 /\ header[1] = (IF session THEN "sso-session" ELSE "profile")
           THEN header[2]
           ELSE Absent

Named(name, session) ==
  {i \in DOMAIN sections : LogicalName(sections[i].header, session) = name}

ProviderSettings == {"sso_start_url", "sso_region", "sso_registration_scopes"}
ProfileSettings == {"sso_session", "sso_account_id", "sso_role_name", "region", "output"}

Supported(key, session) ==
  key \in ProviderSettings \/ (~session /\ key \in ProfileSettings)

\* selected_properties: the only section of the name, and only if every
\* setting in it is known, on one line and given once.
Selected(name, session) ==
  {i \in Named(name, session) :
     /\ Cardinality(Named(name, session)) = 1
     /\ \A key \in DOMAIN sections[i].settings :
          LET given == sections[i].settings[key]
          IN Supported(key, session) /\ Len(given) = 1 /\ Printable(given[1])}

Value(i, key) ==
  IF key \in DOMAIN sections[i].settings THEN Trim(sections[i].settings[key][1]) ELSE Absent

\* An empty setting is an error, not an absent one.
Filled(i, key) == Value(i, key) # ""
Present(i, key) == Value(i, key) \notin {"", Absent}

-----------------------------------------------------------------------------
(* SsoProfileSnapshot::parse *)

\* Mutant: the session wins over the profile.
NoConflict(p, session, key) == FALSE

\* resolved_sso_field: the two must not differ, and the session is not
\* completed from the profile.
Conflict(p, session, key) ==
  \E s \in session : /\ Absent \notin {Value(p, key), Value(s, key)}
                     /\ Value(p, key) # Value(s, key)

Resolved(p, session, key) ==
  IF session # {} THEN Value(CHOOSE s \in session : TRUE, key) ELSE Value(p, key)

Resolves(p, session, key, required) ==
  /\ Filled(p, key) /\ \A s \in session : Filled(s, key)
  /\ ~Conflict(p, session, key)
  /\ required => Valid(Resolved(p, session, key))

Session(p) ==
  IF Value(p, "sso_session") = Absent THEN {} ELSE Selected(Value(p, "sso_session"), TRUE)

\* Whether section p, the selected profile, is accepted.
Acceptable(p, selection) ==
  /\ Value(p, "sso_session") = Absent
       \/ (Valid(Value(p, "sso_session")) /\ Session(p) # {})
  /\ selection.session_override # Absent =>
       Value(p, "sso_session") = selection.session_override
  /\ Present(p, "sso_account_id") /\ ValidAccount(Value(p, "sso_account_id"))
  /\ Value(p, "sso_account_id") = selection.account
  /\ Present(p, "sso_role_name") /\ Valid(Value(p, "sso_role_name"))
  /\ Value(p, "region") = Absent \/ Valid(Value(p, "region"))
  /\ Resolves(p, Session(p), "sso_start_url", TRUE)
  /\ Resolves(p, Session(p), "sso_region", TRUE)
  /\ Resolves(p, Session(p), "sso_registration_scopes", FALSE)

\* A blank session_override counts as absent.
Accepts(selection) ==
  /\ Valid(selection.profile) /\ ValidAccount(selection.account) /\ Valid(selection.region)
  /\ \E p \in Selected(selection.profile, FALSE) : Acceptable(p, selection)

Snapshot(selection) ==
  LET p == CHOOSE i \in Selected(selection.profile, FALSE) : TRUE
  IN [account |-> Value(p, "sso_account_id"),
      sso_role_name |-> Value(p, "sso_role_name"),
      region |-> selection.region,
      sso_session |-> Value(p, "sso_session"),
      sso_start_url |-> Resolved(p, Session(p), "sso_start_url"),
      sso_region |-> Resolved(p, Session(p), "sso_region"),
      sso_registration_scopes |-> Resolved(p, Session(p), "sso_registration_scopes")]

-----------------------------------------------------------------------------
(* inspect *)

Profiles == {LogicalName(sections[i].header, FALSE) : i \in DOMAIN sections} \ {Absent}

\* Profiles are listed in the order of their names, as many as the list may hold.
Rank == [bad |-> 1, default |-> 2, dev |-> 3, long |-> 4]
Before(name) == {other \in Profiles : Rank[other] < Rank[name]}
Listed == {name \in Profiles : Cardinality(Before(name)) < DiscoveryLimit}
Partial == Cardinality(Profiles) > DiscoveryLimit

\* raw_value, of a profile or a session that has one section.
Raw(named, key) ==
  LET given == {sections[i].settings[key] :
                  i \in {j \in named : key \in DOMAIN sections[j].settings}}
  IN IF Cardinality(named) = 1 /\ \E values \in given : Len(values) = 1
       THEN Trim((CHOOSE values \in given : TRUE)[1])
       ELSE ""

Known(named, session) ==
  \A i \in named : \A key \in DOMAIN sections[i].settings : Supported(key, session)

\* What is safe to show is printable, and not long.
Safe(value) == Printable(value) /\ value # "long"

\* discovery_row
Row(name, constraint) ==
  LET named == Named(name, FALSE)
      session == Named(Raw(named, "sso_session"), TRUE)
      named_safely == Safe(name) /\ Valid(name)
      fits == \A key \in {"sso_role_name", "region", "sso_session"} : Safe(Raw(named, key))
      selection == [profile |-> name, account |-> Raw(named, "sso_account_id"),
                    region |-> "one", session_override |-> constraint]
  IN [eligibility |->
        IF named_safely /\ fits /\ Accepts(selection) THEN "supported_sso"
        ELSE IF \/ Cardinality(named) = 1 /\ ~Known(named, FALSE)
                \/ Cardinality(session) = 1 /\ ~Known(session, TRUE)
               THEN "unsupported_credentials"
               ELSE "invalid_sso",
      name |-> IF named_safely THEN name ELSE "(invalid profile name)",
      account_id |-> IF ValidAccount(Raw(named, "sso_account_id"))
                       THEN Raw(named, "sso_account_id") ELSE ""]

-----------------------------------------------------------------------------
Of(header, settings) == [header |-> header, settings |-> settings]

Own == [key \in {"sso_account_id", "sso_role_name", "region"} |-> <<"one">>]
Provider == [key \in {"sso_start_url", "sso_region"} |-> <<"one">>]

\* Legacy SSO, a session, and a session whose values the profile repeats.
ProfileInit ==
  /\ edited = 0
  /\ sections \in
       {<<Of(<<"profile", "dev">>, Own ++ Provider), Of(<<"default">>, Own)>>,
        <<Of(<<"profile", "dev">>, Own ++ ("sso_session" := <<"one">>)),
          Of(<<"sso-session", "one">>, Provider)>>,
        <<Of(<<"profile", "dev">>, Own ++ Provider ++ ("sso_session" := <<"one">>)),
          Of(<<"sso-session", "one">>, Provider)>>}

EditFile(file) ==
  edited < ConfigEdits /\ edited' = edited + 1 /\ sections' = file

Set(i, key, values) ==
  EditFile([sections EXCEPT ![i].settings = (key := values) ++ @])

Unset(i, key) ==
  /\ key \in DOMAIN sections[i].settings
  /\ EditFile([sections EXCEPT ![i].settings =
               [k \in DOMAIN @ \ {key} |-> @[k]]])

Rename(i, header) == EditFile([sections EXCEPT ![i].header = header])
Repeat(i) == EditFile(Append(sections, sections[i]))

Headers ==
  {<<"default">>, <<"profile", "default">>, <<"profile", "long">>, <<"profile", "bad">>,
   <<"sso-session", "two">>, <<"sso-session", "long">>, <<"dev">>}

ProfileNext ==
  \E i \in DOMAIN sections :
    \/ \E key \in Keys, first \in ConfigValues : Set(i, key, <<first>>)
    \/ \E key \in Keys : Set(i, key, <<"one", "two">>) \/ Unset(i, key)
    \/ \E header \in Headers : Rename(i, header)
    \/ Repeat(i)

ProfileSpec == ProfileInit /\ [][ProfileNext]_profileVars

-----------------------------------------------------------------------------
Constraints == {Absent, "one", "two", "long"}

Selections ==
  [profile : DOMAIN Rank, account : {"one", "two"}, region : Regions,
   session_override : Constraints]

\* Every section another reader could take a value of this profile from, and
\* every value it could take.
Reachable(name) ==
  LET profiles == Named(name, FALSE)
      names == UNION {{Trim(given[k]) : k \in DOMAIN given} :
                        given \in {sections[i].settings["sso_session"] :
                          i \in {j \in profiles : "sso_session" \in DOMAIN sections[j].settings}}}
  IN profiles \cup UNION {Named(session, TRUE) : session \in names}

Given(name, key) ==
  UNION {{Trim(sections[i].settings[key][k]) : k \in DOMAIN sections[i].settings[key]} :
           i \in {j \in Reachable(name) : key \in DOMAIN sections[j].settings}}

\* A name of the profile is too long for the list.
TooLong(name) ==
  "long" \in {name} \cup UNION {Given(name, key) :
                                key \in {"sso_role_name", "region", "sso_session"}}

\* A profile is signed in with only if no reader of the file could take another
\* role, provider or session for it, and nothing that belongs to it asks for
\* another source of credentials; it is the account and the session that were
\* asked for.  The scopes alone may be given and not used, by a profile whose
\* session leaves them out.  What the settings page offers fits on it, and is accepted
\* when it is asked for as it is shown; and what is accepted is offered with its account,
\* unless a name in it is too long to show, or the list says that it leaves some
\* profiles out.
ProfileExact ==
  /\ \A selection \in Selections : Accepts(selection) =>
       LET snapshot == Snapshot(selection)
           given(key) == Given(selection.profile, key)
       IN /\ \A key \in {"sso_role_name", "sso_start_url", "sso_region"} :
               given(key) = {snapshot[key]}
          /\ given("sso_account_id") = {selection.account}
          /\ given("sso_session") = {snapshot.sso_session} \ {Absent}
          /\ \/ given("sso_registration_scopes") = {snapshot.sso_registration_scopes} \ {Absent}
             \/ snapshot.sso_registration_scopes = Absent /\ snapshot.sso_session # Absent
          /\ selection.session_override \in {Absent, snapshot.sso_session}
          /\ \A i \in Reachable(selection.profile) :
               "credential_process" \notin DOMAIN sections[i].settings
  /\ \A name \in Listed, constraint \in Constraints :
       LET row == Row(name, constraint)
       IN row.eligibility = "supported_sso" =>
            /\ ~TooLong(name)
            /\ \E selection \in Selections :
                 /\ selection.profile = row.name /\ selection.session_override = constraint
                 /\ selection.account = row.account_id /\ Accepts(selection)
  /\ \A selection \in Selections : Accepts(selection) =>
       LET row == Row(selection.profile, selection.session_override)
       IN \/ /\ selection.profile \in Listed /\ row.eligibility = "supported_sso"
             /\ row.name = selection.profile /\ row.account_id = selection.account
          \/ TooLong(selection.profile)
          \/ selection.profile \notin Listed /\ Partial
=============================================================================
