---------------------------- MODULE Capabilities ----------------------------
(***************************************************************************)
(* The capabilities of New Session: which protocol is spoken, how the      *)
(* parts of the request are validated, merged and matched                  *)
(* (session_commands.cc, capabilities.cc), and what becomes of the         *)
(* emulation of a mobile device (chrome/mobile_device.cc,                  *)
(* chrome/mobile_emulation_override_manager.cc).                           *)
(*                                                                         *)
(* A JSON value is the kind of value it is; a dictionary is a function     *)
(* from the names it holds.  "string" is a string that the parser of the   *)
(* name understands, "word" is any other one that is not empty.            *)
(***************************************************************************)
EXTENDS Naturals, Sequences, TLC

VARIABLES
  capabilityRequest,  \* the parameters of New Session
  configured          \* what ConfigureSession made of them

vars == <<capabilityRequest, configured>>

Kinds == {"null", "bool", "string", "word", "empty", "positive", "huge", "zero", "negative",
          "list", "emptyList", "dict"}
Empty == [n \in {} |-> "null"]
Has(dict, n) == n \in DOMAIN dict
-----------------------------------------------------------------------------
\* A parser is the set of the kinds that it accepts.
ParseBoolean == {"bool"}
ParseString == {"string", "word"}
ParseInterval == {"positive", "huge"}
ParseTimeDelta == {"positive", "huge", "zero"}
ParseFilePath == {"string", "word", "empty"}
ParseDict == {"dict"}
ParseLogPath == {"string", "word", "empty"}
IgnoreCapability == Kinds
ParsePageLoadStrategy == {"string"}
ParseUnhandledPromptBehavior == {"string", "dict"}
ParseTimeouts == {"dict"}
ParseSwitches == {"list", "emptyList"}
ParseExtensions == {"list", "emptyList"}
ParseProxy == {"dict"}
ParseExcludeSwitches == {"list", "emptyList"}
ParsePortNumber == {"positive"}
ParseNetAddress == {"string"}
ParsePerfLoggingPrefs == {"dict"}
ParseDevToolsEventsLoggingPrefs == {"list"}
ParseWindowTypes == {"list", "emptyList"}

\* The options of the vendor, by the kind of browser.
CommonOptions ==
  [args |-> IgnoreCapability, binary |-> IgnoreCapability, extensions |-> IgnoreCapability,
   perfLoggingPrefs |-> ParsePerfLoggingPrefs, windowTypes |-> ParseWindowTypes,
   devToolsEventsToLog |-> ParseDevToolsEventsLoggingPrefs,
   enableExtensionTargets |-> ParseBoolean, w3c |-> IgnoreCapability]

AndroidOptions ==
  [androidActivity |-> ParseString, androidDeviceSerial |-> ParseString,
   androidPackage |-> ParseString, androidProcess |-> ParseString,
   androidExecName |-> ParseString, androidDeviceSocket |-> ParseString,
   androidUseRunningApp |-> ParseBoolean, androidKeepAppDataDir |-> ParseBoolean,
   androidDevToolsPort |-> ParsePortNumber, args |-> ParseSwitches,
   excludeSwitches |-> ParseExcludeSwitches, loadAsync |-> IgnoreCapability]

RemoteOptions == [debuggerAddress |-> ParseNetAddress]

DesktopOptions ==
  [args |-> ParseSwitches, binary |-> ParseFilePath, detach |-> ParseBoolean,
   excludeSwitches |-> ParseExcludeSwitches, extensions |-> ParseExtensions,
   extensionLoadTimeout |-> ParseTimeDelta, loadAsync |-> IgnoreCapability,
   localState |-> ParseDict, logPath |-> ParseLogPath, minidumpPath |-> ParseString,
   mobileEmulation |-> ParseDict, prefs |-> ParseDict,
   useAutomationExtension |-> IgnoreCapability, browserStartupTimeout |-> ParseTimeDelta]

OptionParsers(options) ==
  (IF Has(options, "androidPackage") THEN AndroidOptions
   ELSE IF Has(options, "debuggerAddress") THEN RemoteOptions ELSE DesktopOptions)
  @@ CommonOptions

ParseChromeOptions(options) ==
  LET parsers == OptionParsers(options)
  IN \A o \in DOMAIN options : o \in DOMAIN parsers /\ options[o] \in parsers[o]

\* Preferences of logs: the level of each.
ParseLoggingPrefs(prefs) == \A l \in DOMAIN prefs : prefs[l] \in {"ALL", "OFF"}
-----------------------------------------------------------------------------
\* The capabilities of the standard.
Standard ==
  [acceptInsecureCerts |-> ParseBoolean, browserName |-> ParseString,
   browserVersion |-> ParseString, platformName |-> ParseString,
   pageLoadStrategy |-> ParsePageLoadStrategy, proxy |-> ParseProxy,
   timeouts |-> ParseTimeouts, strictFileInteractability |-> ParseBoolean,
   webSocketUrl |-> ParseBoolean, unhandledPromptBehavior |-> ParseUnhandledPromptBehavior,
   virtualAuthenticators |-> ParseBoolean, largeBlob |-> ParseBoolean,
   fedcmAccounts |-> ParseBoolean]

OptionsOf(caps) == IF Has(caps, "chromeOptions") THEN caps["chromeOptions"] ELSE Empty

\* The name that the preferences of the logs are read from.
LoggingKey(caps) == IF Has(caps, "seOptions") THEN "seOptions" ELSE "loggingPrefs"

Logs(caps, log) ==
  /\ Has(caps, LoggingKey(caps)) /\ Has(caps[LoggingKey(caps)], log)
  /\ caps[LoggingKey(caps)][log] = "ALL"

\* Capabilities::Parse.  The names with a prefix that no parser knows are passed over, the
\* others are an error in W3C mode; networkConnectionEnabled is known next to the emulation of
\* a device.
Parse(caps, w3c) ==
  /\ \A n \in DOMAIN caps :
       CASE n \in DOMAIN Standard -> caps[n] \in Standard[n] \cup {"null"}
         [] n = "chromeOptions" -> ParseChromeOptions(caps[n])
         [] n = LoggingKey(caps) -> ParseLoggingPrefs(caps[n])
         [] n = "networkConnectionEnabled" /\ Has(OptionsOf(caps), "mobileEmulation") ->
              caps[n] \in ParseBoolean \cup {"null"}
         [] OTHER -> w3c => n \in {"seOptions", "loggingPrefs", "vendor:name"} \/ caps[n] = "null"
  /\ Has(OptionsOf(caps), "perfLoggingPrefs") => Logs(caps, "performance")
  /\ Has(OptionsOf(caps), "devToolsEventsToLog") => Logs(caps, "devtools")

\* GetW3CSetting.
W3CIn(caps) == IF Has(OptionsOf(caps), "w3c") THEN OptionsOf(caps)["w3c"] ELSE "unset"

GetW3CSetting(r) ==
  LET asked == <<W3CIn(r.always), IF r.first = <<>> THEN "unset" ELSE W3CIn(r.first[1]),
                 W3CIn(r.desired)>>
      told == {i \in 1..3 : asked[i] \in {"true", "false"}}
  IN IF told = {} THEN ~(r.form = "desired")
     ELSE asked[CHOOSE i \in told : \A j \in told : i <= j] = "true"
-----------------------------------------------------------------------------
MergeOverriding(always, first) == [ok |-> TRUE, dict |-> first @@ always]

\* Overlapping names are refused.
MergeCapabilities(always, first) ==
  [ok |-> DOMAIN always \cap DOMAIN first = {}, dict |-> always @@ first]

\* "word" is the name of another browser or platform.  "bool" is true: a capability that is false
\* asks for nothing and matches.
MatchCapabilities(caps) ==
  LET android == Has(OptionsOf(caps), "androidPackage")
      remote == Has(OptionsOf(caps), "debuggerAddress")
  IN /\ Has(caps, "browserName") => caps["browserName"] \in {"null", "string"}
     /\ Has(caps, "platformName") =>
          caps["platformName"] = "null" \/ remote \/ (caps["platformName"] = "string" /\ ~android)
     /\ \A n \in {"virtualAuthenticators", "largeBlob"} :
          Has(caps, n) => caps[n] = "bool" /\ ~android
     /\ Has(caps, "fedcmAccounts") => caps["fedcmAccounts"] = "bool"

\* ProcessCapabilities: what is wrong, or the dictionary that is used.
ProcessCapabilities(r) ==
  LET merged == [i \in DOMAIN r.first |-> MergeCapabilities(r.always, r.first[i])]
      matching == {i \in DOMAIN merged : MatchCapabilities(merged[i].dict)}
  IN CASE r.form = "none" \/ ~Parse(r.always, TRUE) -> [status |-> "kInvalidArgument"]
       [] \E i \in DOMAIN r.first : ~Parse(r.first[i], TRUE) -> [status |-> "kInvalidArgument"]
       [] r.first = <<>> -> [status |-> "kInvalidArgument"]
       [] \E i \in DOMAIN merged : ~merged[i].ok -> [status |-> "kInvalidArgument"]
       [] OTHER ->
            IF matching = {} THEN [status |-> "kSessionNotCreated"]
            ELSE [status |-> "kOk",
                  caps |-> merged[CHOOSE i \in matching : \A j \in matching : i <= j].dict]
-----------------------------------------------------------------------------
\* Mobile emulation.  The fields of the dictionary, and of the client hints within it.
Platforms == {"Android", "Windows"}    \* those with a reduced user agent
AllPlatforms == Platforms \cup {"ANDROID", "Other"}
HintFields == [architecture |-> {"string"}, bitness |-> {"string"}, brands |-> {"list"},
               fullVersionList |-> {"list"}, model |-> {"string"}, mobile |-> {"bool"},
               platformVersion |-> {"string"}, wow64 |-> {"bool"}]
MetricFields == [width |-> {"positive"}, height |-> {"positive"}, pixelRatio |-> {"positive"},
                 touch |-> {"bool"}, mobile |-> {"bool"}]

\* Client hints of another platform come with a user agent.
NeedsUserAgent(platform) == platform \notin Platforms

\* MobileDevice::GuessPlatform knows the platform of a "mobile" user agent, not of an "other".
NoDevice == [userAgent |-> FALSE, metrics |-> FALSE, hints |-> FALSE, platform |-> "",
             mobile |-> FALSE]

\* ParseMobileEmulation: e.field is one more field of the hints or of the metrics.
ParseMobileEmulation(e) ==
  LET mobileUa == e.userAgent = "mobile"
      wrong == \/ e.deviceName # "none" /\ e.alone = FALSE
               \/ /\ e.metrics /\ e.metric \in DOMAIN MetricFields
                  /\ e.kind \notin MetricFields[e.metric]
               \/ e.hints /\ e.platform = "none"
               \/ e.hints /\ e.userAgent = "none" /\ NeedsUserAgent(e.platform)
               \/ e.hints /\ e.hint \in DOMAIN HintFields /\ e.kind \notin HintFields[e.hint]
  IN CASE wrong -> [ok |-> FALSE, device |-> NoDevice]
       [] ~wrong /\ e.deviceName = "preset" ->
            [ok |-> TRUE, device |-> [userAgent |-> TRUE, metrics |-> TRUE, hints |-> TRUE,
                                      platform |-> "Android", mobile |-> TRUE]]
       [] ~wrong /\ e.deviceName = "unknown" -> [ok |-> FALSE, device |-> NoDevice]
       [] OTHER ->
            [ok |-> TRUE,
             device |->
               [userAgent |-> e.userAgent # "none", metrics |-> e.metrics,
                hints |-> e.hints \/ e.userAgent # "none",
                platform |-> IF e.hints THEN e.platform
                             ELSE IF mobileUa THEN "Android" ELSE "",
                mobile |-> IF e.hints /\ e.hint = "mobile" THEN TRUE
                           ELSE mobileUa /\ (e.hints => e.platform \in {"Android", "ANDROID"})]]

\* OverrideClientHintsIfNeeded with GetReducedUserAgent.
CanOverride(device) ==
  device.hints => device.userAgent \/ device.platform \in Platforms
-----------------------------------------------------------------------------
Pair(n, v) == n :> v

\* The requests that are looked at: every option and every capability with every kind of value
\* on its own, and combinations of the capabilities that depend on each other.
OneOption ==
  {Pair(o, k) : o \in DOMAIN (AndroidOptions @@ RemoteOptions @@ DesktopOptions @@ CommonOptions)
                      \cup {"unknown"}, k \in Kinds}
OptionDicts ==
  OneOption \cup {Pair("androidPackage", "string") @@ d : d \in OneOption}
            \cup {Pair("debuggerAddress", "string") @@ d : d \in OneOption}
OneCapability ==
  {Pair(n, k) : n \in DOMAIN Standard \cup {"unknown", "vendor:name", "networkConnectionEnabled"},
                k \in Kinds}

Entries ==
  {Pair("chromeOptions", d) :
     d \in {Pair("perfLoggingPrefs", "dict"), Pair("devToolsEventsToLog", "list"),
            Pair("mobileEmulation", "dict"), Pair("androidPackage", "string"),
            Pair("w3c", "true"), Pair("w3c", "false")}}
  \cup {Pair(n, Pair("performance", l)) : n \in {"loggingPrefs", "seOptions"}, l \in {"ALL", "OFF"}}
  \cup {Pair("networkConnectionEnabled", "bool"), Pair("browserName", "word"),
        Pair("platformName", "string"), Pair("largeBlob", "bool")}
Dicts == {Empty} \cup Entries \cup {a @@ b : a \in Entries, b \in Entries}

NoRequest == [form |-> "none", always |-> Empty, first |-> <<>>, desired |-> Empty]
NotConfigured == [status |-> "none"]

Init == capabilityRequest = NoRequest /\ configured = NotConfigured

\* ConfigureSession.
ConfigureSession(r) ==
  LET w3c == GetW3CSetting(r)
      p == ProcessCapabilities(r)
  IN CASE w3c -> IF p.status # "kOk" THEN p
                 ELSE [status |-> IF Parse(p.caps, TRUE) THEN "kOk" ELSE "kInvalidMerge",
                       caps |-> p.caps]
       [] ~w3c /\ r.form \in {"none", "w3c"} -> [status |-> "kSessionNotCreated"]
       [] OTHER -> IF Parse(r.desired, FALSE) THEN [status |-> "kOk", caps |-> r.desired]
                   ELSE [status |-> "kInvalidArgument"]

NewSession(r) ==
  /\ capabilityRequest' = r /\ configured' = ConfigureSession(r)

\* Emulation is parsed with the other options; it is looked at on its own here.
Emulate(e) ==
  /\ LET p == ParseMobileEmulation(e)
     IN configured' = [status |-> IF p.ok THEN "kOk" ELSE "kInvalidArgument",
                       device |-> p.device]
  /\ UNCHANGED capabilityRequest

Emulations ==
  [deviceName : {"none", "preset", "unknown"}, alone : BOOLEAN, userAgent : {"none", "mobile", "other"},
   metrics : BOOLEAN, hints : BOOLEAN, platform : {"none"} \cup AllPlatforms,
   metric : {"none", "width"}, hint : {"none", "mobile", "brands"}, kind : {"bool", "list"}]

Next ==
  /\ configured = NotConfigured
  /\ \/ \E d \in OptionDicts : NewSession([form |-> "w3c", always |-> Pair("chromeOptions", d),
                                           first |-> <<Empty>>, desired |-> Empty])
     \/ \E d \in OneCapability, form \in {"w3c", "desired"} :
          NewSession([form |-> form, always |-> IF form = "w3c" THEN d ELSE Empty,
                      first |-> IF form = "w3c" THEN <<Empty>> ELSE <<>>,
                      desired |-> IF form = "w3c" THEN Empty ELSE d])
     \/ \E a \in Dicts, b \in Entries \cup {Empty}, rest \in {<<>>, <<Pair("platformName", "string")>>} :
          NewSession([form |-> "w3c", always |-> a, first |-> <<b>> \o rest, desired |-> Empty])
     \/ \E a \in Entries, d \in Entries :
          NewSession([form |-> "both", always |-> a, first |-> <<Empty>>, desired |-> d])
     \/ \E e \in Emulations : Emulate(e)

Spec == Init /\ [][Next]_vars
-----------------------------------------------------------------------------
\* Types.
TypeOK ==
  configured.status \in {"none", "kOk", "kInvalidArgument", "kSessionNotCreated", "kInvalidMerge"}

\* A request is validated part by part before the parts are merged, and the merged dictionary
\* is parsed again.  What the parts were accepted with is accepted then: the second parse fails
\* only when the log preferences of one part hide those of the other (se:options).
ValidatedIsAccepted ==
  configured.status = "kInvalidMerge" =>
    Has(configured.caps, "seOptions") /\ Has(configured.caps, "loggingPrefs")

\* An emulation that is accepted with the capabilities can be applied to every page later:
\* a user agent is given or can be made for the platform.
EmulationIsApplicable ==
  "device" \in DOMAIN configured /\ configured.status = "kOk" => CanOverride(configured.device)

\* Both: what the validation accepts can be parsed after the merge and applied to the pages.
AcceptedIsApplicable == ValidatedIsAccepted /\ EmulationIsApplicable
=============================================================================
