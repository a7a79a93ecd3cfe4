--------------------------- MODULE HttpCommandMap ---------------------------
(***************************************************************************)
(* command_map_ of HttpHandler: a sequence of mappings that is searched    *)
(* from its start.  A path is the sequence of its segments.                *)
(***************************************************************************)
EXTENDS Sequences, SequencesExt

CONSTANT Vendor   \* kChromeDriverCompanyPrefix, a segment of a path

PathVariables == {":sessionId", ":id", ":name", ":propertyName", ":other", ":windowHandle",
                  ":key", ":type", ":authenticatorId", ":credentialId"}

\* CommandMapping of the methods in the domain of |commands|.
Mapping(path, commands, standard) ==
  SetToSeq({[method |-> m, path |-> path, command |-> commands[m], standard |-> standard] :
              m \in DOMAIN commands})

R(path, commands) == Mapping(path, commands, TRUE)
S(path, commands) == R(<<"session", ":sessionId">> \o path, commands)

\* WrapToCommand with w3c_standard_command false.
SOld(path, commands) == Mapping(<<"session", ":sessionId">> \o path, commands, FALSE)

SessionRoutes ==
  R(<<"session">>, [Post |-> "InitSession"]) \o S(<<>>, [Delete |-> "Quit"]) \o
  R(<<"status">>, [Get |-> "GetStatus"]) \o
  S(<<"timeouts">>, [Get |-> "GetTimeouts", Post |-> "SetTimeouts"]) \o
  S(<<"url">>, [Post |-> "Navigate", Get |-> "GetUrl"]) \o
  S(<<"back">>, [Post |-> "GoBack"]) \o S(<<"forward">>, [Post |-> "GoForward"]) \o
  S(<<"refresh">>, [Post |-> "Refresh"]) \o S(<<"title">>, [Get |-> "GetTitle"]) \o
  S(<<"window">>,
    [Get |-> "GetWindow", Delete |-> "CloseWindow", Post |-> "SwitchToWindow"]) \o
  S(<<"window", "new">>, [Post |-> "NewWindow"]) \o
  S(<<"window", "handles">>, [Get |-> "GetWindows"]) \o
  S(<<"frame">>, [Post |-> "SwitchToFrame"]) \o
  S(<<"frame", "parent">>, [Post |-> "SwitchToParentFrame"])

WindowRoutes ==
  S(<<"window", "rect">>, [Get |-> "GetWindowRect", Post |-> "SetWindowRect"]) \o
  S(<<"window", "maximize">>, [Post |-> "MaximizeWindow"]) \o
  S(<<"window", "minimize">>, [Post |-> "MinimizeWindow"]) \o
  S(<<"window", "fullscreen">>, [Post |-> "FullscreenWindow"])

ElementRoutes ==
  S(<<"element", "active">>, [Get |-> "GetActiveElement"]) \o
  S(<<"element", ":id", "shadow">>, [Get |-> "GetElementShadowRoot"]) \o
  S(<<"shadow", ":id", "element">>, [Post |-> "FindChildElementFromShadowRoot"]) \o
  S(<<"shadow", ":id", "elements">>, [Post |-> "FindChildElementsFromShadowRoot"]) \o
  S(<<"element">>, [Post |-> "FindElement"]) \o
  S(<<"elements">>, [Post |-> "FindElements"]) \o
  S(<<"element", ":id", "element">>, [Post |-> "FindChildElement"]) \o
  S(<<"element", ":id", "elements">>, [Post |-> "FindChildElements"]) \o
  S(<<"element", ":id", "selected">>, [Get |-> "IsElementSelected"]) \o
  S(<<"element", ":id", "attribute", ":name">>, [Get |-> "GetElementAttribute"]) \o
  S(<<"element", ":id", "property", ":name">>, [Get |-> "GetElementProperty"]) \o
  S(<<"element", ":id", "css", ":propertyName">>, [Get |-> "GetElementCSSProperty"]) \o
  S(<<"element", ":id", "text">>, [Get |-> "GetElementText"]) \o
  S(<<"element", ":id", "name">>, [Get |-> "GetElementTagName"]) \o
  S(<<"element", ":id", "rect">>, [Get |-> "GetElementRect"]) \o
  S(<<"element", ":id", "enabled">>, [Get |-> "IsElementEnabled"]) \o
  S(<<"element", ":id", "computedlabel">>, [Get |-> "GetComputedLabel"]) \o
  S(<<"element", ":id", "computedrole">>, [Get |-> "GetComputedRole"]) \o
  S(<<"element", ":id", "click">>, [Post |-> "ClickElement"]) \o
  S(<<"element", ":id", "clear">>, [Post |-> "ClearElement"]) \o
  S(<<"element", ":id", "value">>, [Post |-> "TypeElement"])

DocumentRoutes ==
  S(<<"source">>, [Get |-> "GetSource"]) \o
  S(<<"execute", "sync">>, [Post |-> "ExecuteScript"]) \o
  S(<<"execute", "async">>, [Post |-> "ExecuteAsyncScript"]) \o S(<<"cookie">>,
    [Get |-> "GetCookies", Post |-> "AddCookie", Delete |-> "DeleteAllCookies"]) \o
  S(<<"cookie", ":name">>, [Get |-> "GetNamedCookie", Delete |-> "DeleteCookie"]) \o
  S(<<"actions">>, [Post |-> "PerformActions", Delete |-> "ReleaseActions"]) \o
  S(<<"alert", "dismiss">>, [Post |-> "DismissAlert"]) \o
  S(<<"alert", "accept">>, [Post |-> "AcceptAlert"]) \o
  S(<<"alert", "text">>, [Get |-> "GetAlertMessage", Post |-> "SetAlertPrompt"]) \o
  S(<<"screenshot">>, [Get |-> "Screenshot"]) \o
  S(<<"element", ":id", "screenshot">>, [Get |-> "ElementScreenshot"]) \o
  S(<<"screenshot", "full">>, [Get |-> "FullPageScreenshot"]) \o
  S(<<"print">>, [Post |-> "Print"])

OldSessionRoutes ==
  R(<<"sessions">>, [Get |-> "GetSessions"]) \o
  SOld(<<>>, [Get |-> "GetSessionCapabilities"]) \o
  SOld(<<"timeouts", "implicit_wait">>, [Post |-> "SetImplicitWait"]) \o
  SOld(<<"timeouts", "async_script">>, [Post |-> "SetScriptTimeout"]) \o
  SOld(<<"window_handle">>, [Get |-> "GetWindow"]) \o
  SOld(<<"window_handles">>, [Get |-> "GetWindows"]) \o
  SOld(<<"execute">>, [Post |-> "ExecuteScript"]) \o
  SOld(<<"execute_async">>, [Post |-> "ExecuteAsyncScript"]) \o
  SOld(<<"window", ":windowHandle", "size">>,
    [Post |-> "SetWindowSize", Get |-> "GetWindowSize"]) \o
  SOld(<<"window", ":windowHandle", "position">>,
    [Post |-> "SetWindowPosition", Get |-> "GetWindowPosition"]) \o
  SOld(<<"window", ":windowHandle", "maximize">>, [Post |-> "MaximizeWindow"])

OldElementRoutes ==
  SOld(<<"element", "active">>, [Post |-> "GetActiveElement"]) \o
  SOld(<<"element", ":id", "submit">>, [Post |-> "SubmitElement"]) \o
  SOld(<<"keys">>, [Post |-> "Type"]) \o
  SOld(<<"element", ":id", "equals", ":other">>, [Get |-> "IsElementEqual"]) \o
  S(<<"element", ":id", "displayed">>, [Get |-> "IsElementDisplayed"]) \o
  SOld(<<"element", ":id", "location">>, [Get |-> "GetElementLocation"]) \o
  SOld(<<"element", ":id", "location_in_view">>, [Get |-> "GetElementLocationInView"]) \o
  SOld(<<"element", ":id", "size">>, [Get |-> "GetElementSize"]) \o
  SOld(<<"alert_text">>, [Get |-> "GetAlertMessage", Post |-> "SetAlertPrompt"]) \o
  SOld(<<"accept_alert">>, [Post |-> "AcceptAlert"]) \o
  SOld(<<"dismiss_alert">>, [Post |-> "DismissAlert"])

OldInputRoutes ==
  SOld(<<"moveto">>, [Post |-> "MouseMove"]) \o S(<<"click">>, [Post |-> "Click"]) \o
  SOld(<<"buttondown">>, [Post |-> "MouseDown"]) \o
  SOld(<<"buttonup">>, [Post |-> "MouseUp"]) \o
  SOld(<<"doubleclick">>, [Post |-> "DoubleClick"]) \o
  SOld(<<"touch", "click">>, [Post |-> "Tap"]) \o
  SOld(<<"touch", "down">>, [Post |-> "TouchDown"]) \o
  SOld(<<"touch", "up">>, [Post |-> "TouchUp"]) \o
  SOld(<<"touch", "move">>, [Post |-> "TouchMove"]) \o
  SOld(<<"touch", "scroll">>, [Post |-> "TouchScroll"]) \o
  SOld(<<"touch", "doubleclick">>, [Post |-> "TouchDoubleTap"]) \o
  SOld(<<"touch", "longclick">>, [Post |-> "TouchLongPress"]) \o
  SOld(<<"touch", "flick">>, [Post |-> "TouchFlick"]) \o
  S(<<"location">>, [Get |-> "GetGeolocation", Post |-> "SetGeolocation"])

StorageRoutes ==
  SOld(<<"local_storage">>,
    [Get |-> "GetLocalStorageKeys", Post |-> "SetLocalStorageKeys", Delete |-> "ClearLocalStorage"]) \o
  SOld(<<"local_storage", "key", ":key">>,
    [Get |-> "GetLocalStorageItem", Delete |-> "RemoveLocalStorageItem"]) \o
  SOld(<<"local_storage", "size">>, [Get |-> "GetLocalStorageSize"]) \o
  SOld(<<"session_storage">>,
    [Get |-> "GetSessionStorageKeys", Post |-> "SetSessionStorageItem", Delete |-> "ClearSessionStorage"]) \o
  SOld(<<"session_storage", "key", ":key">>,
    [Get |-> "GetSessionStorageItem", Delete |-> "RemoveSessionStorageItem"]) \o
  SOld(<<"session_storage", "size">>, [Get |-> "GetSessionStorageSize"]) \o
  S(<<"log">>, [Post |-> "GetLog"]) \o SOld(<<"log", "types">>, [Get |-> "GetLogTypes"]) \o
  S(<<"application_cache", "status">>, [Get |-> "GetStatus"])

ExtensionRoutes ==
  S(<<"reporting", "generate_test_report">>, [Post |-> "GenerateTestReport"]) \o
  S(<<"network_connection">>,
    [Get |-> "GetNetworkConnection", Post |-> "SetNetworkConnection"]) \o
  S(<<"webauthn", "authenticator">>, [Post |-> "AddVirtualAuthenticator"]) \o
  S(<<"webauthn", "authenticator", ":authenticatorId">>,
    [Delete |-> "RemoveVirtualAuthenticator"]) \o
  S(<<"webauthn", "authenticator", ":authenticatorId", "credential">>,
    [Post |-> "AddCredential"]) \o
  S(<<"webauthn", "authenticator", ":authenticatorId", "credentials">>,
    [Get |-> "GetCredentials", Delete |-> "RemoveAllCredentials"]) \o
  S(<<"webauthn", "authenticator", ":authenticatorId", "credentials", ":credentialId">>,
    [Delete |-> "RemoveCredential"]) \o
  S(<<"webauthn", "authenticator", ":authenticatorId", "uv">>,
    [Post |-> "SetUserVerified"]) \o
  S(<<"webauthn", "authenticator", ":authenticatorId", "credentials", ":credentialId", "props">>,
    [Post |-> "SetCredentialProperties"]) \o
  S(<<"secure-payment-confirmation", "set-mode">>, [Post |-> "SetSPCTransactionMode"]) \o
  S(<<"fedcm", "canceldialog">>, [Post |-> "CancelDialog"]) \o
  S(<<"fedcm", "selectaccount">>, [Post |-> "SelectAccount"]) \o
  S(<<"fedcm", "clickdialogbutton">>, [Post |-> "ClickDialogButton"]) \o
  S(<<"fedcm", "accountlist">>, [Get |-> "GetAccounts"]) \o
  S(<<"fedcm", "gettitle">>, [Get |-> "GetFedCmTitle"]) \o
  S(<<"fedcm", "getdialogtype">>, [Get |-> "GetDialogType"]) \o
  S(<<"fedcm", "setdelayenabled">>, [Post |-> "SetDelayEnabled"]) \o
  S(<<"fedcm", "resetcooldown">>, [Post |-> "ResetCooldown"]) \o
  S(<<"storage", "run_bounce_tracking_mitigations">>,
    [Delete |-> "RunBounceTrackingMitigations"]) \o
  S(<<"custom-handlers", "set-mode">>, [Post |-> "SetRPHRegistrationMode"])

SensorRoutes ==
  S(<<"sensor">>, [Post |-> "CreateVirtualSensor"]) \o S(<<"sensor", ":type">>,
    [Post |-> "UpdateVirtualSensor", Delete |-> "RemoveVirtualSensor", Get |-> "GetVirtualSensorInformation"]) \o
  S(<<"permissions">>, [Post |-> "SetPermission"]) \o S(<<"deviceposture">>,
    [Post |-> "SetDevicePosture", Delete |-> "ClearDevicePosture"]) \o
  S(<<"pressuresource">>, [Post |-> "CreateVirtualPressureSource"]) \o
  S(<<"pressuresource", ":type">>,
    [Post |-> "UpdateVirtualPressureSource", Delete |-> "RemoveVirtualPressureSource"])

ChromiumRoutes ==
  S(<<"se", "log">>, [Post |-> "GetLog"]) \o
  S(<<"se", "log", "types">>, [Get |-> "GetLogTypes"]) \o
  S(<<"file">>, [Post |-> "UploadFile"]) \o
  SOld(<<"element", ":id", "value">>, [Get |-> "GetElementValue"]) \o
  R(<<"shutdown">>, [Get |-> "QuitAll", Post |-> "QuitAll"]) \o
  S(<<"time_zone">>, [Post |-> "SetTimeZone"]) \o
  S(<<"chromium", "heap_snapshot">>, [Get |-> "HeapSnapshot"]) \o
  S(<<"chromium", "network_conditions">>,
    [Get |-> "GetNetworkConditions", Post |-> "SetNetworkConditions", Delete |-> "DeleteNetworkConditions"]) \o
  S(<<"chromium", "send_command">>, [Post |-> "SendCommand"]) \o
  S(<<Vendor, "cdp", "execute">>, [Post |-> "ExecuteCDP"]) \o
  S(<<"chromium", "send_command_and_get_result">>,
    [Post |-> "SendCommandAndGetResult"]) \o
  S(<<Vendor, "page", "freeze">>, [Post |-> "Freeze"]) \o
  S(<<Vendor, "page", "resume">>, [Post |-> "Resume"]) \o
  S(<<Vendor, "cast", "set_sink_to_use">>, [Post |-> "SetSinkToUse"]) \o
  S(<<Vendor, "cast", "start_desktop_mirroring">>, [Post |-> "StartDesktopMirroring"]) \o
  S(<<Vendor, "cast", "start_tab_mirroring">>, [Post |-> "StartTabMirroring"]) \o
  S(<<Vendor, "cast", "stop_casting">>, [Post |-> "StopCasting"]) \o
  S(<<Vendor, "cast", "get_sinks">>, [Get |-> "GetSinks"]) \o
  S(<<Vendor, "cast", "get_issue_message">>, [Get |-> "GetIssueMessage"]) \o
  S(<<"alert">>, [Get |-> "IsAlertOpen"]) \o S(<<"is_loading">>, [Get |-> "IsLoading"]) \o
  S(<<"chromium", "send_command_from_websocket">>,
    [Post |-> "SendCommandFromWebSocket"])

CommandMap ==
  SessionRoutes \o WindowRoutes \o ElementRoutes \o DocumentRoutes \o OldSessionRoutes \o
  OldElementRoutes \o OldInputRoutes \o StorageRoutes \o ExtensionRoutes \o SensorRoutes \o
  ChromiumRoutes
=============================================================================
