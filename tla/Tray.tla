-------------------------------- MODULE Tray --------------------------------
(***************************************************************************)
(* The tray program: one thread of user interface that polls the service,  *)
(* rewrites config.yaml and tells the service to reload it, while editors, *)
(* the service and the VPN go their own ways.                              *)
(*                                                                         *)
(* The thread runs other handlers only while a dialog or a form is open,   *)
(* and not while it waits for the service: `ui' is what it is at, "idle"   *)
(* when it takes messages.  Of config.yaml the model keeps enabled and one *)
(* option per form; of the service the configuration it runs with, whether *)
(* its kill switch is on and what it reports; of the engine what the last  *)
(* call on it has left there, which is not always what the service thinks. *)
(***************************************************************************)
EXTENDS Naturals

CONSTANTS Form,     \* forms, each with the option it edits
          Value,    \* values of an option
          Default,  \* the value of a GuardConfig that was not read
          Faults    \* what may fail: a subset of Fault

Fault == {"save", "build", "late", "apply", "disable"}
Config == [enabled : BOOLEAN, option : [Form -> Value]]

ASSUME ValueAssumption == Default \in Value
ASSUME FaultsAssumption == Faults \subseteq Fault

VARIABLES
  file,     \* a config, or the text of a file that is "missing" or "broken"
  up,       \* the service answers on its pipe
  cfg,      \* the configuration it has loaded
  ksOn,     \* its kill switch is on
  vpn,      \* it sees the VPN
  engine,   \* the rules in the engine: "all" or "none" of them after a call of
            \* the service that has succeeded, "any" after one that has failed
            \* or a call of another process
  ui,       \* where the thread is
  asking,   \* the question whether to turn the kill switch off is open
  enabling, \* Toggle's local of this name
  loaded,   \* the config Toggle has read
  forms,    \* the config each open form has read, <<>> for a closed one
  last,     \* _last
  color,    \* _lastColor, the colour of the icon
  inSync,   \* history: a reload was answered with ok, nobody has written since
  touched,  \* history: somebody has written since Toggle read
  consent   \* history: the Toggle at work has had its question answered with yes

service == <<up, cfg, ksOn, vpn, engine>>
dialogs == <<asking, forms>>
toggle == <<enabling, loaded, consent>>
icon == <<last, color>>
history == <<inSync, touched>>
vars == <<file, service, ui, dialogs, toggle, icon, history>>

May(f) == f \in Faults

Missing == [text |-> "missing"]
Broken == [text |-> "broken"]
None == [none |-> TRUE]

\* GuardConfig.Load: a config with every default when there is no file.
Read(f) ==
  IF f = Missing THEN [enabled |-> TRUE, option |-> [x \in Form |-> Default]] ELSE f

\* A GuardConfig that was not read.
Blank == Read(Missing)

\* Save and Notepad put a file in the place of another.
Written(f) == file' = f /\ inSync' = FALSE

\* Apply and Disable of the service: their error is logged and no more.
Applied == engine' = "all" \/ (May("apply") /\ engine' = "any")
Disabled == engine' = "none" \/ (May("disable") /\ engine' = "any")

\* What status answers.
View == IF up THEN [on |-> ksOn, connected |-> vpn] ELSE None

ColorOf(s) ==
  CASE s = None -> "unknown"
    [] s # None /\ ~s.on -> "disabled"
    [] s # None /\ s.on /\ s.connected -> "connected"
    [] s # None /\ s.on /\ ~s.connected -> "blocked"

Init ==
  /\ file \in Config \cup {Missing, Broken}
  /\ up = FALSE /\ cfg = Blank /\ ksOn = FALSE /\ vpn = FALSE /\ engine = "any"
  /\ ui = "refresh" /\ asking = FALSE /\ forms = [x \in Form |-> <<>>]
  /\ enabling = TRUE /\ loaded = Blank
  /\ last = None /\ color = "unknown"
  /\ inSync = FALSE /\ touched = FALSE /\ consent = FALSE

-----------------------------------------------------------------------------
(* The surroundings. *)

\* Notepad writes, or the file goes.
Edit ==
  /\ \E f \in Config \cup {Missing, Broken} : Written(f)
  /\ touched' = TRUE
  /\ UNCHANGED <<service, ui, dialogs, toggle, icon>>

\* The monitor delivers: the first status of a service, and every new one.
VpnChanges ==
  /\ up /\ vpn' \in BOOLEAN
  /\ IF ksOn THEN Applied ELSE UNCHANGED engine
  /\ UNCHANGED <<file, up, cfg, ksOn, ui, dialogs, toggle, icon, history>>

\* The service does not start with a file it cannot load, nor with a kill
\* switch it cannot build; its first Apply waits for the monitor.
ServiceStarts ==
  /\ ~up /\ file \in Config
  /\ up' = TRUE /\ cfg' = file /\ ksOn' = file.enabled
  /\ UNCHANGED <<file, vpn, engine, ui, dialogs, toggle, icon, history>>

\* A soft session takes its rules along, an iron one leaves them.
ServiceStops ==
  /\ up
  /\ up' = FALSE /\ cfg' = Blank /\ ksOn' = FALSE /\ vpn' = FALSE
  /\ engine' = "any"
  /\ UNCHANGED <<file, ui, dialogs, toggle, icon, history>>

\* vpnguard enable, disable or panic, that of Panic when it takes longer than
\* the tray waits.
CommandLine ==
  /\ engine # "any" /\ engine' = "any"
  /\ UNCHANGED <<file, up, cfg, ksOn, vpn, ui, dialogs, toggle, icon, history>>

-----------------------------------------------------------------------------
(* The timer and Refresh. *)

Tick ==
  /\ ui = "idle"
  /\ ui' = "refresh"
  /\ UNCHANGED <<file, service, dialogs, toggle, icon, history>>

\* A service that does not answer leaves the last status standing.
GetStatus_KeepsLast ==
  /\ ui = "refresh"
  /\ last' = IF up THEN View ELSE last
  /\ ui' = "paint"
  /\ UNCHANGED <<file, service, dialogs, toggle, color, history>>

GetStatus ==
  /\ ui = "refresh"
  /\ last' = View
  /\ ui' = "paint"
  /\ UNCHANGED <<file, service, dialogs, toggle, color, history>>

Paint ==
  /\ ui = "paint"
  /\ color' = ColorOf(last)
  /\ ui' = "idle"
  /\ UNCHANGED <<file, service, dialogs, toggle, last, history>>

-----------------------------------------------------------------------------
(* Toggle, whose locals end with it. *)

ToggleEnds == enabling' = TRUE /\ loaded' = Blank /\ consent' = FALSE

\* A tray that turns the kill switch off without a question.
ToggleClick_NeverAsks ==
  /\ ui = "idle" /\ last # None
  /\ ui' = "load" /\ enabling' = ~last.on
  /\ UNCHANGED <<file, service, asking, forms, loaded, consent, icon, history>>

\* Turning on needs no question; the answer of the one for off comes later.
ToggleClick ==
  /\ ui = "idle" /\ last # None
  /\ IF last.on
     THEN asking' = TRUE /\ UNCHANGED <<ui, enabling>>
     ELSE ui' = "load" /\ enabling' = TRUE /\ UNCHANGED asking
  /\ UNCHANGED <<file, service, forms, loaded, consent, icon, history>>

Answer ==
  /\ ui = "idle" /\ asking
  /\ asking' = FALSE
  /\ \/ ui' = "load" /\ enabling' = FALSE /\ consent' = TRUE
     \/ UNCHANGED <<ui, enabling, consent>>
  /\ UNCHANGED <<file, service, forms, loaded, icon, history>>

\* A toggle of a config that was never read.
ToggleLoad_Blank ==
  /\ ui = "load"
  /\ IF file = Broken
     THEN ui' = "idle" /\ ToggleEnds /\ UNCHANGED touched
     ELSE ui' = "save" /\ touched' = FALSE /\ UNCHANGED toggle
  /\ UNCHANGED <<file, service, dialogs, icon, inSync>>

\* A file that does not parse ends Toggle.
ToggleLoad ==
  /\ ui = "load"
  /\ IF file = Broken
     THEN ui' = "idle" /\ ToggleEnds /\ UNCHANGED touched
     ELSE /\ ui' = "save" /\ loaded' = Read(file) /\ touched' = FALSE
          /\ UNCHANGED <<enabling, consent>>
  /\ UNCHANGED <<file, service, dialogs, icon, inSync>>

ToggleSave ==
  /\ ui = "save"
  /\ \/ ui' = "reload" /\ Written([loaded EXCEPT !.enabled = enabling])
     \/ May("save") /\ ui' = "idle" /\ UNCHANGED <<file, inSync>>
  /\ ToggleEnds
  /\ UNCHANGED <<service, dialogs, icon, touched>>

-----------------------------------------------------------------------------
(* The forms. *)

OpenForm(f) ==
  /\ ui = "idle" /\ forms[f] = <<>> /\ file # Broken
  /\ forms' = [forms EXCEPT ![f] = Read(file)]
  /\ UNCHANGED <<file, service, ui, asking, toggle, icon, history>>

CloseForm(f) ==
  /\ ui = "idle" /\ forms[f] # <<>>
  /\ forms' = [forms EXCEPT ![f] = <<>>]
  /\ UNCHANGED <<file, service, ui, asking, toggle, icon, history>>

\* Save writes what was read when the form was opened; no Refresh follows.
SaveForm(f) ==
  /\ ui = "idle" /\ forms[f] # <<>>
  /\ forms' = [forms EXCEPT ![f] = <<>>]
  /\ \/ /\ ui' = "formReload" /\ touched' = TRUE
        /\ \E v \in Value : Written([forms[f] EXCEPT !.option[f] = v])
     \/ May("save") /\ UNCHANGED <<file, ui, history>>
  /\ UNCHANGED <<service, asking, toggle, icon>>

ReloadClick ==
  /\ ui = "idle"
  /\ ui' = "reload"
  /\ UNCHANGED <<file, service, dialogs, toggle, icon, history>>

\* Panic, its question answered with yes, removes the rules through another
\* process: the service, and so the icon, does not learn of it.
Panic ==
  /\ ui = "idle"
  /\ \/ ui' = "refresh"
     \/ May("disable") /\ UNCHANGED ui
  /\ engine' = "any"
  /\ UNCHANGED <<file, up, cfg, ksOn, vpn, dialogs, toggle, icon, history>>

-----------------------------------------------------------------------------
(***************************************************************************)
(* PipeClient.Send of a reload.  An error is shown first, which takes      *)
(* messages: the Refresh that follows is then like one of the timer's.     *)
(***************************************************************************)
Sending == ui \in {"reload", "formReload"}
Sent(ok) ==
  /\ ui' = IF ui = "reload" /\ ok THEN "refresh" ELSE "idle"
  /\ inSync' = ok

NobodyAnswers ==
  /\ Sending /\ ~up
  /\ Sent(FALSE)
  /\ UNCHANGED <<file, service, dialogs, toggle, icon, touched>>

\* config.Load fails: nothing changes.
ReloadRefused ==
  /\ Sending /\ up /\ file \notin Config
  /\ Sent(FALSE)
  /\ UNCHANGED <<file, service, dialogs, toggle, icon, touched>>

\* The kill switch cannot be built: it is off, its rules stay, and the answer
\* is an error.
ReloadFails ==
  /\ Sending /\ up /\ file \in Config /\ May("build") /\ file.enabled
  /\ cfg' = file /\ ksOn' = FALSE
  /\ Sent(FALSE)
  /\ UNCHANGED <<file, up, vpn, engine, dialogs, toggle, icon, touched>>

\* A reload that leaves the rules of a kill switch that is off in the engine.
Reloaded_KeepsRules ==
  /\ Sending /\ up /\ file \in Config
  /\ cfg' = file /\ ksOn' = file.enabled
  /\ IF file.enabled THEN Applied ELSE UNCHANGED engine
  /\ \E ok \in {TRUE} \cup {b \in {FALSE} : May("late")} : Sent(ok)
  /\ UNCHANGED <<file, up, vpn, dialogs, toggle, icon, touched>>

\* The reload is done, and its answer ok whatever Apply or Disable has said; it
\* may come too late for the connection.
Reloaded ==
  /\ Sending /\ up /\ file \in Config
  /\ cfg' = file /\ ksOn' = file.enabled
  /\ IF file.enabled THEN Applied ELSE Disabled
  /\ \E ok \in {TRUE} \cup {b \in {FALSE} : May("late")} : Sent(ok)
  /\ UNCHANGED <<file, up, vpn, dialogs, toggle, icon, touched>>

Send == NobodyAnswers \/ ReloadRefused \/ ReloadFails \/ Reloaded

Click ==
  \/ ToggleClick \/ Answer \/ ReloadClick \/ Panic
  \/ \E f \in Form : OpenForm(f) \/ CloseForm(f) \/ SaveForm(f)

Next ==
  \/ Edit \/ VpnChanges \/ ServiceStarts \/ ServiceStops \/ CommandLine
  \/ Tick \/ GetStatus \/ Paint \/ ToggleLoad \/ ToggleSave \/ Send \/ Click

(***************************************************************************)
(* The thread goes on with what it has begun, the service answers or lets  *)
(* the connection go, and the timer's message is taken now and then however *)
(* much the user clicks.                                                   *)
(***************************************************************************)
Fairness ==
  /\ SF_vars(Tick)
  /\ WF_vars(GetStatus \/ Paint \/ ToggleLoad \/ ToggleSave \/ Send)

Spec == Init /\ [][Next]_vars
FairSpec == Spec /\ Fairness

-----------------------------------------------------------------------------
\* Every variable has its type: forms and Toggle work on configs only.
TypeOK ==
  /\ file \in Config \cup {Missing, Broken}
  /\ up \in BOOLEAN /\ cfg \in Config /\ ksOn \in BOOLEAN /\ vpn \in BOOLEAN
  /\ engine \in {"none", "any", "all"}
  /\ ui \in {"idle", "refresh", "paint", "load", "save", "reload", "formReload"}
  /\ asking \in BOOLEAN /\ enabling \in BOOLEAN /\ loaded \in Config
  /\ forms \in [Form -> {<<>>} \cup Config]
  /\ last = None \/ last \in [on : BOOLEAN, connected : BOOLEAN]
  /\ color \in {"unknown", "disabled", "connected", "blocked"}
  /\ inSync \in BOOLEAN /\ touched \in BOOLEAN /\ consent \in BOOLEAN

SavesDisabled(f) ==
  forms[f] \in Config /\ ~forms[f].enabled /\ forms'[f] \notin Config

(***************************************************************************)
(* The tray writes a config.yaml with the kill switch off only for a       *)
(* Toggle whose question the user has answered with yes, and once for each *)
(* yes, whatever the file, the service and the status shown have come to   *)
(* since the click; the one exception is a form that was opened while the  *)
(* file had it off.                                                        *)
(***************************************************************************)
AsksBeforeOpening ==
  [][ui' # ui /\ file' # file /\ ~file'.enabled
     => consent \/ \E f \in Form : SavesDisabled(f)]_vars

(***************************************************************************)
(* A toggle changes enabled and nothing else of a file that nobody has     *)
(* written since it was read.                                              *)
(***************************************************************************)
ToggleKeepsOptions ==
  [][ui = "save" /\ ui' = "reload" /\ ~touched /\ file \in Config =>
       file'.option = file.option]_vars

(***************************************************************************)
(* "Config reread by the service" (TrayAppContext.cs 204): after a reload  *)
(* answered with ok, and while nobody writes the file, a running service   *)
(* has the file's configuration, its kill switch is as the file says, and  *)
(* so is the engine unless a call of the service on it has failed or       *)
(* another process has been at it - which the answer does not tell.        *)
(***************************************************************************)
OkMeansApplied ==
  inSync /\ up =>
    /\ cfg = file /\ ksOn = file.enabled
    /\ engine \in {"any", IF file.enabled THEN "all" ELSE "none"}

(***************************************************************************)
(* When the service's state stays as it is, the icon comes to show it,     *)
(* whatever the user does in the tray: also that it does not answer.       *)
(***************************************************************************)
IconFollowsService ==
  \A s \in [on : BOOLEAN, connected : BOOLEAN] \cup {None} :
    <>[](View = s) => <>[](color = ColorOf(s))
=============================================================================
