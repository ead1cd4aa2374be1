------------------------------ MODULE TrayProofs ------------------------------
(***************************************************************************)
(* The safety of the tray program for any forms, options and faults.  The  *)
(* inductive invariant adds to the properties what holds inside Toggle: a  *)
(* file that nobody has touched since the read is the one read, and a      *)
(* Toggle that will turn the kill switch off has had its yes.  Of the      *)
(* engine nothing is known while the service is down.                      *)
(***************************************************************************)
EXTENDS Tray, TLAPS

ReadIsFile == ui = "save" /\ ~touched /\ file \in Config => loaded = file

AnyWhenDown == ~up => engine = "any"

Consented == ui \in {"load", "save"} /\ ~enabling => consent

IInv == TypeOK /\ OkMeansApplied /\ AnyWhenDown /\ ReadIsFile /\ Consented

-----------------------------------------------------------------------------
LEMMA NoFileIsNoConfig == Missing \notin Config /\ Broken \notin Config /\ Missing # Broken
<1>1. \A c \in Config : DOMAIN c = {"enabled", "option"}
  BY DEF Config
<1>2. DOMAIN Missing = {"text"} /\ DOMAIN Broken = {"text"}
  BY DEF Missing, Broken
<1>3. Missing.text # Broken.text
  BY DEF Missing, Broken
<1> QED
  BY <1>1, <1>2, <1>3

\* GuardConfig.Load returns a config, and the file's own when there is one.
LEMMA ReadTyped ==
  ASSUME NEW f \in Config \cup {Missing, Broken}, f # Broken
  PROVE  Read(f) \in Config /\ (f \in Config => Read(f) = f)
BY NoFileIsNoConfig, ValueAssumption DEF Read, Config

LEMMA BlankTyped == Blank \in Config
BY NoFileIsNoConfig, ReadTyped DEF Blank

\* A config with one field changed is a config.
LEMMA ConfigUpdate ==
  ASSUME NEW c \in Config, NEW b \in BOOLEAN, NEW f \in Form, NEW v \in Value
  PROVE  /\ [c EXCEPT !.enabled = b] \in Config
         /\ [c EXCEPT !.option[f] = v] \in Config
BY DEF Config

LEMMA ViewTyped ==
  TypeOK => View = None \/ View \in [on : BOOLEAN, connected : BOOLEAN]
BY DEF TypeOK, View

LEMMA ColorTyped ==
  ASSUME NEW s, s = None \/ s \in [on : BOOLEAN, connected : BOOLEAN]
  PROVE  ColorOf(s) \in {"unknown", "disabled", "connected", "blocked"}
BY DEF ColorOf

LEMMA InitInv == Init => IInv
<1> SUFFICES ASSUME Init PROVE IInv
  OBVIOUS
<1> QED
  BY BlankTyped DEF Init, IInv, TypeOK, OkMeansApplied, AnyWhenDown, ReadIsFile, Consented

-----------------------------------------------------------------------------
LEMMA TypeStep == ASSUME TypeOK, [Next]_vars PROVE TypeOK'
<1> USE DEF TypeOK, Written, Sending, Sent, Applied, Disabled, ToggleEnds, service, dialogs, toggle, icon, history
<1>1. ASSUME Edit PROVE TypeOK'
  <2>1. file' \in Config \cup {Missing, Broken} /\ inSync' = FALSE /\ touched' = TRUE
    BY <1>1, ZenonT(60) DEF Edit
  <2> QED
    <3>1. UNCHANGED <<service, ui, dialogs, toggle, icon>>
      BY <1>1 DEF Edit
    <3> QED
      BY <2>1, <3>1, ZenonT(60)
<1>2. ASSUME VpnChanges PROVE TypeOK'
  BY <1>2, SMTT(30) DEF VpnChanges
<1>3. ASSUME ServiceStarts PROVE TypeOK'
  BY <1>3, SMTT(30) DEF ServiceStarts, Config
<1>4. ASSUME ServiceStops PROVE TypeOK'
  <2>1. cfg' \in Config
    BY <1>4, BlankTyped DEF ServiceStops
  <2>2. up' = FALSE /\ ksOn' = FALSE /\ vpn' = FALSE /\ engine' = "any"
    BY <1>4 DEF ServiceStops
  <2>3. UNCHANGED <<file, ui, dialogs, toggle, icon, history>>
    BY <1>4 DEF ServiceStops
  <2> QED
    BY <2>1, <2>2, <2>3, ZenonT(60)
<1>5. ASSUME Tick PROVE TypeOK'
  BY <1>5, SMTT(30) DEF Tick
<1>6. ASSUME GetStatus PROVE TypeOK'
  BY <1>6, ViewTyped, SMTT(30) DEF GetStatus
<1>7. ASSUME Paint PROVE TypeOK'
  BY <1>7, ColorTyped, SMTT(30) DEF Paint
<1>8. ASSUME ToggleLoad PROVE TypeOK'
  <2>1. file # Broken => Read(file) \in Config
    BY ReadTyped
  <2>2. loaded' \in Config /\ touched' \in BOOLEAN /\ enabling' \in BOOLEAN
        /\ consent' \in BOOLEAN
    BY <1>8, <2>1, BlankTyped DEF ToggleLoad
  <2>3. ui' \in {"idle", "save"}
    BY <1>8 DEF ToggleLoad
  <2>4. UNCHANGED <<file, service, dialogs, icon, inSync>>
    BY <1>8 DEF ToggleLoad
  <2> QED
    BY <2>2, <2>3, <2>4
<1>9. ASSUME ToggleSave PROVE TypeOK'
  <2>1. [loaded EXCEPT !.enabled = enabling] \in Config
    BY DEF Config
  <2> QED
    BY <1>9, <2>1, BlankTyped, ZenonT(60) DEF ToggleSave
<1>10. ASSUME NobodyAnswers PROVE TypeOK'
  BY <1>10, ZenonT(60) DEF NobodyAnswers
<1>11. ASSUME ReloadRefused PROVE TypeOK'
  BY <1>11, ZenonT(60) DEF ReloadRefused
<1>12. ASSUME ReloadFails PROVE TypeOK'
  <2>1. file' = file /\ cfg' \in Config /\ inSync' = FALSE
    BY <1>12, ZenonT(60) DEF ReloadFails
  <2>2. ui' \in {"refresh", "idle"} /\ ksOn' = FALSE
    BY <1>12 DEF ReloadFails
  <2>3. UNCHANGED <<up, vpn, engine, dialogs, toggle, icon, touched>>
    BY <1>12 DEF ReloadFails
  <2> QED
    BY <2>1, <2>2, <2>3, ZenonT(60)
<1>13. ASSUME Reloaded PROVE TypeOK'
  <2>1. ksOn' \in BOOLEAN /\ inSync' \in BOOLEAN
    BY <1>13 DEF Reloaded, Config
  <2> QED
    BY <1>13, <2>1 DEF Reloaded
<1>14. ASSUME ToggleClick PROVE TypeOK'
  BY <1>14, ZenonT(60) DEF ToggleClick
<1>15. ASSUME Answer PROVE TypeOK'
  BY <1>15, ZenonT(60) DEF Answer
<1>16. ASSUME ReloadClick PROVE TypeOK'
  BY <1>16, SMTT(30) DEF ReloadClick
<1>17. ASSUME Panic PROVE TypeOK'
  BY <1>17, SMTT(30) DEF Panic
<1>18. ASSUME NEW f \in Form, OpenForm(f) PROVE TypeOK'
  <2>1. Read(file) \in Config
    BY <1>18, ReadTyped DEF OpenForm
  <2>2. forms' \in [Form -> {<<>>} \cup Config]
    BY <1>18, <2>1 DEF OpenForm
  <2> QED
    BY <1>18, <2>2 DEF OpenForm
<1>19. ASSUME NEW f \in Form, CloseForm(f) PROVE TypeOK'
  BY <1>19, SMTT(30) DEF CloseForm
<1>20. ASSUME NEW f \in Form, SaveForm(f) PROVE TypeOK'
  <2>1. forms' \in [Form -> {<<>>} \cup Config]
    BY <1>20 DEF SaveForm
  <2>2. forms[f] \in Config
    BY <1>20 DEF SaveForm
  <2>3. file' \in Config \cup {Missing, Broken} /\ inSync' \in BOOLEAN
    <3>1. CASE UNCHANGED <<file, ui, history>>
      BY <3>1
    <3>2. ASSUME NEW v \in Value, Written([forms[f] EXCEPT !.option[f] = v])
          PROVE  file' \in Config /\ inSync' = FALSE
      <4>1. [forms[f] EXCEPT !.option[f] = v] \in Config
        BY <2>2 DEF Config
      <4> QED
        BY <3>2, <4>1
    <3> QED
      BY <1>20, <3>1, <3>2 DEF SaveForm
  <2>4. ui' \in {"idle", "formReload"} /\ touched' \in BOOLEAN
    BY <1>20 DEF SaveForm
  <2> QED
    BY <1>20, <2>1, <2>3, <2>4 DEF SaveForm
<1>21. ASSUME CommandLine PROVE TypeOK'
  BY <1>21 DEF CommandLine
<1>22. CASE UNCHANGED vars
  BY <1>22 DEF vars
<1> QED
  BY <1>1, <1>2, <1>3, <1>4, <1>5, <1>6, <1>7, <1>8, <1>9, <1>10, <1>11, <1>12, <1>13, <1>14, <1>15, <1>16, <1>17, <1>18, <1>19, <1>20, <1>21, <1>22 DEF Next, Send, Click

LEMMA AppliedStep ==
  ASSUME TypeOK, OkMeansApplied, AnyWhenDown, [Next]_vars
  PROVE  OkMeansApplied' /\ AnyWhenDown'
<1> USE DEF TypeOK, OkMeansApplied, AnyWhenDown, Written, Sending, Sent, Applied, Disabled, ToggleEnds, service, dialogs, toggle, icon, history
<1>1. ASSUME Edit PROVE (OkMeansApplied /\ AnyWhenDown)'
  BY <1>1 DEF Edit
<1>2. ASSUME VpnChanges PROVE (OkMeansApplied /\ AnyWhenDown)'
  BY <1>2 DEF VpnChanges
<1>3. ASSUME ServiceStarts PROVE (OkMeansApplied /\ AnyWhenDown)'
  BY <1>3 DEF ServiceStarts
<1>4. ASSUME ServiceStops PROVE (OkMeansApplied /\ AnyWhenDown)'
  BY <1>4 DEF ServiceStops
<1>5. ASSUME Tick PROVE (OkMeansApplied /\ AnyWhenDown)'
  BY <1>5 DEF Tick
<1>6. ASSUME GetStatus PROVE (OkMeansApplied /\ AnyWhenDown)'
  BY <1>6 DEF GetStatus
<1>7. ASSUME Paint PROVE (OkMeansApplied /\ AnyWhenDown)'
  BY <1>7 DEF Paint
<1>8. ASSUME ToggleLoad PROVE (OkMeansApplied /\ AnyWhenDown)'
  BY <1>8 DEF ToggleLoad
<1>9. ASSUME ToggleSave PROVE (OkMeansApplied /\ AnyWhenDown)'
  BY <1>9 DEF ToggleSave
<1>10. ASSUME NobodyAnswers PROVE (OkMeansApplied /\ AnyWhenDown)'
  BY <1>10 DEF NobodyAnswers
<1>11. ASSUME ReloadRefused PROVE (OkMeansApplied /\ AnyWhenDown)'
  BY <1>11 DEF ReloadRefused
<1>12. ASSUME ReloadFails PROVE (OkMeansApplied /\ AnyWhenDown)'
  BY <1>12 DEF ReloadFails
<1>13. ASSUME Reloaded PROVE (OkMeansApplied /\ AnyWhenDown)'
  BY <1>13 DEF Reloaded
<1>14. ASSUME ToggleClick PROVE (OkMeansApplied /\ AnyWhenDown)'
  BY <1>14 DEF ToggleClick
<1>15. ASSUME Answer PROVE (OkMeansApplied /\ AnyWhenDown)'
  BY <1>15 DEF Answer
<1>16. ASSUME ReloadClick PROVE (OkMeansApplied /\ AnyWhenDown)'
  BY <1>16 DEF ReloadClick
<1>17. ASSUME Panic PROVE (OkMeansApplied /\ AnyWhenDown)'
  BY <1>17 DEF Panic
<1>18. ASSUME NEW f \in Form, OpenForm(f) PROVE (OkMeansApplied /\ AnyWhenDown)'
  BY <1>18 DEF OpenForm
<1>19. ASSUME NEW f \in Form, CloseForm(f) PROVE (OkMeansApplied /\ AnyWhenDown)'
  BY <1>19 DEF CloseForm
<1>20. ASSUME NEW f \in Form, SaveForm(f) PROVE (OkMeansApplied /\ AnyWhenDown)'
  BY <1>20 DEF SaveForm
<1>21. ASSUME CommandLine PROVE (OkMeansApplied /\ AnyWhenDown)'
  BY <1>21 DEF CommandLine
<1>22. CASE UNCHANGED vars
  BY <1>22 DEF vars
<1> QED
  BY <1>1, <1>2, <1>3, <1>4, <1>5, <1>6, <1>7, <1>8, <1>9, <1>10, <1>11, <1>12, <1>13, <1>14, <1>15, <1>16, <1>17, <1>18, <1>19, <1>20, <1>21, <1>22 DEF Next, Send, Click

LEMMA ReadStep == ASSUME TypeOK, ReadIsFile, [Next]_vars PROVE ReadIsFile'
<1> USE DEF TypeOK, ReadIsFile, Written, Sending, Sent, Applied, Disabled, ToggleEnds, service, dialogs, toggle, icon, history
<1>1. ASSUME Edit PROVE ReadIsFile'
  BY <1>1 DEF Edit
<1>2. ASSUME VpnChanges PROVE ReadIsFile'
  BY <1>2 DEF VpnChanges
<1>3. ASSUME ServiceStarts PROVE ReadIsFile'
  BY <1>3 DEF ServiceStarts
<1>4. ASSUME ServiceStops PROVE ReadIsFile'
  BY <1>4 DEF ServiceStops
<1>5. ASSUME Tick PROVE ReadIsFile'
  BY <1>5 DEF Tick
<1>6. ASSUME GetStatus PROVE ReadIsFile'
  BY <1>6 DEF GetStatus
<1>7. ASSUME Paint PROVE ReadIsFile'
  BY <1>7 DEF Paint
<1>8. ASSUME ToggleLoad PROVE ReadIsFile'
  BY <1>8, ReadTyped DEF ToggleLoad
<1>9. ASSUME ToggleSave PROVE ReadIsFile'
  BY <1>9 DEF ToggleSave
<1>10. ASSUME NobodyAnswers PROVE ReadIsFile'
  BY <1>10 DEF NobodyAnswers
<1>11. ASSUME ReloadRefused PROVE ReadIsFile'
  BY <1>11 DEF ReloadRefused
<1>12. ASSUME ReloadFails PROVE ReadIsFile'
  BY <1>12 DEF ReloadFails
<1>13. ASSUME Reloaded PROVE ReadIsFile'
  BY <1>13 DEF Reloaded
<1>14. ASSUME ToggleClick PROVE ReadIsFile'
  BY <1>14 DEF ToggleClick
<1>15. ASSUME Answer PROVE ReadIsFile'
  BY <1>15 DEF Answer
<1>16. ASSUME ReloadClick PROVE ReadIsFile'
  BY <1>16 DEF ReloadClick
<1>17. ASSUME Panic PROVE ReadIsFile'
  BY <1>17 DEF Panic
<1>18. ASSUME NEW f \in Form, OpenForm(f) PROVE ReadIsFile'
  BY <1>18 DEF OpenForm
<1>19. ASSUME NEW f \in Form, CloseForm(f) PROVE ReadIsFile'
  BY <1>19 DEF CloseForm
<1>20. ASSUME NEW f \in Form, SaveForm(f) PROVE ReadIsFile'
  BY <1>20 DEF SaveForm
<1>21. ASSUME CommandLine PROVE ReadIsFile'
  BY <1>21 DEF CommandLine
<1>22. CASE UNCHANGED vars
  BY <1>22 DEF vars
<1> QED
  BY <1>1, <1>2, <1>3, <1>4, <1>5, <1>6, <1>7, <1>8, <1>9, <1>10, <1>11, <1>12, <1>13, <1>14, <1>15, <1>16, <1>17, <1>18, <1>19, <1>20, <1>21, <1>22 DEF Next, Send, Click

LEMMA ConsentStep == ASSUME TypeOK, Consented, [Next]_vars PROVE Consented'
<1> USE DEF TypeOK, Consented, Written, Sending, Sent, Applied, Disabled, ToggleEnds, service, dialogs, toggle, icon, history
<1>1. ASSUME Edit PROVE Consented'
  BY <1>1 DEF Edit
<1>2. ASSUME VpnChanges PROVE Consented'
  BY <1>2 DEF VpnChanges
<1>3. ASSUME ServiceStarts PROVE Consented'
  BY <1>3 DEF ServiceStarts
<1>4. ASSUME ServiceStops PROVE Consented'
  BY <1>4 DEF ServiceStops
<1>5. ASSUME Tick PROVE Consented'
  BY <1>5 DEF Tick
<1>6. ASSUME GetStatus PROVE Consented'
  BY <1>6 DEF GetStatus
<1>7. ASSUME Paint PROVE Consented'
  BY <1>7 DEF Paint
<1>8. ASSUME ToggleLoad PROVE Consented'
  BY <1>8 DEF ToggleLoad
<1>9. ASSUME ToggleSave PROVE Consented'
  BY <1>9 DEF ToggleSave
<1>10. ASSUME NobodyAnswers PROVE Consented'
  BY <1>10 DEF NobodyAnswers
<1>11. ASSUME ReloadRefused PROVE Consented'
  BY <1>11 DEF ReloadRefused
<1>12. ASSUME ReloadFails PROVE Consented'
  BY <1>12 DEF ReloadFails
<1>13. ASSUME Reloaded PROVE Consented'
  BY <1>13 DEF Reloaded
<1>14. ASSUME ToggleClick PROVE Consented'
  BY <1>14 DEF ToggleClick
<1>15. ASSUME Answer PROVE Consented'
  BY <1>15 DEF Answer
<1>16. ASSUME ReloadClick PROVE Consented'
  BY <1>16 DEF ReloadClick
<1>17. ASSUME Panic PROVE Consented'
  BY <1>17 DEF Panic
<1>18. ASSUME NEW f \in Form, OpenForm(f) PROVE Consented'
  BY <1>18 DEF OpenForm
<1>19. ASSUME NEW f \in Form, CloseForm(f) PROVE Consented'
  BY <1>19 DEF CloseForm
<1>20. ASSUME NEW f \in Form, SaveForm(f) PROVE Consented'
  BY <1>20 DEF SaveForm
<1>21. ASSUME CommandLine PROVE Consented'
  BY <1>21 DEF CommandLine
<1>22. CASE UNCHANGED vars
  BY <1>22 DEF vars
<1> QED
  BY <1>1, <1>2, <1>3, <1>4, <1>5, <1>6, <1>7, <1>8, <1>9, <1>10, <1>11, <1>12, <1>13, <1>14, <1>15, <1>16, <1>17, <1>18, <1>19, <1>20, <1>21, <1>22 DEF Next, Send, Click

LEMMA NextInv == IInv /\ [Next]_vars => IInv'
BY TypeStep, AppliedStep, ReadStep, ConsentStep DEF IInv

LEMMA Inductive == Spec => []IInv
BY InitInv, NextInv, PTL DEF Spec

-----------------------------------------------------------------------------
THEOREM TypeCorrect == Spec => []TypeOK
<1>1. IInv => TypeOK
  BY DEF IInv
<1> QED
  BY <1>1, Inductive, PTL

(***************************************************************************)
(* A reload answered with ok has given the service the file's              *)
(* configuration, and the engine what it says unless Apply or Disable has  *)
(* failed or another process has been at the engine, until somebody writes *)
(* the file.                                                               *)
(***************************************************************************)
THEOREM OkIsApplied == Spec => []OkMeansApplied
<1>1. IInv => OkMeansApplied
  BY DEF IInv
<1> QED
  BY <1>1, Inductive, PTL

(***************************************************************************)
(* A toggle keeps every option of a file that nobody else writes between   *)
(* its read and its write.                                                 *)
(***************************************************************************)
THEOREM ToggleKeeps == Spec => ToggleKeepsOptions
<1> DEFINE A == ui = "save" /\ ui' = "reload" /\ ~touched /\ file \in Config =>
                  file'.option = file.option
<1>1. ASSUME IInv, [Next]_vars PROVE [A]_vars
  <2> SUFFICES ASSUME ui = "save", ui' = "reload", ~touched, file \in Config, Next
               PROVE  file'.option = file.option
    BY <1>1 DEF vars
  <2>1. loaded = file
    BY <1>1 DEF IInv, ReadIsFile
  <2>2. ToggleSave
    BY DEF Next, Send, Click, Edit, VpnChanges, ServiceStarts, ServiceStops, CommandLine, Tick,
           GetStatus, Paint, ToggleLoad, NobodyAnswers, ReloadRefused, ReloadFails,
           Reloaded, Sending, ToggleClick, Answer, ReloadClick, Panic, OpenForm,
           CloseForm, SaveForm
  <2>3. file' = [file EXCEPT !.enabled = enabling]
    BY <2>1, <2>2 DEF ToggleSave, Written
  <2> QED
    BY <2>3 DEF Config
<1> QED
  BY <1>1, Inductive, PTL DEF Spec, ToggleKeepsOptions

(***************************************************************************)
(* The tray writes a config.yaml with the kill switch off only for a       *)
(* Toggle whose question was answered with yes, or from a form that was    *)
(* opened while it was off.  It rests on Consented: between the answer and *)
(* the write no step lets go of the yes or turns another Toggle into one   *)
(* that disables.                                                          *)
(***************************************************************************)
THEOREM Asks == Spec => AsksBeforeOpening
<1> DEFINE A == ui' # ui /\ file' # file /\ ~file'.enabled
                => consent \/ \E f \in Form : SavesDisabled(f)
<1>1. ASSUME IInv, [Next]_vars PROVE [A]_vars
  <2> SUFFICES ASSUME ui' # ui, file' # file, ~file'.enabled, Next
               PROVE  consent \/ \E f \in Form : SavesDisabled(f)
    BY <1>1 DEF vars
  <2>1. TypeOK /\ Consented
    BY <1>1 DEF IInv
  <2>2. CASE ToggleSave
    <3>1. file' = [loaded EXCEPT !.enabled = enabling] /\ ui = "save"
      BY <2>2 DEF ToggleSave, Written
    <3>2. file'.enabled = enabling
      BY <2>1, <3>1 DEF TypeOK, Config
    <3> QED
      BY <2>1, <3>1, <3>2 DEF Consented
  <2>3. ASSUME NEW f \in Form, SaveForm(f) PROVE SavesDisabled(f)
    <3>1. PICK v \in Value : file' = [forms[f] EXCEPT !.option[f] = v]
      BY <2>3 DEF SaveForm, Written
    <3>2. forms[f] \in Config
      BY <2>1, <2>3 DEF TypeOK, SaveForm
    <3>3. file'.enabled = forms[f].enabled
      BY <3>1, <3>2 DEF Config
    <3>4. forms'[f] = <<>>
      BY <2>1, <2>3 DEF SaveForm, TypeOK
    <3>5. <<>> \notin Config
      BY DEF Config
    <3> QED
      BY <3>2, <3>3, <3>4, <3>5 DEF SavesDisabled
  <2>4. ToggleSave \/ \E f \in Form : SaveForm(f)
    BY DEF Next, Send, Click, Edit, VpnChanges, ServiceStarts, ServiceStops, CommandLine,
           Tick, GetStatus, Paint, ToggleLoad, NobodyAnswers, ReloadRefused, ReloadFails,
           Reloaded, ToggleClick, Answer, ReloadClick, Panic, OpenForm, CloseForm
  <2> QED
    BY <2>2, <2>3, <2>4
<1> QED
  BY <1>1, Inductive, PTL DEF Spec, AsksBeforeOpening
=============================================================================
