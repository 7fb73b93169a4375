------------------------------ MODULE Dialogs ------------------------------
(***************************************************************************)
(* The five dialogs of dashboard.js in one browser: which are open, the    *)
(* requests they send, and what the answers do to a page on which the user *)
(* has gone on meanwhile.  A dialog can be opened from behind another one  *)
(* (by keyboard: nothing makes the page inert).                            *)
(*                                                                         *)
(* An action is one run of a handler up to its next await.  The contents   *)
(* of a settings form are a value; those of the other forms do not matter, *)
(* only the device they are for.  Nobody else changes the settings.        *)
(***************************************************************************)
EXTENDS Integers, FiniteSets

CONSTANTS
  Listed,       \* the devices that are listed; Dashboard has the list itself
  None,
  Contents,     \* contents of the alert settings, and of the email settings
  Default,      \* defaultAlertSettings, and what the forms show at first
  MaxRequests,  \* bound: requests in flight
  MaxDialogActions,  \* bound on what the user does
  MaxDialogFailures  \* bound on requests that are refused or lost

ASSUME DialogNamesAssumption == None \notin Listed \cup Contents /\ Default \in Contents
ASSUME DialogBoundsAssumption ==
  MaxRequests \in Nat \ {0} /\ {MaxDialogActions, MaxDialogFailures} \subseteq Nat

VARIABLES
  stored,     \* the server's settings
  open,       \* the dialogs that are not hidden
  modalOpen,  \* the class modal-open of the body
  target,     \* editingDeviceId, deletingDeviceId
  named,      \* the device that either dialog shows
  busy,       \* the buttons that are disabled
  form,       \* the contents of the settings forms
  settings,   \* currentAlertSettings
  requests,   \* the requests in flight
  typed,      \* observer: forms typed into while nothing of theirs was in flight
  doubt,      \* observer: the last answer about alert settings had a rival, or failed
  dialogActions, dialogFailures

windows == <<open, modalOpen, target, named, busy, form, settings>>
dialogsVars == <<stored, windows, requests, typed, doubt, dialogActions, dialogFailures>>

Forms == {"alerts", "email"}
OnDevice == {"edit", "delete"}
Dialogs == {"add"} \cup Forms \cup OnDevice

\* A button is named by its dialog; the email dialog has a second one.
Buttons == Dialogs \cup {"test"}

\* "start" is the load of the alert settings that no dialog waits for.
Request == [
  what : {"none", "start", "load", "save"},
  for : Buttons,
  pc : {"sent", "answered", "reload"},
  device : Listed \cup {None},
  value : Contents,
  rival : BOOLEAN]     \* observer: a save of the alert settings was in flight with it
NoRequest == [what |-> "none", for |-> "alerts", pc |-> "sent", device |-> None,
              value |-> Default, rival |-> FALSE]

Slots == 1..MaxRequests
InFlight == {s \in Slots : requests[s].what # "none"}
Of(button) == {s \in InFlight : requests[s].what # "start" /\ requests[s].for = button}
AboutAlerts == {s \in InFlight : requests[s].for = "alerts"}
Saves(button) == {s \in Of(button) : requests[s].what = "save"}

\* Put a request in a free slot.
Send(request) ==
  LET free == Slots \ InFlight
      slot == CHOOSE s \in free : TRUE
      rivals == IF request.for # "alerts" THEN {}
                ELSE IF request.what = "save" THEN AboutAlerts ELSE Saves("alerts")
  IN  /\ free # {}
      /\ requests' = [s \in Slots |->
           IF s = slot THEN [request EXCEPT !.rival = rivals # {}]
           ELSE [requests[s] EXCEPT !.rival = @ \/ s \in rivals]]

Done(s) == requests' = [requests EXCEPT ![s] = NoRequest]
Act == dialogActions < MaxDialogActions /\ dialogActions' = dialogActions + 1

-----------------------------------------------------------------------------
(* Which dialogs are open *)

\* syncModalBodyState, after every change of what is hidden.
Show(dialogs) == open' = dialogs /\ modalOpen' = (dialogs # {})

\* Mutant of CloseOne: the body's class is left alone.
CloseOneUnsynced(dialog) ==
  /\ dialog \in open
  /\ open' = open \ {dialog}
  /\ UNCHANGED modalOpen
  /\ target' = [b \in OnDevice |-> IF b = dialog THEN None ELSE target[b]]

\* closeDeviceModal, closeAlertSettingsModal, closeEmailSettingsModal,
\* closeEditDevice, closeDeleteDevice.
CloseOne(dialog) ==
  /\ dialog \in open
  /\ Show(open \ {dialog})
  /\ target' = [b \in OnDevice |-> IF b = dialog THEN None ELSE target[b]]

\* The button, the cross, or a click beside the dialog.
Close(dialog) ==
  /\ Act
  /\ CloseOne(dialog)
  /\ UNCHANGED <<stored, named, busy, form, settings, requests, typed, doubt, dialogFailures>>

\* Escape closes the first open dialog in this order.
EscapeOrder == [email |-> 1, alerts |-> 2, delete |-> 3, edit |-> 4, add |-> 5]

Escape ==
  /\ Act
  /\ \E first \in open :
       /\ \A other \in open : EscapeOrder[first] <= EscapeOrder[other]
       /\ CloseOne(first)
  /\ UNCHANGED <<stored, named, busy, form, settings, requests, typed, doubt, dialogFailures>>

\* openDeviceModal closes all others.
OpenAdd ==
  /\ Act
  /\ Show({"add"})
  /\ target' = [b \in OnDevice |-> None]
  /\ UNCHANGED <<stored, named, busy, form, settings, requests, typed, doubt, dialogFailures>>

\* openEditDevice, openDeleteDevice.
OpenOnDevice(dialog, device) ==
  /\ Act
  /\ Show(open \cup {dialog})
  /\ target' = [target EXCEPT ![dialog] = device]
  /\ named' = [named EXCEPT ![dialog] = device]
  /\ UNCHANGED <<stored, busy, form, settings, requests, typed, doubt, dialogFailures>>

\* openAlertSettingsModal, openEmailSettingsModal: close two others and load.
OpenForm(f) ==
  /\ Act
  /\ Show((open \ ({"add"} \cup Forms)) \cup {f})
  /\ busy' = busy \cup {f}
  /\ Send([NoRequest EXCEPT !.what = "load", !.for = f])
  /\ typed' = typed \ {f}
  /\ UNCHANGED <<stored, target, named, form, settings, doubt, dialogFailures>>

-----------------------------------------------------------------------------
(* What the user does in a dialog *)

\* A form takes input whether or not it waits for an answer.
Type(f, value) ==
  /\ Act
  /\ f \in open /\ value # form[f]
  /\ form' = [form EXCEPT ![f] = value]
  /\ typed' = IF Of(f) = {} THEN typed \cup {f} ELSE typed \ {f}
  /\ UNCHANGED <<stored, open, modalOpen, target, named, busy, settings, requests, doubt, dialogFailures>>

\* Mutant of Pressed: the button is not disabled.
PressedTwice(dialog, button) ==
  /\ dialog \in open /\ button \notin busy
  /\ UNCHANGED <<stored, open, modalOpen, target, named, busy, form, settings, typed, doubt, dialogFailures>>

\* A button that is enabled is pressed, and disabled until the answer is handled.
Pressed(dialog, button) ==
  /\ dialog \in open /\ button \notin busy
  /\ busy' = busy \cup {button}
  /\ UNCHANGED <<stored, open, modalOpen, target, named, form, settings, typed, doubt, dialogFailures>>

\* submitAlertSettings, submitEmailSettings.
SubmitForm(f) ==
  /\ Act
  /\ Pressed(f, f)
  /\ Send([NoRequest EXCEPT !.what = "save", !.for = f, !.value = form[f]])

\* saveEditedDevice, deleteManagedDevice.
SubmitOnDevice(dialog) ==
  /\ Act
  /\ target[dialog] # None
  /\ Pressed(dialog, dialog)
  /\ Send([NoRequest EXCEPT !.what = "save", !.for = dialog, !.device = target[dialog]])

\* submitDevice.
SubmitDevice ==
  /\ Act
  /\ Pressed("add", "add")
  /\ Send([NoRequest EXCEPT !.what = "save", !.for = "add"])

\* sendTestEmail: of the settings stored, not of those in the form.
SendTestEmail ==
  /\ Act
  /\ Pressed("email", "test")
  /\ Send([NoRequest EXCEPT !.what = "load", !.for = "test"])

-----------------------------------------------------------------------------
(* The server *)

\* A GET reads the settings, a PUT of settings replaces them.
Serve(s) ==
  LET r == requests[s] IN
  /\ s \in InFlight /\ r.pc = "sent"
  /\ IF r.for \in Forms /\ r.what = "save"
     THEN stored' = [stored EXCEPT ![r.for] = r.value] ELSE UNCHANGED stored
  /\ requests' = [requests EXCEPT ![s].pc = "answered",
       ![s].value = IF r.for \in Forms /\ r.what # "save" THEN stored[r.for] ELSE @]
  /\ UNCHANGED <<windows, typed, doubt, dialogActions, dialogFailures>>

-----------------------------------------------------------------------------
(* What the answers do *)

\* Mutant of Populates: the load at the start fills the form, too.
PopulatesAlways(r) ==
  IF r.for = "alerts" THEN r.what # "save" ELSE "email" \in open \/ r.what = "save"

\* The answer is put into the form: alert settings when the dialog asked for
\* them, even if it is closed by now; email settings when loaded, if it is not,
\* and when saved.
Populates(r) ==
  IF r.for = "alerts" THEN r.what = "load" ELSE "email" \in open \/ r.what = "save"

\* The buttons that the handler enables at its end.
Freed(r) == IF r.what = "start" THEN {} ELSE {r.for}

\* Mutant of InForce: only loads are taken over.
InForceWhenLoaded(r) == r.for = "alerts" /\ r.what # "save"

\* The alert settings the page works with are the ones answered last.
InForce(r) == r.for = "alerts"

\* loadAlertSettings, submitAlertSettings, openEmailSettingsModal,
\* submitEmailSettings, after their await.
TakeSettings(s) ==
  LET r == requests[s] IN
  /\ r.pc = "answered" /\ r.for \in Forms
  /\ settings' = IF InForce(r) THEN r.value ELSE settings
  /\ form' = IF Populates(r) THEN [form EXCEPT ![r.for] = r.value] ELSE form
  /\ busy' = busy \ Freed(r)
  /\ doubt' = IF r.for = "alerts" THEN r.rival ELSE doubt
  /\ Done(s)
  /\ UNCHANGED <<stored, open, modalOpen, target, named, typed, dialogActions, dialogFailures>>

\* The test mail has been sent.
TakeTestEmail(s) ==
  /\ requests[s].pc = "answered" /\ requests[s].for = "test"
  /\ busy' = busy \ {"test"}
  /\ Done(s)
  /\ UNCHANGED <<stored, open, modalOpen, target, named, form, settings, typed, doubt, dialogActions, dialogFailures>>

\* Mutant of TakeEdit: the dialog is hidden, its target stays.
TakeEditKeepsTarget(s) ==
  LET r == requests[s] IN
  /\ r.pc = "answered" /\ r.for \in OnDevice
  /\ IF r.for \in open THEN Show(open \ {r.for}) ELSE UNCHANGED <<open, modalOpen>>
  /\ UNCHANGED target
  /\ requests' = [requests EXCEPT ![s].pc = "reload"]
  /\ UNCHANGED <<stored, named, busy, form, settings, typed, doubt, dialogActions, dialogFailures>>

\* saveEditedDevice, deleteManagedDevice: the dialog is closed, whichever
\* device it is open for by now, and the page is loaded again.
TakeEdit(s) ==
  LET r == requests[s] IN
  /\ r.pc = "answered" /\ r.for \in OnDevice
  /\ IF r.for \in open THEN CloseOne(r.for) ELSE UNCHANGED <<open, modalOpen, target>>
  /\ requests' = [requests EXCEPT ![s].pc = "reload"]
  /\ UNCHANGED <<stored, named, busy, form, settings, typed, doubt, dialogActions, dialogFailures>>

\* submitDevice: the dialog stays; the page is loaded, then the device tested.
TakeCreated(s) ==
  /\ requests[s].pc = "answered" /\ requests[s].for = "add"
  /\ requests' = [requests EXCEPT ![s].pc = "reload"]
  /\ UNCHANGED <<stored, windows, typed, doubt, dialogActions, dialogFailures>>

\* What was loaded or tested after an edit has ended, well or not.
Reloaded(s) ==
  /\ s \in InFlight /\ requests[s].pc = "reload"
  /\ busy' = busy \ Freed(requests[s])
  /\ Done(s)
  /\ UNCHANGED <<stored, open, modalOpen, target, named, form, settings, typed, doubt, dialogActions, dialogFailures>>

\* Mutant of Fail: no finally.
FailKeepsBusy(s) ==
  LET r == requests[s] IN
  /\ s \in InFlight /\ r.pc # "reload"
  /\ dialogFailures < MaxDialogFailures
  /\ dialogFailures' = dialogFailures + 1
  /\ doubt' = (doubt \/ (r.for = "alerts" /\ (r.what = "save" \/ r.rival)))
  /\ Done(s)
  /\ UNCHANGED <<stored, open, modalOpen, target, named, form, settings, typed, dialogActions, busy>>

\* The request is refused or lost, or its answer is: the error is shown in the
\* dialog, and the button enabled.
Fail(s) ==
  LET r == requests[s] IN
  /\ s \in InFlight /\ r.pc # "reload"
  /\ dialogFailures < MaxDialogFailures
  /\ dialogFailures' = dialogFailures + 1
  /\ busy' = busy \ Freed(r)
  /\ doubt' = (doubt \/ (r.for = "alerts" /\ (r.what = "save" \/ r.rival)))
  /\ Done(s)
  /\ UNCHANGED <<stored, open, modalOpen, target, named, form, settings, typed, dialogActions>>

-----------------------------------------------------------------------------
DialogsInit ==
  /\ stored \in [Forms -> Contents]
  /\ open = {} /\ modalOpen = FALSE
  /\ target = [b \in OnDevice |-> None] /\ named = [b \in OnDevice |-> None]
  /\ busy = {}
  /\ form = [f \in Forms |-> Default]
  /\ settings = Default
  /\ requests = [s \in Slots |->
       IF s = 1 THEN [NoRequest EXCEPT !.what = "start", !.for = "alerts"] ELSE NoRequest]
  /\ typed = {}
  /\ doubt = TRUE
  /\ dialogActions = 0 /\ dialogFailures = 0

User ==
  \/ \E dialog \in Dialogs : Close(dialog)
  \/ Escape \/ OpenAdd \/ SubmitDevice \/ SendTestEmail
  \/ \E dialog \in OnDevice : SubmitOnDevice(dialog) \/ \E d \in Listed : OpenOnDevice(dialog, d)
  \/ \E f \in Forms : OpenForm(f) \/ SubmitForm(f) \/ \E value \in Contents : Type(f, value)

Answer(s) ==
  Serve(s) \/ TakeSettings(s) \/ TakeTestEmail(s) \/ TakeEdit(s) \/ TakeCreated(s) \/ Reloaded(s)

DialogsNext == User \/ \E s \in Slots : Answer(s) \/ Fail(s)

DialogsSpec == DialogsInit /\ [][DialogsNext]_dialogsVars

\* A request is answered or times out, and a settled promise is taken up.
DialogsFairSpec == DialogsSpec /\ \A s \in Slots : WF_dialogsVars(Answer(s))

-----------------------------------------------------------------------------
(* Properties *)

\* The types of the variables.
DialogsTypeOK ==
  /\ stored \in [Forms -> Contents] /\ form \in [Forms -> Contents] /\ settings \in Contents
  /\ open \subseteq Dialogs /\ modalOpen \in BOOLEAN
  /\ target \in [OnDevice -> Listed \cup {None}] /\ named \in [OnDevice -> Listed \cup {None}]
  /\ busy \subseteq Buttons
  /\ requests \in [Slots -> Request]
  /\ typed \subseteq Forms /\ doubt \in BOOLEAN
  /\ dialogActions \in 0..MaxDialogActions /\ dialogFailures \in 0..MaxDialogFailures

\* The page scrolls exactly when no dialog is open, and the dialogs that would
\* hide each other are never open together, whatever is opened from behind
\* them or closed by a late answer.
DialogsFitThePage ==
  /\ modalOpen <=> open # {}
  /\ Cardinality(open \cap ({"add"} \cup Forms)) <= 1

\* A dialog about a device is open exactly while there is a device that its
\* button acts on, and that is the device it shows, although an answer to an
\* earlier one may close it.
DialogShowsItsDevice == \A dialog \in OnDevice :
  /\ dialog \in open <=> target[dialog] # None
  /\ dialog \in open => named[dialog] = target[dialog]

\* A button is disabled only while a request of its is in flight, and but for
\* the settings dialogs it is disabled as long: nothing is saved, deleted or
\* added twice.  (A settings dialog opened anew enables its button as soon as
\* either of its requests is answered.)
OneRequestAtATime == \A button \in Buttons :
  /\ button \in busy => Of(button) # {}
  /\ button \notin Forms =>
       Cardinality(Of(button)) <= 1 /\ (Of(button) # {} => button \in busy)

\* The page judges by the alert settings that are stored, unless the last
\* answer about them had a rival or failed: what loads and saves leave behind
\* when they do not overlap, in any order with the load at the start.
SettingsInForce == ~doubt /\ Saves("alerts") = {} => settings = stored["alerts"]

\* What is typed into a form that waits for nothing stays until the user
\* changes it or opens the dialog again: no late answer overwrites it.
TypedTextSurvives ==
  [][\A f \in typed : form'[f] = form[f] \/ \E value \in Contents : Type(f, value)]_dialogsVars

\* Once the user has done what he does, every button is enabled in the end,
\* whatever becomes of the requests.
ButtonsComeBack == <>[](busy = {})
=============================================================================
