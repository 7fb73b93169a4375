--------------------------- MODULE DialogsProofs ---------------------------
(***************************************************************************)
(* Proofs about Dialogs, for any devices, contents of the forms, and       *)
(* number of requests in flight; at the end, what their answers achieve.   *)
(***************************************************************************)
EXTENDS Dialogs, TLAPS, FiniteSetTheorems

-----------------------------------------------------------------------------
(* What an action does to the requests *)

\* The requests with a new one, and those marked that it is a rival of.
WithRequest(request, slot, marked) == [s \in Slots |->
  IF s = slot THEN [request EXCEPT !.rival = slot \in marked]
  ELSE [requests[s] EXCEPT !.rival = requests[s].rival \/ s \in marked]]

\* It starts one, in a slot that is free.
Sends(request) ==
  \E slot \in Slots : \E marked \in SUBSET Slots :
    /\ requests[slot].what = "none"
    /\ requests' = WithRequest(request, slot, marked)
    /\ request.for = "alerts" =>
         IF request.what = "save"
         THEN AboutAlerts \subseteq marked /\ (AboutAlerts # {} => slot \in marked)
         ELSE Saves("alerts") \subseteq marked /\ (Saves("alerts") # {} => slot \in marked)

\* One goes on.
GoesOn(s) ==
  \E pc \in {"answered", "reload"} : \E value \in Contents :
    requests' = [requests EXCEPT ![s].pc = pc, ![s].value = value]

\* The facts about requests that all proofs need.
RequestsOK ==
  /\ requests \in [Slots -> Request]
  /\ \A s \in Slots : requests[s].what = "none" => requests[s].pc = "sent"
  /\ \A s \in Slots : requests[s].what = "start" => requests[s].for = "alerts"

LEMMA NoRequestType == NoRequest \in Request /\ NoRequest.what = "none" /\ NoRequest.pc = "sent"
BY DialogNamesAssumption DEF NoRequest, Request, Buttons, Dialogs, Forms

LEMMA SendSends ==
  ASSUME NEW request, Send(request)
  PROVE  Sends(request)
<1> DEFINE free == Slots \ InFlight
           slot == CHOOSE s \in free : TRUE
           rivals == IF request.for # "alerts" THEN {}
                     ELSE IF request.what = "save" THEN AboutAlerts ELSE Saves("alerts")
           marked == rivals \cup (IF rivals # {} THEN {slot} ELSE {})
<1>1. free # {} /\ slot \in free
  BY DEF Send
<1>2. rivals \subseteq InFlight
  BY DEF AboutAlerts, Saves, Of
<1>3. requests' = [s \in Slots |->
           IF s = slot THEN [request EXCEPT !.rival = rivals # {}]
           ELSE [requests[s] EXCEPT !.rival = requests[s].rival \/ s \in rivals]]
  BY DEF Send
<1>4. slot \in Slots /\ slot \notin InFlight /\ requests[slot].what = "none"
  BY <1>1 DEF InFlight
<1> HIDE DEF slot, rivals
<1>5. (slot \in marked) = (rivals # {}) /\ \A s \in Slots : s # slot => (s \in marked) = (s \in rivals)
  BY <1>2, <1>4
<1>6. marked \in SUBSET Slots
  BY <1>2, <1>4 DEF InFlight
<1>7. /\ rivals \subseteq marked /\ (rivals # {} => slot \in marked)
      /\ request.for = "alerts" =>
           rivals = IF request.what = "save" THEN AboutAlerts ELSE Saves("alerts")
  BY DEF rivals
<1> HIDE DEF marked
<1>8. requests' = WithRequest(request, slot, marked)
  BY <1>3, <1>5, Zenon DEF WithRequest
<1>. QED
  BY <1>4, <1>6, <1>7, <1>8 DEF Sends

\* Field by field, what a request that is sent leaves of the others.
LEMMA SentRequests ==
  ASSUME RequestsOK, NEW request \in Request, NEW slot \in Slots, NEW marked \in SUBSET Slots,
         requests' = WithRequest(request, slot, marked)
  PROVE  /\ requests' \in [Slots -> Request]
         /\ \A s \in Slots : LET old == IF s = slot THEN request ELSE requests[s] IN
              /\ requests'[s].what = old.what /\ requests'[s].for = old.for
              /\ requests'[s].pc = old.pc /\ requests'[s].device = old.device
              /\ requests'[s].value = old.value
              /\ s = slot => requests'[s].rival = (slot \in marked)
              /\ s # slot => requests'[s].rival = (requests[s].rival \/ s \in marked)
<1>1. \A s \in Slots : requests'[s] =
        IF s = slot THEN [request EXCEPT !.rival = slot \in marked]
        ELSE [requests[s] EXCEPT !.rival = requests[s].rival \/ s \in marked]
  BY DEF WithRequest
<1>2. \A r \in Request : \A b \in BOOLEAN :
        LET q == [r EXCEPT !.rival = b] IN
        /\ q \in Request /\ q.what = r.what /\ q.for = r.for /\ q.pc = r.pc
        /\ q.device = r.device /\ q.value = r.value /\ q.rival = b
  BY DEF Request
<1>3. \A s \in Slots : requests[s] \in Request /\ requests[s].rival \in BOOLEAN
  BY DEF RequestsOK, Request
<1>4. ASSUME NEW s \in Slots
      PROVE  /\ requests'[s] \in Request
             /\ LET old == IF s = slot THEN request ELSE requests[s] IN
                /\ requests'[s].what = old.what /\ requests'[s].for = old.for
                /\ requests'[s].pc = old.pc /\ requests'[s].device = old.device
                /\ requests'[s].value = old.value
                /\ s = slot => requests'[s].rival = (slot \in marked)
                /\ s # slot => requests'[s].rival = (requests[s].rival \/ s \in marked)
  <2>1. CASE s = slot
    <3> DEFINE b == slot \in marked
    <3>1. requests'[s] = [request EXCEPT !.rival = b]
      BY <1>1, <2>1
    <3>2. b \in BOOLEAN
      OBVIOUS
    <3> HIDE DEF b
    <3>3. /\ requests'[s] \in Request /\ requests'[s].rival = b
          /\ requests'[s].what = request.what /\ requests'[s].for = request.for
          /\ requests'[s].pc = request.pc /\ requests'[s].device = request.device
          /\ requests'[s].value = request.value
      BY <1>2, <3>1, <3>2
    <3>. QED
      BY <2>1, <3>3 DEF b
  <2>2. CASE s # slot
    <3> DEFINE b == requests[s].rival \/ s \in marked
    <3>1. requests'[s] = [requests[s] EXCEPT !.rival = b]
      BY <1>1, <2>2
    <3>2. b \in BOOLEAN /\ requests[s] \in Request
      BY <1>3
    <3> HIDE DEF b
    <3>3. /\ requests'[s] \in Request /\ requests'[s].rival = b
          /\ requests'[s].what = requests[s].what /\ requests'[s].for = requests[s].for
          /\ requests'[s].pc = requests[s].pc /\ requests'[s].device = requests[s].device
          /\ requests'[s].value = requests[s].value
      BY <1>2, <3>1, <3>2
    <3>. QED
      BY <2>2, <3>3 DEF b
  <2>. QED
    BY <2>1, <2>2
<1>5. requests' \in [Slots -> Request]
  BY <1>4 DEF WithRequest
<1>. QED
  BY <1>4, <1>5

LEMMA GoneOnRequests ==
  ASSUME RequestsOK, NEW s \in Slots, NEW pc \in {"answered", "reload"}, NEW value \in Contents,
         requests' = [requests EXCEPT ![s].pc = pc, ![s].value = value]
  PROVE  /\ requests' \in [Slots -> Request]
         /\ \A t \in Slots :
              /\ requests'[t].what = requests[t].what /\ requests'[t].for = requests[t].for
              /\ requests'[t].device = requests[t].device /\ requests'[t].rival = requests[t].rival
              /\ t # s => requests'[t] = requests[t]
         /\ requests'[s].pc = pc /\ requests'[s].value = value
<1>1. requests[s] \in Request
  BY DEF RequestsOK
<1> DEFINE r == [requests[s] EXCEPT !.pc = pc, !.value = value]
<1>2. requests' = [requests EXCEPT ![s] = r]
  BY <1>1 DEF RequestsOK
<1>3. /\ r \in Request /\ r.what = requests[s].what /\ r.for = requests[s].for
      /\ r.device = requests[s].device /\ r.rival = requests[s].rival
      /\ r.pc = pc /\ r.value = value
  BY <1>1 DEF Request
<1> HIDE DEF r
<1>4. /\ requests \in [Slots -> Request]
      /\ r \in Request
  BY <1>3 DEF RequestsOK
<1>5. requests' \in [Slots -> Request]
  BY <1>2, <1>4
<1>6. requests'[s] = r
  BY <1>2, <1>4
<1>7. \A t \in Slots \ {s} : requests'[t] = requests[t]
  BY <1>2, <1>4
<1>. QED
  BY <1>3, <1>5, <1>6, <1>7

LEMMA DoneRequests ==
  ASSUME RequestsOK, NEW s \in Slots, Done(s)
  PROVE  /\ RequestsOK'
         /\ requests'[s] = NoRequest /\ \A t \in Slots : t # s => requests'[t] = requests[t]
BY NoRequestType DEF RequestsOK, Done

LEMMA SendKeepsRequests ==
  ASSUME RequestsOK, NEW request \in Request, request.what \in {"load", "save"}, Sends(request)
  PROVE  RequestsOK'
<1>1. PICK slot \in Slots, marked \in SUBSET Slots :
        requests' = WithRequest(request, slot, marked)
  BY DEF Sends
<1>2. /\ requests' \in [Slots -> Request]
      /\ \A s \in Slots : LET old == IF s = slot THEN request ELSE requests[s] IN
           requests'[s].what = old.what /\ requests'[s].for = old.for /\ requests'[s].pc = old.pc
  BY <1>1, SentRequests
<1>. QED
  BY <1>2 DEF RequestsOK

LEMMA GoingOnKeepsRequests ==
  ASSUME RequestsOK, NEW s \in InFlight, GoesOn(s)
  PROVE  RequestsOK'
<1>1. s \in Slots /\ requests[s].what # "none"
  BY DEF InFlight
<1>2. PICK pc \in {"answered", "reload"}, value \in Contents :
        requests' = [requests EXCEPT ![s].pc = pc, ![s].value = value]
  BY DEF GoesOn
<1>3. /\ requests' \in [Slots -> Request]
      /\ \A t \in Slots :
              /\ requests'[t].what = requests[t].what /\ requests'[t].for = requests[t].for
              /\ t # s => requests'[t] = requests[t]
  BY <1>1, <1>2, GoneOnRequests
<1>. QED
  BY <1>1, <1>3 DEF RequestsOK

-----------------------------------------------------------------------------
(* The types *)

LEMMA CloseOneTypes ==
  ASSUME DialogsTypeOK, NEW dialog \in Dialogs, CloseOne(dialog)
  PROVE  /\ open' \subseteq Dialogs /\ modalOpen' \in BOOLEAN
         /\ target' \in [OnDevice -> Listed \cup {None}]
BY DEF DialogsTypeOK, CloseOne, Show

\* The actions that leave the requests alone.
LEMMA QuietTypes ==
  ASSUME DialogsTypeOK,
         \/ \E dialog \in Dialogs : Close(dialog)
         \/ Escape \/ OpenAdd
         \/ \E dialog \in OnDevice, d \in Listed : OpenOnDevice(dialog, d)
         \/ \E f \in Forms, value \in Contents : Type(f, value)
  PROVE  DialogsTypeOK' /\ requests' = requests
<1>1. ASSUME Act PROVE dialogActions' \in 0..MaxDialogActions
  BY <1>1, DialogBoundsAssumption DEF Act, DialogsTypeOK
<1>2. ASSUME NEW dialog \in Dialogs, Close(dialog) PROVE DialogsTypeOK' /\ requests' = requests
  <2>1. CloseOne(dialog) /\ Act
    BY <1>2 DEF Close
  <2>. QED
    BY <1>1, <1>2, <2>1, CloseOneTypes DEF Close, DialogsTypeOK
<1>3. CASE Escape
  <2>1. PICK dialog \in Dialogs : CloseOne(dialog)
    BY <1>3 DEF Escape, DialogsTypeOK
  <2>2. Act
    BY <1>3 DEF Escape
  <2>. QED
    BY <1>1, <1>3, <2>1, <2>2, CloseOneTypes DEF Escape, DialogsTypeOK
<1>4. CASE OpenAdd
  BY <1>1, <1>4 DEF OpenAdd, Show, Dialogs, DialogsTypeOK
<1>5. ASSUME NEW dialog \in OnDevice, NEW d \in Listed, OpenOnDevice(dialog, d)
      PROVE  DialogsTypeOK' /\ requests' = requests
  BY <1>1, <1>5 DEF OpenOnDevice, Show, Dialogs, DialogsTypeOK
<1>6. ASSUME NEW f \in Forms, NEW value \in Contents, Type(f, value)
      PROVE  DialogsTypeOK' /\ requests' = requests
  <2>1. typed' \subseteq Forms /\ form' \in [Forms -> Contents]
    BY <1>6 DEF Type, DialogsTypeOK
  <2>. QED
    BY <1>1, <1>6, <2>1 DEF Type, DialogsTypeOK
<1>. QED
  BY <1>2, <1>3, <1>4, <1>5, <1>6

\* What an action sends is a request.
LEMMA RequestTypes ==
  ASSUME NEW what \in {"load", "save"}, NEW for \in Buttons, NEW value \in Contents,
         NEW device \in Listed \cup {None}
  PROVE  /\ [NoRequest EXCEPT !.what = what, !.for = for] \in Request
         /\ [NoRequest EXCEPT !.what = what, !.for = for, !.value = value] \in Request
         /\ [NoRequest EXCEPT !.what = what, !.for = for, !.device = device] \in Request
BY DialogNamesAssumption DEF NoRequest, Request

\* A request is sent: which one, and what becomes of the button and the form.
SendsOne == \E r \in Request :
  /\ r.what \in {"load", "save"} /\ r.pc = "sent" /\ Sends(r)
  /\ busy' = busy \cup {r.for} /\ (r.for \notin Forms => r.for \notin busy)
  /\ UNCHANGED <<stored, form, settings, doubt>>
  /\ r.for \in Forms => \/ r.what = "save" /\ r.value = form[r.for] /\ typed' = typed
                        \/ r.what = "load" /\ typed' = typed \ {r.for}
  /\ r.for \notin Forms => typed' = typed

\* The actions that send.
LEMMA SendingTypes ==
  ASSUME DialogsTypeOK, RequestsOK,
         \/ \E f \in Forms : OpenForm(f) \/ SubmitForm(f)
         \/ \E dialog \in OnDevice : SubmitOnDevice(dialog)
         \/ SubmitDevice \/ SendTestEmail
  PROVE  DialogsTypeOK' /\ RequestsOK' /\ SendsOne
<1>1. ASSUME Act PROVE dialogActions' \in 0..MaxDialogActions
  BY <1>1, DialogBoundsAssumption DEF Act, DialogsTypeOK
<1>2. Forms \cup OnDevice \cup {"add", "test"} = Buttons
  BY DEF Buttons, Dialogs
<1>3. \A request \in Request : request.what \in {"load", "save"} /\ Send(request) =>
        RequestsOK' /\ requests' \in [Slots -> Request] /\ Sends(request)
  BY SendSends, SendKeepsRequests DEF RequestsOK
<1>4. ASSUME NEW f \in Forms, OpenForm(f)
      PROVE  DialogsTypeOK' /\ RequestsOK' /\ SendsOne
  <2> DEFINE request == [NoRequest EXCEPT !.what = "load", !.for = f]
  <2>1. request \in Request /\ request.what = "load" /\ request.for = f /\ request.pc = "sent"
    BY <1>2, RequestTypes, DialogNamesAssumption DEF NoRequest
  <2>2. Send(request) /\ busy' = busy \cup {f} /\ Act
    BY <1>4 DEF OpenForm
  <2> HIDE DEF request
  <2>3. RequestsOK' /\ requests' \in [Slots -> Request] /\ Sends(request)
    BY <1>3, <2>1, <2>2
  <2>4. /\ open' \subseteq Dialogs /\ modalOpen' \in BOOLEAN /\ typed' \subseteq Forms
        /\ busy' \subseteq Buttons
    BY <1>2, <1>4, <2>2 DEF OpenForm, Show, Dialogs, DialogsTypeOK
  <2>5. DialogsTypeOK'
    BY <1>1, <1>4, <2>2, <2>3, <2>4 DEF OpenForm, DialogsTypeOK
  <2>6. /\ UNCHANGED <<stored, form, settings, doubt>>
        /\ typed' = typed \ {f}
    BY <1>4 DEF OpenForm
  <2>. QED
    BY <2>1, <2>2, <2>3, <2>5, <2>6 DEF SendsOne
<1>5. ASSUME NEW dialog, NEW button \in Buttons, Pressed(dialog, button), Act,
             NEW request \in Request, request.what \in {"load", "save"}, request.for = button,
             request.pc = "sent", Send(request),
             button \in Forms => request.what = "save" /\ request.value = form[button]
      PROVE  DialogsTypeOK' /\ RequestsOK' /\ SendsOne
  <2>1. RequestsOK' /\ requests' \in [Slots -> Request] /\ Sends(request)
    BY <1>3, <1>5
  <2>2. DialogsTypeOK'
    BY <1>1, <1>5, <2>1 DEF Pressed, DialogsTypeOK
  <2>3. /\ UNCHANGED <<stored, form, settings, doubt>> /\ typed' = typed
        /\ busy' = busy \cup {button} /\ button \notin busy
    BY <1>5 DEF Pressed
  <2>. QED
    BY <1>5, <2>1, <2>2, <2>3 DEF SendsOne
<1>6. ASSUME NEW f \in Forms, SubmitForm(f)
      PROVE  Act /\ Pressed(f, f) /\ Send([NoRequest EXCEPT !.what = "save", !.for = f, !.value = form[f]])
  BY <1>6 DEF SubmitForm
<1>7. \A f \in Forms : form[f] \in Contents
  BY DEF DialogsTypeOK
<1>8. ASSUME NEW f \in Forms, SubmitForm(f)
      PROVE  DialogsTypeOK' /\ RequestsOK' /\ SendsOne
  <2> DEFINE request == [NoRequest EXCEPT !.what = "save", !.for = f, !.value = form[f]]
  <2>1. /\ request \in Request /\ request.what = "save" /\ request.for = f
        /\ request.pc = "sent" /\ request.value = form[f]
    BY <1>2, <1>7, RequestTypes, DialogNamesAssumption DEF NoRequest
  <2>2. Send(request)
    BY <1>6, <1>8
  <2> HIDE DEF request
  <2>. QED
    BY <1>2, <1>5, <1>6, <1>8, <2>1, <2>2
<1>9. ASSUME NEW dialog \in OnDevice, SubmitOnDevice(dialog)
      PROVE  DialogsTypeOK' /\ RequestsOK' /\ SendsOne
  <2> DEFINE request == [NoRequest EXCEPT !.what = "save", !.for = dialog, !.device = target[dialog]]
  <2>1. target[dialog] \in Listed \cup {None}
    BY DEF DialogsTypeOK
  <2>2. request \in Request /\ request.what = "save" /\ request.for = dialog /\ request.pc = "sent"
    BY <1>2, <2>1, RequestTypes, DialogNamesAssumption DEF NoRequest
  <2>3. Send(request) /\ Act /\ Pressed(dialog, dialog)
    BY <1>9 DEF SubmitOnDevice
  <2> HIDE DEF request
  <2>4. dialog \notin Forms
    BY DEF OnDevice, Forms
  <2>. QED
    BY <1>2, <1>5, <2>2, <2>3, <2>4
<1>10. ASSUME NEW dialog, NEW button \in {"add", "test"}, NEW what \in {"load", "save"}, Act,
              Pressed(dialog, button), Send([NoRequest EXCEPT !.what = what, !.for = button])
       PROVE  DialogsTypeOK' /\ RequestsOK' /\ SendsOne
  <2> DEFINE request == [NoRequest EXCEPT !.what = what, !.for = button]
  <2>1. request \in Request /\ request.what = what /\ request.for = button /\ request.pc = "sent"
    BY <1>2, RequestTypes, DialogNamesAssumption DEF NoRequest
  <2>2. Send(request)
    BY <1>10
  <2> HIDE DEF request
  <2>3. button \notin Forms
    BY DEF Forms
  <2>. QED
    BY <1>2, <1>5, <1>10, <2>1, <2>2, <2>3
<1>. QED
  BY <1>4, <1>8, <1>9, <1>10 DEF SubmitDevice, SendTestEmail

\* A request is at an end: its button is enabled.
EndsOne(s) == Done(s) /\ busy' = busy \ Freed(requests[s]) /\ typed' = typed

\* One goes on: nothing that its form shows changes.
GoesOnOne(s) == GoesOn(s) /\ UNCHANGED <<busy, form, settings, typed, doubt>>

LEMMA ServeTypes ==
  ASSUME DialogsTypeOK, RequestsOK, NEW s \in Slots, Serve(s)
  PROVE  DialogsTypeOK' /\ RequestsOK' /\ s \in InFlight /\ GoesOnOne(s)
<1> DEFINE r == requests[s]
           value == IF r.for \in Forms /\ r.what # "save" THEN stored[r.for] ELSE r.value
<1>1. s \in InFlight /\ r \in Request
  BY DEF Serve, RequestsOK
<1>2. value \in Contents
  BY <1>1 DEF DialogsTypeOK, Request
<1>3. requests' = [requests EXCEPT ![s].pc = "answered", ![s].value = value]
  BY DEF Serve
<1>4. stored' \in [Forms -> Contents]
  BY <1>1 DEF Serve, DialogsTypeOK, Request
<1> HIDE DEF value
<1>5. GoesOn(s)
  BY <1>2, <1>3 DEF GoesOn
<1>6. RequestsOK'
  BY <1>1, <1>5, GoingOnKeepsRequests
<1>7. DialogsTypeOK' /\ UNCHANGED <<busy, form, settings, typed, doubt>>
  BY <1>4, <1>6 DEF Serve, windows, DialogsTypeOK, RequestsOK
<1>. QED
  BY <1>1, <1>5, <1>6, <1>7 DEF GoesOnOne

\* TakeEdit and TakeCreated: the page is loaded again.
LEMMA ReloadTypes ==
  ASSUME DialogsTypeOK, RequestsOK, NEW s \in Slots, TakeEdit(s) \/ TakeCreated(s)
  PROVE  DialogsTypeOK' /\ RequestsOK' /\ s \in InFlight /\ GoesOnOne(s) /\ stored' = stored
<1> DEFINE r == requests[s]
<1>1. s \in InFlight /\ r \in Request /\ r.for \in Buttons
  BY DEF TakeEdit, TakeCreated, RequestsOK, InFlight, Request
<1>2. requests' = [requests EXCEPT ![s].pc = "reload"]
  BY DEF TakeEdit, TakeCreated
<1>3. [r EXCEPT !.pc = "reload"] = [r EXCEPT !.pc = "reload", !.value = r.value] /\ r.value \in Contents
  BY <1>1 DEF Request
<1>4. requests' = [requests EXCEPT ![s].pc = "reload", ![s].value = r.value]
  BY <1>2, <1>3 DEF RequestsOK
<1>5. GoesOn(s)
  BY <1>3, <1>4 DEF GoesOn
<1>6. RequestsOK'
  BY <1>1, <1>5, GoingOnKeepsRequests
<1>7. /\ open' \subseteq Dialogs /\ modalOpen' \in BOOLEAN
      /\ target' \in [OnDevice -> Listed \cup {None}]
  <2>1. CASE TakeEdit(s)
    <3>1. r.for \in Dialogs
      BY <2>1 DEF TakeEdit, Dialogs
    <3>. QED
      BY <2>1, <3>1, CloseOneTypes DEF TakeEdit, DialogsTypeOK
  <2>2. CASE TakeCreated(s)
    BY <2>2 DEF TakeCreated, windows, DialogsTypeOK
  <2>. QED
    BY <2>1, <2>2
<1>8. /\ UNCHANGED <<stored, named, busy, form, settings, typed, doubt, dialogActions, dialogFailures>>
  BY DEF TakeEdit, TakeCreated, windows
<1>9. DialogsTypeOK'
  BY <1>6, <1>7, <1>8 DEF DialogsTypeOK, RequestsOK
<1>. QED
  BY <1>1, <1>5, <1>6, <1>8, <1>9 DEF GoesOnOne

LEMMA EndTypes ==
  ASSUME DialogsTypeOK, RequestsOK, NEW s \in Slots,
         TakeSettings(s) \/ TakeTestEmail(s) \/ Reloaded(s) \/ Fail(s)
  PROVE  /\ DialogsTypeOK' /\ RequestsOK' /\ s \in InFlight /\ EndsOne(s)
         /\ UNCHANGED <<stored, open, modalOpen, target, named>>
<1> DEFINE r == requests[s]
<1>1. s \in InFlight /\ r \in Request
  BY DEF TakeSettings, TakeTestEmail, Reloaded, Fail, RequestsOK, InFlight
<1>2. Done(s) /\ typed' = typed /\ UNCHANGED <<stored, open, modalOpen, target, named>>
  BY DEF TakeSettings, TakeTestEmail, Reloaded, Fail
<1>3. RequestsOK'
  BY <1>2, DoneRequests
<1>4. busy' = busy \ Freed(r)
  <2>1. CASE TakeTestEmail(s)
    <3>1. r.for = "test" /\ r.what # "start"
      BY <2>1 DEF TakeTestEmail, RequestsOK
    <3>. QED
      BY <2>1, <3>1 DEF TakeTestEmail, Freed
  <2>2. CASE TakeSettings(s) \/ Reloaded(s) \/ Fail(s)
    BY <2>2 DEF TakeSettings, Reloaded, Fail
  <2>. QED
    BY <2>1, <2>2
<1>5. r.value \in Contents /\ r.rival \in BOOLEAN
  BY <1>1 DEF Request
<1>6. /\ settings' \in Contents /\ form' \in [Forms -> Contents] /\ doubt' \in BOOLEAN
      /\ dialogActions' = dialogActions /\ dialogFailures' \in 0..MaxDialogFailures
  <2>1. CASE TakeSettings(s)
    BY <1>5, <2>1 DEF TakeSettings, DialogsTypeOK
  <2>2. CASE TakeTestEmail(s) \/ Reloaded(s)
    BY <2>2 DEF TakeTestEmail, Reloaded, DialogsTypeOK
  <2>3. CASE Fail(s)
    <3>1. dialogFailures' \in 0..MaxDialogFailures
      BY <2>3, DialogBoundsAssumption DEF Fail, DialogsTypeOK
    <3>2. doubt' \in BOOLEAN
      BY <2>3 DEF Fail
    <3>. QED
      BY <2>3, <3>1, <3>2 DEF Fail, DialogsTypeOK
  <2>. QED
    BY <2>1, <2>2, <2>3
<1>7. DialogsTypeOK'
  BY <1>2, <1>3, <1>4, <1>6 DEF DialogsTypeOK, RequestsOK
<1>. QED
  BY <1>1, <1>2, <1>3, <1>4, <1>7 DEF EndsOne

LEMMA InitTypes == DialogsInit => DialogsTypeOK /\ RequestsOK
<1> SUFFICES ASSUME DialogsInit PROVE DialogsTypeOK /\ RequestsOK
  OBVIOUS
<1>1. [NoRequest EXCEPT !.what = "start", !.for = "alerts"] \in Request
  BY DialogNamesAssumption DEF NoRequest, Request, Buttons, Dialogs, Forms
<1>2. RequestsOK
  BY <1>1, NoRequestType DEF DialogsInit, RequestsOK, NoRequest
<1>3. 0 \in 0..MaxDialogActions /\ 0 \in 0..MaxDialogFailures
  BY DialogBoundsAssumption
<1>4. /\ stored \in [Forms -> Contents] /\ form \in [Forms -> Contents] /\ settings \in Contents
      /\ target \in [OnDevice -> Listed \cup {None}] /\ named \in [OnDevice -> Listed \cup {None}]
  BY DialogNamesAssumption DEF DialogsInit
<1>5. open \subseteq Dialogs /\ modalOpen \in BOOLEAN /\ busy \subseteq Buttons
      /\ typed \subseteq Forms /\ doubt \in BOOLEAN
  BY DEF DialogsInit
<1>6. dialogActions \in 0..MaxDialogActions /\ dialogFailures \in 0..MaxDialogFailures
  BY <1>3 DEF DialogsInit
<1>. QED
  BY <1>2, <1>4, <1>5, <1>6 DEF RequestsOK, DialogsTypeOK

\* What every step is, as far as requests are concerned.
Quiet ==
  \/ \E dialog \in Dialogs : Close(dialog)
  \/ Escape \/ OpenAdd
  \/ \E dialog \in OnDevice, d \in Listed : OpenOnDevice(dialog, d)
  \/ \E f \in Forms, value \in Contents : Type(f, value)
Sending ==
  \/ \E f \in Forms : OpenForm(f) \/ SubmitForm(f)
  \/ \E dialog \in OnDevice : SubmitOnDevice(dialog)
  \/ SubmitDevice \/ SendTestEmail
Going(s) == Serve(s) \/ TakeEdit(s) \/ TakeCreated(s)
Ending(s) == TakeSettings(s) \/ TakeTestEmail(s) \/ Reloaded(s) \/ Fail(s)

LEMMA Steps == DialogsNext => Quiet \/ Sending \/ \E s \in Slots : Going(s) \/ Ending(s)
BY DEF DialogsNext, User, Answer, Quiet, Sending, Going, Ending

LEMMA TypeStep ==
  DialogsTypeOK /\ RequestsOK /\ [DialogsNext]_dialogsVars => DialogsTypeOK' /\ RequestsOK'
<1> SUFFICES ASSUME DialogsTypeOK, RequestsOK, [DialogsNext]_dialogsVars
             PROVE  DialogsTypeOK' /\ RequestsOK'
  OBVIOUS
<1>1. CASE Quiet
  BY <1>1, QuietTypes DEF Quiet, RequestsOK
<1>2. CASE Sending
  BY <1>2, SendingTypes DEF Sending
<1>3. ASSUME NEW s \in Slots, Going(s) PROVE DialogsTypeOK' /\ RequestsOK'
  BY <1>3, ServeTypes, ReloadTypes DEF Going
<1>4. ASSUME NEW s \in Slots, Ending(s) PROVE DialogsTypeOK' /\ RequestsOK'
  BY <1>4, EndTypes DEF Ending
<1>5. CASE UNCHANGED dialogsVars
  BY <1>5 DEF dialogsVars, windows, DialogsTypeOK, RequestsOK
<1>. QED
  BY <1>1, <1>2, <1>3, <1>4, <1>5, Steps

\* The types of the variables, for any number of requests and devices.
THEOREM DialogsTypes == DialogsSpec => []DialogsTypeOK
BY InitTypes, TypeStep, PTL DEF DialogsSpec

-----------------------------------------------------------------------------
(* Which dialogs are open *)

Hiding == {"add"} \cup Forms

\* DialogsFitThePage without Cardinality, and DialogShowsItsDevice.
WindowsInv ==
  /\ modalOpen <=> open # {}
  /\ \A f, g \in open \cap Hiding : f = g
  /\ DialogShowsItsDevice

LEMMA CloseKeepsWindows ==
  ASSUME DialogsTypeOK, WindowsInv, NEW dialog \in Dialogs, CloseOne(dialog), named' = named
  PROVE  WindowsInv'
<1>1. /\ open' = open \ {dialog} /\ modalOpen' = (open' # {})
      /\ target' = [b \in OnDevice |-> IF b = dialog THEN None ELSE target[b]]
  BY DEF CloseOne, Show
<1>2. DialogShowsItsDevice'
  <2> SUFFICES ASSUME NEW b \in OnDevice
               PROVE  (b \in open' <=> target'[b] # None) /\ (b \in open' => named[b] = target'[b])
    BY DEF DialogShowsItsDevice
  <2>. QED
    BY <1>1 DEF WindowsInv, DialogShowsItsDevice
<1>. QED
  BY <1>1, <1>2 DEF WindowsInv

LEMMA WindowsStep == DialogsTypeOK /\ RequestsOK /\ WindowsInv /\ [DialogsNext]_dialogsVars => WindowsInv'
<1> SUFFICES ASSUME DialogsTypeOK, RequestsOK, WindowsInv, [DialogsNext]_dialogsVars PROVE WindowsInv'
  OBVIOUS
<1> USE DEF Forms, OnDevice, Hiding
<1>1. ASSUME NEW dialog \in Dialogs, Close(dialog) PROVE WindowsInv'
  BY <1>1, CloseKeepsWindows DEF Close
<1>2. CASE Escape
  <2>1. PICK dialog \in open : CloseOne(dialog)
    BY <1>2 DEF Escape
  <2>. QED
    BY <1>2, <2>1, CloseKeepsWindows DEF Escape, DialogsTypeOK
<1>3. CASE OpenAdd
  BY <1>3 DEF OpenAdd, Show, WindowsInv, DialogShowsItsDevice
<1>4. ASSUME NEW dialog \in OnDevice, NEW d \in Listed, OpenOnDevice(dialog, d) PROVE WindowsInv'
  <2>1. /\ open' = open \cup {dialog} /\ modalOpen' = (open' # {})
        /\ target' = [target EXCEPT ![dialog] = d] /\ named' = [named EXCEPT ![dialog] = d]
    BY <1>4 DEF OpenOnDevice, Show
  <2>2. d # None
    BY DialogNamesAssumption
  <2>3. DialogShowsItsDevice'
    BY <2>1, <2>2 DEF WindowsInv, DialogShowsItsDevice, DialogsTypeOK
  <2>. QED
    BY <2>1, <2>3 DEF WindowsInv
<1>5. ASSUME NEW f \in Forms, OpenForm(f) PROVE WindowsInv'
  BY <1>5 DEF OpenForm, Show, WindowsInv, DialogShowsItsDevice
<1>6. ASSUME UNCHANGED <<open, modalOpen, target, named>> PROVE WindowsInv'
  BY <1>6 DEF WindowsInv, DialogShowsItsDevice
<1>7. ASSUME NEW s \in Slots, TakeEdit(s) PROVE WindowsInv'
  <2>1. requests[s].for \in Dialogs /\ named' = named
    BY <1>7 DEF TakeEdit, Dialogs
  <2>2. CASE requests[s].for \in open
    BY <1>7, <2>1, <2>2, CloseKeepsWindows DEF TakeEdit
  <2>3. CASE requests[s].for \notin open
    BY <1>6, <1>7, <2>1, <2>3 DEF TakeEdit
  <2>. QED
    BY <2>2, <2>3
<1>8. ASSUME NEW s \in Slots, Serve(s) \/ TakeCreated(s) PROVE WindowsInv'
  BY <1>6, <1>8 DEF Serve, TakeCreated, windows
<1>9. ASSUME NEW s \in Slots, Ending(s) PROVE WindowsInv'
  BY <1>6, <1>9, EndTypes DEF Ending
<1>10. ASSUME \/ \E f \in Forms : SubmitForm(f) \/ \E value \in Contents : Type(f, value)
              \/ \E dialog \in OnDevice : SubmitOnDevice(dialog)
              \/ SubmitDevice \/ SendTestEmail
       PROVE  WindowsInv'
  BY <1>6, <1>10 DEF SubmitForm, Type, SubmitOnDevice, SubmitDevice, SendTestEmail, Pressed
<1>11. CASE UNCHANGED dialogsVars
  BY <1>6, <1>11 DEF dialogsVars, windows
<1>. QED
  BY <1>1, <1>2, <1>3, <1>4, <1>5, <1>7, <1>8, <1>9, <1>10, <1>11, Steps
  DEF Quiet, Sending, Going

LEMMA InitWindows == DialogsInit => WindowsInv
BY DEF DialogsInit, WindowsInv, DialogShowsItsDevice

\* Two dialogs that hide each other are never open together, and the page
\* scrolls exactly when none is open, for any number of dialogs opened and
\* requests answered.
THEOREM DialogsFit == DialogsSpec => []DialogsFitThePage
<1>1. WindowsInv => DialogsFitThePage
  <2> SUFFICES ASSUME WindowsInv PROVE Cardinality(open \cap Hiding) <= 1
    BY DEF WindowsInv, DialogsFitThePage, Hiding
  <2>1. open \cap Hiding = {} \/ \E f : open \cap Hiding = {f}
    BY DEF WindowsInv
  <2>2. CASE open \cap Hiding = {}
    BY <2>2, FS_EmptySet
  <2>3. ASSUME NEW f, open \cap Hiding = {f} PROVE Cardinality(open \cap Hiding) = 1
    BY <2>3, FS_Singleton
  <2>. QED
    BY <2>1, <2>2, <2>3
<1>. QED
  BY <1>1, InitTypes, TypeStep, InitWindows, WindowsStep, PTL DEF DialogsSpec

\* The edit and delete dialogs show the device their button acts on, for any
\* devices.
THEOREM DialogsShowTheirDevice == DialogsSpec => []DialogShowsItsDevice
<1>1. WindowsInv => DialogShowsItsDevice
  BY DEF WindowsInv
<1>. QED
  BY <1>1, InitTypes, TypeStep, InitWindows, WindowsStep, PTL DEF DialogsSpec

-----------------------------------------------------------------------------
(* The requests of a button *)

\* What a step makes of the sets of requests.
LEMMA SentSets ==
  ASSUME RequestsOK, NEW request \in Request, request.what \in {"load", "save"},
         NEW slot \in Slots, NEW marked \in SUBSET Slots, requests[slot].what = "none",
         requests' = WithRequest(request, slot, marked)
  PROVE  /\ \A b : Of(b)' = IF b = request.for THEN Of(b) \cup {slot} ELSE Of(b)
         /\ AboutAlerts' = IF request.for = "alerts" THEN AboutAlerts \cup {slot} ELSE AboutAlerts
         /\ Saves("alerts")' = IF request.for = "alerts" /\ request.what = "save"
                              THEN Saves("alerts") \cup {slot} ELSE Saves("alerts")
         /\ slot \notin InFlight
<1>1. \A s \in Slots : LET old == IF s = slot THEN request ELSE requests[s] IN
        requests'[s].what = old.what /\ requests'[s].for = old.for
  BY SentRequests
<1>2. /\ requests'[slot].what = request.what /\ requests'[slot].for = request.for
      /\ \A s \in Slots : s # slot =>
           requests'[s].what = requests[s].what /\ requests'[s].for = requests[s].for
  BY <1>1
<1>3. \A b : Of(b)' = IF b = request.for THEN Of(b) \cup {slot} ELSE Of(b)
  BY <1>2 DEF Of, InFlight
<1>4. AboutAlerts' = IF request.for = "alerts" THEN AboutAlerts \cup {slot} ELSE AboutAlerts
  BY <1>2 DEF AboutAlerts, InFlight
<1>5. slot \notin InFlight
  BY DEF InFlight
<1>6. Saves("alerts")' = {s \in Of("alerts")' : requests'[s].what = "save"}
  BY DEF Saves
<1>7. Of("alerts") \subseteq Slots /\ slot \notin Of("alerts")
  BY <1>5 DEF Of, InFlight
<1>8. Saves("alerts")' = IF request.for = "alerts" /\ request.what = "save"
                         THEN Saves("alerts") \cup {slot} ELSE Saves("alerts")
  BY <1>2, <1>3, <1>6, <1>7 DEF Saves
<1>. QED
  BY <1>3, <1>4, <1>5, <1>8

LEMMA GoneOnSets ==
  ASSUME RequestsOK, NEW s \in Slots, GoesOn(s)
  PROVE  (\A b : Of(b)' = Of(b)) /\ AboutAlerts' = AboutAlerts /\ Saves("alerts")' = Saves("alerts")
<1>1. PICK pc \in {"answered", "reload"}, value \in Contents :
        requests' = [requests EXCEPT ![s].pc = pc, ![s].value = value]
  BY DEF GoesOn
<1>2. \A t \in Slots : requests'[t].what = requests[t].what /\ requests'[t].for = requests[t].for
  BY <1>1, GoneOnRequests
<1>. QED
  BY <1>2 DEF Of, AboutAlerts, Saves, InFlight

LEMMA DoneSets ==
  ASSUME RequestsOK, NEW s \in Slots, Done(s)
  PROVE  /\ \A b : Of(b)' = Of(b) \ {s}
         /\ AboutAlerts' = AboutAlerts \ {s} /\ Saves("alerts")' = Saves("alerts") \ {s}
<1>1. requests'[s].what = "none" /\ \A t \in Slots : t # s => requests'[t] = requests[t]
  BY DoneRequests, NoRequestType
<1>2. InFlight' = InFlight \ {s}
  BY <1>1 DEF InFlight
<1>3. \A t \in InFlight : t \in Slots
  BY DEF InFlight
<1>4. (\A b : Of(b)' = Of(b) \ {s}) /\ AboutAlerts' = AboutAlerts \ {s}
  BY <1>1, <1>2, <1>3 DEF Of, AboutAlerts
<1>. QED
  BY <1>1, <1>3, <1>4 DEF Saves, Of

\* OneRequestAtATime without Cardinality.
ButtonInv(b) ==
  /\ b \in busy => Of(b) # {}
  /\ b \notin Forms => (\A s, t \in Of(b) : s = t) /\ (Of(b) # {} => b \in busy)

ButtonsInv == \A b \in Buttons : ButtonInv(b)

LEMMA ButtonsStep ==
  DialogsTypeOK /\ RequestsOK /\ ButtonsInv /\ [DialogsNext]_dialogsVars => ButtonsInv'
<1> SUFFICES ASSUME DialogsTypeOK, RequestsOK, ButtonsInv, [DialogsNext]_dialogsVars
             PROVE  ButtonsInv'
  OBVIOUS
<1>1. ASSUME UNCHANGED <<busy, requests>> PROVE ButtonsInv'
  BY <1>1 DEF ButtonsInv, ButtonInv, Of, InFlight
<1>2. CASE Quiet
  <2>1. UNCHANGED <<busy, requests>>
    BY <1>2 DEF Quiet, Close, Escape, OpenAdd, OpenOnDevice, Type
  <2>. QED
    BY <1>1, <2>1
<1>3. CASE Sending
  <2>1. PICK r \in Request :
          /\ r.what \in {"load", "save"} /\ Sends(r)
          /\ busy' = busy \cup {r.for} /\ (r.for \notin Forms => r.for \notin busy)
    BY <1>3, SendingTypes DEF Sending, SendsOne
  <2>2. PICK slot \in Slots, marked \in SUBSET Slots :
          requests[slot].what = "none" /\ requests' = WithRequest(r, slot, marked)
    BY <2>1 DEF Sends
  <2>3. \A b : Of(b)' = IF b = r.for THEN Of(b) \cup {slot} ELSE Of(b)
    BY <2>1, <2>2, SentSets
  <2> SUFFICES ASSUME NEW b \in Buttons PROVE ButtonInv(b)'
    BY DEF ButtonsInv
  <2>4. ButtonInv(b)
    BY DEF ButtonsInv
  <2>5. CASE b = r.for
    BY <2>1, <2>3, <2>4, <2>5 DEF ButtonInv
  <2>6. CASE b # r.for
    <3>1. Of(b)' = Of(b) /\ (b \in busy' <=> b \in busy)
      BY <2>1, <2>3, <2>6
    <3>. QED
      BY <2>4, <3>1 DEF ButtonInv
  <2>. QED
    BY <2>5, <2>6
<1>4. ASSUME NEW s \in Slots, Going(s) PROVE ButtonsInv'
  <2>1. GoesOn(s) /\ busy' = busy
    BY <1>4, ServeTypes, ReloadTypes DEF Going, GoesOnOne
  <2>2. \A b : Of(b)' = Of(b)
    BY <2>1, GoneOnSets
  <2>. QED
    BY <2>1, <2>2 DEF ButtonsInv, ButtonInv
<1>5. ASSUME NEW s \in Slots, Ending(s) PROVE ButtonsInv'
  <2>1. s \in InFlight /\ Done(s) /\ busy' = busy \ Freed(requests[s])
    BY <1>5, EndTypes DEF Ending, EndsOne
  <2>2. \A b : Of(b)' = Of(b) \ {s}
    BY <2>1, DoneSets
  <2>3. \A b : s \in Of(b) <=> b \in Freed(requests[s])
    BY <2>1 DEF Of, Freed
  <2> SUFFICES ASSUME NEW b \in Buttons PROVE ButtonInv(b)'
    BY DEF ButtonsInv
  <2>. QED
    BY <2>1, <2>2, <2>3 DEF ButtonsInv, ButtonInv
<1>6. CASE UNCHANGED dialogsVars
  BY <1>1, <1>6 DEF dialogsVars, windows
<1>. QED
  BY <1>2, <1>3, <1>4, <1>5, <1>6, Steps

LEMMA InitRequests ==
  ASSUME DialogsInit
  PROVE  /\ InFlight \subseteq {1} /\ (\A b : Of(b) = {})
         /\ requests[1].what # "save" /\ requests[1].pc = "sent"
<1>1. /\ \A s \in Slots : s # 1 => requests[s] = NoRequest
      /\ 1 \in Slots
      /\ requests[1].what = "start" /\ requests[1].pc = "sent"
  BY DialogBoundsAssumption DEF DialogsInit, Slots, NoRequest
<1>. QED
  BY <1>1, NoRequestType DEF InFlight, Of

\* No button sends a second request while its first is in flight, but those of
\* the settings dialogs, and none is disabled without one.
THEOREM OneRequest == DialogsSpec => []OneRequestAtATime
<1>1. ButtonsInv => OneRequestAtATime
  <2> SUFFICES ASSUME ButtonsInv, NEW b \in Buttons \ Forms PROVE Cardinality(Of(b)) <= 1
    BY DEF ButtonsInv, ButtonInv, OneRequestAtATime
  <2>1. Of(b) = {} \/ \E s : Of(b) = {s}
    BY DEF ButtonsInv, ButtonInv
  <2>2. CASE Of(b) = {}
    BY <2>2, FS_EmptySet
  <2>3. ASSUME NEW s, Of(b) = {s} PROVE Cardinality(Of(b)) = 1
    BY <2>3, FS_Singleton
  <2>. QED
    BY <2>1, <2>2, <2>3
<1>2. DialogsInit => ButtonsInv
  BY InitRequests DEF DialogsInit, ButtonsInv, ButtonInv
<1>. QED
  BY <1>1, <1>2, InitTypes, TypeStep, ButtonsStep, PTL DEF DialogsSpec

-----------------------------------------------------------------------------
(* The alert settings in force *)

\* A save without a rival is alone, a load without one is not beside a save;
\* and once such a request has been served, it carries what is stored.
UnrivaledInv(s) ==
  ~requests[s].rival =>
    /\ IF requests[s].what = "save" THEN AboutAlerts = {s} ELSE Saves("alerts") = {}
    /\ requests[s].pc # "sent" => requests[s].value = stored["alerts"]

SettingsInv ==
  /\ \A s \in AboutAlerts : UnrivaledInv(s)
  /\ \A s \in Slots : requests[s].pc = "reload" => requests[s].for \notin Forms
  /\ SettingsInForce

LEMMA SavesAreAboutAlerts ==
  /\ Saves("alerts") \subseteq AboutAlerts /\ AboutAlerts \subseteq Slots
  /\ \A s \in AboutAlerts : s \in Saves("alerts") <=> requests[s].what = "save"
BY DEF Saves, Of, AboutAlerts, InFlight

LEMMA SendingKeepsSettings ==
  ASSUME DialogsTypeOK, RequestsOK, SettingsInv, SendsOne
  PROVE  SettingsInv'
<1>1. PICK r \in Request :
        /\ r.what \in {"load", "save"} /\ r.pc = "sent" /\ Sends(r)
        /\ UNCHANGED <<stored, form, settings, doubt>>
  BY DEF SendsOne
<1>2. PICK slot \in Slots, marked \in SUBSET Slots :
        /\ requests[slot].what = "none" /\ requests' = WithRequest(r, slot, marked)
        /\ r.for = "alerts" =>
             IF r.what = "save"
             THEN AboutAlerts \subseteq marked /\ (AboutAlerts # {} => slot \in marked)
             ELSE Saves("alerts") \subseteq marked /\ (Saves("alerts") # {} => slot \in marked)
  BY <1>1 DEF Sends
<1>3. /\ AboutAlerts' = IF r.for = "alerts" THEN AboutAlerts \cup {slot} ELSE AboutAlerts
      /\ Saves("alerts")' = IF r.for = "alerts" /\ r.what = "save"
                           THEN Saves("alerts") \cup {slot} ELSE Saves("alerts")
      /\ slot \notin InFlight
  BY <1>1, <1>2, SentSets
<1>4. \A s \in Slots : LET old == IF s = slot THEN r ELSE requests[s] IN
        /\ requests'[s].what = old.what /\ requests'[s].for = old.for
        /\ requests'[s].pc = old.pc /\ requests'[s].value = old.value
        /\ s = slot => requests'[s].rival = (slot \in marked)
        /\ s # slot => requests'[s].rival = (requests[s].rival \/ s \in marked)
  BY <1>1, <1>2, SentRequests
<1>5. /\ requests'[slot].what = r.what /\ requests'[slot].pc = "sent"
      /\ requests'[slot].rival = (slot \in marked)
      /\ \A s \in Slots : s # slot =>
           /\ requests'[s].what = requests[s].what /\ requests'[s].pc = requests[s].pc
           /\ requests'[s].for = requests[s].for /\ requests'[s].value = requests[s].value
           /\ requests'[s].rival = (requests[s].rival \/ s \in marked)
  BY <1>1, <1>4
<1>6. slot \notin AboutAlerts
  BY <1>3 DEF AboutAlerts
<1>7. ASSUME NEW s \in AboutAlerts' PROVE UnrivaledInv(s)'
  <2>1. CASE s = slot
    <3>1. r.for = "alerts"
      BY <1>3, <1>6, <1>7, <2>1
    <3>2. CASE r.what = "save"
      BY <1>2, <1>3, <1>5, <2>1, <3>1, <3>2 DEF UnrivaledInv
    <3>3. CASE r.what = "load"
      BY <1>2, <1>3, <1>5, <2>1, <3>1, <3>3 DEF UnrivaledInv
    <3>. QED
      BY <1>1, <3>2, <3>3
  <2>2. CASE s # slot
    <3>1. s \in AboutAlerts /\ s \in Slots
      BY <1>3, <1>7, <2>2, SavesAreAboutAlerts
    <3>2. UnrivaledInv(s)
      BY <3>1 DEF SettingsInv
    <3> SUFFICES ASSUME ~requests'[s].rival PROVE UnrivaledInv(s)'
      BY DEF UnrivaledInv
    <3>3. ~requests[s].rival /\ s \notin marked
      BY <1>5, <2>2, <3>1
    <3>4. requests'[s].pc # "sent" => requests'[s].value = stored'["alerts"]
      BY <1>1, <1>5, <2>2, <3>1, <3>2, <3>3 DEF UnrivaledInv
    <3>5. AboutAlerts = {s} /\ requests[s].what = "save" => s \in Saves("alerts")
      BY <3>1, SavesAreAboutAlerts
    <3>6. CASE r.for = "alerts"
      BY <1>1, <1>2, <1>3, <1>5, <2>2, <3>1, <3>2, <3>3, <3>4, <3>5, <3>6 DEF UnrivaledInv
    <3>7. CASE r.for # "alerts"
      <4>1. AboutAlerts' = AboutAlerts /\ Saves("alerts")' = Saves("alerts")
        BY <1>3, <3>7
      <4>. QED
        BY <1>5, <2>2, <3>1, <3>2, <3>3, <3>4, <4>1 DEF UnrivaledInv
    <3>. QED
      BY <3>6, <3>7
  <2>. QED
    BY <2>1, <2>2
<1>8. ASSUME NEW s \in Slots, requests'[s].pc = "reload" PROVE requests'[s].for \notin Forms
  <2>1. s # slot
    BY <1>5, <1>8
  <2>. QED
    BY <1>5, <1>8, <2>1 DEF SettingsInv
<1>9. SettingsInForce'
  <2>1. Saves("alerts")' = {} => Saves("alerts") = {}
    BY <1>3
  <2>. QED
    BY <1>1, <2>1 DEF SettingsInv, SettingsInForce
<1>. QED
  BY <1>7, <1>8, <1>9 DEF SettingsInv

LEMMA ServingKeepsSettings ==
  ASSUME DialogsTypeOK, RequestsOK, SettingsInv, NEW s \in Slots, Serve(s)
  PROVE  SettingsInv'
<1> DEFINE r == requests[s]
           value == IF r.for \in Forms /\ r.what # "save" THEN stored[r.for] ELSE r.value
<1>1. /\ r \in Request /\ s \in InFlight
      /\ requests' = [requests EXCEPT ![s].pc = "answered", ![s].value = value]
      /\ stored' = IF r.for \in Forms /\ r.what = "save" THEN [stored EXCEPT ![r.for] = r.value]
                                                         ELSE stored
      /\ settings' = settings /\ doubt' = doubt
  BY DEF Serve, windows, RequestsOK
<1>2. value \in Contents
  BY <1>1 DEF DialogsTypeOK, Request
<1>3. DOMAIN stored = Forms /\ "alerts" \in Forms
  BY DEF DialogsTypeOK, Forms
<1>4. s \in AboutAlerts => value = stored'["alerts"]
  <2> SUFFICES ASSUME s \in AboutAlerts PROVE value = stored'["alerts"]
    OBVIOUS
  <2>1. r.for = "alerts"
    BY DEF AboutAlerts
  <2>. QED
    BY <1>1, <1>3, <2>1
<1>5. stored'["alerts"] = stored["alerts"] \/ s \in Saves("alerts")
  BY <1>1, <1>3 DEF Saves, Of, Forms
<1> HIDE DEF value
<1>6. /\ \A t \in Slots :
           /\ requests'[t].what = requests[t].what /\ requests'[t].for = requests[t].for
           /\ requests'[t].rival = requests[t].rival
           /\ t # s => requests'[t] = requests[t]
      /\ requests'[s].pc = "answered" /\ requests'[s].value = value
  <2>1. requests' = [requests EXCEPT ![s].pc = "answered", ![s].value = value]
    BY <1>1
  <2>2. /\ requests'[s] = [r EXCEPT !.pc = "answered", !.value = value]
        /\ \A t \in Slots \ {s} : requests'[t] = requests[t]
    BY <2>1 DEF RequestsOK
  <2>3. r \in Request
    BY <1>1
  <2>. HIDE DEF r
  <2>4. /\ requests'[s].what = r.what /\ requests'[s].for = r.for /\ requests'[s].rival = r.rival
        /\ requests'[s].pc = "answered" /\ requests'[s].value = value
    BY <2>2, <2>3 DEF Request
  <2>. QED
    BY <2>2, <2>4 DEF r
<1>7. AboutAlerts' = AboutAlerts /\ Saves("alerts")' = Saves("alerts")
  BY <1>1, <1>2, GoneOnSets DEF GoesOn
<1>8. ASSUME NEW t \in AboutAlerts, ~requests'[t].rival PROVE UnrivaledInv(t)'
  <2>1. t \in Slots /\ UnrivaledInv(t) /\ ~requests[t].rival
    BY <1>6, <1>8, SavesAreAboutAlerts DEF SettingsInv
  <2>2. CASE t = s
    BY <1>4, <1>6, <1>7, <2>1, <2>2 DEF UnrivaledInv
  <2>3. CASE t # s
    <3>1. s \notin Saves("alerts")
      BY <2>1, <2>3, SavesAreAboutAlerts DEF UnrivaledInv
    <3>. QED
      BY <1>5, <1>6, <1>7, <2>1, <2>3, <3>1 DEF UnrivaledInv
  <2>. QED
    BY <2>2, <2>3
<1>9. \A t \in AboutAlerts' : UnrivaledInv(t)'
  BY <1>7, <1>8 DEF UnrivaledInv
<1>10. \A t \in Slots : requests'[t].pc = "reload" => requests'[t].for \notin Forms
  BY <1>6 DEF SettingsInv
<1>11. SettingsInForce'
  BY <1>1, <1>5, <1>7 DEF SettingsInv, SettingsInForce
<1>. QED
  BY <1>9, <1>10, <1>11 DEF SettingsInv

LEMMA ReloadingKeepsSettings ==
  ASSUME DialogsTypeOK, RequestsOK, SettingsInv, NEW s \in Slots, TakeEdit(s) \/ TakeCreated(s)
  PROVE  SettingsInv'
<1>1. /\ GoesOn(s) /\ UNCHANGED <<settings, doubt, stored>>
  BY ReloadTypes DEF GoesOnOne
<1>2. requests[s].for \notin Forms
  BY DEF TakeEdit, TakeCreated, OnDevice, Forms
<1>3. /\ \A t \in Slots : t # s => requests'[t] = requests[t]
      /\ requests'[s].for = requests[s].for
  BY <1>1, GoneOnRequests DEF GoesOn
<1>4. AboutAlerts' = AboutAlerts /\ Saves("alerts")' = Saves("alerts")
  BY <1>1, GoneOnSets
<1>5. \A t \in AboutAlerts : t \in Slots /\ t # s
  BY <1>2 DEF AboutAlerts, InFlight, Forms
<1>6. \A t \in AboutAlerts' : UnrivaledInv(t)'
  BY <1>1, <1>3, <1>4, <1>5 DEF SettingsInv, UnrivaledInv
<1>7. \A t \in Slots : requests'[t].pc = "reload" => requests'[t].for \notin Forms
  BY <1>2, <1>3 DEF SettingsInv
<1>. QED
  BY <1>1, <1>4, <1>6, <1>7 DEF SettingsInv, SettingsInForce

LEMMA EndingKeepsSettings ==
  ASSUME DialogsTypeOK, RequestsOK, SettingsInv, NEW s \in Slots, Ending(s)
  PROVE  SettingsInv'
<1>1. s \in InFlight /\ Done(s) /\ stored' = stored
  BY EndTypes DEF Ending, EndsOne
<1>2. AboutAlerts' = AboutAlerts \ {s} /\ Saves("alerts")' = Saves("alerts") \ {s}
  BY <1>1, DoneSets
<1>3. requests'[s] = NoRequest /\ \A t \in Slots : t # s => requests'[t] = requests[t]
  BY <1>1, DoneRequests
<1>4. ASSUME NEW t \in AboutAlerts' PROVE UnrivaledInv(t)'
  <2>1. t \in AboutAlerts /\ t # s /\ requests'[t] = requests[t] /\ UnrivaledInv(t)
    BY <1>2, <1>3, <1>4, SavesAreAboutAlerts DEF SettingsInv
  <2>2. s \notin AboutAlerts => s \notin Saves("alerts")
    BY SavesAreAboutAlerts
  <2>. QED
    BY <1>1, <1>2, <2>1, <2>2 DEF UnrivaledInv
<1>5. \A t \in Slots : requests'[t].pc = "reload" => requests'[t].for \notin Forms
  BY <1>3, NoRequestType DEF SettingsInv
<1>6. SettingsInForce'
  <2> SUFFICES ASSUME ~doubt', Saves("alerts")' = {} PROVE settings' = stored["alerts"]
    BY <1>1 DEF SettingsInForce
  <2>1. CASE s \in AboutAlerts
    <3>1. requests[s].for = "alerts" /\ UnrivaledInv(s)
      BY <2>1 DEF AboutAlerts, SettingsInv
    <3>2. CASE TakeSettings(s)
      <4>1. settings' = requests[s].value /\ ~requests[s].rival /\ requests[s].pc = "answered"
        BY <3>1, <3>2 DEF TakeSettings, InForce
      <4>. QED
        BY <3>1, <4>1 DEF UnrivaledInv
    <3>3. CASE Fail(s)
      <4>1. settings' = settings /\ ~doubt /\ requests[s].what # "save"
        BY <3>1, <3>3 DEF Fail
      <4>2. Saves("alerts") = {}
        BY <1>2, <2>1, <4>1, SavesAreAboutAlerts
      <4>. QED
        BY <4>1, <4>2 DEF SettingsInv, SettingsInForce
    <3>4. ~TakeTestEmail(s) /\ ~Reloaded(s)
      BY <1>1, <3>1 DEF TakeTestEmail, Reloaded, SettingsInv, InFlight, Forms
    <3>. QED
      BY <3>2, <3>3, <3>4 DEF Ending
  <2>2. CASE s \notin AboutAlerts
    <3>1. requests[s].for # "alerts" /\ s \notin Saves("alerts")
      BY <1>1, <2>2, SavesAreAboutAlerts DEF AboutAlerts
    <3>2. settings' = settings /\ doubt' = doubt
      BY <3>1 DEF Ending, TakeSettings, InForce, TakeTestEmail, Reloaded, Fail, DialogsTypeOK
    <3>. QED
      BY <1>2, <3>1, <3>2 DEF SettingsInv, SettingsInForce
  <2>. QED
    BY <2>1, <2>2
<1>. QED
  BY <1>4, <1>5, <1>6 DEF SettingsInv

LEMMA SettingsStep ==
  DialogsTypeOK /\ RequestsOK /\ SettingsInv /\ [DialogsNext]_dialogsVars => SettingsInv'
<1> SUFFICES ASSUME DialogsTypeOK, RequestsOK, SettingsInv, [DialogsNext]_dialogsVars
             PROVE  SettingsInv'
  OBVIOUS
<1>1. ASSUME UNCHANGED <<stored, settings, doubt, requests>> PROVE SettingsInv'
  BY <1>1 DEF SettingsInv, SettingsInForce, UnrivaledInv, AboutAlerts, Saves, Of, InFlight
<1>2. CASE Quiet
  BY <1>1, <1>2 DEF Quiet, Close, Escape, OpenAdd, OpenOnDevice, Type
<1>3. CASE Sending
  BY <1>3, SendingTypes, SendingKeepsSettings DEF Sending
<1>4. ASSUME NEW s \in Slots, Going(s) PROVE SettingsInv'
  BY <1>4, ServingKeepsSettings, ReloadingKeepsSettings DEF Going
<1>5. ASSUME NEW s \in Slots, Ending(s) PROVE SettingsInv'
  BY <1>5, EndingKeepsSettings
<1>6. CASE UNCHANGED dialogsVars
  BY <1>1, <1>6 DEF dialogsVars, windows
<1>. QED
  BY <1>2, <1>3, <1>4, <1>5, <1>6, Steps

\* The page judges by the settings stored, whichever loads and saves are sent,
\* answered or lost, and however many are in flight.
THEOREM SettingsAreInForce == DialogsSpec => []SettingsInForce
<1>1. DialogsInit => SettingsInv
  <2> SUFFICES ASSUME DialogsInit PROVE SettingsInv
    OBVIOUS
  <2>1. /\ InFlight \subseteq {1} /\ (\A b : Of(b) = {})
        /\ requests[1].what # "save" /\ requests[1].pc = "sent"
    BY InitRequests
  <2>2. \A s \in Slots : requests[s].pc = "sent"
    BY <2>1, NoRequestType DEF DialogsInit
  <2>3. \A s \in AboutAlerts : UnrivaledInv(s)
    BY <2>1 DEF AboutAlerts, UnrivaledInv, Saves
  <2>. QED
    BY <2>2, <2>3 DEF SettingsInv, SettingsInForce, DialogsInit
<1>2. SettingsInv => SettingsInForce
  BY DEF SettingsInv
<1>. QED
  BY <1>1, <1>2, InitTypes, TypeStep, SettingsStep, PTL DEF DialogsSpec

-----------------------------------------------------------------------------
(* What is typed *)

\* All that is in flight for a form that has been typed into is a save of what
\* it shows.
TypedInv == \A f \in typed : \A s \in Of(f) :
  requests[s].what = "save" /\ requests[s].value = form[f]

LEMMA OfSlots == \A b : \A s \in Of(b) : s \in Slots /\ requests[s].for = b
BY DEF Of, InFlight

LEMMA SendingKeepsTyped ==
  ASSUME DialogsTypeOK, RequestsOK, TypedInv, SendsOne
  PROVE  TypedInv' /\ form' = form
<1>1. PICK r \in Request :
        /\ r.what \in {"load", "save"} /\ Sends(r) /\ form' = form
        /\ r.for \in Forms => \/ r.what = "save" /\ r.value = form[r.for] /\ typed' = typed
                              \/ r.what = "load" /\ typed' = typed \ {r.for}
        /\ r.for \notin Forms => typed' = typed
  BY DEF SendsOne
<1>2. PICK slot \in Slots, marked \in SUBSET Slots :
        requests[slot].what = "none" /\ requests' = WithRequest(r, slot, marked)
  BY <1>1 DEF Sends
<1>3. \A b : Of(b)' = IF b = r.for THEN Of(b) \cup {slot} ELSE Of(b)
  BY <1>1, <1>2, SentSets
<1>4. \A s \in Slots : LET old == IF s = slot THEN r ELSE requests[s] IN
        requests'[s].what = old.what /\ requests'[s].value = old.value
  BY <1>1, <1>2, SentRequests
<1>5. /\ requests'[slot].what = r.what /\ requests'[slot].value = r.value
      /\ \A s \in Slots : s # slot =>
           requests'[s].what = requests[s].what /\ requests'[s].value = requests[s].value
  BY <1>4
<1>6. ASSUME NEW f \in typed', NEW s \in Of(f)'
      PROVE  requests'[s].what = "save" /\ requests'[s].value = form[f]
  <2>1. f \in typed /\ f \in Forms
    BY <1>1, <1>6 DEF DialogsTypeOK
  <2>2. CASE s = slot
    <3>1. slot \notin Of(f)
      BY <1>2 DEF Of, InFlight
    <3>2. f = r.for
      BY <1>3, <1>6, <2>2, <3>1
    <3>. QED
      BY <1>1, <1>5, <1>6, <2>1, <2>2, <3>2
  <2>3. CASE s # slot
    <3>1. s \in Of(f) /\ s \in Slots
      BY <1>3, <1>6, <2>3, OfSlots
    <3>. QED
      BY <1>5, <2>1, <2>3, <3>1 DEF TypedInv
  <2>. QED
    BY <2>2, <2>3
<1>. QED
  BY <1>1, <1>6 DEF TypedInv

LEMMA GoingKeepsTyped ==
  ASSUME DialogsTypeOK, RequestsOK, TypedInv, NEW s \in Slots, Going(s)
  PROVE  TypedInv' /\ form' = form
<1>1. GoesOn(s) /\ form' = form /\ typed' = typed
  BY ServeTypes, ReloadTypes DEF Going, GoesOnOne
<1>2. \A b : Of(b)' = Of(b)
  BY <1>1, GoneOnSets
<1>3. \A t \in Slots : requests'[t].what = requests[t].what /\ (t # s => requests'[t] = requests[t])
  BY <1>1, GoneOnRequests DEF GoesOn
<1>4. ASSUME NEW f \in typed, s \in Of(f), requests[s].what = "save"
      PROVE  requests'[s].value = requests[s].value
  <2>1. f \in Forms /\ requests[s].for = f
    BY <1>4, OfSlots DEF DialogsTypeOK
  <2>2. Serve(s)
    BY <2>1 DEF Going, TakeEdit, TakeCreated, OnDevice, Forms
  <2>3. requests' = [requests EXCEPT ![s].pc = "answered", ![s].value = requests[s].value]
    BY <1>4, <2>2 DEF Serve
  <2>4. requests[s].value \in Contents
    BY DEF RequestsOK, Request
  <2>. QED
    BY <2>3, <2>4, GoneOnRequests
<1>. QED
  BY <1>1, <1>2, <1>3, <1>4, OfSlots DEF TypedInv

LEMMA EndingKeepsTyped ==
  ASSUME DialogsTypeOK, RequestsOK, TypedInv, NEW s \in Slots, Ending(s)
  PROVE  TypedInv' /\ \A f \in typed : form'[f] = form[f]
<1>1. s \in InFlight /\ Done(s) /\ typed' = typed
  BY EndTypes DEF Ending, EndsOne
<1>2. (\A b : Of(b)' = Of(b) \ {s}) /\ \A t \in Slots : t # s => requests'[t] = requests[t]
  BY <1>1, DoneSets, DoneRequests
<1>3. ASSUME NEW f \in typed PROVE form'[f] = form[f]
  <2>1. f \in Forms /\ DOMAIN form = Forms
    BY DEF DialogsTypeOK
  <2>2. CASE TakeSettings(s) /\ Populates(requests[s]) /\ requests[s].for = f
    <3>1. form' = [form EXCEPT ![f] = requests[s].value]
      BY <2>2 DEF TakeSettings
    <3>2. requests[s].what # "start"
      BY <2>2 DEF Populates, RequestsOK
    <3>3. s \in Of(f)
      BY <1>1, <2>2, <3>2 DEF Of
    <3>. QED
      BY <2>1, <3>1, <3>3 DEF TypedInv
  <2>3. CASE TakeSettings(s) /\ ~(Populates(requests[s]) /\ requests[s].for = f)
    BY <2>1, <2>3 DEF TakeSettings
  <2>4. CASE ~TakeSettings(s)
    BY <2>4 DEF Ending, TakeTestEmail, Reloaded, Fail
  <2>. QED
    BY <2>2, <2>3, <2>4
<1>. QED
  BY <1>1, <1>2, <1>3, OfSlots DEF TypedInv

LEMMA QuietKeepsTyped ==
  ASSUME DialogsTypeOK, TypedInv, Quiet
  PROVE  /\ TypedInv'
         /\ \A f \in typed : form'[f] = form[f] \/ \E value \in Contents : Type(f, value)
<1>1. CASE \E f \in Forms, value \in Contents : Type(f, value)
  <2>1. PICK f \in Forms, value \in Contents : Type(f, value)
    BY <1>1
  <2>2. /\ form' = [form EXCEPT ![f] = value] /\ requests' = requests
        /\ typed' = IF Of(f) = {} THEN typed \cup {f} ELSE typed \ {f}
    BY <2>1 DEF Type
  <2>3. \A b : Of(b)' = Of(b)
    BY <2>2 DEF Of, InFlight
  <2>4. \A g \in typed : g # f => form'[g] = form[g]
    BY <2>2 DEF DialogsTypeOK
  <2>5. TypedInv'
    BY <2>2, <2>3, <2>4 DEF TypedInv
  <2>. QED
    BY <2>1, <2>4, <2>5
<1>2. CASE UNCHANGED <<form, requests, typed>>
  BY <1>2 DEF TypedInv, Of, InFlight
<1>. QED
  BY <1>1, <1>2 DEF Quiet, Close, Escape, OpenAdd, OpenOnDevice

\* No answer, however late, replaces what is typed into a form that waits for
\* nothing.
THEOREM TypedTextStays == DialogsSpec => TypedTextSurvives
<1> DEFINE Survives == \A f \in typed : form'[f] = form[f] \/ \E value \in Contents : Type(f, value)
<1>1. DialogsTypeOK /\ RequestsOK /\ TypedInv /\ [DialogsNext]_dialogsVars
        => TypedInv' /\ [Survives]_dialogsVars
  <2> SUFFICES ASSUME DialogsTypeOK, RequestsOK, TypedInv, [DialogsNext]_dialogsVars
               PROVE  TypedInv' /\ [Survives]_dialogsVars
    OBVIOUS
  <2>1. CASE Quiet
    BY <2>1, QuietKeepsTyped
  <2>2. CASE Sending
    BY <2>2, SendingTypes, SendingKeepsTyped DEF Sending
  <2>3. ASSUME NEW s \in Slots, Going(s) PROVE TypedInv' /\ Survives
    BY <2>3, GoingKeepsTyped
  <2>4. ASSUME NEW s \in Slots, Ending(s) PROVE TypedInv' /\ Survives
    BY <2>4, EndingKeepsTyped
  <2>5. CASE UNCHANGED dialogsVars
    BY <2>5 DEF dialogsVars, windows, TypedInv, Of, InFlight
  <2>. QED
    BY <2>1, <2>2, <2>3, <2>4, <2>5, Steps
<1>2. DialogsInit => TypedInv
  BY DEF DialogsInit, TypedInv
<1>. QED
  BY <1>1, <1>2, InitTypes, TypeStep, PTL DEF DialogsSpec, TypedTextSurvives

-----------------------------------------------------------------------------
(* What the answers achieve *)

\* A request of a button has ended, well or not.
Answered(b) == \E s \in Of(b) : Ending(s)

\* What fairness says of the requests of a button: they are answered, refused
\* or time out, and what awaits them goes on.
AnswersCome(b) == <>[](Of(b) # {}) => []<><<Answered(b)>>_dialogsVars

LEMMA AnswerFrees ==
  ASSUME DialogsTypeOK, RequestsOK, NEW b \in Buttons, Answered(b)
  PROVE  b \notin busy'
<1>1. PICK s \in Of(b) : Ending(s)
  BY DEF Answered
<1>2. s \in Slots /\ requests[s].what # "start" /\ requests[s].for = b
  BY DEF Of, InFlight
<1>3. busy' = busy \ Freed(requests[s])
  BY <1>1, <1>2, EndTypes DEF Ending, EndsOne
<1>. QED
  BY <1>2, <1>3 DEF Freed

LEMMA OnlySendingDisables ==
  ASSUME DialogsTypeOK, RequestsOK, [DialogsNext]_dialogsVars, ~Sending
  PROVE  busy' \subseteq busy
<1>1. CASE Quiet
  BY <1>1 DEF Quiet, Close, Escape, OpenAdd, OpenOnDevice, Type
<1>2. ASSUME NEW s \in Slots, Going(s) PROVE busy' = busy
  BY <1>2, ServeTypes, ReloadTypes DEF Going, GoesOnOne
<1>3. ASSUME NEW s \in Slots, Ending(s) PROVE busy' \subseteq busy
  BY <1>3, EndTypes DEF Ending, EndsOne
<1>4. CASE UNCHANGED dialogsVars
  BY <1>4 DEF dialogsVars, windows
<1>. QED
  BY <1>1, <1>2, <1>3, <1>4, Steps

\* A button that is disabled has a request in flight, whatever was closed,
\* opened or sent meanwhile; when the answer comes, it is enabled, and nothing
\* but a request disables it again.
LEMMA ButtonComesBack ==
  ASSUME NEW b \in Buttons
  PROVE  DialogsSpec /\ <>[][~Sending]_dialogsVars /\ AnswersCome(b) => <>[](b \notin busy)
<1>. DEFINE Free == b \notin busy
            Pending == Of(b) # {}
<1>1. ButtonsInv => (~Free => Pending)
  BY DEF ButtonsInv, ButtonInv
<1>2. DialogsTypeOK /\ RequestsOK /\ Answered(b) => Free'
  BY AnswerFrees
<1>3. DialogsTypeOK /\ RequestsOK /\ [DialogsNext]_dialogsVars /\ [~Sending]_dialogsVars /\ Free => Free'
  BY OnlySendingDisables DEF dialogsVars, windows
<1>4. DialogsInit => ButtonsInv
  BY InitRequests DEF DialogsInit, ButtonsInv, ButtonInv
<1>. HIDE DEF Free, Pending
<1>5. DialogsSpec /\ <>[][~Sending]_dialogsVars
        /\ (<>[]Pending => []<><<Answered(b)>>_dialogsVars) => <>[]Free
  BY <1>1, <1>2, <1>3, <1>4, InitTypes, TypeStep, ButtonsStep, PTL DEF DialogsSpec
<1>. QED
  BY <1>5 DEF AnswersCome, Free, Pending

ComesBack(b) == <>[](b \notin busy)

\* Every button is enabled in the end, if the user stops sending requests and
\* those sent are answered in one way or another.
THEOREM ButtonsFollowAnswers ==
  DialogsSpec /\ <>[][~Sending]_dialogsVars /\ (\A b \in Buttons : AnswersCome(b)) => ButtonsComeBack
<1>. DEFINE Hopeful == DialogsSpec /\ <>[][~Sending]_dialogsVars /\ \A b \in Buttons : AnswersCome(b)
            Free(b) == b \notin busy
<1>1. ASSUME NEW b \in Buttons
      PROVE  Hopeful => ComesBack(b)
  <2>1. (\A c \in Buttons : AnswersCome(c)) => AnswersCome(b)
    OBVIOUS
  <2>. QED
    BY <2>1, ButtonComesBack DEF ComesBack
<1>. HIDE DEF Hopeful
<1>2. Hopeful => /\ ComesBack("add") /\ ComesBack("alerts") /\ ComesBack("email")
                 /\ ComesBack("edit") /\ ComesBack("delete") /\ ComesBack("test")
  BY <1>1 DEF Buttons, Dialogs, Forms, OnDevice
<1>3. DialogsTypeOK /\ Free("add") /\ Free("alerts") /\ Free("email") /\ Free("edit") /\ Free("delete")
        /\ Free("test") => busy = {}
  BY DEF DialogsTypeOK, Buttons, Dialogs, Forms, OnDevice
<1>4. Hopeful => DialogsSpec
  BY DEF Hopeful
<1>5. Hopeful => ButtonsComeBack
  BY <1>2, <1>3, <1>4, DialogsTypes, PTL DEF ButtonsComeBack, ComesBack
<1>. QED
  BY <1>5 DEF Hopeful
=============================================================================
