----------------------- MODULE ProviderSelectionProofs ----------------------
(***************************************************************************)
(* A turn is answered by the provider that is selected, with the key that  *)
(* is stored: proved of ProviderSelection for any number of requests, at   *)
(* once or not, from the page or another caller, over engine restarts and  *)
(* a keychain that may raise at any call: what it broke off half-way the   *)
(* next completed selection or change of the key puts right.  And what the *)
(* page shows, while it alone asked and nothing of its is out, is the      *)
(* engine's own kind, also where a selection was refused half-way.         *)
(***************************************************************************)
EXTENDS ProviderSelection, TLAPS

\* What a status may name.
Shown == Kinds \cup {None}

Replies == {None} \cup [ok : BOOLEAN, kind : Shown, masked : Keys \cup {None}]

Requests ==
  [n : 1..MaxRequests, op : {"put", "key", "clear", "get"}, kind : Shown,
   ack : BOOLEAN, key : Keys \cup {None}, page : BOOLEAN, reply : Replies]

\* A selection names a kind, a stored key is a key.
RequestsInv ==
  /\ requests \subseteq Requests
  /\ \A r \in requests : /\ r.op = "put" => r.kind \in Kinds
                         /\ r.op = "key" => r.key \in Keys
  /\ made \in 0..MaxRequests

\* What the registry's provider is: the instance for the kind selected, the key
\* stored now and the registry's acknowledgement.
Selected ==
  IF registry.kind = None THEN None
  ELSE ProviderFor(registry.kind, keychain, registry.acknowledged)

Providers == {None} \cup [kind : Kinds, key : Keys \cup {None}, acknowledged : BOOLEAN]

\* TurnUsesSelection alone does not survive a change of the key, because it says
\* nothing of a provider the gates do not admit.  Whatever the keychain breaks off
\* leaves the keyed kind selected, which is why the next change of the key, which
\* constructs a keyed provider again, restores the rest.
RegistryInv ==
  /\ registry \in [kind : Shown, provider : Providers, acknowledged : BOOLEAN]
  /\ keychain \in Keys \cup {None}
  /\ halfway \in BOOLEAN
  /\ ~halfway => registry.provider = Selected
  /\ halfway => registry.kind = "keyed"

Statuses == [kind : Shown, masked : Keys \cup {None}]

Forms == [kind : Shown, ack : BOOLEAN, save : {"idle", "saving", "held", "failed"}]

PageInv == (status = None \/ status \in Statuses) /\ form \in Forms

-----------------------------------------------------------------------------
\* Nothing is selected and nothing was asked at first.
LEMMA InitSelection == Init => RegistryInv /\ RequestsInv
<1> SUFFICES ASSUME Init PROVE RegistryInv /\ RequestsInv
  OBVIOUS
<1>1. RegistryInv
  BY DEF Init, RegistryInv, Selected, NoRegistry, Providers, Shown
<1>2. RequestsInv
  BY BoundsAssumption DEF Init, RequestsInv
<1> QED
  BY <1>1, <1>2

\* What the engine reports of itself fits a reply.
LEMMA PayloadFits ==
  ASSUME RegistryInv
  PROVE  StatusPayload.kind \in Shown /\ StatusPayload.masked \in Keys \cup {None}
<1>1. /\ registry.kind \in Shown /\ keychain \in Keys \cup {None}
      /\ registry.provider = None \/ registry.provider \in
                                      [kind : Kinds, key : Keys \cup {None}, acknowledged : BOOLEAN]
  BY DEF RegistryInv, Providers
<1> QED
  BY <1>1 DEF StatusPayload, NoStatus, Shown

\* What the factory constructs is an instance of a kind, or none.
LEMMA ProviderFits ==
  ASSUME NEW kind \in Kinds, NEW key \in Keys \cup {None}, NEW ack \in BOOLEAN
  PROVE  ProviderFor(kind, key, ack) \in Providers
  BY DEF ProviderFor, Providers

\* A reply changes nothing else of a request.
LEMMA ReplyKeepsRequests ==
  ASSUME RequestsInv, NEW r \in requests, NEW reply \in Replies, Reply(r, reply),
         made' = made
  PROVE  RequestsInv'
<1> DEFINE replied == [r EXCEPT !.reply = reply]
<1>1. /\ replied \in Requests
      /\ replied.op = r.op /\ replied.kind = r.kind /\ replied.key = r.key
  BY DEF RequestsInv, Requests
<1>2. requests' = (requests \ {r}) \cup {replied}
  BY DEF Reply
<1> QED
  BY <1>1, <1>2 DEF RequestsInv

\* Fewer requests are requests still.
LEMMA FewerRequests ==
  ASSUME RequestsInv, requests' \subseteq requests, made' = made
  PROVE  RequestsInv'
  BY DEF RequestsInv

\* A request that is sent fits.
LEMMA SendKeepsRequests ==
  ASSUME RequestsInv, NEW request, Send(request),
         request.op \in {"put", "key", "clear", "get"}, request.kind \in Shown,
         request.ack \in BOOLEAN, request.key \in Keys \cup {None},
         request.page \in BOOLEAN,
         request.op = "put" => request.kind \in Kinds,
         request.op = "key" => request.key \in Keys
  PROVE  RequestsInv'
<1> DEFINE sent == [n |-> made + 1, reply |-> None, op |-> request.op, kind |-> request.kind,
                    ack |-> request.ack, key |-> request.key, page |-> request.page]
<1>1. /\ sent \in Requests
      /\ sent.op = request.op /\ sent.kind = request.kind /\ sent.key = request.key
  BY BoundsAssumption DEF RequestsInv, Requests, Replies, Send
<1>2. requests' = requests \cup {sent} /\ made' = made + 1 /\ made < MaxRequests
  BY DEF Send
<1> QED
  BY <1>1, <1>2, BoundsAssumption DEF RequestsInv

\* Steps that leave the registry and the keychain alone.
LEMMA RegistryKept ==
  ASSUME RegistryInv, UNCHANGED <<registry, keychain, halfway>>
  PROVE  RegistryInv'
  BY DEF RegistryInv, Selected, ProviderFor

\* A refresh leaves a provider of the key it is given, also where one was broken
\* off before: then the kind is keyed, and the provider constructed anew.
LEMMA RefreshKeeps ==
  ASSUME RegistryInv, NEW key \in Keys \cup {None},
         keychain' = key, registry' = Refreshed(key), halfway' = FALSE
  PROVE  RegistryInv'
<1>1. CASE registry.kind = "keyed"
  <2>1. ProviderFor("keyed", key, FALSE) \in Providers
    BY ProviderFits DEF Kinds
  <2>2. registry' = [registry EXCEPT !.provider = ProviderFor("keyed", key, FALSE)]
    BY <1>1, NoneAssumption DEF Refreshed, RequiresKey, Kinds
  <2>3. ProviderFor("keyed", key, FALSE) = ProviderFor("keyed", key, registry.acknowledged)
    BY DEF ProviderFor
  <2> QED
    BY <1>1, <2>1, <2>2, <2>3, NoneAssumption DEF RegistryInv, Selected, Kinds
<1>2. CASE registry.kind # "keyed"
  <2>1. registry' = registry /\ ~halfway
    BY <1>2 DEF Refreshed, RequiresKey, RegistryInv
  <2> QED
    BY <1>2, <2>1 DEF RegistryInv, Selected, ProviderFor, RequiresKey
<1> QED
  BY <1>1, <1>2

-----------------------------------------------------------------------------
\* The engine's steps: a selection and a credential change build the provider
\* from the key stored now (ProviderRegistry.select, refresh).
LEMMA EngineStep ==
  ASSUME RegistryInv, RequestsInv, NEW r \in requests, Engine(r)
  PROVE  RegistryInv' /\ RequestsInv'
<1>1. CASE Select(r)
  <2>1. r.kind \in Kinds /\ r.ack \in BOOLEAN
    BY <1>1 DEF Select, Waiting, RequestsInv, Requests
  <2>2. RegistryInv'
    <3>1. AcknowledgedBy(r) \in BOOLEAN
      BY <2>1 DEF AcknowledgedBy, RegistryInv
    <3>2. ProviderFor(r.kind, keychain, AcknowledgedBy(r)) \in Providers
      BY <2>1, <3>1, ProviderFits DEF RegistryInv
    <3> QED
      BY <1>1, <2>1, <3>1, <3>2, NoneAssumption
      DEF Select, RegistryInv, Selected, Shown, Kinds
  <2>3. Ok(r.kind, IF RequiresKey(r.kind) THEN keychain ELSE None) \in Replies
    BY <2>1 DEF Ok, Replies, RegistryInv, Shown
  <2> QED
    BY <1>1, <2>2, <2>3, ReplyKeepsRequests DEF Select
<1>2. CASE AskDisclosure(r)
  <2>1. Ok(None, None) \in Replies
    BY DEF Ok, Replies, Shown
  <2> QED
    BY <1>2, <2>1, ReplyKeepsRequests, RegistryKept DEF AskDisclosure, history
<1>3. CASE StoreKey(r)
  <2>1. r.key \in Keys
    BY <1>3 DEF StoreKey, Waiting, RequestsInv
  <2>2. RegistryInv'
    BY <1>3, <2>1, RefreshKeeps DEF StoreKey
  <2>3. Ok(None, r.key) \in Replies
    BY <2>1 DEF Ok, Replies, Shown
  <2> QED
    BY <1>3, <2>2, <2>3, ReplyKeepsRequests DEF StoreKey
<1>4. CASE ClearKey(r)
  <2>1. RegistryInv'
    BY <1>4, RefreshKeeps DEF ClearKey
  <2>2. Ok(None, None) \in Replies
    BY DEF Ok, Replies, Shown
  <2> QED
    BY <1>4, <2>1, <2>2, ReplyKeepsRequests DEF ClearKey
<1>5. CASE NothingToClear(r)
  <2>1. Failed \in Replies
    BY DEF Failed, Replies, Shown
  <2> QED
    BY <1>5, <2>1, ReplyKeepsRequests, RegistryKept DEF NothingToClear, history
<1>6. CASE Tell(r)
  <2>1. Ok(StatusPayload.kind, StatusPayload.masked) \in Replies
    BY PayloadFits DEF Ok, Replies
  <2> QED
    BY <1>6, <2>1, ReplyKeepsRequests, RegistryKept DEF Tell, history
<1>7. Failed \in Replies
  BY DEF Failed, Replies, Shown
<1>8. CASE SelectRefused(r)
  <2>1. r.kind = "keyed" /\ registry' = [registry EXCEPT !.kind = r.kind] /\ keychain' = keychain
    BY <1>8 DEF SelectRefused, RequiresKey
  <2>2. CASE registry.kind = "keyed"
    <3>1. registry' = registry /\ halfway' = halfway
      BY <1>8, <2>1, <2>2 DEF SelectRefused, RegistryInv
    <3> QED
      BY <1>7, <1>8, <2>1, <3>1, ReplyKeepsRequests, RegistryKept DEF SelectRefused
  <2>3. CASE registry.kind # "keyed"
    <3>1. halfway' = TRUE
      BY <1>8, <2>1, <2>3 DEF SelectRefused
    <3>2. RegistryInv'
      BY <2>1, <3>1 DEF RegistryInv, Shown, Kinds
    <3> QED
      BY <1>7, <1>8, <3>2, ReplyKeepsRequests DEF SelectRefused
  <2> QED
    BY <2>2, <2>3
<1>9. CASE KeyRefused(r)
  <2>1. CASE UNCHANGED <<keychain, halfway>>
    BY <1>7, <1>9, <2>1, ReplyKeepsRequests, RegistryKept DEF KeyRefused
  <2>2. CASE /\ registry.kind = "keyed" /\ halfway' = TRUE
             /\ keychain' = IF r.op = "key" THEN r.key ELSE None
    <3>1. r.op = "key" => r.key \in Keys
      BY DEF RequestsInv
    <3>2. registry' = registry
      BY <1>9 DEF KeyRefused
    <3>3. RegistryInv'
      BY <2>2, <3>1, <3>2 DEF RegistryInv
    <3> QED
      BY <1>7, <1>9, <3>3, ReplyKeepsRequests DEF KeyRefused
  <2> QED
    BY <1>9, <2>1, <2>2 DEF KeyRefused
<1> QED
  BY <1>1, <1>2, <1>3, <1>4, <1>5, <1>6, <1>8, <1>9 DEF Engine

\* A restart forgets the selection and fails what was out.
LEMMA RestartStep ==
  ASSUME RegistryInv, RequestsInv, Restart
  PROVE  RegistryInv' /\ RequestsInv'
<1>1. RegistryInv'
  BY DEF Restart, NoRegistry, RegistryInv, Selected, Providers, Shown
<1>2. ASSUME NEW r \in requests
      PROVE  /\ [r EXCEPT !.reply = Failed] \in Requests
             /\ [r EXCEPT !.reply = Failed].op = r.op
             /\ [r EXCEPT !.reply = Failed].kind = r.kind
             /\ [r EXCEPT !.reply = Failed].key = r.key
  BY DEF RequestsInv, Requests, Replies, Failed, Shown
<1>3. \A q \in requests' : q \in requests \/ \E r \in requests : q = [r EXCEPT !.reply = Failed]
  BY DEF Restart
<1>4. ASSUME NEW q \in requests'
      PROVE  q \in Requests /\ (q.op = "put" => q.kind \in Kinds) /\ (q.op = "key" => q.key \in Keys)
  <2>1. CASE q \in requests
    BY <2>1 DEF RequestsInv
  <2>2. CASE \E r \in requests : q = [r EXCEPT !.reply = Failed]
    <3>1. PICK r \in requests : q = [r EXCEPT !.reply = Failed]
      BY <2>2
    <3>2. (r.op = "put" => r.kind \in Kinds) /\ (r.op = "key" => r.key \in Keys)
      BY DEF RequestsInv
    <3> QED
      BY <1>2, <3>1, <3>2
  <2> QED
    BY <1>3, <2>1, <2>2
<1> QED
  BY <1>1, <1>4 DEF RequestsInv, Restart

-----------------------------------------------------------------------------
\* The page's and other callers' steps read replies and send requests.
LEMMA CallerStep ==
  ASSUME RegistryInv, RequestsInv,
         Page \/ Call \/ \E r \in requests : Receive(r) \/ Saved(r) \/ Gone(r),
         PageInv
  PROVE  RegistryInv' /\ RequestsInv'
<1>1. CASE Load
  BY <1>1, SendKeepsRequests, RegistryKept DEF Load, Plain, Shown
<1>2. CASE Acknowledge \/ \E kind \in Kinds : Choose(kind)
  BY <1>2, FewerRequests, RegistryKept DEF Acknowledge, Choose, history
<1>3. CASE Save
  <2>1. Kind \in Kinds
    BY <1>3 DEF Save, Kind, ShownKind, PageInv, Statuses, Forms, Shown
  <2> QED
    BY <1>3, <2>1, SendKeepsRequests, RegistryKept DEF Save, Put, Shown
<1>4. CASE DropKey
  BY <1>4, SendKeepsRequests, RegistryKept DEF DropKey, Plain, Shown
<1>5. CASE \E key \in Keys : SaveKey(key)
  BY <1>5, SendKeepsRequests, RegistryKept DEF SaveKey, Plain, Shown
<1>6. CASE Reload
  <2>1. ASSUME NEW r \in requests
        PROVE  /\ [r EXCEPT !.page = FALSE] \in Requests
               /\ [r EXCEPT !.page = FALSE].op = r.op
               /\ [r EXCEPT !.page = FALSE].kind = r.kind
               /\ [r EXCEPT !.page = FALSE].key = r.key
               /\ r.op = "put" => r.kind \in Kinds
               /\ r.op = "key" => r.key \in Keys
    BY DEF RequestsInv, Requests
  <2>2. \A q \in requests' : \E r \in requests : q = [r EXCEPT !.page = FALSE]
    BY <1>6 DEF Reload
  <2>3. ASSUME NEW q \in requests'
        PROVE  /\ q \in Requests
               /\ q.op = "put" => q.kind \in Kinds
               /\ q.op = "key" => q.key \in Keys
    <3>1. PICK r \in requests : q = [r EXCEPT !.page = FALSE]
      BY <2>2
    <3> QED
      BY <2>1, <3>1
  <2> QED
    BY <1>6, <2>3, RegistryKept DEF Reload, RequestsInv
<1>7. CASE Call
  <2>1. CASE \E kind \in Kinds, ack \in BOOLEAN : Send(Put(kind, ack, FALSE))
    BY <1>7, <2>1, SendKeepsRequests, RegistryKept DEF Call, Put, Shown
  <2>2. CASE \E key \in Keys : Send(Plain("key", key, FALSE))
    BY <1>7, <2>2, SendKeepsRequests, RegistryKept DEF Call, Plain, Shown
  <2>3. CASE Send(Plain("clear", None, FALSE))
    BY <1>7, <2>3, SendKeepsRequests, RegistryKept DEF Call, Plain, Shown
  <2> QED
    BY <1>7, <2>1, <2>2, <2>3 DEF Call
<1>8. CASE \E r \in requests : Receive(r) \/ Saved(r) \/ Gone(r)
  <2>1. PICK r \in requests : Receive(r) \/ Saved(r) \/ Gone(r)
    BY <1>8
  <2>2. requests' \subseteq requests /\ made' = made /\ UNCHANGED <<registry, keychain, halfway>>
    BY <2>1 DEF Receive, Saved, Gone, history
  <2> QED
    BY <2>2, FewerRequests, RegistryKept
<1> QED
  BY <1>1, <1>2, <1>3, <1>4, <1>5, <1>6, <1>7, <1>8 DEF Page

\* What the page shows and what its form holds are kinds still.
LEMMA PageStep ==
  ASSUME RequestsInv, PageInv, Next
  PROVE  PageInv'
<1>1. CASE Page
  <2>1. CASE Load \/ Save \/ DropKey \/ \E key \in Keys : SaveKey(key)
    BY <2>1 DEF Load, Save, DropKey, SaveKey, PageInv, Forms, Statuses, Kind, ShownKind, Shown
  <2>2. CASE Acknowledge \/ \E kind \in Kinds : Choose(kind)
    BY <2>2 DEF Acknowledge, Choose, PageInv, Forms, Shown
  <2>3. CASE Reload
    BY <2>3 DEF Reload, PageInv, Forms, NoForm, Shown
  <2> QED
    BY <1>1, <2>1, <2>2, <2>3 DEF Page
<1>2. CASE Call \/ Restart \/ \E r \in requests : Engine(r) \/ Gone(r)
  BY <1>2 DEF Call, Restart, Engine, Gone, Select, AskDisclosure, SelectRefused, StoreKey,
              ClearKey, NothingToClear, KeyRefused, Tell, PageInv
<1>3. ASSUME NEW r \in requests, Receive(r) \/ Saved(r)
      PROVE  PageInv'
  <2>1. r.reply \in Replies
    BY DEF RequestsInv, Requests
  <2>2. r.reply # None
    BY <1>3 DEF Receive, Saved
  <2>3. StatusAfter(r) = None \/ StatusAfter(r) \in Statuses
    BY <2>1, <2>2 DEF StatusAfter, Statuses, Replies, PageInv
  <2>4. status' = StatusAfter(r)
    BY <1>3 DEF Receive, Saved
  <2>5. \/ form' \in {form, NoForm}
        \/ form' \in {[form EXCEPT !.save = "failed"], [form EXCEPT !.save = "held"]}
    BY <1>3 DEF Receive, Saved
  <2>6. form \in Forms
    BY DEF PageInv
  <2>7. NoForm \in Forms
    BY DEF Forms, NoForm, Shown
  <2>8. [form EXCEPT !.save = "failed"] \in Forms
    BY <2>6 DEF Forms
  <2>9. [form EXCEPT !.save = "held"] \in Forms
    BY <2>6 DEF Forms
  <2>10. form' \in Forms
    BY <2>5, <2>6, <2>7, <2>8, <2>9
  <2> QED
    BY <2>3, <2>4, <2>10 DEF PageInv
<1> QED
  BY <1>1, <1>2, <1>3 DEF Next

-----------------------------------------------------------------------------
SelectionInv == RegistryInv /\ RequestsInv /\ PageInv

\* The invariant holds whatever the keychain refuses.
THEOREM SelectionInvariant ==
  Spec => []SelectionInv
<1>1. Init => SelectionInv
  BY InitSelection DEF SelectionInv, Init, PageInv, Forms, NoForm, Shown
<1>2. ASSUME SelectionInv, [Next]_vars
      PROVE  SelectionInv'
  <2> USE DEF SelectionInv
  <2>1. CASE \E r \in requests : Engine(r)
    BY <1>2, <2>1, EngineStep, PageStep DEF Next
  <2>2. CASE Restart
    BY <1>2, <2>2, RestartStep, PageStep DEF Next
  <2>3. CASE Page \/ Call \/ \E r \in requests : Receive(r) \/ Saved(r) \/ Gone(r)
    BY <1>2, <2>3, CallerStep, PageStep DEF Next
  <2>4. CASE UNCHANGED vars
    BY <1>2, <2>4, RegistryKept, FewerRequests DEF vars, PageInv
  <2> QED
    BY <1>2, <2>1, <2>2, <2>3, <2>4 DEF Next
<1> QED
  BY <1>1, <1>2, PTL DEF Spec

\* 6.3 and 10.8 for every history of requests: a turn the gates admit is bound to
\* the selected kind's instance, a keyed one holding the key stored now, the
\* shared one open (ProviderRegistry.binding).
THEOREM BoundToSelection ==
  Spec => []TurnUsesSelection
<1>1. SelectionInv => TurnUsesSelection
  BY NoneAssumption
  DEF SelectionInv, RegistryInv, Selected, ProviderFor, TurnUsesSelection, Admits,
      RequiresKey, Shown, Kinds
<1> QED
  BY <1>1, SelectionInvariant, PTL

-----------------------------------------------------------------------------
(* What the page shows.                                                    *)

\* What the page shows is the engine's kind, or none.
ShownOK == ShownKind \in {None, StatusPayload.kind}

\* While this page alone asked, one thing at a time, what is out is one request
\* of its own; its reply brings the engine's kind or none, and until an accepted
\* one is read the page shows no other.
ShownInv ==
  serial =>
    /\ \A r \in requests : r.page /\ requests = {r}
    /\ \A r \in requests :
         IF r.reply # None /\ r.reply.ok
           THEN r.reply.kind \in {None, StatusPayload.kind}
           ELSE ShownOK
    /\ requests = {} => ShownOK

\* A provider that is not constructed is a keyed one, and nothing is constructed
\* before a selection.
LEMMA NotConstructed ==
  ASSUME RegistryInv, registry.provider = None \/ registry.kind = None
  PROVE  (registry.kind \in {None, "keyed"} /\ registry.provider = None) \/ registry.kind = "keyed"
<1>1. CASE halfway
  BY <1>1 DEF RegistryInv
<1>2. CASE ~halfway
  <2>1. registry.provider = Selected /\ registry.kind \in Kinds \cup {None}
        /\ keychain \in Keys \cup {None} /\ registry.acknowledged \in BOOLEAN
    BY <1>2 DEF RegistryInv, Shown
  <2>2. CASE registry.kind = None
    BY <2>1, <2>2 DEF Selected
  <2>3. CASE registry.kind # None
    <3>1. registry.provider = ProviderFor(registry.kind, keychain, registry.acknowledged)
          /\ registry.kind \in Kinds
      BY <2>1, <2>3 DEF Selected
    <3>2. ASSUME registry.kind # "keyed" PROVE registry.provider # None
      <4>1. registry.provider \in [kind : Kinds, key : Keys \cup {None}, acknowledged : BOOLEAN]
        BY <2>1, <3>1, <3>2 DEF ProviderFor, RequiresKey
      <4> QED
        BY <4>1, NoneAssumption
    <3> QED
      BY <2>3, <3>2
  <2> QED
    BY <2>2, <2>3
<1> QED
  BY <1>1, <1>2

\* The one request that is out gets its reply.
LEMMA RepliedShown ==
  ASSUME RequestsInv, NEW r \in requests, NEW reply \in Replies, Reply(r, reply),
         reply # None, r.page, requests = {r},
         IF reply.ok THEN reply.kind \in {None, StatusPayload.kind'} ELSE ShownOK'
  PROVE  ShownInv'
<1>1. PICK q : q = [r EXCEPT !.reply = reply]
  OBVIOUS
<1>2. requests' = {q}
  BY <1>1 DEF Reply
<1>3. q.page /\ q.reply = reply
  BY <1>1 DEF RequestsInv, Requests
<1> QED
  BY <1>2, <1>3 DEF ShownInv

\* The engine's steps.
LEMMA EngineShown ==
  ASSUME RegistryInv, RequestsInv, ShownInv, NEW r \in requests, Engine(r)
  PROVE  ShownInv'
<1>1. SUFFICES ASSUME serial PROVE ShownInv'
  <2>1. serial' = serial
    BY DEF Engine, Select, AskDisclosure, SelectRefused, StoreKey, ClearKey, NothingToClear,
           KeyRefused, Tell, history
  <2> QED
    BY <2>1 DEF ShownInv
<1>2. /\ r.reply = None /\ r.page /\ requests = {r} /\ ShownOK
      /\ UNCHANGED <<status, serial>>
  <2>1. r.reply = None /\ UNCHANGED <<status, serial>>
    BY DEF Engine, Select, AskDisclosure, SelectRefused, StoreKey, ClearKey, NothingToClear,
           KeyRefused, Tell, history, Waiting
  <2>2. r.page /\ requests = {r}
    BY <1>1 DEF ShownInv
  <2>3. ShownOK
    BY <1>1, <2>1 DEF ShownInv
  <2> QED
    BY <2>1, <2>2, <2>3
<1>3. ShownKind' = ShownKind
  BY <1>2 DEF ShownKind
<1>4. /\ Failed \in Replies /\ Failed # None /\ ~Failed.ok
      /\ \A kind \in Kinds \cup {None}, masked \in Keys \cup {None} :
           /\ Ok(kind, masked) \in Replies /\ Ok(kind, masked) # None
           /\ Ok(kind, masked).ok /\ Ok(kind, masked).kind = kind
  <2>1. Failed \in [ok : BOOLEAN, kind : Kinds \cup {None}, masked : Keys \cup {None}]
        /\ ~Failed.ok
    BY DEF Failed
  <2>2. ASSUME NEW kind \in Kinds \cup {None}, NEW masked \in Keys \cup {None}
        PROVE  /\ Ok(kind, masked)
                    \in [ok : BOOLEAN, kind : Kinds \cup {None}, masked : Keys \cup {None}]
               /\ Ok(kind, masked).ok /\ Ok(kind, masked).kind = kind
    BY DEF Ok
  <2> QED
    BY <2>1, <2>2, NoneAssumption DEF Replies, Shown
<1>5. keychain \in Keys \cup {None}
  BY DEF RegistryInv
<1>6. CASE Select(r)
  <2>1. r.kind \in Kinds /\ AcknowledgedBy(r) \in BOOLEAN
    BY <1>6 DEF Select, Waiting, RequestsInv, Requests, AcknowledgedBy, RegistryInv
  <2>2. PICK provider : provider = ProviderFor(r.kind, keychain, AcknowledgedBy(r))
    OBVIOUS
  <2>3. provider # None => provider.kind = r.kind
    BY <2>2 DEF ProviderFor
  <2>4. registry' = [kind |-> r.kind, acknowledged |-> AcknowledgedBy(r), provider |-> provider]
    BY <1>6, <2>2 DEF Select
  <2>5. StatusPayload.kind' = r.kind
    BY <2>1, <2>3, <2>4, NoneAssumption DEF StatusPayload, NoStatus, Kinds
  <2>6. PICK masked \in Keys \cup {None} : Reply(r, Ok(r.kind, masked))
    BY <1>5, <1>6 DEF Select
  <2> QED
    BY <1>2, <1>4, <2>1, <2>5, <2>6, RepliedShown
<1>7. CASE AskDisclosure(r) \/ ClearKey(r)
  BY <1>2, <1>4, <1>7, RepliedShown DEF AskDisclosure, ClearKey
<1>8. CASE StoreKey(r)
  <2>1. r.key \in Keys
    BY <1>8 DEF StoreKey, Waiting, RequestsInv
  <2> QED
    BY <1>2, <1>4, <1>8, <2>1, RepliedShown DEF StoreKey
<1>9. CASE NothingToClear(r) \/ KeyRefused(r)
  <2>1. registry' = registry /\ Reply(r, Failed)
    BY <1>9 DEF NothingToClear, KeyRefused
  <2>2. StatusPayload.kind' = StatusPayload.kind
    BY <2>1 DEF StatusPayload, NoStatus
  <2> QED
    BY <1>2, <1>3, <1>4, <2>1, <2>2, RepliedShown DEF ShownOK
<1>10. CASE SelectRefused(r)
  <2>1. registry' = [registry EXCEPT !.kind = "keyed"] /\ Reply(r, Failed)
    BY <1>10 DEF SelectRefused, RequiresKey
  <2>2. registry'.kind = "keyed" /\ registry'.provider = registry.provider
    BY <2>1 DEF RegistryInv
  <2>3. StatusPayload.kind' = StatusPayload.kind \/ StatusPayload.kind = None
    <3>1. CASE registry.kind = None
      BY <3>1 DEF StatusPayload, NoStatus
    <3>2. CASE registry.kind # None /\ registry.provider = None
      <4>1. registry.kind = "keyed"
        BY <3>2, NotConstructed
      <4> QED
        BY <2>2, <3>2, <4>1 DEF StatusPayload, NoStatus
    <3>3. CASE registry.kind # None /\ registry.provider # None
      <4>1. registry'.kind # None
        BY <2>2, NoneAssumption DEF Kinds
      <4> QED
        BY <2>2, <3>3, <4>1 DEF StatusPayload
    <3> QED
      BY <3>1, <3>2, <3>3
  <2>4. ShownOK'
    BY <1>2, <1>3, <2>3 DEF ShownOK
  <2> QED
    BY <1>2, <1>4, <2>1, <2>4, RepliedShown
<1>11. CASE Tell(r)
  <2>1. StatusPayload.kind \in Kinds \cup {None} /\ StatusPayload.masked \in Keys \cup {None}
    BY PayloadFits DEF Shown
  <2>2. StatusPayload.kind' = StatusPayload.kind
    BY <1>11 DEF Tell, StatusPayload, NoStatus
  <2>3. Reply(r, Ok(StatusPayload.kind, StatusPayload.masked))
    BY <1>11 DEF Tell
  <2> QED
    BY <1>2, <1>4, <2>1, <2>2, <2>3, RepliedShown
<1> QED
  BY <1>6, <1>7, <1>8, <1>9, <1>10, <1>11 DEF Engine

\* A request that is sent is the only one, or the page no longer asks serially.
LEMMA SendShown ==
  ASSUME ShownInv, NEW request, Send(request), UNCHANGED <<registry, keychain, status>>
  PROVE  ShownInv'
<1>1. StatusPayload.kind' = StatusPayload.kind /\ ShownKind' = ShownKind
  BY DEF StatusPayload, ShownKind
<1>2. SUFFICES ASSUME serial' PROVE ShownInv'
  BY DEF ShownInv
<1>3. serial /\ request.page /\ requests = {}
  BY <1>2 DEF Send
<1>4. PICK q : q = [n |-> made + 1, reply |-> None, op |-> request.op, kind |-> request.kind,
                    ack |-> request.ack, key |-> request.key, page |-> request.page]
  OBVIOUS
<1>5. requests' = {q} /\ q.page /\ q.reply = None
  BY <1>3, <1>4 DEF Send
<1>6. ShownOK'
  BY <1>1, <1>3 DEF ShownInv, ShownOK
<1> QED
  BY <1>5, <1>6 DEF ShownInv

\* Every step keeps it.
LEMMA ShownStep ==
  ASSUME SelectionInv, ShownInv, [Next]_vars
  PROVE  ShownInv'
<1> USE DEF SelectionInv
<1>1. CASE \E r \in requests : Engine(r)
  BY <1>1, EngineShown
<1>2. CASE Restart
  BY <1>2 DEF Restart, ShownInv
<1>3. CASE Load \/ Save \/ DropKey \/ (\E key \in Keys : SaveKey(key)) \/ Call
  BY <1>3, SendShown DEF Load, Save, DropKey, SaveKey, Call
<1>4. CASE Acknowledge \/ (\E kind \in Kinds : Choose(kind)) \/ UNCHANGED vars
  <2>1. UNCHANGED <<registry, keychain, requests, status, serial>>
    BY <1>4 DEF Acknowledge, Choose, history, vars
  <2>2. StatusPayload.kind' = StatusPayload.kind /\ ShownKind' = ShownKind
    BY <2>1 DEF StatusPayload, ShownKind
  <2> QED
    BY <2>1, <2>2 DEF ShownInv, ShownOK
<1>5. CASE Reload
  <2>1. serial' => serial /\ requests = {}
    BY <1>5 DEF Reload
  <2>2. requests = {} => requests' = {}
    BY <1>5 DEF Reload
  <2>3. ShownKind' = None
    BY <1>5 DEF Reload, ShownKind
  <2> QED
    BY <2>1, <2>2, <2>3 DEF ShownInv, ShownOK
<1>6. ASSUME NEW r \in requests, Receive(r) \/ Saved(r) PROVE ShownInv'
  <2>1. r.reply # None /\ requests' = requests \ {r} /\ status' = StatusAfter(r)
        /\ UNCHANGED <<registry, keychain, serial>>
    BY <1>6 DEF Receive, Saved, history
  <2>2. StatusPayload.kind' = StatusPayload.kind
    BY <2>1 DEF StatusPayload
  <2>3. ASSUME serial PROVE requests' = {} /\ ShownOK'
    <3>1. requests' = {}
      BY <2>1, <2>3 DEF ShownInv
    <3>2. CASE r.reply.ok
      <4>1. ShownKind' \in {None, r.reply.kind}
        BY <2>1, <3>2 DEF ShownKind, StatusAfter
      <4> QED
        BY <2>1, <2>2, <2>3, <3>1, <3>2, <4>1 DEF ShownInv, ShownOK
    <3>3. CASE ~r.reply.ok
      <4>1. ShownKind' = ShownKind
        BY <2>1, <3>3 DEF ShownKind, StatusAfter
      <4> QED
        BY <2>1, <2>2, <2>3, <3>1, <3>3, <4>1 DEF ShownInv, ShownOK
    <3> QED
      BY <3>2, <3>3
  <2> QED
    BY <2>1, <2>3 DEF ShownInv
<1>7. ASSUME NEW r \in requests, Gone(r) PROVE ShownInv'
  BY <1>7 DEF Gone, ShownInv, history
<1> QED
  BY <1>1, <1>2, <1>3, <1>4, <1>5, <1>6, <1>7 DEF Next, Page

\* 10.7 for every history: a kind the page shows while it waits for nothing is the
\* one the engine reports, also where a selection was refused half-way.
THEOREM ShownIsTheEngines ==
  Spec => []ShownKindIsEngines
<1>1. Init => ShownInv
  BY DEF Init, ShownInv, ShownOK, ShownKind
<1>2. SelectionInv /\ ShownInv /\ [Next]_vars => ShownInv'
  BY ShownStep
<1>3. ShownInv => ShownKindIsEngines
  BY DEF ShownInv, ShownOK, ShownKindIsEngines, Quiet
<1> QED
  BY <1>1, <1>2, <1>3, SelectionInvariant, PTL DEF Spec

=============================================================================
