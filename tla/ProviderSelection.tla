------------------------- MODULE ProviderSelection -------------------------
(***************************************************************************)
(* Choosing who answers: the page's configuration surface                  *)
(* (web/src/lib/components/ProviderConfig.svelte, state/provider.svelte.ts),*)
(* the engine's ProviderRegistry and its five operations                   *)
(* (answer/http/app.py), the keychain (answer/provider/credentials.py) and *)
(* what a turn reads of them.  Requests overlap and come from other callers *)
(* too, the keychain may refuse, and the engine restarts.                  *)
(*                                                                         *)
(* A turn reads the registry in one step and changes nothing, so what it   *)
(* would be bound to is an operator on the state.  Models are left out:    *)
(* the surface takes one for the local kind only.                          *)
(***************************************************************************)
EXTENDS Naturals, FiniteSets

CONSTANTS
  Keys,            \* keys the user may type
  MaxRequests,     \* bound: requests made
  MaxInFlight,     \* bound: requests at once
  None             \* no kind, no provider, no key

ASSUME BoundsAssumption == MaxRequests \in Nat /\ MaxInFlight \in Nat

Kinds == {"keyed", "local", "shared"}

ASSUME NoneAssumption ==
  /\ None \notin Keys \cup Kinds
  /\ None \notin [kind : Kinds, key : Keys \cup {None}, acknowledged : BOOLEAN]
  /\ None \notin [ok : BOOLEAN, kind : Kinds \cup {None}, masked : Keys \cup {None}]

VARIABLES
  registry,  \* ProviderRegistry: kind, provider, acknowledged
  keychain,  \* the stored key, or None
  requests,  \* the requests that are out: their operation and reply
  made,      \* requests made so far
  status,    \* ProviderStore.#status: the kind and the key it shows, or None
  disclosed, \* localStorage: the backend whose disclosure was acknowledged
  form,      \* ProviderConfig: the kind chosen, ackPending, the save's progress
  halfway,   \* history: the keychain raised between two writes of a step, and no
             \* selection or change of the key was completed since
  serial     \* history: this page alone asked, one thing at a time, of one engine

history == <<halfway, serial>>

vars == <<registry, keychain, requests, made, status, disclosed, form, halfway, serial>>

RequiresKey(kind) == kind = "keyed"

NoRegistry == [kind |-> None, provider |-> None, acknowledged |-> FALSE]

NoStatus == [kind |-> None, masked |-> None]

NoForm == [kind |-> None, ack |-> FALSE, save |-> "idle"]

Init ==
  /\ registry = NoRegistry
  /\ keychain \in Keys \cup {None}
  /\ requests = {} /\ made = 0
  /\ status = None
  /\ disclosed \in {None, "shared"}
  /\ form = NoForm
  /\ halfway = FALSE /\ serial = TRUE

-----------------------------------------------------------------------------
(* The engine.                                                             *)

\* The factory's instance for a kind, its gate unlocked by select().
ProviderFor(kind, key, acknowledged) ==
  IF RequiresKey(kind) /\ key = None THEN None
  ELSE [kind |-> kind, key |-> IF RequiresKey(kind) THEN key ELSE None,
        acknowledged |-> kind = "shared" /\ acknowledged]

\* ProviderRegistry.status_payload: the instance speaks for itself.
StatusPayload ==
  IF registry.kind = None THEN NoStatus
  ELSE IF registry.provider # None
    THEN [kind |-> registry.provider.kind, masked |-> registry.provider.key]
    ELSE [kind |-> registry.kind,
          masked |-> IF RequiresKey(registry.kind) THEN keychain ELSE None]

\* A response's fields that the page's status has; the rest stay undefined.
Ok(kind, masked) == [ok |-> TRUE, kind |-> kind, masked |-> masked]
Failed == [ok |-> FALSE, kind |-> None, masked |-> None]

Reply(r, reply) == requests' = (requests \ {r}) \cup {[r EXCEPT !.reply = reply]}

Waiting(r, op) == r.op = op /\ r.reply = None

\* 6.15: the disclosure precedes the selection.
Disclosed(r) == r.kind = "shared" => r.ack \/ registry.acknowledged

AcknowledgedBy(r) == registry.acknowledged \/ (r.kind = "shared" /\ r.ack)

\* put_provider, ProviderRegistry.select
Select(r) ==
  /\ Waiting(r, "put") /\ Disclosed(r)
  /\ LET provider == ProviderFor(r.kind, keychain, AcknowledgedBy(r)) IN
       /\ registry' = [kind |-> r.kind, acknowledged |-> AcknowledgedBy(r),
                       provider |-> provider]
       /\ Reply(r, Ok(r.kind, IF RequiresKey(r.kind) THEN keychain ELSE None))
  /\ halfway' = FALSE
  /\ UNCHANGED <<keychain, made, status, disclosed, form, serial>>

\* Nothing is recorded; the reply names neither a kind nor a key.
AskDisclosure(r) ==
  /\ Waiting(r, "put") /\ ~Disclosed(r)
  /\ Reply(r, Ok(None, None))
  /\ UNCHANGED <<registry, keychain, made, status, disclosed, form, history>>

\* The keychain raises in the factory: the kind is recorded already.
SelectRefused(r) ==
  /\ Waiting(r, "put") /\ Disclosed(r) /\ RequiresKey(r.kind)
  /\ registry' = [registry EXCEPT !.kind = r.kind]
  /\ halfway' = (halfway \/ registry.kind # r.kind)
  /\ Reply(r, Failed)
  /\ UNCHANGED <<keychain, made, status, disclosed, form, serial>>

\* Slip: a credential change leaves the provider alone.
NotRefreshed(key) == registry

\* ProviderRegistry.refresh
Refreshed(key) ==
  IF registry.kind # None /\ RequiresKey(registry.kind)
    THEN [registry EXCEPT !.provider = ProviderFor(registry.kind, key, FALSE)]
    ELSE registry

\* put_credential
StoreKey(r) ==
  /\ Waiting(r, "key")
  /\ keychain' = r.key
  /\ registry' = Refreshed(r.key)
  /\ Reply(r, Ok(None, r.key))
  /\ halfway' = FALSE
  /\ UNCHANGED <<made, status, disclosed, form, serial>>

\* delete_credential
ClearKey(r) ==
  /\ Waiting(r, "clear") /\ keychain # None
  /\ keychain' = None
  /\ registry' = Refreshed(None)
  /\ Reply(r, Ok(None, None))
  /\ halfway' = FALSE
  /\ UNCHANGED <<made, status, disclosed, form, serial>>

\* There is no key to delete: the keychain raises.
NothingToClear(r) ==
  /\ Waiting(r, "clear") /\ keychain = None
  /\ Reply(r, Failed)
  /\ UNCHANGED <<registry, keychain, made, status, disclosed, form, history>>

\* The keychain raises before the key is written or removed, or after it, when
\* the keyed provider is constructed again.
KeyRefused(r) ==
  /\ Waiting(r, "key") \/ Waiting(r, "clear")
  /\ \/ UNCHANGED <<keychain, halfway>>
     \/ /\ registry.kind = "keyed" /\ halfway' = TRUE
        /\ keychain' = IF r.op = "key" THEN r.key ELSE None
  /\ Reply(r, Failed)
  /\ UNCHANGED <<registry, made, status, disclosed, form, serial>>

\* get_provider
Tell(r) ==
  /\ Waiting(r, "get")
  /\ Reply(r, Ok(StatusPayload.kind, StatusPayload.masked))
  /\ UNCHANGED <<registry, keychain, made, status, disclosed, form, history>>

\* The selection is process-local, and what was out is lost.
Restart ==
  /\ registry # NoRegistry
  /\ registry' = NoRegistry
  /\ requests' = {IF r.reply = None THEN [r EXCEPT !.reply = Failed] ELSE r : r \in requests}
  /\ halfway' = FALSE /\ serial' = FALSE
  /\ UNCHANGED <<keychain, made, status, disclosed, form>>

-----------------------------------------------------------------------------
(* What a turn is bound to: ProviderRegistry.binding and the last three of  *)
(* the gates of outcome.pre_flight, then the turn's own.                   *)

Admits ==
  /\ registry.kind # None
  /\ RequiresKey(registry.kind) => keychain # None
  /\ registry.kind = "shared" => registry.acknowledged
  /\ registry.provider # None

-----------------------------------------------------------------------------
(* The page.                                                               *)

Send(request) ==
  /\ made < MaxRequests /\ Cardinality(requests) < MaxInFlight
  /\ made' = made + 1 /\ serial' = (serial /\ request.page /\ requests = {})
  /\ requests' = requests \cup
       {[n |-> made + 1, reply |-> None, op |-> request.op, kind |-> request.kind,
         ack |-> request.ack, key |-> request.key, page |-> request.page]}

\* The page sends no acknowledgement to the engine (ProviderStore.choose).
Put(kind, ack, page) == [op |-> "put", kind |-> kind, ack |-> ack, key |-> None, page |-> page]
Plain(op, key, page) == [op |-> op, kind |-> None, ack |-> FALSE, key |-> key, page |-> page]

\* provider.load() when the page is mounted.
Load ==
  /\ status = None /\ \A r \in requests : r.op # "get" \/ ~r.page
  /\ Send(Plain("get", None, TRUE))
  /\ UNCHANGED <<registry, keychain, status, disclosed, form, halfway>>

Choose(kind) ==
  /\ form.kind # kind
  /\ form' = [form EXCEPT !.kind = kind, !.ack = @ /\ kind = "shared"]
  /\ UNCHANGED <<registry, keychain, requests, made, status, disclosed, history>>

ShownKind == IF status = None THEN None ELSE status.kind

\* What is being configured: the kind chosen, else the one reported.
Kind == IF form.kind = None THEN ShownKind ELSE form.kind

DisclosureAcknowledged == ShownKind = "shared" /\ disclosed = "shared"

\* acknowledge(): the button of an unacknowledged disclosure.
Acknowledge ==
  /\ Kind = "shared" /\ ~form.ack /\ ~DisclosureAcknowledged
  /\ form' = [form EXCEPT !.ack = TRUE, !.save = IF @ = "held" THEN "idle" ELSE @]
  /\ disclosed' = IF ShownKind = "shared" THEN "shared" ELSE disclosed
  /\ UNCHANGED <<registry, keychain, requests, made, status, history>>

\* save() up to its await.
Save ==
  /\ Kind # None /\ form.save # "saving"
  /\ Send(Put(Kind, FALSE, TRUE))
  /\ form' = [form EXCEPT !.kind = Kind, !.save = "saving"]
  /\ UNCHANGED <<registry, keychain, status, disclosed, halfway>>

SaveKey(key) ==
  /\ Kind = "keyed"
  /\ Send(Plain("key", key, TRUE))
  /\ UNCHANGED <<registry, keychain, status, disclosed, form, halfway>>

DropKey ==
  /\ Kind = "keyed"
  /\ Send(Plain("clear", None, TRUE))
  /\ UNCHANGED <<registry, keychain, status, disclosed, form, halfway>>

\* Slip: the page shows what it asked for.
StatusAsAsked(r) ==
  [kind |-> IF r.op = "put" THEN r.kind ELSE r.reply.kind, masked |-> r.reply.masked]

\* Every reply replaces the whole status; an error leaves it.
StatusAfter(r) ==
  IF r.reply.ok THEN [kind |-> r.reply.kind, masked |-> r.reply.masked] ELSE status

Receive(r) ==
  /\ r.reply # None /\ r.page /\ r.op # "put"
  /\ requests' = requests \ {r}
  /\ status' = StatusAfter(r)
  /\ UNCHANGED <<registry, keychain, made, disclosed, form, history>>

\* save() after its await, by the kind the form has now: for the shared backend
\* a pending acknowledgement is stored if the engine reports that backend, and
\* the surface stays open until it is.
Saved(r) ==
  LET shown  == IF StatusAfter(r) = None THEN None ELSE StatusAfter(r).kind
      kind   == IF form.kind = None THEN shown ELSE form.kind
      stored == IF kind = "shared" /\ form.ack /\ shown = "shared" THEN "shared" ELSE disclosed
      held   == kind = "shared" /\ ~(shown = "shared" /\ stored = "shared")
  IN
    /\ r.reply # None /\ r.page /\ r.op = "put"
    /\ requests' = requests \ {r}
    /\ status' = StatusAfter(r)
    /\ disclosed' = IF r.reply.ok THEN stored ELSE disclosed
    /\ form' = IF ~r.reply.ok THEN [form EXCEPT !.save = "failed"]
               ELSE IF held THEN [form EXCEPT !.save = "held"] ELSE NoForm
    /\ UNCHANGED <<registry, keychain, made, history>>

\* The page is loaded again; what it sent goes on without it.
Reload ==
  /\ requests' = {[r EXCEPT !.page = FALSE] : r \in requests}
  /\ status' = None /\ form' = NoForm
  /\ serial' = (serial /\ requests = {})
  /\ UNCHANGED <<registry, keychain, made, disclosed, halfway>>

\* Another caller of the API, which may acknowledge.
Call ==
  /\ \/ \E kind \in Kinds, ack \in BOOLEAN : Send(Put(kind, ack, FALSE))
     \/ \E key \in Keys : Send(Plain("key", key, FALSE))
     \/ Send(Plain("clear", None, FALSE))
  /\ UNCHANGED <<registry, keychain, status, disclosed, form, halfway>>

\* A reply nobody on the page waits for.
Gone(r) ==
  /\ r.reply # None /\ ~r.page
  /\ requests' = requests \ {r}
  /\ UNCHANGED <<registry, keychain, made, status, disclosed, form, history>>

Engine(r) ==
  \/ Select(r) \/ AskDisclosure(r) \/ SelectRefused(r)
  \/ StoreKey(r) \/ ClearKey(r) \/ NothingToClear(r) \/ KeyRefused(r)
  \/ Tell(r)

Page ==
  \/ Load \/ Acknowledge \/ Save \/ DropKey \/ Reload
  \/ \E kind \in Kinds : Choose(kind)
  \/ \E key \in Keys : SaveKey(key)

Next ==
  \/ Page \/ Call \/ Restart
  \/ \E r \in requests : Engine(r) \/ Receive(r) \/ Saved(r) \/ Gone(r)

Spec == Init /\ [][Next]_vars

-----------------------------------------------------------------------------
\* A turn the gates admit is answered by the selected kind: a keyed provider
\* holds the key stored now, not one replaced or cleared since (6.3, 10.8), and
\* the shared backend's own gate is open.  A step the keychain broke off in the
\* middle suspends this; the next one completed restores it.  app.py:102: the
\* turn "reads it once at start", which "is what makes a change apply to the next
\* turn".
TurnUsesSelection ==
  Admits /\ ~halfway =>
    /\ registry.provider.kind = registry.kind
    /\ registry.kind = "keyed" => registry.provider.key = keychain
    /\ registry.kind = "shared" => registry.provider.acknowledged

Quiet == \A r \in requests : ~r.page

\* A kind the page shows, when it waits for nothing, is the engine's, whatever
\* was refused or failed on the way (10.7; ProviderStore), as long as replies
\* cannot overtake each other and nobody else chooses.
ShownKindIsEngines ==
  Quiet /\ serial /\ ShownKind # None => ShownKind = StatusPayload.kind
=============================================================================
