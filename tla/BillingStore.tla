---------------------------- MODULE BillingStore ----------------------------
(***************************************************************************)
(* The gateway's billing store: Stripe's webhooks go through a mutex into  *)
(* a state in memory, which is then written to one JSON file by way of a   *)
(* temporary one.  Stripe sends an event until it is answered well, more   *)
(* than once, and in any order; the gateway may die between two system     *)
(* calls and starts again from the file.                                   *)
(*                                                                         *)
(* Events are numbered in the order in which they happened at Stripe.      *)
(***************************************************************************)
EXTENDS Naturals

CONSTANTS
    Event,          \* the numbers of Stripe's events
    Customer, Subscription, Organization,
    Content,        \* [Event -> what is in it]
    NoEvent,        \* the store is written for no event
    NoOrganization, \* of a customer that is not mapped
    NoRecord,       \* of a subscription that is not known
    NoState,        \* a file that is not there
    Torn            \* a file that ends before its end

Kind == {"checkout", "subscription", "other"}

Record == [organization : Organization, customer : Customer, active : BOOLEAN]

State == [events : SUBSET Event,    \* processed
          applied : SUBSET Event,   \* of these, those that have changed the rest
          customers : [Customer -> Organization \cup {NoOrganization}],
          subscriptions : [Subscription -> Record \cup {NoRecord}]]

ASSUME ConstantsAssumption ==
    /\ Event \subseteq Nat
    /\ Content \in [Event -> [kind : Kind, customer : Customer, subscription : Subscription,
                              organization : Organization, active : BOOLEAN]]
    /\ NoEvent \notin Event
    /\ NoOrganization \notin Organization
    /\ NoRecord \notin Record
    /\ {NoState, Torn} \cap State = {} /\ NoState # Torn

VARIABLES
    mem,        \* PersistedBillingState, behind the mutex
    disk,       \* what VOR_BILLING_STATE_PATH holds
    tmp,        \* what the temporary file holds
    pc,         \* where the gateway stands
    event,      \* the event it is at
    \* History.
    fresh,      \* events answered as recorded, not as duplicates
    answered,   \* events answered as one or the other
    portals,    \* customers, each with an organization that has opened its portal
    ordered,    \* events were taken up in Stripe's order
    unsaved,    \* a write failed: memory is ahead of the file
    lost        \* the gateway has died while it was

files == <<disk, tmp>>
answers == <<fresh, answered, portals>>
history == <<answers, ordered, unsaved, lost>>
vars == <<mem, files, pc, event, history>>

Default == [events |-> {},
            applied |-> {},
            customers |-> [c \in Customer |-> NoOrganization],
            subscriptions |-> [s \in Subscription |-> NoRecord]]

Init ==
    /\ mem = Default /\ disk = NoState /\ tmp = NoState
    /\ pc = "down" /\ event = NoEvent
    /\ fresh = {} /\ answered = {} /\ portals = {}
    /\ ordered = TRUE /\ unsaved = FALSE /\ lost = FALSE

-----------------------------------------------------------------------------
(* apply_event_to_state.                                                   *)

\* apply_checkout_completed: the customer is mapped, a subscription that is new noted.
AfterCheckout(state, e) ==
    [state EXCEPT
        !.customers[Content[e].customer] = Content[e].organization,
        !.subscriptions[Content[e].subscription] =
            IF @ # NoRecord THEN @
            ELSE [organization |-> Content[e].organization, customer |-> Content[e].customer,
                  active |-> FALSE]]

\* apply_subscription_event, of a known customer: the record is replaced.
AfterSubscription(state, e) ==
    [state EXCEPT !.subscriptions[Content[e].subscription] =
        [organization |-> state.customers[Content[e].customer],
         customer |-> Content[e].customer, active |-> Content[e].active]]

\* upsert_customer: a customer stays with its organization.
Refused(state, e) ==
    /\ Content[e].kind = "checkout"
    /\ state.customers[Content[e].customer] \notin {NoOrganization, Content[e].organization}

Known(state, e) ==
    Content[e].kind = "subscription" /\ state.customers[Content[e].customer] # NoOrganization

\* The event is among the processed ones whatever it was.
After(state, e) ==
    LET result ==
          IF Content[e].kind = "checkout" THEN AfterCheckout(state, e)
          ELSE IF Known(state, e) THEN AfterSubscription(state, e)
          ELSE state
    IN  [result EXCEPT !.events = @ \cup {e},
                       !.applied = IF Content[e].kind = "checkout" \/ Known(state, e)
                                   THEN @ \cup {e} ELSE @]

-----------------------------------------------------------------------------
(* apply_test_webhook.                                                     *)

\* What is recorded already is answered at once, written or not.
AnswerDuplicate(e) ==
    /\ pc = "idle"
    /\ e \in mem.events
    /\ answered' = answered \cup {e}
    /\ UNCHANGED <<mem, files, pc, event, fresh, portals, ordered, unsaved, lost>>

InOrder(e) == \A f \in mem.events : f < e

\* Mutant of Apply: an event is applied as often as it comes.
ApplyAgain(e) ==
    /\ pc = "idle"
    /\ ~Refused(mem, e)
    /\ mem' = After(mem, e)
    /\ event' = e
    /\ pc' = "create"
    /\ ordered' = (ordered /\ (e \in mem.events \/ InOrder(e)))
    /\ UNCHANGED <<files, answers, unsaved, lost>>

\* Up to persist_locked; an event that is refused leaves nothing behind.
Apply(e) ==
    /\ pc = "idle"
    /\ e \notin mem.events
    /\ ~Refused(mem, e)
    /\ mem' = After(mem, e)
    /\ event' = e
    /\ pc' = "create"
    /\ ordered' = (ordered /\ InOrder(e))
    /\ UNCHANGED <<files, answers, unsaved, lost>>

\* An error: the event stays applied; a store that was to be opened is not.
PersistFails ==
    /\ pc' = IF event = NoEvent THEN "down" ELSE "idle"
    /\ unsaved' = (event # NoEvent)
    /\ event' = NoEvent
    /\ UNCHANGED <<mem, disk, answers, ordered, lost>>

\* persist_state: the temporary file is made, written and renamed.
Create ==
    /\ pc = "create"
    /\ \/ /\ tmp' = Torn
          /\ pc' = "write"
          /\ UNCHANGED <<mem, disk, event, history>>
       \/ UNCHANGED tmp /\ PersistFails

Write ==
    /\ pc = "write"
    /\ \/ /\ tmp' = mem
          /\ pc' = "rename"
          /\ UNCHANGED <<mem, disk, event, history>>
       \/ tmp' \in {tmp, mem} /\ PersistFails

\* Mutant of Rename: its error is dropped.
RenameOrNot ==
    /\ pc = "rename"
    /\ \/ disk' = tmp /\ tmp' = NoState
       \/ UNCHANGED files
    /\ pc' = "idle"
    /\ unsaved' = FALSE
    /\ fresh' = fresh \cup ({event} \ {NoEvent})
    /\ answered' = answered \cup ({event} \ {NoEvent})
    /\ event' = NoEvent
    /\ UNCHANGED <<mem, portals, ordered, lost>>

Rename ==
    /\ pc = "rename"
    /\ \/ /\ disk' = tmp /\ tmp' = NoState
          /\ pc' = "idle"
          /\ unsaved' = FALSE
          /\ fresh' = fresh \cup ({event} \ {NoEvent})
          /\ answered' = answered \cup ({event} \ {NoEvent})
          /\ event' = NoEvent
          /\ UNCHANGED <<mem, portals, ordered, lost>>
       \/ UNCHANGED tmp /\ PersistFails

-----------------------------------------------------------------------------
(* Around the webhook.                                                     *)

\* BillingStore::open reads the file that is there, or writes a new one.
Open ==
    /\ pc = "down"
    /\ \/ disk \notin {NoState, Torn} /\ mem' = disk /\ pc' = "idle"
       \/ disk = NoState /\ mem' = Default /\ pc' = "create"
    /\ UNCHANGED <<files, event, history>>

\* create_portal_session, as far as customer_belongs_to lets it come.
OpenPortal(o, c) ==
    /\ pc = "idle"
    /\ mem.customers[c] = o
    /\ portals' = portals \cup {<<c, o>>}
    /\ UNCHANGED <<mem, files, pc, event, fresh, answered, ordered, unsaved, lost>>

\* The gateway dies.
Crash ==
    /\ pc # "down"
    /\ pc' = "down"
    /\ mem' = Default /\ event' = NoEvent
    /\ unsaved' = FALSE
    /\ lost' = (lost \/ unsaved)
    /\ UNCHANGED <<files, answers, ordered>>

Next ==
    \/ \E e \in Event : AnswerDuplicate(e) \/ Apply(e)
    \/ Create \/ Write \/ Rename
    \/ Open \/ Crash
    \/ \E o \in Organization, c \in Customer : OpenPortal(o, c)

Spec == Init /\ [][Next]_vars

-----------------------------------------------------------------------------
(* Properties.                                                             *)

\* Type correctness; the file itself is never torn, so that the store can be opened.
TypeOK ==
    /\ mem \in State
    /\ disk \in State \cup {NoState}
    /\ tmp \in State \cup {NoState, Torn}
    /\ pc \in {"down", "idle", "create", "write", "rename"}
    /\ event \in Event \cup {NoEvent}
    /\ fresh \subseteq Event
    /\ answered \subseteq Event
    /\ portals \subseteq Customer \X Organization
    /\ {ordered, unsaved, lost} \subseteq BOOLEAN

Stored == IF disk = NoState THEN {} ELSE disk.events

\* An event that was answered as recorded is in the file, and so is known as a duplicate
\* after any restart (persisted_event_id_remains_deduplicated_after_restart); one that was
\* answered as a duplicate is there unless a write failed.
AnsweredIsStored ==
    /\ fresh \subseteq Stored
    /\ answered \subseteq Stored \/ unsaved \/ lost

BelongsToCustomer(s, state) ==
    LET record == state.subscriptions[s]
    IN  record # NoRecord => state.customers[record.customer] = record.organization

\* Stripe's ids belong to one organization (THREAT_MODEL: external billing IDs map to one
\* organization before entitlements change): no two organizations see the portal of a
\* customer, and an entitlement goes to the organization of its customer, through
\* restarts, unless one took a mapping that was never written.
OneOrganization ==
    /\ lost \/ \A p, q \in portals : p[1] = q[1] => p = q
    /\ \A s \in Subscription : BelongsToCustomer(s, mem)

\* What subscription events were applied to a subscription.
UpdatesOf(s, state) ==
    {e \in state.applied : Content[e].kind = "subscription" /\ Content[e].subscription = s}

AsLastUpdate(s, state) ==
    \A e \in UpdatesOf(s, state) :
        /\ state.subscriptions[s] # NoRecord
        /\ (\A f \in UpdatesOf(s, state) : f <= e) =>
               state.subscriptions[s].active = Content[e].active

\* Events are idempotent (THREAT_MODEL): however often they are sent again, and whenever
\* the gateway dies, an entitlement is what the last applied event of its subscription
\* says, provided that events were first taken up in Stripe's order.
FollowsStripe == ordered => \A s \in Subscription : AsLastUpdate(s, mem)
=============================================================================
