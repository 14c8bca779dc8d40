------------------------- MODULE BillingStoreProofs -------------------------
(* What BillingStore guarantees for every value of its constants. *)
EXTENDS BillingStore, TLAPS

\* The state of a new store is one; a file that is missing or torn holds none.
LEMMA DefaultType == Default \in State /\ NoState \notin State /\ Torn \notin State
<1>1. Default \in State
  BY DEF Default, State
<1> QED BY <1>1, ConstantsAssumption

\* The state after an event is a state.
LEMMA AfterType ==
    ASSUME NEW state \in State, NEW e \in Event
    PROVE  After(state, e) \in State
<1> USE ConstantsAssumption DEF State, Record
<1>1. AfterCheckout(state, e) \in State
  BY DEF AfterCheckout
<1>2. Known(state, e) => AfterSubscription(state, e) \in State
  BY DEF AfterSubscription, Known
<1> QED BY <1>1, <1>2 DEF After

\* What an event adds to the processed ones, and to the applied ones.
LEMMA AfterEvents ==
    ASSUME NEW state \in State, NEW e \in Event
    PROVE  /\ After(state, e).events = state.events \cup {e}
           /\ After(state, e).applied =
                 IF Content[e].kind = "checkout" \/ Known(state, e)
                 THEN state.applied \cup {e} ELSE state.applied
BY ConstantsAssumption DEF After, AfterCheckout, AfterSubscription, State, Record

\* What it does to customers and subscriptions.
LEMMA AfterCustomers ==
    ASSUME NEW state \in State, NEW e \in Event
    PROVE  After(state, e).customers =
              IF Content[e].kind = "checkout"
              THEN [state.customers EXCEPT ![Content[e].customer] = Content[e].organization]
              ELSE state.customers
BY ConstantsAssumption DEF After, AfterCheckout, AfterSubscription, Known, State, Record

LEMMA AfterSubscriptions ==
    ASSUME NEW state \in State, NEW e \in Event, NEW s \in Subscription
    PROVE  After(state, e).subscriptions[s] =
              IF s # Content[e].subscription THEN state.subscriptions[s]
              ELSE IF Content[e].kind = "checkout" /\ state.subscriptions[s] = NoRecord
              THEN [organization |-> Content[e].organization,
                    customer |-> Content[e].customer, active |-> FALSE]
              ELSE IF Known(state, e)
              THEN [organization |-> state.customers[Content[e].customer],
                    customer |-> Content[e].customer, active |-> Content[e].active]
              ELSE state.subscriptions[s]
BY ConstantsAssumption DEF After, AfterCheckout, AfterSubscription, Known, State, Record

-----------------------------------------------------------------------------
\* What is renamed is a state that was written as a whole.
TypeInv ==
    /\ TypeOK
    /\ pc = "rename" => tmp = mem
    /\ pc \in {"create", "write", "rename"} /\ event = NoEvent => disk = NoState /\ mem = Default

LEMMA TypeStep ==
    ASSUME TypeInv, [Next]_vars
    PROVE  TypeInv'
<1> USE ConstantsAssumption DEF TypeInv, TypeOK, files, answers, history
<1>1. CASE UNCHANGED vars
  BY <1>1 DEF vars
<1>2. ASSUME NEW e \in Event, AnswerDuplicate(e)
      PROVE  TypeInv'
  BY <1>2 DEF AnswerDuplicate
<1>3. ASSUME NEW e \in Event, Apply(e)
      PROVE  TypeInv'
  BY <1>3, AfterType DEF Apply
<1>4. CASE Create
  BY <1>4 DEF Create, PersistFails
<1>5. CASE Write
  BY <1>5 DEF Write, PersistFails
<1>6. CASE Rename
  BY <1>6 DEF Rename, PersistFails
<1>7. CASE Open
  BY <1>7 DEF Open, Default, State
<1>8. CASE Crash
  BY <1>8 DEF Crash, Default, State
<1>9. ASSUME NEW o \in Organization, NEW c \in Customer, OpenPortal(o, c)
      PROVE  TypeInv'
  BY <1>9 DEF OpenPortal
<1> QED BY <1>1, <1>2, <1>3, <1>4, <1>5, <1>6, <1>7, <1>8, <1>9 DEF Next

\* TypeOK: neither a failed write nor a death leaves a file that cannot be opened.
THEOREM TypeCorrect == Spec => []TypeOK
<1>1. Init => TypeInv
  BY DefaultType DEF Init, TypeInv, TypeOK
<1>2. TypeInv /\ [Next]_vars => TypeInv'
  BY TypeStep
<1>3. TypeInv => TypeOK
  BY DEF TypeInv
<1> QED BY <1>1, <1>2, <1>3, PTL DEF Spec

-----------------------------------------------------------------------------
\* How file, memory and answers stand to each other: the inductive strengthening of
\* AnsweredIsStored.
StoredInv ==
    /\ TypeInv
    /\ AnsweredIsStored
    /\ pc = "down" => ~unsaved
    /\ pc # "down" => Stored \subseteq mem.events
    /\ pc # "down" => lost \/ answered \subseteq mem.events
    /\ pc = "idle" => unsaved \/ disk = mem
    /\ pc \in {"create", "write", "rename"} /\ event = NoEvent => ~unsaved
    /\ event # NoEvent => pc # "down" /\ event \in mem.events

LEMMA StoredStep ==
    ASSUME StoredInv, [Next]_vars
    PROVE  StoredInv'
<1> TypeInv' /\ TypeOK
  BY TypeStep DEF StoredInv, TypeInv
<1> USE ConstantsAssumption DEF StoredInv, AnsweredIsStored, Stored, TypeInv, TypeOK,
        files, answers, history
<1>1. CASE UNCHANGED vars
  BY <1>1 DEF vars
<1>2. ASSUME NEW e \in Event, AnswerDuplicate(e)
      PROVE  StoredInv'
  BY <1>2 DEF AnswerDuplicate
<1>3. ASSUME NEW e \in Event, Apply(e)
      PROVE  StoredInv'
  <2>1. After(mem, e).events = mem.events \cup {e}
    BY AfterEvents
  <2> QED BY <1>3, <2>1 DEF Apply
<1>4. CASE Create
  <2>1. CASE PersistFails
    BY <1>4, <2>1 DEF Create, PersistFails
  <2> QED BY <1>4, <2>1 DEF Create
<1>5. CASE Write
  BY <1>5 DEF Write, PersistFails
<1>6. CASE Rename
  BY <1>6, DefaultType DEF Rename, PersistFails
<1>7. CASE Open
  BY <1>7, DefaultType DEF Open
<1>8. CASE Crash
  BY <1>8 DEF Crash
<1>9. ASSUME NEW o \in Organization, NEW c \in Customer, OpenPortal(o, c)
      PROVE  StoredInv'
  BY <1>9 DEF OpenPortal
<1> QED BY <1>1, <1>2, <1>3, <1>4, <1>5, <1>6, <1>7, <1>8, <1>9 DEF Next

\* AnsweredIsStored: what was answered as recorded survives every restart.
THEOREM AnswersLast == Spec => []AnsweredIsStored
<1>1. Init => StoredInv
  BY DefaultType DEF Init, StoredInv, AnsweredIsStored, Stored, TypeInv, TypeOK
<1>2. StoredInv /\ [Next]_vars => StoredInv'
  BY StoredStep
<1>3. StoredInv => AnsweredIsStored
  BY DEF StoredInv
<1> QED BY <1>1, <1>2, <1>3, PTL DEF Spec

-----------------------------------------------------------------------------
\* In memory and in the file, a subscription belongs to its customer's organization.
AllBelong(state) == \A s \in Subscription : BelongsToCustomer(s, state)

\* An event that is not refused keeps it so, and the organization of every customer.
LEMMA AfterBelongs ==
    ASSUME NEW state \in State, NEW e \in Event, ~Refused(state, e), AllBelong(state)
    PROVE  /\ AllBelong(After(state, e))
           /\ \A c \in Customer : state.customers[c] # NoOrganization =>
                 After(state, e).customers[c] = state.customers[c]
<1> DEFINE new == After(state, e)
<1> USE ConstantsAssumption DEF State, Record
<1>1. ASSUME NEW c \in Customer, state.customers[c] # NoOrganization
      PROVE  new.customers[c] = state.customers[c]
  BY <1>1, AfterCustomers DEF Refused
<1>2. ASSUME NEW s \in Subscription
      PROVE  BelongsToCustomer(s, new)
  <2>1. CASE new.subscriptions[s] = state.subscriptions[s]
    BY <1>1, <2>1 DEF AllBelong, BelongsToCustomer
  <2>2. CASE /\ Content[e].kind = "checkout"
             /\ new.subscriptions[s] =
                    [organization |-> Content[e].organization,
                     customer |-> Content[e].customer, active |-> FALSE]
    <3>1. new.customers[Content[e].customer] = Content[e].organization
      <4>1. /\ state.customers \in [Customer -> Organization \cup {NoOrganization}]
            /\ Content[e].customer \in Customer
        OBVIOUS
      <4>2. new.customers =
              [state.customers EXCEPT ![Content[e].customer] = Content[e].organization]
        BY <2>2, AfterCustomers
      <4> HIDE DEF new, State
      <4> QED BY <4>1, <4>2
    <3> QED BY <2>2, <3>1 DEF BelongsToCustomer
  <2>3. CASE /\ Known(state, e)
             /\ new.subscriptions[s] =
                    [organization |-> state.customers[Content[e].customer],
                     customer |-> Content[e].customer, active |-> Content[e].active]
    <3>1. new.customers = state.customers
      BY <2>3, AfterCustomers DEF Known
    <3> QED BY <2>3, <3>1 DEF BelongsToCustomer
  <2> QED BY <2>1, <2>2, <2>3, AfterSubscriptions
<1> HIDE DEF new
<1> QED BY <1>1, <1>2 DEF AllBelong, new

\* The inductive strengthening of OneOrganization.
PortalStands(p) ==
    /\ pc # "down" => mem.customers[p[1]] = p[2]
    /\ unsaved \/ (disk # NoState /\ disk.customers[p[1]] = p[2])

OrganizationInv ==
    /\ StoredInv
    /\ AllBelong(mem)
    /\ disk # NoState => AllBelong(disk)
    /\ lost \/ \A p \in portals : PortalStands(p)

LEMMA OrganizationStep ==
    ASSUME OrganizationInv, [Next]_vars
    PROVE  OrganizationInv'
<1> StoredInv' /\ TypeInv /\ TypeOK
  BY StoredStep DEF OrganizationInv, StoredInv, TypeInv
<1> USE ConstantsAssumption DEF OrganizationInv, PortalStands, StoredInv, TypeInv,
        TypeOK, files, answers, history
<1>1. CASE UNCHANGED vars
  BY <1>1 DEF vars
<1>2. ASSUME NEW e \in Event, AnswerDuplicate(e)
      PROVE  OrganizationInv'
  BY <1>2 DEF AnswerDuplicate
<1>3. ASSUME NEW e \in Event, Apply(e)
      PROVE  OrganizationInv'
  BY <1>3, AfterBelongs DEF Apply
<1>4. CASE Create
  BY <1>4 DEF Create, PersistFails
<1>5. CASE Write
  BY <1>5 DEF Write, PersistFails
<1>6. CASE Rename
  BY <1>6 DEF Rename, PersistFails
<1>7. CASE Open
  BY <1>7 DEF Open, Default, AllBelong, BelongsToCustomer
<1>8. CASE Crash
  BY <1>8 DEF Crash, Default, AllBelong, BelongsToCustomer
<1>9. ASSUME NEW o \in Organization, NEW c \in Customer, OpenPortal(o, c)
      PROVE  OrganizationInv'
  BY <1>9 DEF OpenPortal
<1> QED BY <1>1, <1>2, <1>3, <1>4, <1>5, <1>6, <1>7, <1>8, <1>9 DEF Next

\* OneOrganization: customers, portals and entitlements stay with one organization.
THEOREM OrganizationsHold == Spec => []OneOrganization
<1>1. Init => OrganizationInv
  <2>1. AllBelong(Default)
    BY DEF Default, AllBelong, BelongsToCustomer
  <2> QED BY <2>1, DefaultType DEF Init, OrganizationInv, StoredInv, AnsweredIsStored,
             Stored, TypeInv, TypeOK
<1>2. OrganizationInv /\ [Next]_vars => OrganizationInv'
  BY OrganizationStep
<1>3. OrganizationInv => OneOrganization
  BY DEF OrganizationInv, OneOrganization, AllBelong, PortalStands, StoredInv, TypeInv, TypeOK
<1> QED BY <1>1, <1>2, <1>3, PTL DEF Spec

-----------------------------------------------------------------------------
\* The inductive strengthening of FollowsStripe.
Follows(state) ==
    /\ state.applied \subseteq state.events
    /\ ordered => \A s \in Subscription : AsLastUpdate(s, state)

FollowsInv ==
    /\ TypeInv
    /\ Follows(mem)
    /\ disk # NoState => Follows(disk)

\* An event behind all others is the last one of its subscription.
LEMMA AfterFollows ==
    ASSUME NEW state \in State, NEW e \in Event, NEW s \in Subscription,
           state.applied \subseteq state.events,
           \A f \in state.events : f < e,
           AsLastUpdate(s, state)
    PROVE  AsLastUpdate(s, After(state, e))
<1> DEFINE new == After(state, e)
<1>1. new.applied = IF Content[e].kind = "checkout" \/ Known(state, e)
                    THEN state.applied \cup {e} ELSE state.applied
  BY AfterEvents
<1>2. new.subscriptions[s] =
        IF s # Content[e].subscription THEN state.subscriptions[s]
        ELSE IF Content[e].kind = "checkout" /\ state.subscriptions[s] = NoRecord
        THEN [organization |-> Content[e].organization,
              customer |-> Content[e].customer, active |-> FALSE]
        ELSE IF Known(state, e)
        THEN [organization |-> state.customers[Content[e].customer],
              customer |-> Content[e].customer, active |-> Content[e].active]
        ELSE state.subscriptions[s]
  BY AfterSubscriptions
<1>3. Known(state, e) => /\ Content[e].kind = "subscription"
                         /\ state.customers[Content[e].customer] \in Organization
  BY ConstantsAssumption DEF Known, State
<1>4. /\ Content[e].organization \in Organization /\ Content[e].customer \in Customer
      /\ Content[e].active \in BOOLEAN
      /\ e \in Nat /\ state.applied \subseteq Event /\ Event \subseteq Nat /\ NoRecord \notin Record
  BY ConstantsAssumption DEF State
<1> SUFFICES AsLastUpdate(s, new)
  OBVIOUS
<1> HIDE DEF new
<1>5. \A f \in UpdatesOf(s, state) : f \in Nat /\ f < e
  BY <1>4 DEF UpdatesOf
<1>6. CASE Known(state, e) /\ Content[e].subscription = s
  <2>1. UpdatesOf(s, new) = UpdatesOf(s, state) \cup {e}
    BY <1>1, <1>3, <1>6 DEF UpdatesOf
  <2>2. new.subscriptions[s] =
          [organization |-> state.customers[Content[e].customer],
           customer |-> Content[e].customer, active |-> Content[e].active]
    BY <1>2, <1>3, <1>6
  <2>3. new.subscriptions[s] \in Record
    BY <1>3, <1>4, <1>6, <2>2 DEF Record
  <2>4. new.subscriptions[s] # NoRecord /\ new.subscriptions[s].active = Content[e].active
    BY <1>4, <2>2, <2>3
  <2> QED BY <1>4, <1>5, <2>1, <2>4 DEF AsLastUpdate
<1>7. CASE ~(Known(state, e) /\ Content[e].subscription = s)
  <2>1. UpdatesOf(s, new) = UpdatesOf(s, state)
    BY <1>1, <1>7 DEF UpdatesOf, Known
  <2>2. state.subscriptions[s] # NoRecord => new.subscriptions[s] = state.subscriptions[s]
    BY <1>2, <1>7
  <2> QED BY <2>1, <2>2 DEF AsLastUpdate
<1> QED BY <1>6, <1>7

LEMMA FollowsStep ==
    ASSUME FollowsInv, [Next]_vars
    PROVE  FollowsInv'
<1> TypeInv' /\ TypeOK
  BY TypeStep DEF FollowsInv, TypeInv
<1> USE ConstantsAssumption DEF FollowsInv, Follows, TypeInv, TypeOK, files, answers, history
<1>1. CASE UNCHANGED vars
  BY <1>1 DEF vars
<1>2. ASSUME NEW e \in Event, AnswerDuplicate(e)
      PROVE  FollowsInv'
  BY <1>2 DEF AnswerDuplicate
<1>3. ASSUME NEW e \in Event, Apply(e)
      PROVE  FollowsInv'
  <2>1. mem \in State /\ Follows(mem)
    OBVIOUS
  <2>2. mem'.applied \subseteq mem'.events
    <3>1. /\ After(mem, e).events = mem.events \cup {e}
          /\ After(mem, e).applied \subseteq mem.applied \cup {e}
      BY <2>1, AfterEvents
    <3> QED BY <1>3, <2>1, <3>1 DEF Apply
  <2>3. ASSUME ordered', NEW s \in Subscription
        PROVE  AsLastUpdate(s, mem')
    BY <1>3, <2>1, <2>3, AfterFollows DEF Apply, InOrder
  <2>4. Follows(mem)'
    BY <2>2, <2>3
  <2>5. disk' # NoState => Follows(disk)'
    BY <1>3 DEF Apply
  <2> QED BY <2>4, <2>5
<1>4. CASE Create
  BY <1>4 DEF Create, PersistFails
<1>5. CASE Write
  BY <1>5 DEF Write, PersistFails
<1>6. CASE Rename
  BY <1>6 DEF Rename, PersistFails
<1>7. CASE Open
  BY <1>7 DEF Open, Default, AsLastUpdate, UpdatesOf
<1>8. CASE Crash
  BY <1>8 DEF Crash, Default, AsLastUpdate, UpdatesOf
<1>9. ASSUME NEW o \in Organization, NEW c \in Customer, OpenPortal(o, c)
      PROVE  FollowsInv'
  BY <1>9 DEF OpenPortal
<1> QED BY <1>1, <1>2, <1>3, <1>4, <1>5, <1>6, <1>7, <1>8, <1>9 DEF Next

\* FollowsStripe: duplicates and restarts leave an entitlement as the last update has it.
THEOREM StripeIsFollowed == Spec => []FollowsStripe
<1>1. Init => FollowsInv
  <2>1. Follows(Default)
    BY DEF Default, Follows, AsLastUpdate, UpdatesOf
  <2> QED BY <2>1, DefaultType DEF Init, FollowsInv, TypeInv, TypeOK
<1>2. FollowsInv /\ [Next]_vars => FollowsInv'
  BY FollowsStep
<1>3. FollowsInv => FollowsStripe
  BY DEF FollowsInv, Follows, FollowsStripe
<1> QED BY <1>1, <1>2, <1>3, PTL DEF Spec
=============================================================================
