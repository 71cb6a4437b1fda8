----------------------------- MODULE Subscriptions -----------------------------
(***************************************************************************)
(* The WebhookSubscription table under the admin API: create, PATCH,       *)
(* rotate-secret and DELETE, as concurrent request threads execute them.   *)
(*                                                                         *)
(* A PATCH is two steps with memory in between: get_object() reads the     *)
(* whole row, and ModelSerializer.update saves the whole row.  The other   *)
(* requests write what they decide in one statement.                       *)
(*                                                                         *)
(* `told' is the table as its clients know it: the effect of the requests  *)
(* that were answered with success, one after the other, in the order in   *)
(* which they were answered.                                               *)
(***************************************************************************)
EXTENDS Naturals

CONSTANTS
    Subs,        \* primary keys of WebhookSubscription that the model may use
    NoSub,       \* not a primary key: a thread without a PATCH
    Admins,      \* request threads of the admin API
    Lists,       \* the lists of event types that a request may carry
    MaxRequests  \* bound: requests to the admin API

ASSUME NoSubAssumption == NoSub \notin Subs
ASSUME MaxRequestsAssumption == MaxRequests \in Nat

VARIABLES
    sub,        \* the WebhookSubscription table
    held,       \* the subscription each thread's PATCH has read, and its copy
    told,       \* history: the table as the answers describe it
    clobbered,  \* history: rows over which a PATCH has written an old copy
    requests    \* how many requests were made

subVars == <<sub, held, told, clobbered, requests>>

\* Secrets are numbers: 0 is the one a subscription is created with, n the one that
\* the n-th request generated, and this one is what a client puts into a PATCH.
ClientSecret == MaxRequests + 1

Subscription ==
    [state : {"new", "stored", "deleted"}, active : BOOLEAN,
     events : Lists \cup {{}}, secret : 0..ClientSecret]

Blank(state) == [state |-> state, active |-> FALSE, events |-> {}, secret |-> 0]

Nothing == [key |-> NoSub, copy |-> Blank("new")]

Fresh(active, events) ==
    [state |-> "stored", active |-> active, events |-> events, secret |-> 0]

\* Some subscriptions exist and are active, others may be created.
SubscriptionsInit ==
    /\ sub \in [Subs -> {Blank("new")} \cup {Fresh(TRUE, events) : events \in Lists}]
    /\ held = [a \in Admins |-> Nothing]
    /\ told = sub
    /\ clobbered = {}
    /\ requests = 0

SubscriptionsTypeOK ==
    /\ sub \in [Subs -> Subscription]
    /\ held \in [Admins -> [key : Subs \cup {NoSub}, copy : Subscription]]
    /\ told \in [Subs -> Subscription]
    /\ clobbered \subseteq Subs
    /\ requests \in 0..MaxRequests

--------------------------------------------------------------------------------

Stored(s) == sub[s].state = "stored"

Request == requests < MaxRequests /\ requests' = requests + 1

\* The other requests of the admin API are in the count too.
OtherRequest ==
    /\ Request
    /\ UNCHANGED <<sub, held, told, clobbered>>

\* A request that reads and writes in one statement.
Write(s, record) ==
    /\ sub' = [sub EXCEPT ![s] = record]
    /\ told' = [told EXCEPT ![s] = record]

\* POST subscriptions/: the client chooses the secret.
Create(s, active, events) ==
    /\ sub[s].state = "new" /\ Request
    /\ Write(s, Fresh(active, events))
    /\ UNCHANGED <<held, clobbered>>

\* POST subscriptions/<s>/rotate-secret/: update_fields keeps the other columns.
RotateSecret(s) ==
    /\ Stored(s) /\ Request
    /\ sub' = [sub EXCEPT ![s].secret = requests']
    /\ told' = [told EXCEPT ![s].secret = requests']
    /\ UNCHANGED <<held, clobbered>>

\* DELETE subscriptions/<s>/.  The deliveries that go with it are the business of
\* whoever composes this module with the delivery table.
Destroy(s) ==
    /\ Stored(s) /\ Request
    /\ Write(s, Blank("deleted"))
    /\ UNCHANGED <<held, clobbered>>

\* PATCH or PUT subscriptions/<s>/: get_object().
ReadForPatch(a, s) ==
    /\ held[a].key = NoSub
    /\ Stored(s) /\ Request
    /\ held' = [held EXCEPT ![a] = [key |-> s, copy |-> sub[s]]]
    /\ UNCHANGED <<sub, told, clobbered>>

\* Mutant: the secret is not taken out of the validated data.
ValidatedWithSecret(fields) == fields

\* validated_data.pop("secret", None)
Validated(fields) == fields \ {"secret"}

\* setattr for every validated field.
Merge(record, body, fields) ==
    [f \in DOMAIN record |-> IF f \in fields THEN body[f] ELSE record[f]]

\* instance.save() without update_fields: an UPDATE of every column with what this
\* thread read or was sent, and an INSERT when no row with that key is left.
Patch(a, body, fields) ==
    /\ held[a].key # NoSub
    /\ LET s == held[a].key
       IN  /\ sub' = [sub EXCEPT ![s] = Merge(held[a].copy, body, Validated(fields))]
           /\ told' = IF told[s].state = "stored"
                      THEN [told EXCEPT ![s] = Merge(@, body, fields \ {"secret"})]
                      ELSE told
           /\ clobbered' = IF sub[s] = held[a].copy THEN clobbered ELSE clobbered \cup {s}
    /\ held' = [held EXCEPT ![a] = Nothing]
    /\ UNCHANGED requests

Columns == {"active", "events", "secret"}

Body == [active : BOOLEAN, events : Lists, secret : {ClientSecret}]

SubscriptionsNext ==
    \/ \E s \in Subs, active \in BOOLEAN, events \in Lists : Create(s, active, events)
    \/ \E s \in Subs : RotateSecret(s) \/ Destroy(s)
    \/ \E a \in Admins, s \in Subs : ReadForPatch(a, s)
    \/ \E a \in Admins, body \in Body, fields \in SUBSET Columns : Patch(a, body, fields)
    \/ OtherRequest

SubscriptionsSpec == SubscriptionsInit /\ [][SubscriptionsNext]_subVars

--------------------------------------------------------------------------------

\* Rows that no PATCH has written over with an old copy are what the answered
\* requests say: in particular a PATCH changes the fields it was sent and no
\* others, although it saves them all (WebhookSubscriptionSerializer.update).
OnlyStalePatchClobbers ==
    \A s \in Subs \ clobbered : sub[s] = told[s]

\* The secret of a subscription is the one that its clients were last given: only
\* rotate-secret changes it (serializers.py: "Secret is not modifiable via
\* PATCH/PUT").  It is violated: see the README.
SecretSurvivesPatch ==
    \A s \in Subs :
        Stored(s) /\ told[s].state = "stored" => sub[s].secret = told[s].secret
================================================================================
