--------------------------- MODULE NewsletterSignup ---------------------------
(***************************************************************************)
(* Newsletter signup with double opt-in, and the ledger of subscribers it  *)
(* writes to.                                                              *)
(*                                                                         *)
(* The public form saves a pending request and a job for its confirmation  *)
(* message; a later request for the address supersedes it.  The cron sends *)
(* the messages in claimed batches and ends requests whose day is over.    *)
(* Whoever holds the link of a message confirms: the handler reads the     *)
(* request, then the subscriber, then writes the ledger, then settles the  *)
(* request, and may die between any two.  Meanwhile provider events and    *)
(* the Owner write the same ledger, in which an event of the provider or   *)
(* of a confirmation is written once.                                      *)
(***************************************************************************)
EXTENDS Naturals, FiniteSets

CONSTANTS
    Addresses,    \* identity keys
    Signups,      \* signup requests, one per submission id
    Visitors,     \* calls of the form and of the confirmation page
    Mailers,      \* runs of the cron that may overlap
    Reports,      \* bound: provider event ids
    OwnerEvents   \* bound: commands of the Owner on the ledger

ASSUME SignupAssumption ==
    /\ Signups # {} /\ Signups \cap {"idle", "lapse", "claim", "read", "send"} = {}
    /\ Mailers \cap {"no token", "lost"} = {}
    /\ Signups \cap (Reports \cup OwnerEvents) = {} /\ Reports \cap OwnerEvents = {}

VARIABLES
    subscriber,  \* subscribers: the state of each address
    events,      \* subscriber_ledger_events
    request,     \* newsletter_signup_requests
    confirmation,  \* newsletter_confirmation_jobs
    link,        \* the requests whose message has reached the mailbox
    mail,        \* messages sent since the job was last put back
    visit,       \* what each call holds
    mailer,      \* what each run of the cron holds
    configured   \* the sender and the legal footer are set

signupVars ==
    <<subscriber, events, request, confirmation, link, mail, visit, mailer, configured>>
ledger == <<subscriber, events>>
delivery == <<confirmation, link, mail>>

-----------------------------------------------------------------------------
(* The ledger *)

suppressionPrecedence ==
    [s \in {"none", "active", "unsubscribed", "hard_bounced", "complained", "erased"} |->
        CASE s \in {"none", "active"} -> 0 [] s = "unsubscribed" -> 1
          [] s = "hard_bounced" -> 2 [] s = "complained" -> 3 [] s = "erased" -> 4]

Suppressions == {"unsubscribed", "hard_bounced", "complained", "erased"}
States == DOMAIN suppressionPrecedence

Written(key) == \E e \in events : e.key = key

Event(key, a, type) == [key |-> key, address |-> a, type |-> type]

\* An insert that meets its provider event id again does nothing.
Inserts(key, a, type) == ~ Written(key) /\ (type = "resubscribed" => subscriber[a] # "erased")

\* Mutant: the subscriber is updated without its event.
ReactivatesAlways(key, a) == subscriber[a] # "erased"

\* The update asks for the event of this very call.
Reactivates(key, a) == subscriber[a] # "erased" /\ Inserts(key, a, "resubscribed")

resubscribed(key, a) ==
    /\ events' = IF Inserts(key, a, "resubscribed")
                 THEN events \cup {Event(key, a, "resubscribed")} ELSE events
    /\ subscriber' = IF Reactivates(key, a)
                     THEN [subscriber EXCEPT ![a] = "active"] ELSE subscriber

appendSuppression(key, a, reason) ==
    IF Inserts(key, a, reason)
    THEN /\ events' = events \cup {Event(key, a, reason)}
         /\ subscriber' = IF suppressionPrecedence[subscriber[a]]
                             < suppressionPrecedence[reason]
                          THEN [subscriber EXCEPT ![a] = reason] ELSE subscriber
    ELSE UNCHANGED ledger

\* A provider event, or the unsubscribe page, may be delivered again.
ingestSuppressionByIdentityKey(n, a, reason) ==
    /\ subscriber[a] # "none"
    /\ appendSuppression(n, a, reason)
    /\ UNCHANGED <<request, delivery, visit, mailer, configured>>

\* recordConsent, suppress and resubscribe of the Owner.
OwnerWrites(n, a) ==
    /\ ~ Written(n)
    /\ \/ /\ subscriber[a] = "none"
          /\ events' = events \cup {Event(n, a, "consent_recorded")}
          /\ subscriber' = [subscriber EXCEPT ![a] = "active"]
       \/ /\ subscriber[a] # "none"
          /\ \E reason \in Suppressions : appendSuppression(n, a, reason)
       \/ subscriber[a] \notin {"none", "erased"} /\ resubscribed(n, a)
    /\ UNCHANGED <<request, delivery, visit, mailer, configured>>

-----------------------------------------------------------------------------
(* Signups *)

subscriberCanBeConfirmedAgain(state) == state \notin {"erased", "complained"}

NoRequest(a) == [state |-> "none", address |-> a, overdue |-> FALSE]
NoJob == [status |-> "none", token |-> "no token", leased |-> FALSE]
NewConfirmation == [NoJob EXCEPT !.status = "pending"]

\* Settling those of the set that are pending, the trigger that deletes their
\* jobs included.
Settled(set, state) ==
    /\ request' = [r \in Signups |->
          IF r \in set /\ request[r].state = "pending"
          THEN [request[r] EXCEPT !.state = state] ELSE request[r]]
    /\ confirmation' = [r \in Signups |->
          IF r \in set /\ request[r].state = "pending" THEN NoJob ELSE confirmation[r]]

NewVisit == [pc |-> "idle", request |-> CHOOSE r \in Signups : TRUE, found |-> "none"]
VisitEnds(v) == visit' = [visit EXCEPT ![v] = NewVisit]

\* The form: nothing is taken without a sender, and nothing for an address
\* that may not come back this way.
requestSignup(v, r) ==
    /\ visit[v].pc = "idle" /\ configured
    /\ request[r].state = "none"
    /\ subscriberCanBeConfirmedAgain(subscriber[request[r].address])
    /\ visit' = [visit EXCEPT ![v] = [NewVisit EXCEPT !.pc = "save", !.request = r]]
    /\ UNCHANGED <<ledger, request, delivery, mailer, configured>>

savePendingSignup(v) ==
    LET r == visit[v].request
        a == request[r].address
    IN /\ visit[v].pc = "save"
       /\ IF request[r].state = "none"
          THEN /\ request' = [s \in Signups |->
                     IF s = r THEN [request[r] EXCEPT !.state = "pending"]
                     ELSE IF request[s].address = a /\ request[s].state = "pending"
                     THEN [request[s] EXCEPT !.state = "superseded"] ELSE request[s]]
               /\ confirmation' = [s \in Signups |->
                     IF s = r THEN NewConfirmation
                     ELSE IF request[s].address = a /\ request[s].state = "pending"
                     THEN NoJob ELSE confirmation[s]]
          ELSE UNCHANGED <<request, confirmation>>
       /\ VisitEnds(v)
       /\ UNCHANGED <<ledger, link, mail, mailer, configured>>

-----------------------------------------------------------------------------
(* Confirmation *)

\* The link carries the request; it is refused when the day is over.
confirmSignup(v, r) ==
    /\ visit[v].pc = "idle" /\ r \in link
    /\ request[r].state = "pending" /\ ~ request[r].overdue
    /\ visit' = [visit EXCEPT ![v] = [NewVisit EXCEPT !.pc = "find", !.request = r]]
    /\ UNCHANGED <<ledger, request, delivery, mailer, configured>>

findByIdentityKey(v) ==
    LET found == subscriber[request[visit[v].request].address]
    IN /\ visit[v].pc = "find"
       /\ visit' = [visit EXCEPT ![v].found = found, ![v].pc =
             IF subscriberCanBeConfirmedAgain(found) THEN "write" ELSE "refuse"]
       /\ UNCHANGED <<ledger, request, delivery, mailer, configured>>

\* A subscriber that somebody else created in the meantime is an error.
createWithEvent(v, r, a) ==
    IF subscriber[a] = "none" /\ ~ Written(r)
    THEN /\ subscriber' = [subscriber EXCEPT ![a] = "active"]
         /\ events' = events \cup {Event(r, a, "consent_recorded")}
         /\ visit' = [visit EXCEPT ![v].pc = "settle"]
    ELSE VisitEnds(v) /\ UNCHANGED ledger

\* Mutant: an erased subscriber is not told apart afterwards.
SavedIsActive(a) == TRUE

\* One that was erased in the meantime as well.
SavedIsKept(a) == subscriber[a] # "erased"

appendEvent(v, r, a) ==
    /\ resubscribed(r, a)
    /\ IF SavedIsKept(a) THEN visit' = [visit EXCEPT ![v].pc = "settle"] ELSE VisitEnds(v)

writeConsent(v) ==
    LET r == visit[v].request
        a == request[r].address
    IN /\ visit[v].pc = "write"
       /\ IF visit[v].found = "none" THEN createWithEvent(v, r, a) ELSE appendEvent(v, r, a)
       /\ UNCHANGED <<request, delivery, mailer, configured>>

settlePendingSignup(v) ==
    /\ visit[v].pc \in {"settle", "refuse"}
    /\ Settled({visit[v].request}, IF visit[v].pc = "settle" THEN "confirmed" ELSE "refused")
    /\ VisitEnds(v)
    /\ UNCHANGED <<ledger, link, mail, mailer, configured>>

VisitDies(v) ==
    /\ visit[v].pc # "idle"
    /\ VisitEnds(v)
    /\ UNCHANGED <<ledger, request, delivery, mailer, configured>>

-----------------------------------------------------------------------------
(* The cron *)

IdleMailer == [pc |-> "idle", batch |-> {}, outcome |-> "none"]

\* Signups whose day is over end whether or not a message could be sent.
expirePendingSignups(k) ==
    /\ mailer[k].pc = "idle"
    /\ Settled({r \in Signups : request[r].overdue}, "expired")
    /\ mailer' = [mailer EXCEPT ![k].pc = IF configured THEN "lapse" ELSE "idle"]
    /\ UNCHANGED <<ledger, link, mail, visit, configured>>

Lapsed(r) == confirmation[r].status = "processing" /\ ~ confirmation[r].leased

\* Mutant: the next run takes the messages of a run that died.
LapsedAreSentAgain ==
    /\ confirmation' = [r \in Signups |-> IF Lapsed(r) THEN NewConfirmation ELSE confirmation[r]]
    /\ UNCHANGED request

\* What became of the message is not known: its request ends.
LapsedEnd == Settled({r \in Signups : Lapsed(r)}, "expired")

settleLapsed(k) ==
    /\ mailer[k].pc = "lapse"
    /\ LapsedEnd
    /\ mailer' = [mailer EXCEPT ![k].pc = "claim"]
    /\ UNCHANGED <<ledger, link, mail, visit, configured>>

claimDueConfirmationJobs(k, due) ==
    /\ mailer[k].pc = "claim"
    /\ \A r \in due : confirmation[r].status = "pending"
    /\ confirmation' = [r \in Signups |->
          IF r \in due THEN [status |-> "processing", token |-> k, leased |-> TRUE]
          ELSE confirmation[r]]
    /\ mailer' = [mailer EXCEPT ![k].pc = "read"]
    /\ UNCHANGED <<ledger, request, link, mail, visit, configured>>

readClaimed(k) ==
    LET batch == {r \in Signups : /\ confirmation[r].status = "processing"
                                  /\ confirmation[r].token = k}
    IN /\ mailer[k].pc = "read"
       /\ mailer' = [mailer EXCEPT ![k] =
             IF batch = {} THEN IdleMailer ELSE [IdleMailer EXCEPT !.pc = "send", !.batch = batch]]
       /\ UNCHANGED <<ledger, request, delivery, visit, configured>>

\* Brevo may have taken a message whose answer is lost.
send(k, r, outcome, leaves) ==
    /\ mailer[k].pc = "send" /\ r \in mailer[k].batch
    /\ outcome = "sent" => leaves
    /\ outcome = "permanent_failure" => ~ leaves
    /\ link' = IF leaves THEN link \cup {r} ELSE link
    /\ mail' = IF leaves THEN [mail EXCEPT ![r] = @ + 1] ELSE mail
    /\ mailer' = [mailer EXCEPT ![k].pc = r, ![k].outcome = outcome]
    /\ UNCHANGED <<ledger, request, confirmation, visit, configured>>

MailerGoesOn(k, r) ==
    LET left == mailer[k].batch \ {r}
    IN mailer' = [mailer EXCEPT ![k] =
          IF left = {} THEN IdleMailer ELSE [IdleMailer EXCEPT !.pc = "send", !.batch = left]]

\* The last retry is followed by no other.
recordConfirmationOutcome(k, r) ==
    LET mine == confirmation[r].status # "none" /\ confirmation[r].token = k
    IN /\ mailer[k].pc = r
       /\ \/ /\ mailer[k].outcome = "retry"
             /\ confirmation' = IF mine THEN [confirmation EXCEPT ![r] = NewConfirmation]
                                ELSE confirmation
             /\ mail' = IF mine THEN [mail EXCEPT ![r] = 0] ELSE mail
             /\ UNCHANGED request
          \/ /\ mailer[k].outcome = "sent"
             /\ confirmation' = IF mine
                                THEN [confirmation EXCEPT ![r] = [NoJob EXCEPT !.status = "sent"]]
                                ELSE confirmation
             /\ UNCHANGED <<request, mail>>
          \/ /\ mailer[k].outcome \in {"retry", "permanent_failure"}
             /\ Settled(IF mine THEN {r} ELSE {}, "expired")
             /\ UNCHANGED mail
       /\ MailerGoesOn(k, r)
       /\ UNCHANGED <<ledger, link, visit, configured>>

MailerDies(k) ==
    /\ mailer[k].pc # "idle"
    /\ mailer' = [mailer EXCEPT ![k] = IdleMailer]
    /\ confirmation' = [r \in Signups |->
          IF confirmation[r].token = k THEN [confirmation[r] EXCEPT !.token = "lost"]
          ELSE confirmation[r]]
    /\ UNCHANGED <<ledger, request, link, mail, visit, configured>>

-----------------------------------------------------------------------------
(* Time and settings *)

LeaseEnds(r) ==
    /\ confirmation[r].leased
    /\ confirmation' = [confirmation EXCEPT ![r].leased = FALSE]
    /\ UNCHANGED <<ledger, request, link, mail, visit, mailer, configured>>

\* A day after the request.
DayEnds(r) ==
    /\ request[r].state = "pending" /\ ~ request[r].overdue
    /\ request' = [request EXCEPT ![r].overdue = TRUE]
    /\ UNCHANGED <<ledger, delivery, visit, mailer, configured>>

OperatorConfigures ==
    /\ configured' = ~ configured
    /\ UNCHANGED <<ledger, request, delivery, visit, mailer>>

-----------------------------------------------------------------------------
SignupInit ==
    /\ subscriber = [a \in Addresses |-> "none"] /\ events = {}
    /\ request \in [Signups -> {NoRequest(a) : a \in Addresses}]
    /\ confirmation = [r \in Signups |-> NoJob]
    /\ link = {} /\ mail = [r \in Signups |-> 0]
    /\ visit = [v \in Visitors |-> NewVisit]
    /\ mailer = [k \in Mailers |-> IdleMailer]
    /\ configured = TRUE

VisitStep(v) ==
    \/ \E r \in Signups : requestSignup(v, r) \/ confirmSignup(v, r)
    \/ savePendingSignup(v) \/ findByIdentityKey(v) \/ writeConsent(v)
    \/ settlePendingSignup(v) \/ VisitDies(v)

MailerStep(k) ==
    \/ expirePendingSignups(k) \/ settleLapsed(k) \/ readClaimed(k)
    \/ \E due \in SUBSET Signups : claimDueConfirmationJobs(k, due)
    \/ \E r \in Signups, leaves \in BOOLEAN,
          outcome \in {"sent", "retry", "permanent_failure"} : send(k, r, outcome, leaves)
    \/ \E r \in Signups : recordConfirmationOutcome(k, r)

SignupNext ==
    \/ \E v \in Visitors : VisitStep(v)
    \/ \E k \in Mailers : MailerStep(k) \/ MailerDies(k)
    \/ \E n \in Reports, a \in Addresses, reason \in Suppressions \ {"erased"} :
          ingestSuppressionByIdentityKey(n, a, reason)
    \/ \E n \in OwnerEvents, a \in Addresses : OwnerWrites(n, a)
    \/ \E r \in Signups : LeaseEnds(r) \/ DayEnds(r)
    \/ OperatorConfigures

SignupSpec == SignupInit /\ [][SignupNext]_signupVars

-----------------------------------------------------------------------------
\* Every row has one of its values.
SignupTypeOK ==
    /\ subscriber \in [Addresses -> States]
    /\ events \subseteq [key : Signups \cup Reports \cup OwnerEvents, address : Addresses,
                         type : Suppressions \cup {"consent_recorded", "resubscribed"}]
    /\ request \in [Signups ->
          [state : {"none", "pending", "confirmed", "expired", "superseded", "refused"},
           address : Addresses, overdue : BOOLEAN]]
    /\ confirmation \in [Signups -> [status : {"none", "pending", "processing", "sent"},
                                   token : Mailers \cup {"no token", "lost"}, leased : BOOLEAN]]
    /\ link \subseteq Signups /\ mail \in [Signups -> Nat]
    /\ visit \in [Visitors ->
          [pc : {"idle", "save", "find", "write", "refuse", "settle"},
           request : Signups, found : States]]
    /\ mailer \in [Mailers ->
          [pc : {"idle", "lapse", "claim", "read", "send"} \cup Signups,
           batch : SUBSET Signups,
           outcome : {"none", "sent", "retry", "permanent_failure"}]]
    /\ configured \in BOOLEAN

\* A request that is recorded as confirmed has its consent in the ledger,
\* whatever was erased, created or confirmed beside it and wherever the handler
\* died.
ConfirmedHasConsent ==
    \A r \in Signups : request[r].state = "confirmed" =>
        \E e \in events : /\ e.key = r /\ e.address = request[r].address
                          /\ e.type \in {"consent_recorded", "resubscribed"}

\* Nobody who was suppressed is written to again without a fresh consent in the
\* same step: a link that is confirmed again, a page that is loaded again or a
\* handler that goes on late reactivates nobody, and an erased one never comes
\* back.
SuppressionHolds ==
    [][\A a \in Addresses :
          subscriber[a] \in Suppressions /\ subscriber'[a] = "active" =>
             /\ subscriber[a] # "erased"
             /\ \E e \in events' \ events : e.address = a /\ e.type = "resubscribed"]_signupVars

\* A confirmation message is sent again only after an answer that asked for it:
\* not because a run died or was slow.
NoUnrequestedMessage == \A r \in Signups : mail[r] <= 1
===============================================================================
