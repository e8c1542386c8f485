------------------------ MODULE NewsletterSignupProofs ------------------------
(***************************************************************************)
(* Theorems about NewsletterSignup, for any number of addresses, requests, *)
(* visitors and runs of the cron.                                          *)
(***************************************************************************)
EXTENDS NewsletterSignup, TLAPS

-----------------------------------------------------------------------------
(* Types *)

LEMMA SignupSteps ==
    ASSUME SignupNext
    PROVE  \/ \E v \in Visitors, r \in Signups : requestSignup(v, r) \/ confirmSignup(v, r)
           \/ \E v \in Visitors : savePendingSignup(v)
           \/ \E v \in Visitors : findByIdentityKey(v)
           \/ \E v \in Visitors : writeConsent(v)
           \/ \E v \in Visitors : settlePendingSignup(v)
           \/ \E v \in Visitors : VisitDies(v)
           \/ \E k \in Mailers : expirePendingSignups(k)
           \/ \E k \in Mailers : settleLapsed(k)
           \/ \E k \in Mailers : readClaimed(k)
           \/ \E k \in Mailers, due \in SUBSET Signups : claimDueConfirmationJobs(k, due)
           \/ \E k \in Mailers, r \in Signups, leaves \in BOOLEAN,
                 outcome \in {"sent", "retry", "permanent_failure"} : send(k, r, outcome, leaves)
           \/ \E k \in Mailers, r \in Signups : recordConfirmationOutcome(k, r)
           \/ \E k \in Mailers : MailerDies(k)
           \/ \E n \in Reports, a \in Addresses, reason \in Suppressions \ {"erased"} :
                 ingestSuppressionByIdentityKey(n, a, reason)
           \/ \E n \in OwnerEvents, a \in Addresses : OwnerWrites(n, a)
           \/ \E r \in Signups : LeaseEnds(r) \/ DayEnds(r)
           \/ OperatorConfigures
  BY Zenon DEF SignupNext, VisitStep, MailerStep

RequestStates == {"none", "pending", "confirmed", "expired", "superseded", "refused"}
RequestRows == [state : RequestStates, address : Addresses, overdue : BOOLEAN]
JobRows == [status : {"none", "pending", "processing", "sent"},
            token : Mailers \cup {"no token", "lost"}, leased : BOOLEAN]
Keys == Signups \cup Reports \cup OwnerEvents
Types == Suppressions \cup {"consent_recorded", "resubscribed"}

LedgerOK ==
    /\ subscriber \in [Addresses -> States]
    /\ events \subseteq [key : Keys, address : Addresses, type : Types]
RequestsOK == request \in [Signups -> RequestRows]
JobsOK == confirmation \in [Signups -> JobRows]
MailOK == link \subseteq Signups /\ mail \in [Signups -> Nat]
VisitsOK == visit \in [Visitors ->
    [pc : {"idle", "save", "find", "write", "refuse", "settle"}, request : Signups, found : States]]
MailersOK == mailer \in [Mailers ->
    [pc : {"idle", "lapse", "claim", "read", "send"} \cup Signups, batch : SUBSET Signups,
     outcome : {"none", "sent", "retry", "permanent_failure"}]]

LEMMA TypeParts ==
    SignupTypeOK <=> /\ LedgerOK /\ RequestsOK /\ JobsOK /\ MailOK /\ VisitsOK /\ MailersOK
                     /\ configured \in BOOLEAN
  BY DEF SignupTypeOK, LedgerOK, RequestsOK, JobsOK, MailOK, VisitsOK, MailersOK, RequestRows,
         RequestStates, JobRows, Keys, Types

LEMMA StatesAre == States = {"none", "active", "unsubscribed", "hard_bounced", "complained", "erased"}
  BY DEF States, suppressionPrecedence

LEMMA SuppressionsAre == Suppressions \subseteq States \ {"none", "active"}
  BY StatesAre DEF Suppressions

LEMMA NewVisitType ==
    NewVisit \in [pc : {"idle"}, request : Signups, found : {"none"}]
  BY SignupAssumption DEF NewVisit

LEMMA NewJobType == NoJob \in JobRows /\ NewConfirmation \in JobRows
  BY DEF NoJob, NewConfirmation, JobRows

\* Ending requests and their jobs keeps the types of both and every address.
LEMMA SettledKeeps ==
    ASSUME RequestsOK, JobsOK, NEW set, NEW state \in RequestStates, Settled(set, state)
    PROVE  /\ RequestsOK' /\ JobsOK'
           /\ \A r \in Signups : /\ request'[r].address = request[r].address
                                 /\ request'[r].state \in {state, request[r].state}
                                 /\ request'[r].state # request[r].state => r \in set
<1>1. RequestsOK'
  BY DEF RequestsOK, Settled, RequestRows, RequestStates
<1>2. JobsOK'
  BY NewJobType DEF JobsOK, Settled
<1>3. ASSUME NEW r \in Signups
      PROVE  /\ request'[r].address = request[r].address
             /\ request'[r].state \in {state, request[r].state}
             /\ request'[r].state # request[r].state => r \in set
  BY <1>3 DEF Settled, RequestsOK, RequestRows
<1> QED
  BY <1>1, <1>2, <1>3

\* What the two ways to write the ledger keep: events are only added, and an
\* event is the writer's.
LEMMA AppendKeeps ==
    ASSUME LedgerOK, NEW key \in Keys, NEW a \in Addresses, NEW reason \in Suppressions,
           appendSuppression(key, a, reason)
    PROVE  /\ LedgerOK' /\ events \subseteq events'
           /\ \A e \in events' \ events : e.key = key /\ e.address = a
           /\ \A b \in Addresses : subscriber'[b] = "active" => subscriber[b] = "active"
<1>1. CASE Inserts(key, a, reason)
  <2>1. /\ events' = events \cup {Event(key, a, reason)}
        /\ subscriber' = subscriber \/ subscriber' = [subscriber EXCEPT ![a] = reason]
    BY <1>1 DEF appendSuppression
  <2>2. LedgerOK'
    BY <2>1, SuppressionsAre DEF LedgerOK, Event, Types
  <2>3. \A b \in Addresses : subscriber'[b] = "active" => subscriber[b] = "active"
    BY <2>1, SuppressionsAre DEF LedgerOK
  <2> QED
    BY <2>1, <2>2, <2>3 DEF Event
<1>2. CASE ~ Inserts(key, a, reason)
  BY <1>2 DEF appendSuppression, ledger, LedgerOK
<1> QED
  BY <1>1, <1>2

LEMMA ResubscribedKeeps ==
    ASSUME LedgerOK, NEW key \in Keys, NEW a \in Addresses, resubscribed(key, a)
    PROVE  /\ LedgerOK' /\ events \subseteq events'
           /\ \A e \in events' \ events : e.key = key /\ e.address = a /\ e.type = "resubscribed"
           /\ \A b \in Addresses : subscriber'[b] = "active" /\ subscriber[b] # "active" =>
                 /\ subscriber[b] # "erased"
                 /\ \E e \in events' \ events : e.address = b /\ e.type = "resubscribed"
           /\ subscriber[a] # "erased" => \E e \in events' : e.key = key
<1>1. CASE Inserts(key, a, "resubscribed")
  <2>1. events' = events \cup {Event(key, a, "resubscribed")}
    BY <1>1 DEF resubscribed
  <2>2. Event(key, a, "resubscribed") \notin events
    BY <1>1 DEF Inserts, Written, Event
  <2>3. \/ subscriber' = subscriber
        \/ subscriber' = [subscriber EXCEPT ![a] = "active"] /\ subscriber[a] # "erased"
    BY <1>1 DEF resubscribed, Reactivates
  <2>4. LedgerOK'
    BY <2>1, <2>3, StatesAre DEF LedgerOK, Event, Types
  <2>5. \A b \in Addresses : subscriber'[b] = "active" /\ subscriber[b] # "active" =>
            b = a /\ subscriber[b] # "erased"
    BY <2>3 DEF LedgerOK
  <2> QED
    BY <2>1, <2>2, <2>4, <2>5 DEF Event
<1>2. CASE ~ Inserts(key, a, "resubscribed")
  <2>1. events' = events /\ subscriber' = subscriber
    BY <1>2 DEF resubscribed, Reactivates
  <2> QED
    BY <2>1, <1>2 DEF LedgerOK, Inserts, Written
<1> QED
  BY <1>1, <1>2
-----------------------------------------------------------------------------
(* Every action keeps the types *)

\* Taking the parts of the type invariant that an action does not touch.
LEMMA Untouched ==
    ASSUME SignupTypeOK
    PROVE  /\ UNCHANGED ledger => LedgerOK'
           /\ UNCHANGED request => RequestsOK'
           /\ UNCHANGED confirmation => JobsOK'
           /\ UNCHANGED <<link, mail>> => MailOK'
           /\ UNCHANGED visit => VisitsOK'
           /\ UNCHANGED mailer => MailersOK'
           /\ UNCHANGED configured => configured' \in BOOLEAN
  BY TypeParts DEF ledger, LedgerOK, RequestsOK, JobsOK, MailOK, VisitsOK, MailersOK

LEMMA TypePartsNext ==
    ASSUME LedgerOK', RequestsOK', JobsOK', MailOK', VisitsOK', MailersOK', configured' \in BOOLEAN
    PROVE  SignupTypeOK'
  BY DEF SignupTypeOK, LedgerOK, RequestsOK, JobsOK, MailOK, VisitsOK, MailersOK, RequestRows,
         RequestStates, JobRows, Keys, Types

LEMMA SignupTypeInit == SignupInit => SignupTypeOK
<1> SUFFICES ASSUME SignupInit PROVE SignupTypeOK
  OBVIOUS
<1>1. LedgerOK
  BY StatesAre DEF SignupInit, LedgerOK
<1>2. RequestsOK
  <2>1. \A a \in Addresses : NoRequest(a) \in RequestRows
    BY DEF NoRequest, RequestRows, RequestStates
  <2> QED
    BY <2>1 DEF SignupInit, RequestsOK
<1>3. JobsOK /\ MailOK
  BY NewJobType DEF SignupInit, JobsOK, MailOK
<1>4. VisitsOK
  BY NewVisitType, StatesAre DEF SignupInit, VisitsOK
<1>5. MailersOK
  BY DEF SignupInit, MailersOK, IdleMailer
<1> QED
  BY <1>1, <1>2, <1>3, <1>4, <1>5, TypeParts DEF SignupInit

LEMMA SignupTypeStep == SignupTypeOK /\ [SignupNext]_signupVars => SignupTypeOK'
<1> SUFFICES ASSUME SignupTypeOK, [SignupNext]_signupVars
             PROVE  SignupTypeOK'
  OBVIOUS
<1> USE Untouched, TypePartsNext DEF ledger, delivery
<1>0. /\ LedgerOK /\ RequestsOK /\ JobsOK /\ MailOK /\ VisitsOK /\ MailersOK
      /\ configured \in BOOLEAN
  BY TypeParts
<1>1. ASSUME NEW v \in Visitors, VisitEnds(v)
      PROVE  VisitsOK'
  BY <1>0, <1>1, NewVisitType, StatesAre DEF VisitEnds, VisitsOK
<1>2. ASSUME NEW v \in Visitors, NEW r \in Signups, requestSignup(v, r) \/ confirmSignup(v, r)
      PROVE  SignupTypeOK'
  <2>1. PICK pc \in {"save", "find"} :
           visit' = [visit EXCEPT ![v] = [NewVisit EXCEPT !.pc = pc, !.request = r]]
    BY <1>2 DEF requestSignup, confirmSignup
  <2>2. VisitsOK'
    BY <1>0, <2>1, NewVisitType, StatesAre DEF VisitsOK
  <2> QED
    BY <2>2, <1>2 DEF requestSignup, confirmSignup
<1>3. ASSUME NEW v \in Visitors, savePendingSignup(v)
      PROVE  SignupTypeOK'
  <2> DEFINE r == visit[v].request
  <2>1. r \in Signups
    BY <1>0 DEF VisitsOK
  <2>2. CASE request[r].state = "none"
    <3>1. RequestsOK'
      BY <1>0, <1>3, <2>1, <2>2 DEF savePendingSignup, RequestsOK, RequestRows, RequestStates
    <3>2. JobsOK'
      BY <1>0, <1>3, <2>1, <2>2, NewJobType DEF savePendingSignup, JobsOK
    <3> QED
      BY <3>1, <3>2, <1>1, <1>3 DEF savePendingSignup
  <2>3. CASE request[r].state # "none"
    BY <2>3, <1>1, <1>3 DEF savePendingSignup
  <2> QED
    BY <2>2, <2>3
<1>4. ASSUME NEW v \in Visitors, findByIdentityKey(v)
      PROVE  SignupTypeOK'
  <2>1. request[visit[v].request].address \in Addresses
    BY <1>0 DEF VisitsOK, RequestsOK, RequestRows
  <2>2. VisitsOK'
    BY <1>0, <1>4, <2>1 DEF findByIdentityKey, VisitsOK, LedgerOK
  <2> QED
    BY <2>2, <1>4 DEF findByIdentityKey
<1>5. ASSUME NEW v \in Visitors, writeConsent(v)
      PROVE  SignupTypeOK'
  <2> DEFINE r == visit[v].request
             a == request[r].address
  <2>1. r \in Signups /\ a \in Addresses /\ r \in Keys
    BY <1>0 DEF VisitsOK, RequestsOK, RequestRows, Keys
  <2>2. CASE createWithEvent(v, r, a)
    <3>1. LedgerOK'
      BY <1>0, <2>1, <2>2, StatesAre DEF createWithEvent, LedgerOK, Event, Types
    <3>2. VisitsOK'
      BY <1>0, <1>1, <2>1, <2>2 DEF createWithEvent, VisitsOK
    <3> QED
      BY <3>1, <3>2, <1>5 DEF writeConsent
  <2>3. CASE appendEvent(v, r, a)
    <3>1. LedgerOK'
      BY <1>0, <2>1, <2>3, ResubscribedKeeps DEF appendEvent
    <3>2. VisitsOK'
      BY <1>0, <1>1, <2>1, <2>3 DEF appendEvent, VisitsOK
    <3> QED
      BY <3>1, <3>2, <1>5 DEF writeConsent
  <2> QED
    BY <2>2, <2>3, <1>5 DEF writeConsent
<1>6. ASSUME NEW v \in Visitors, settlePendingSignup(v)
      PROVE  SignupTypeOK'
  <2>1. RequestsOK' /\ JobsOK'
    BY <1>0, <1>6, SettledKeeps DEF settlePendingSignup, RequestStates
  <2> QED
    BY <2>1, <1>1, <1>6 DEF settlePendingSignup
<1>7. ASSUME NEW v \in Visitors, VisitDies(v)
      PROVE  SignupTypeOK'
  BY <1>1, <1>7 DEF VisitDies
<1>8. ASSUME NEW k \in Mailers, expirePendingSignups(k)
      PROVE  SignupTypeOK'
  <2>1. RequestsOK' /\ JobsOK'
    BY <1>0, <1>8, SettledKeeps DEF expirePendingSignups, RequestStates
  <2>2. MailersOK'
    BY <1>0, <1>8 DEF expirePendingSignups, MailersOK
  <2> QED
    BY <2>1, <2>2, <1>8 DEF expirePendingSignups
<1>9. ASSUME NEW k \in Mailers, settleLapsed(k)
      PROVE  SignupTypeOK'
  <2>1. RequestsOK' /\ JobsOK'
    BY <1>0, <1>9, SettledKeeps DEF settleLapsed, LapsedEnd, RequestStates
  <2>2. MailersOK'
    BY <1>0, <1>9 DEF settleLapsed, MailersOK
  <2> QED
    BY <2>1, <2>2, <1>9 DEF settleLapsed
<1>10. ASSUME NEW k \in Mailers, readClaimed(k)
       PROVE  SignupTypeOK'
  <2>1. MailersOK'
    BY <1>0, <1>10 DEF readClaimed, MailersOK, IdleMailer
  <2> QED
    BY <2>1, <1>10 DEF readClaimed
<1>11. ASSUME NEW k \in Mailers, NEW due \in SUBSET Signups, claimDueConfirmationJobs(k, due)
       PROVE  SignupTypeOK'
  <2>1. JobsOK'
    BY <1>0, <1>11 DEF claimDueConfirmationJobs, JobsOK, JobRows
  <2>2. MailersOK'
    BY <1>0, <1>11 DEF claimDueConfirmationJobs, MailersOK
  <2> QED
    BY <2>1, <2>2, <1>11 DEF claimDueConfirmationJobs
<1>12. ASSUME NEW k \in Mailers, NEW r \in Signups, NEW leaves \in BOOLEAN,
              NEW outcome \in {"sent", "retry", "permanent_failure"}, send(k, r, outcome, leaves)
       PROVE  SignupTypeOK'
  <2>1. MailOK'
    BY <1>0, <1>12 DEF send, MailOK
  <2>2. MailersOK'
    BY <1>0, <1>12 DEF send, MailersOK
  <2> QED
    BY <2>1, <2>2, <1>12 DEF send
<1>13. ASSUME NEW k \in Mailers, NEW r \in Signups, recordConfirmationOutcome(k, r)
       PROVE  SignupTypeOK'
  <2>1. MailersOK'
    BY <1>0, <1>13 DEF recordConfirmationOutcome, MailerGoesOn, IdleMailer, MailersOK
  <2>2. MailOK'
    BY <1>0, <1>13 DEF recordConfirmationOutcome, MailOK
  <2>3. ASSUME NEW j \in JobRows, UNCHANGED request,
               confirmation' \in {confirmation, [confirmation EXCEPT ![r] = j]}
        PROVE  SignupTypeOK'
    <3>1. JobsOK'
      BY <1>0, <2>3 DEF JobsOK
    <3> QED
      BY <2>1, <2>2, <2>3, <3>1, <1>13 DEF recordConfirmationOutcome
  <2>4. ASSUME NEW set, Settled(set, "expired")
        PROVE  SignupTypeOK'
    <3>1. RequestsOK' /\ JobsOK'
      BY <1>0, <2>4, SettledKeeps DEF RequestStates
    <3> QED
      BY <2>1, <2>2, <3>1, <1>13 DEF recordConfirmationOutcome
  <2>5. NewConfirmation \in JobRows /\ [NoJob EXCEPT !.status = "sent"] \in JobRows
    BY NewJobType DEF JobRows
  <2> QED
    BY <2>3, <2>4, <2>5, <1>13 DEF recordConfirmationOutcome
<1>14. ASSUME NEW k \in Mailers, MailerDies(k)
       PROVE  SignupTypeOK'
  <2>1. JobsOK'
    BY <1>0, <1>14 DEF MailerDies, JobsOK, JobRows
  <2>2. MailersOK'
    BY <1>0, <1>14 DEF MailerDies, MailersOK, IdleMailer
  <2> QED
    BY <2>1, <2>2, <1>14 DEF MailerDies
<1>15. ASSUME NEW n \in Reports, NEW a \in Addresses, NEW reason \in Suppressions \ {"erased"},
              ingestSuppressionByIdentityKey(n, a, reason)
       PROVE  SignupTypeOK'
  <2>1. LedgerOK'
    BY <1>0, <1>15, AppendKeeps DEF ingestSuppressionByIdentityKey, Keys
  <2> QED
    BY <2>1, <1>15 DEF ingestSuppressionByIdentityKey
<1>16. ASSUME NEW n \in OwnerEvents, NEW a \in Addresses, OwnerWrites(n, a)
       PROVE  SignupTypeOK'
  <2>0. n \in Keys
    BY DEF Keys
  <2>1. CASE subscriber[a] = "none" /\ events' = events \cup {Event(n, a, "consent_recorded")}
             /\ subscriber' = [subscriber EXCEPT ![a] = "active"]
    BY <1>0, <2>0, <2>1, StatesAre, <1>16 DEF OwnerWrites, LedgerOK, Event, Types
  <2>2. ASSUME NEW reason \in Suppressions, appendSuppression(n, a, reason)
        PROVE  SignupTypeOK'
    <3>1. LedgerOK'
      BY <1>0, <2>0, <2>2, AppendKeeps
    <3> QED
      BY <3>1, <1>16 DEF OwnerWrites
  <2>3. CASE resubscribed(n, a)
    <3>1. LedgerOK'
      BY <1>0, <2>0, <2>3, ResubscribedKeeps
    <3> QED
      BY <3>1, <1>16 DEF OwnerWrites
  <2> QED
    BY <2>1, <2>2, <2>3, <1>16 DEF OwnerWrites
<1>17. ASSUME NEW r \in Signups, LeaseEnds(r) \/ DayEnds(r)
       PROVE  SignupTypeOK'
  <2>1. JobsOK'
    BY ZenonT(40), <1>0, <1>17 DEF LeaseEnds, DayEnds, delivery, JobsOK, JobRows
  <2>2. RequestsOK'
    BY <1>0, <1>17 DEF LeaseEnds, DayEnds, RequestsOK, RequestRows
  <2> QED
    BY <2>1, <2>2, <1>17 DEF LeaseEnds, DayEnds
<1>18. ASSUME OperatorConfigures
       PROVE  SignupTypeOK'
  BY <1>0, <1>18 DEF OperatorConfigures
<1>19. CASE UNCHANGED signupVars
  BY <1>0, <1>19 DEF signupVars
<1> QED
  BY <1>2, <1>3, <1>4, <1>5, <1>6, <1>7, <1>8, <1>9, <1>10, <1>11, <1>12, <1>13, <1>14, <1>15,
     <1>16, <1>17, <1>18, <1>19, SignupSteps

\* Every row of requests, jobs, ledger, calls and runs keeps its type in every
\* reachable state.
THEOREM SignupTypeCorrect == SignupSpec => []SignupTypeOK
<1>1. SignupInit => SignupTypeOK
  BY SignupTypeInit
<1>2. SignupTypeOK /\ [SignupNext]_signupVars => SignupTypeOK'
  BY SignupTypeStep
<1> QED
  BY <1>1, <1>2, PTL DEF SignupSpec
-----------------------------------------------------------------------------
(* Consent *)

Consent(r) ==
    \E e \in events : /\ e.key = r /\ e.address = request[r].address
                      /\ e.type \in {"consent_recorded", "resubscribed"}

\* The event of a request is its consent, and a call that is about to record a
\* request as confirmed has written it: these make the property inductive.
KeyIsRequest ==
    \A e \in events : e.key \in Signups =>
        /\ e.address = request[e.key].address
        /\ e.type \in {"consent_recorded", "resubscribed"}
SettlesAfterConsent ==
    \A v \in Visitors : visit[v].pc = "settle" => Consent(visit[v].request)

SignupInv == SignupTypeOK /\ KeyIsRequest /\ SettlesAfterConsent /\ ConfirmedHasConsent

\* A step that neither lets go of an event nor of an address keeps consents.
LEMMA ConsentStays ==
    ASSUME events \subseteq events',
           \A r \in Signups : request'[r].address = request[r].address,
           NEW r \in Signups, Consent(r)
    PROVE  Consent(r)'
  BY DEF Consent

\* A step of anybody but the ledger's writers and the settling calls.
LEMMA AsideKeeps ==
    ASSUME SignupInv, UNCHANGED events,
           \A r \in Signups : /\ request'[r].address = request[r].address
                              /\ request'[r].state = "confirmed" => request[r].state = "confirmed",
           \A v \in Visitors : visit'[v].pc = "settle" => visit'[v] = visit[v]
    PROVE  KeyIsRequest' /\ SettlesAfterConsent' /\ ConfirmedHasConsent'
<1>1. KeyIsRequest'
  BY DEF SignupInv, KeyIsRequest
<1>2. SettlesAfterConsent'
  <2> SUFFICES ASSUME NEW v \in Visitors, visit'[v].pc = "settle"
               PROVE  Consent(visit[v].request)' /\ visit'[v] = visit[v]
    BY DEF SettlesAfterConsent, Consent
  <2>1. visit[v].pc = "settle" /\ visit'[v] = visit[v] /\ visit[v].request \in Signups
    BY TypeParts DEF SignupInv, VisitsOK
  <2>2. Consent(visit[v].request)
    BY <2>1 DEF SignupInv, SettlesAfterConsent
  <2> QED
    BY <2>1, <2>2 DEF Consent
<1>3. ConfirmedHasConsent'
  BY DEF SignupInv, ConfirmedHasConsent
<1> QED
  BY <1>1, <1>2, <1>3

\* A step that adds events under keys of others than the requests.
LEMMA OthersKeep ==
    ASSUME SignupInv, events \subseteq events', UNCHANGED <<request, visit>>,
           \A e \in events' \ events : e.key \notin Signups
    PROVE  KeyIsRequest' /\ SettlesAfterConsent' /\ ConfirmedHasConsent'
<1>1. KeyIsRequest'
  BY DEF SignupInv, KeyIsRequest
<1>2. SettlesAfterConsent'
  BY DEF SignupInv, SettlesAfterConsent, Consent
<1>3. ConfirmedHasConsent'
  BY DEF SignupInv, ConfirmedHasConsent
<1> QED
  BY <1>1, <1>2, <1>3

\* The write of the confirming call.
LEMMA WriteKeeps ==
    ASSUME SignupInv, NEW v \in Visitors, writeConsent(v)
    PROVE  KeyIsRequest' /\ SettlesAfterConsent' /\ ConfirmedHasConsent'
<1> DEFINE r == visit[v].request
           a == request[r].address
<1>1. /\ LedgerOK /\ r \in Signups /\ a \in Addresses /\ r \in Keys
      /\ visit \in [Visitors -> [pc : {"idle", "save", "find", "write", "refuse", "settle"},
                                 request : Signups, found : States]]
  BY TypeParts DEF SignupInv, VisitsOK, RequestsOK, RequestRows, Keys
<1>2. /\ request' = request /\ events \subseteq events'
      /\ \A e \in events' \ events :
            e.key = r /\ e.address = a /\ e.type \in {"consent_recorded", "resubscribed"}
  <2>1. CASE createWithEvent(v, r, a)
    BY <2>1 DEF writeConsent, createWithEvent, Event, ledger
  <2>2. CASE appendEvent(v, r, a)
    BY <2>2, <1>1, ResubscribedKeeps DEF writeConsent, appendEvent
  <2> QED
    BY <2>1, <2>2 DEF writeConsent
<1>3. KeyIsRequest'
  BY <1>2 DEF SignupInv, KeyIsRequest
<1>4. visit'[v].pc = "settle" => visit'[v].request = r /\ \E e \in events' : e.key = r
  <2>1. NewVisit.pc = "idle"
    BY DEF NewVisit
  <2>2. CASE createWithEvent(v, r, a)
    <3>1. \/ visit' = [visit EXCEPT ![v] = NewVisit]
          \/ /\ visit' = [visit EXCEPT ![v].pc = "settle"]
             /\ events' = events \cup {Event(r, a, "consent_recorded")}
      BY <2>2 DEF createWithEvent, VisitEnds
    <3>2. Event(r, a, "consent_recorded").key = r
      BY DEF Event
    <3> QED
      BY <2>1, <3>1, <3>2, <1>1
  <2>3. CASE appendEvent(v, r, a)
    <3>1. CASE SavedIsKept(a)
      <4>1. \E e \in events' : e.key = r
        BY <2>3, <3>1, <1>1, ResubscribedKeeps DEF appendEvent, SavedIsKept
      <4> QED
        BY <4>1, <2>3, <3>1, <1>1 DEF appendEvent
    <3>2. CASE ~ SavedIsKept(a)
      BY <2>3, <3>2, <2>1, <1>1 DEF appendEvent, VisitEnds
    <3> QED
      BY <3>1, <3>2
  <2> QED
    BY <2>2, <2>3 DEF writeConsent
<1>5. \A u \in Visitors \ {v} : visit'[u] = visit[u]
  BY <1>1 DEF writeConsent, createWithEvent, appendEvent, VisitEnds
<1>6. \A s \in Signups : Consent(s) => Consent(s)'
  BY <1>2 DEF Consent
<1>7. SettlesAfterConsent'
  <2> SUFFICES ASSUME NEW u \in Visitors, visit'[u].pc = "settle"
               PROVE  \E e \in events' : /\ e.key = visit'[u].request
                                         /\ e.address = request'[visit'[u].request].address
                                         /\ e.type \in {"consent_recorded", "resubscribed"}
    BY DEF SettlesAfterConsent, Consent
  <2>1. CASE u = v
    BY <2>1, <1>1, <1>3, <1>4 DEF KeyIsRequest
  <2>2. CASE u # v
    BY <2>2, <1>1, <1>2, <1>5 DEF SignupInv, SettlesAfterConsent, Consent
  <2> QED
    BY <2>1, <2>2
<1>8. ConfirmedHasConsent'
  BY <1>2 DEF SignupInv, ConfirmedHasConsent
<1> QED
  BY <1>3, <1>7, <1>8

\* The last step of the confirming call.
LEMMA SettleKeeps ==
    ASSUME SignupInv, NEW v \in Visitors, settlePendingSignup(v)
    PROVE  KeyIsRequest' /\ SettlesAfterConsent' /\ ConfirmedHasConsent'
<1>1. RequestsOK /\ JobsOK /\ VisitsOK
  BY TypeParts DEF SignupInv
<1>2. \A r \in Signups :
         /\ request'[r].address = request[r].address
         /\ request'[r].state = "confirmed" =>
               \/ request[r].state = "confirmed"
               \/ visit[v].pc = "settle" /\ r = visit[v].request
  BY <1>1, SettledKeeps DEF settlePendingSignup, RequestStates
<1>3. events' = events /\ VisitEnds(v)
  BY DEF settlePendingSignup, ledger
<1>4. KeyIsRequest'
  BY <1>2, <1>3 DEF SignupInv, KeyIsRequest
<1>5. SettlesAfterConsent'
  <2> SUFFICES ASSUME NEW u \in Visitors, visit'[u].pc = "settle"
               PROVE  Consent(visit[u].request)' /\ visit'[u] = visit[u]
    BY DEF SettlesAfterConsent, Consent
  <2>1. visit'[u] = visit[u]
    BY <1>1, <1>3 DEF VisitEnds, VisitsOK, NewVisit
  <2> QED
    BY <2>1, <1>1, <1>2, <1>3 DEF SignupInv, SettlesAfterConsent, Consent, VisitsOK
<1>6. ConfirmedHasConsent'
  BY <1>2, <1>3 DEF SignupInv, ConfirmedHasConsent, SettlesAfterConsent, Consent
<1> QED
  BY <1>4, <1>5, <1>6

LEMMA SignupInvInit == SignupInit => SignupInv
  BY SignupTypeInit
  DEF SignupInit, SignupInv, KeyIsRequest, SettlesAfterConsent, ConfirmedHasConsent, NewVisit,
      NoRequest

LEMMA SignupInvStep == SignupInv /\ [SignupNext]_signupVars => SignupInv'
<1> SUFFICES ASSUME SignupInv, [SignupNext]_signupVars
             PROVE  KeyIsRequest' /\ SettlesAfterConsent' /\ ConfirmedHasConsent'
  BY SignupTypeStep DEF SignupInv
<1> DEFINE Goal == KeyIsRequest' /\ SettlesAfterConsent' /\ ConfirmedHasConsent'
           SameOrOver == \A r \in Signups :
               /\ request'[r].address = request[r].address
               /\ request'[r].state = "confirmed" => request[r].state = "confirmed"
           SameOrIdle == \A v \in Visitors : visit'[v].pc = "settle" => visit'[v] = visit[v]
<1> USE AsideKeeps, OthersKeep DEF ledger, delivery
<1>0. LedgerOK /\ RequestsOK /\ JobsOK /\ VisitsOK
  BY TypeParts DEF SignupInv
<1>1. ASSUME NEW v \in Visitors, VisitEnds(v)
      PROVE  SameOrIdle
  BY <1>0, <1>1 DEF VisitEnds, VisitsOK, NewVisit
<1>2. ASSUME NEW v \in Visitors, NEW r \in Signups, requestSignup(v, r) \/ confirmSignup(v, r)
      PROVE  Goal
  <2>1. PICK pc \in {"save", "find"} :
           visit' = [visit EXCEPT ![v] = [NewVisit EXCEPT !.pc = pc, !.request = r]]
    BY <1>2 DEF requestSignup, confirmSignup
  <2>2. SameOrIdle
    BY <1>0, <2>1 DEF VisitsOK, NewVisit
  <2> QED
    BY <2>2, <1>2 DEF requestSignup, confirmSignup
<1>3. ASSUME NEW v \in Visitors, savePendingSignup(v)
      PROVE  Goal
  <2>1. SameOrOver
    BY <1>0, <1>3 DEF savePendingSignup, RequestsOK, RequestRows, VisitsOK
  <2> QED
    BY <2>1, <1>1, <1>3 DEF savePendingSignup
<1>4. ASSUME NEW v \in Visitors, findByIdentityKey(v)
      PROVE  Goal
  <2>1. SameOrIdle
    BY <1>0, <1>4 DEF findByIdentityKey, VisitsOK
  <2> QED
    BY <2>1, <1>4 DEF findByIdentityKey
<1>5. ASSUME NEW v \in Visitors, writeConsent(v)
      PROVE  Goal
  BY <1>5, WriteKeeps
<1>6. ASSUME NEW v \in Visitors, settlePendingSignup(v)
      PROVE  Goal
  BY <1>6, SettleKeeps
<1>7. ASSUME NEW v \in Visitors, VisitDies(v)
      PROVE  Goal
  BY <1>1, <1>7 DEF VisitDies
<1>8. ASSUME NEW set, Settled(set, "expired"), UNCHANGED <<events, visit>>
      PROVE  Goal
  <2>1. SameOrOver
    BY <1>0, <1>8, SettledKeeps DEF RequestStates
  <2> QED
    BY <2>1, <1>8
<1>9. ASSUME UNCHANGED <<events, request, visit>>
      PROVE  Goal
  BY <1>9
<1>10. ASSUME NEW k \in Mailers, expirePendingSignups(k) \/ settleLapsed(k)
       PROVE  Goal
  BY <1>8, <1>10 DEF expirePendingSignups, settleLapsed, LapsedEnd
<1>11. ASSUME NEW k \in Mailers, NEW r \in Signups, recordConfirmationOutcome(k, r)
       PROVE  Goal
  BY <1>8, <1>9, <1>11 DEF recordConfirmationOutcome
<1>12. ASSUME NEW n \in Reports, NEW a \in Addresses, NEW reason \in Suppressions \ {"erased"},
              ingestSuppressionByIdentityKey(n, a, reason)
       PROVE  Goal
  <2>1. n \in Keys /\ n \notin Signups
    BY SignupAssumption DEF Keys
  <2> QED
    BY <2>1, <1>0, <1>12, AppendKeeps DEF ingestSuppressionByIdentityKey
<1>13. ASSUME NEW n \in OwnerEvents, NEW a \in Addresses, OwnerWrites(n, a)
       PROVE  Goal
  <2>1. n \in Keys /\ n \notin Signups
    BY SignupAssumption DEF Keys
  <2>2. events \subseteq events' /\ \A e \in events' \ events : e.key = n
    <3>1. CASE events' = events \cup {Event(n, a, "consent_recorded")}
      BY <3>1 DEF Event
    <3>2. ASSUME NEW reason \in Suppressions, appendSuppression(n, a, reason)
          PROVE  events \subseteq events' /\ \A e \in events' \ events : e.key = n
      BY <3>2, <2>1, <1>0, AppendKeeps
    <3>3. CASE resubscribed(n, a)
      BY <3>3, <2>1, <1>0, ResubscribedKeeps
    <3> QED
      BY <3>1, <3>2, <3>3, <1>13 DEF OwnerWrites
  <2> QED
    BY <2>1, <2>2, <1>13 DEF OwnerWrites
<1>14. ASSUME NEW r \in Signups, DayEnds(r)
       PROVE  Goal
  <2>1. SameOrOver
    BY <1>0, <1>14 DEF DayEnds, RequestsOK, RequestRows
  <2> QED
    BY <2>1, <1>14 DEF DayEnds
<1>15. ASSUME NEW k \in Mailers,
              \/ readClaimed(k) \/ MailerDies(k)
              \/ \E due \in SUBSET Signups : claimDueConfirmationJobs(k, due)
              \/ \E r \in Signups, leaves \in BOOLEAN,
                    outcome \in {"sent", "retry", "permanent_failure"} : send(k, r, outcome, leaves)
       PROVE  Goal
  BY <1>9, <1>15 DEF readClaimed, MailerDies, claimDueConfirmationJobs, send
<1>16. ASSUME NEW r \in Signups, LeaseEnds(r)
       PROVE  Goal
  BY <1>9, <1>16 DEF LeaseEnds
<1>17. CASE OperatorConfigures
  BY <1>9, <1>17 DEF OperatorConfigures
<1>18. CASE UNCHANGED signupVars
  BY <1>9, <1>18 DEF signupVars
<1> QED
  BY <1>2, <1>3, <1>4, <1>5, <1>6, <1>7, <1>10, <1>11, <1>12, <1>13, <1>14, <1>15, <1>16, <1>17,
     <1>18, SignupSteps

\* A request recorded as confirmed has its consent in the ledger, wherever the
\* four steps of its confirmation were cut off and whatever was written beside
\* them.
THEOREM ConfirmedMeansConsent == SignupSpec => []ConfirmedHasConsent
<1>1. SignupInit => SignupInv
  BY SignupInvInit
<1>2. SignupInv /\ [SignupNext]_signupVars => SignupInv'
  BY SignupInvStep
<1>3. SignupInv => ConfirmedHasConsent
  BY DEF SignupInv
<1> QED
  BY <1>1, <1>2, <1>3, PTL DEF SignupSpec

-----------------------------------------------------------------------------
(* Suppression *)

ReturnsWithConsent ==
    \A a \in Addresses :
        subscriber[a] \in Suppressions /\ subscriber'[a] = "active" =>
           /\ subscriber[a] # "erased"
           /\ \E e \in events' \ events : e.address = a /\ e.type = "resubscribed"

LEMMA LedgerWriters ==
    ASSUME SignupTypeOK, [SignupNext]_signupVars
    PROVE  ReturnsWithConsent
<1>0. LedgerOK
  BY TypeParts
<1> USE SuppressionsAre, <1>0 DEF ReturnsWithConsent
<1>1. CASE UNCHANGED subscriber
  BY <1>1
<1>2. ASSUME NEW key \in Keys, NEW a \in Addresses, resubscribed(key, a)
      PROVE  ReturnsWithConsent
  BY <1>2, ResubscribedKeeps
<1>3. ASSUME NEW key \in Keys, NEW a \in Addresses, NEW reason \in Suppressions,
             appendSuppression(key, a, reason)
      PROVE  ReturnsWithConsent
  BY <1>3, AppendKeeps
<1>4. ASSUME NEW a, subscriber[a] = "none", subscriber' = [subscriber EXCEPT ![a] = "active"]
      PROVE  ReturnsWithConsent
  BY <1>4 DEF LedgerOK
<1>5. ASSUME NEW v \in Visitors, writeConsent(v)
      PROVE  ReturnsWithConsent
  <2>1. visit[v].request \in Keys /\ request[visit[v].request].address \in Addresses
    BY TypeParts DEF VisitsOK, RequestsOK, RequestRows, Keys
  <2> QED
    BY <2>1, <1>1, <1>2, <1>4, <1>5 DEF writeConsent, createWithEvent, appendEvent, ledger
<1>6. ASSUME NEW n \in Reports, NEW a \in Addresses, NEW reason \in Suppressions \ {"erased"},
             ingestSuppressionByIdentityKey(n, a, reason)
      PROVE  ReturnsWithConsent
  BY <1>3, <1>6 DEF ingestSuppressionByIdentityKey, Keys
<1>7. ASSUME NEW n \in OwnerEvents, NEW a \in Addresses, OwnerWrites(n, a)
      PROVE  ReturnsWithConsent
  <2>1. n \in Keys
    BY DEF Keys
  <2> QED
    BY <2>1, <1>2, <1>3, <1>4, <1>7 DEF OwnerWrites
<1>8. CASE UNCHANGED signupVars
  BY <1>1, <1>8 DEF signupVars
<1>9. ASSUME NEW v \in Visitors, NEW r \in Signups,
             \/ requestSignup(v, r) \/ confirmSignup(v, r) \/ savePendingSignup(v)
             \/ findByIdentityKey(v) \/ settlePendingSignup(v) \/ VisitDies(v)
      PROVE  UNCHANGED subscriber
  BY <1>9 DEF requestSignup, confirmSignup, savePendingSignup, findByIdentityKey,
              settlePendingSignup, VisitDies, ledger
<1>10. ASSUME NEW k \in Mailers, MailerStep(k) \/ MailerDies(k)
       PROVE  UNCHANGED subscriber
  BY <1>10 DEF MailerStep, expirePendingSignups, settleLapsed, readClaimed,
               claimDueConfirmationJobs, send, recordConfirmationOutcome, MailerDies, ledger
<1>11. ASSUME NEW r \in Signups, LeaseEnds(r) \/ DayEnds(r)
       PROVE  UNCHANGED subscriber
  BY <1>11 DEF LeaseEnds, DayEnds, ledger
<1>12. CASE OperatorConfigures
  BY <1>1, <1>12 DEF OperatorConfigures, ledger
<1> QED
  BY <1>1, <1>5, <1>6, <1>7, <1>8, <1>9, <1>10, <1>11, <1>12, SignupAssumption
  DEF SignupNext, VisitStep

\* Nobody who was suppressed becomes active again without a consent written in
\* the same step, and an erased one never does.
THEOREM SuppressionKept == SignupSpec => SuppressionHolds
<1>1. SignupTypeOK /\ [SignupNext]_signupVars => [ReturnsWithConsent]_signupVars
  BY LedgerWriters
<1>2. SignupSpec => [][ReturnsWithConsent]_signupVars
  BY <1>1, SignupTypeCorrect, PTL DEF SignupSpec
<1> QED
  BY <1>2, PTL DEF SuppressionHolds, ReturnsWithConsent
-----------------------------------------------------------------------------
(* Messages *)

\* A message that waits was not sent since it was put back, and no run has it.
QueueOK(r) ==
    /\ confirmation[r].status # "none" => request[r].state = "pending"
    /\ confirmation[r].status = "pending" \/ request[r].state = "none" =>
          mail[r] = 0 /\ \A k \in Mailers : r \notin mailer[k].batch
    /\ mail[r] \in {0, 1}

\* What a run has in its batch it claimed itself, and sends once.
HoldOK(k, r) ==
    /\ r \in mailer[k].batch =>
          /\ confirmation[r].status = "processing" => confirmation[r].token = k
          /\ mailer[k].pc # r => mail[r] = 0
          /\ \A l \in Mailers \ {k} : r \notin mailer[l].batch
    /\ confirmation[r].status = "processing" /\ confirmation[r].token = k
          /\ r \notin mailer[k].batch => mailer[k].pc = "read" /\ mail[r] = 0

\* Only a run that sends has a batch.
BatchOK(k) ==
    /\ mailer[k].pc \in {"idle", "lapse", "claim", "read"} => mailer[k].batch = {}
    /\ mailer[k].pc \in Signups => mailer[k].pc \in mailer[k].batch

MailInv ==
    /\ SignupTypeOK
    /\ \A r \in Signups : QueueOK(r)
    /\ \A k \in Mailers : BatchOK(k) /\ \A r \in Signups : HoldOK(k, r)

LEMMA JobFields ==
    /\ NoJob.status = "none" /\ NoJob.token = "no token"
    /\ NewConfirmation.status = "pending" /\ NewConfirmation.token = "no token"
  BY DEF NoJob, NewConfirmation

LEMMA MailInvInit == SignupInit => MailInv
<1> SUFFICES ASSUME SignupInit PROVE MailInv
  OBVIOUS
<1>1. /\ \A r \in Signups : confirmation[r].status = "none" /\ mail[r] = 0
      /\ \A k \in Mailers : mailer[k].pc = "idle" /\ mailer[k].batch = {}
  BY JobFields DEF SignupInit, IdleMailer
<1> QED
  BY <1>1, SignupTypeInit, SignupAssumption DEF MailInv, QueueOK, HoldOK, BatchOK

\* A step that ends some requests and lets the runs be, but for a run that goes
\* on to its next phase without a batch.
LEMMA EndingKeeps ==
    ASSUME MailInv, UNCHANGED mail, NEW set, NEW state \in RequestStates \ {"none", "pending"},
           Settled(set, state),
           \A k \in Mailers : /\ mailer'[k].batch = mailer[k].batch
                              /\ mailer'[k].pc = mailer[k].pc
                                 \/ /\ mailer[k].pc \in {"idle", "lapse"}
                                    /\ mailer'[k].pc \in {"idle", "lapse", "claim"}
    PROVE  /\ \A r \in Signups : QueueOK(r)'
           /\ \A k \in Mailers : BatchOK(k)' /\ \A r \in Signups : HoldOK(k, r)'
<1>1. \A r \in Signups :
         \/ request'[r] = request[r] /\ confirmation'[r] = confirmation[r]
         \/ request'[r].state = state /\ confirmation'[r].status = "none"
  BY TypeParts, JobFields DEF MailInv, Settled, RequestsOK, RequestRows
<1>2. ASSUME NEW r \in Signups
      PROVE  QueueOK(r)'
  <2>1. QueueOK(r)
    BY DEF MailInv
  <2>2. CASE request'[r] = request[r] /\ confirmation'[r] = confirmation[r]
    BY <2>1, <2>2 DEF QueueOK
  <2>3. CASE request'[r].state = state /\ confirmation'[r].status = "none"
    BY <2>1, <2>3 DEF QueueOK
  <2> QED
    BY <2>2, <2>3, <1>1
<1>3. ASSUME NEW k \in Mailers
      PROVE  BatchOK(k)'
  <2>1. BatchOK(k)
    BY DEF MailInv
  <2> QED
    BY <2>1, SignupAssumption DEF BatchOK
<1>4. ASSUME NEW k \in Mailers, NEW r \in Signups
      PROVE  HoldOK(k, r)'
  <2>1. HoldOK(k, r) /\ QueueOK(r) /\ BatchOK(k)
    BY DEF MailInv
  <2>2. CASE request'[r] = request[r] /\ confirmation'[r] = confirmation[r]
    BY <2>1, <2>2, SignupAssumption DEF HoldOK, BatchOK
  <2>3. CASE request'[r].state = state /\ confirmation'[r].status = "none"
    BY <2>1, <2>3, SignupAssumption DEF HoldOK, BatchOK
  <2> QED
    BY <2>2, <2>3, <1>1
<1> QED
  BY <1>2, <1>3, <1>4

LEMMA MailInvStep == MailInv /\ [SignupNext]_signupVars => MailInv'
<1> SUFFICES ASSUME MailInv, [SignupNext]_signupVars
             PROVE  /\ \A r \in Signups : QueueOK(r)'
                    /\ \A k \in Mailers : BatchOK(k)' /\ \A r \in Signups : HoldOK(k, r)'
  BY SignupTypeStep DEF MailInv
<1> DEFINE Goal == /\ \A r \in Signups : QueueOK(r)'
                   /\ \A k \in Mailers : BatchOK(k)' /\ \A r \in Signups : HoldOK(k, r)'
<1> USE DEF ledger, delivery
<1>0. RequestsOK /\ JobsOK /\ MailOK /\ VisitsOK /\ MailersOK
  BY TypeParts DEF MailInv
<1>1. ASSUME UNCHANGED <<mail, mailer>>,
             \A r \in Signups : /\ request'[r].state = request[r].state
                                /\ confirmation'[r].status = confirmation[r].status
                                /\ confirmation'[r].token = confirmation[r].token
      PROVE  Goal
  BY <1>1 DEF MailInv, QueueOK, HoldOK, BatchOK
<1>2. ASSUME UNCHANGED <<request, confirmation, mail, mailer>>
      PROVE  Goal
  BY <1>1, <1>2
<1>3. ASSUME NEW v \in Visitors, savePendingSignup(v)
      PROVE  Goal
  <2> DEFINE q == visit[v].request
  <2>1. q \in Signups /\ UNCHANGED <<mail, mailer>>
    BY <1>0, <1>3 DEF VisitsOK, savePendingSignup
  <2>2. CASE request[q].state = "none"
    <3>1. \A r \in Signups :
             \/ request'[r] = request[r] /\ confirmation'[r] = confirmation[r]
             \/ request'[r].state = "superseded" /\ confirmation'[r].status = "none"
             \/ r = q /\ request'[r].state = "pending" /\ confirmation'[r].status = "pending"
      <4> SUFFICES ASSUME NEW r \in Signups
                   PROVE  \/ request'[r] = request[r] /\ confirmation'[r] = confirmation[r]
                          \/ request'[r].state = "superseded" /\ confirmation'[r].status = "none"
                          \/ /\ r = q /\ request'[r].state = "pending"
                             /\ confirmation'[r].status = "pending"
        OBVIOUS
      <4>1. CASE r = q
        BY <4>1, JobFields, <1>0, <1>3, <2>1, <2>2 DEF savePendingSignup, RequestsOK, RequestRows
      <4>2. CASE r # q
        <5> DEFINE over == request[r].address = request[q].address /\ request[r].state = "pending"
        <5>1. /\ request'[r] = IF over THEN [request[r] EXCEPT !.state = "superseded"]
                               ELSE request[r]
              /\ confirmation'[r] = IF over THEN NoJob ELSE confirmation[r]
          BY <4>2, <1>3, <2>1, <2>2 DEF savePendingSignup
        <5>2. request[r] \in RequestRows
          BY <1>0 DEF RequestsOK
        <5>3. over => request'[r].state = "superseded"
          BY <5>1, <5>2 DEF RequestRows
        <5> QED
          BY <5>1, <5>3, JobFields
      <4> QED
        BY <4>1, <4>2
    <3>2. ASSUME NEW r \in Signups
          PROVE  QueueOK(r)'
      <4>1. QueueOK(r)
        BY DEF MailInv
      <4> QED
        BY <4>1, <2>1, <2>2, <3>1 DEF QueueOK
    <3>3. ASSUME NEW k \in Mailers
          PROVE  BatchOK(k)'
      <4>1. BatchOK(k)
        BY DEF MailInv
      <4> QED
        BY <4>1, <2>1 DEF BatchOK
    <3>4. ASSUME NEW k \in Mailers, NEW r \in Signups
          PROVE  HoldOK(k, r)'
      <4>1. HoldOK(k, r) /\ QueueOK(r) /\ BatchOK(k)
        BY DEF MailInv
      <4> QED
        BY <4>1, <2>1, <2>2, <3>1 DEF HoldOK, QueueOK
    <3> QED
      BY <3>2, <3>3, <3>4
  <2>3. CASE request[q].state # "none"
    BY <1>2, <1>3, <2>1, <2>3 DEF savePendingSignup
  <2> QED
    BY <2>2, <2>3
<1>4. ASSUME NEW v \in Visitors, NEW r \in Signups,
             \/ requestSignup(v, r) \/ confirmSignup(v, r) \/ findByIdentityKey(v)
             \/ writeConsent(v) \/ VisitDies(v)
      PROVE  Goal
  BY <1>2, <1>4 DEF requestSignup, confirmSignup, findByIdentityKey, writeConsent, VisitDies
<1>5. ASSUME NEW v \in Visitors, settlePendingSignup(v)
      PROVE  Goal
  BY <1>5, EndingKeeps DEF settlePendingSignup, RequestStates
<1>6. ASSUME NEW k \in Mailers, expirePendingSignups(k) \/ settleLapsed(k)
      PROVE  Goal
  <2>1. UNCHANGED mail /\ \E set : Settled(set, "expired")
    BY <1>6 DEF expirePendingSignups, settleLapsed, LapsedEnd
  <2>2. \A l \in Mailers : /\ mailer'[l].batch = mailer[l].batch
                           /\ mailer'[l].pc = mailer[l].pc
                              \/ /\ mailer[l].pc \in {"idle", "lapse"}
                                 /\ mailer'[l].pc \in {"idle", "lapse", "claim"}
    BY <1>0, <1>6 DEF expirePendingSignups, settleLapsed, MailersOK
  <2> QED
    BY <2>1, <2>2, EndingKeeps DEF RequestStates
<1>7. ASSUME NEW k \in Mailers, NEW due \in SUBSET Signups, claimDueConfirmationJobs(k, due)
      PROVE  Goal
  <2>1. /\ UNCHANGED <<request, mail>>
        /\ mailer[k].pc = "claim" /\ mailer[k].batch = {}
        /\ \A l \in Mailers : mailer'[l].batch = mailer[l].batch
        /\ \A l \in Mailers \ {k} : mailer'[l] = mailer[l]
        /\ mailer'[k].pc = "read"
    BY <1>0, <1>7 DEF claimDueConfirmationJobs, MailersOK, MailInv, BatchOK
  <2>2. \A r \in Signups : IF r \in due
           THEN /\ confirmation[r].status = "pending"
                /\ confirmation'[r].status = "processing" /\ confirmation'[r].token = k
           ELSE confirmation'[r] = confirmation[r]
    BY <1>7 DEF claimDueConfirmationJobs
  <2>3. ASSUME NEW r \in Signups
        PROVE  QueueOK(r)'
    <3>1. QueueOK(r)
      BY DEF MailInv
    <3> QED
      BY <3>1, <2>1, <2>2 DEF QueueOK
  <2>4. ASSUME NEW l \in Mailers
        PROVE  BatchOK(l)'
    <3>1. BatchOK(l)
      BY DEF MailInv
    <3> QED
      BY <3>1, <2>1, SignupAssumption DEF BatchOK
  <2>5. ASSUME NEW l \in Mailers, NEW r \in Signups
        PROVE  HoldOK(l, r)'
    <3>1. HoldOK(l, r) /\ QueueOK(r) /\ BatchOK(l)
      BY DEF MailInv
    <3> QED
      BY <3>1, <2>1, <2>2, SignupAssumption DEF HoldOK, QueueOK, BatchOK
  <2> QED
    BY <2>3, <2>4, <2>5
<1>8. ASSUME NEW k \in Mailers, readClaimed(k)
      PROVE  Goal
  <2>1. /\ UNCHANGED <<request, confirmation, mail>>
        /\ mailer[k].pc = "read" /\ mailer[k].batch = {}
        /\ \A l \in Mailers \ {k} : mailer'[l] = mailer[l]
        /\ mailer'[k].pc \in {"idle", "send"}
        /\ mailer'[k].pc = "idle" => mailer'[k].batch = {}
        /\ mailer'[k].batch = {r \in Signups : /\ confirmation[r].status = "processing"
                                               /\ confirmation[r].token = k}
    BY <1>0, <1>8 DEF readClaimed, MailersOK, MailInv, BatchOK, IdleMailer
  <2>2. ASSUME NEW r \in Signups
        PROVE  QueueOK(r)'
    <3>1. QueueOK(r)
      BY DEF MailInv
    <3> QED
      BY <3>1, <2>1 DEF QueueOK
  <2>3. ASSUME NEW l \in Mailers
        PROVE  BatchOK(l)'
    <3>1. BatchOK(l)
      BY DEF MailInv
    <3> QED
      BY <3>1, <2>1, SignupAssumption DEF BatchOK
  <2>4. ASSUME NEW l \in Mailers, NEW r \in Signups
        PROVE  HoldOK(l, r)'
    <3>1. CASE l = k
      <4>1. r \in mailer'[k].batch <=>
                confirmation[r].status = "processing" /\ confirmation[r].token = k
        BY <2>1
      <4>2. /\ r \in mailer'[k].batch => mail[r] = 0
            /\ \A m \in Mailers : r \in mailer[m].batch /\ confirmation[r].status = "processing" =>
                  confirmation[r].token = m
        BY <4>1, <2>1 DEF MailInv, HoldOK
      <4> QED
        BY <4>1, <4>2, <2>1, <3>1 DEF HoldOK
    <3>2. CASE l # k
      <4>1. HoldOK(l, r) /\ QueueOK(r) /\ BatchOK(l)
        BY DEF MailInv
      <4> QED
        BY <4>1, <2>1, <3>2 DEF HoldOK, QueueOK, BatchOK
    <3> QED
      BY <3>1, <3>2
  <2> QED
    BY <2>2, <2>3, <2>4
<1>9. ASSUME NEW k \in Mailers, NEW q \in Signups, NEW leaves \in BOOLEAN,
             NEW outcome \in {"sent", "retry", "permanent_failure"}, send(k, q, outcome, leaves)
      PROVE  Goal
  <2>1. /\ UNCHANGED <<request, confirmation>>
        /\ mailer[k].pc = "send" /\ q \in mailer[k].batch
        /\ \A l \in Mailers : mailer'[l].batch = mailer[l].batch
        /\ \A l \in Mailers \ {k} : mailer'[l] = mailer[l]
        /\ mailer'[k].pc = q
        /\ \A r \in Signups \ {q} : mail'[r] = mail[r]
    BY <1>0, <1>9 DEF send, MailersOK, MailOK
  <2>2. mail[q] = 0 /\ mail'[q] \in {0, 1}
    <3>1. mailer[k].pc # q
      BY <2>1, SignupAssumption
    <3>2. mail[q] = 0
      BY <3>1, <2>1 DEF MailInv, HoldOK
    <3> QED
      BY <3>2, <1>0, <1>9 DEF send, MailOK
  <2>3. /\ confirmation[q].status # "pending" /\ request[q].state # "none"
        /\ confirmation[q].status = "processing" => confirmation[q].token = k
        /\ \A l \in Mailers \ {k} : q \notin mailer[l].batch
    BY <2>1 DEF MailInv, QueueOK, HoldOK
  <2>4. ASSUME NEW r \in Signups
        PROVE  QueueOK(r)'
    <3>1. QueueOK(r)
      BY DEF MailInv
    <3> QED
      BY <3>1, <2>1, <2>2, <2>3 DEF QueueOK
  <2>5. ASSUME NEW l \in Mailers
        PROVE  BatchOK(l)'
    <3>1. BatchOK(l)
      BY DEF MailInv
    <3> QED
      BY <3>1, <2>1, SignupAssumption DEF BatchOK
  <2>6. ASSUME NEW l \in Mailers, NEW r \in Signups
        PROVE  HoldOK(l, r)'
    <3>1. CASE r = q
      <4>1. HoldOK(l, r) /\ QueueOK(r) /\ BatchOK(l)
        BY DEF MailInv
      <4> QED
        BY <4>1, <2>1, <2>3, <3>1 DEF HoldOK, QueueOK, BatchOK
    <3>2. CASE r # q
      <4>1. HoldOK(l, r) /\ QueueOK(r) /\ BatchOK(l)
        BY DEF MailInv
      <4> QED
        BY <4>1, <2>1, <3>2, SignupAssumption DEF HoldOK, QueueOK, BatchOK
    <3> QED
      BY <3>1, <3>2
  <2> QED
    BY <2>4, <2>5, <2>6
<1>10. ASSUME NEW k \in Mailers, NEW q \in Signups, recordConfirmationOutcome(k, q)
       PROVE  Goal
  <2>1. /\ mailer[k].pc = q /\ q \in mailer[k].batch
        /\ \A l \in Mailers \ {k} : mailer'[l] = mailer[l]
        /\ mailer'[k].batch = mailer[k].batch \ {q}
        /\ mailer'[k].pc \in {"idle", "send"}
        /\ mailer'[k].pc = "idle" => mailer'[k].batch = {}
    BY <1>0, <1>10 DEF recordConfirmationOutcome, MailerGoesOn, IdleMailer, MailersOK, MailInv,
                       BatchOK
  <2>2. /\ confirmation[q].status # "pending" /\ request[q].state # "none"
        /\ confirmation[q].status = "processing" => confirmation[q].token = k
        /\ confirmation[q].status # "none" => request[q].state = "pending"
        /\ \A l \in Mailers \ {k} : q \notin mailer[l].batch
    BY <2>1 DEF MailInv, QueueOK, HoldOK
  <2>3. /\ mail'[q] \in {mail[q], 0}
        /\ confirmation'[q].status = "pending" => mail'[q] = 0
        /\ confirmation'[q].status # "none" => request'[q].state = "pending"
        /\ request'[q].state # "none"
        /\ confirmation'[q].status # "processing"
    <3> DEFINE mine == confirmation[q].status # "none" /\ confirmation[q].token = k
    <3>1. CASE mine /\ confirmation' = [confirmation EXCEPT ![q] = NewConfirmation]
               /\ mail' = [mail EXCEPT ![q] = 0] /\ UNCHANGED request
      BY <1>0, <2>2, <3>1, JobFields DEF JobsOK, MailOK
    <3>2. CASE mine /\ UNCHANGED <<request, mail>>
               /\ confirmation' = [confirmation EXCEPT ![q] = [NoJob EXCEPT !.status = "sent"]]
      <4>1. [NoJob EXCEPT !.status = "sent"].status = "sent"
        BY DEF NoJob
      <4> QED
        BY <4>1, <1>0, <2>2, <3>2 DEF JobsOK
    <3>3. CASE ~ mine /\ UNCHANGED <<request, confirmation, mail>>
      BY <1>0, <2>2, <3>3 DEF JobsOK, JobRows
    <3>4. CASE Settled(IF mine THEN {q} ELSE {}, "expired") /\ UNCHANGED mail
      <4>1. CASE mine
        <5>1. request'[q].state = "expired" /\ confirmation'[q].status = "none"
          BY <1>0, <2>2, <3>4, <4>1, JobFields DEF Settled, RequestsOK, RequestRows
        <5> QED
          BY <5>1, <3>4
      <4>2. CASE ~ mine
        <5>1. request'[q] = request[q] /\ confirmation'[q] = confirmation[q]
          BY <3>4, <4>2 DEF Settled
        <5> QED
          BY <5>1, <1>0, <2>2, <3>4, <4>2 DEF JobsOK, JobRows
      <4> QED
        BY <4>1, <4>2
    <3> QED
      BY <3>1, <3>2, <3>3, <3>4, <1>10 DEF recordConfirmationOutcome
  <2>4. ASSUME NEW r \in Signups \ {q}
        PROVE  /\ mail'[r] = mail[r] /\ confirmation'[r] = confirmation[r]
               /\ request'[r] = request[r]
    BY <1>0, <1>10 DEF recordConfirmationOutcome, Settled, JobsOK, MailOK, RequestsOK
  <2>5. ASSUME NEW r \in Signups
        PROVE  QueueOK(r)'
    <3>1. CASE r = q
      <4>1. QueueOK(r)
        BY DEF MailInv
      <4> QED
        BY <4>1, <2>1, <2>2, <2>3, <3>1, <1>0 DEF QueueOK, MailOK
    <3>2. CASE r # q
      <4>1. QueueOK(r)
        BY DEF MailInv
      <4> QED
        BY <4>1, <2>1, <2>4, <3>2 DEF QueueOK
    <3> QED
      BY <3>1, <3>2
  <2>6. ASSUME NEW l \in Mailers
        PROVE  BatchOK(l)'
    <3>1. BatchOK(l)
      BY DEF MailInv
    <3> QED
      BY <3>1, <2>1, SignupAssumption DEF BatchOK
  <2>7. ASSUME NEW l \in Mailers, NEW r \in Signups
        PROVE  HoldOK(l, r)'
    <3>1. CASE r = q
      BY <2>1, <2>2, <2>3, <3>1 DEF HoldOK
    <3>2. CASE r # q
      <4>1. HoldOK(l, r) /\ QueueOK(r) /\ BatchOK(l)
        BY DEF MailInv
      <4>2. \A m \in Mailers : r \in mailer'[m].batch <=> r \in mailer[m].batch
        BY <2>1, <3>2
      <4>3. mail'[r] = mail[r] /\ confirmation'[r] = confirmation[r]
        BY <2>4, <3>2
      <4>4. CASE l = k
        <5>1. mailer[l].pc # r /\ mailer[l].pc # "read" /\ mailer'[l].pc # r
          BY <2>1, <3>2, <4>4, SignupAssumption
        <5> QED
          BY <4>1, <4>2, <4>3, <5>1 DEF HoldOK
      <4>5. CASE l # k
        <5>1. mailer'[l] = mailer[l]
          BY <2>1, <4>5
        <5> QED
          BY <4>1, <4>2, <4>3, <5>1 DEF HoldOK
      <4> QED
        BY <4>4, <4>5
    <3> QED
      BY <3>1, <3>2
  <2> QED
    BY <2>5, <2>6, <2>7
<1>11. ASSUME NEW k \in Mailers, MailerDies(k)
       PROVE  Goal
  <2>1. /\ UNCHANGED <<request, mail>>
        /\ \A l \in Mailers \ {k} : mailer'[l] = mailer[l]
        /\ mailer'[k].batch = {} /\ mailer'[k].pc = "idle"
    BY <1>0, <1>11 DEF MailerDies, MailersOK, IdleMailer
  <2>2. \A r \in Signups :
           /\ confirmation'[r].status = confirmation[r].status
           /\ confirmation'[r].token = IF confirmation[r].token = k THEN "lost"
                                       ELSE confirmation[r].token
    BY <1>0, <1>11 DEF MailerDies, JobsOK, JobRows
  <2>3. ASSUME NEW r \in Signups
        PROVE  QueueOK(r)'
    <3>1. QueueOK(r)
      BY DEF MailInv
    <3> QED
      BY <3>1, <2>1, <2>2 DEF QueueOK
  <2>4. ASSUME NEW l \in Mailers
        PROVE  BatchOK(l)'
    <3>1. BatchOK(l)
      BY DEF MailInv
    <3> QED
      BY <3>1, <2>1, SignupAssumption DEF BatchOK
  <2>5. ASSUME NEW l \in Mailers, NEW r \in Signups
        PROVE  HoldOK(l, r)'
    <3>1. HoldOK(l, r) /\ QueueOK(r) /\ BatchOK(l)
      BY DEF MailInv
    <3> QED
      BY <3>1, <2>1, <2>2, SignupAssumption DEF HoldOK, QueueOK, BatchOK
  <2> QED
    BY <2>3, <2>4, <2>5
<1>12. ASSUME NEW r \in Signups, LeaseEnds(r) \/ DayEnds(r)
       PROVE  Goal
  <2>1. \A s \in Signups : /\ request'[s].state = request[s].state
                            /\ confirmation'[s].status = confirmation[s].status
                            /\ confirmation'[s].token = confirmation[s].token
    <3>1. CASE LeaseEnds(r)
      BY <3>1, <1>0 DEF LeaseEnds, JobsOK, JobRows
    <3>2. CASE DayEnds(r)
      BY <3>2, <1>0 DEF DayEnds, RequestsOK, RequestRows
    <3> QED
      BY <3>1, <3>2, <1>12
  <2> QED
    BY <2>1, <1>1, <1>12 DEF LeaseEnds, DayEnds
<1>13. ASSUME NEW n, NEW a, NEW reason, ingestSuppressionByIdentityKey(n, a, reason) \/ OwnerWrites(n, a)
       PROVE  Goal
  BY <1>2, <1>13 DEF ingestSuppressionByIdentityKey, OwnerWrites
<1>14. CASE OperatorConfigures
  BY <1>2, <1>14 DEF OperatorConfigures
<1>15. CASE UNCHANGED signupVars
  BY <1>2, <1>15 DEF signupVars
<1> QED
  BY <1>3, <1>4, <1>5, <1>6, <1>7, <1>8, <1>9, <1>10, <1>11, <1>12, <1>13, <1>14, <1>15,
     SignupAssumption, SignupSteps

\* No message leaves twice for a request without an answer that asked for it:
\* neither overlapping runs, nor one that is slow or dies, repeat it.
THEOREM OneMessageEach == SignupSpec => []NoUnrequestedMessage
<1>1. SignupInit => MailInv
  BY MailInvInit
<1>2. MailInv /\ [SignupNext]_signupVars => MailInv'
  BY MailInvStep
<1>3. MailInv => NoUnrequestedMessage
  BY DEF MailInv, QueueOK, NoUnrequestedMessage
<1> QED
  BY <1>1, <1>2, <1>3, PTL DEF SignupSpec
===============================================================================
