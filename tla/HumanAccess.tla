----------------------------- MODULE HumanAccess -----------------------------
(***************************************************************************)
(* Who may use the dashboard of a site, and the exact e-mail list of the   *)
(* Cloudflare Access policy that is kept in step with it.                  *)
(*                                                                         *)
(* Owners invite, suspend, revoke and change roles while others do the     *)
(* same; the database keeps the last Owner.  Every change that matters to  *)
(* the outer gate leaves an operation in an outbox.  A reconciliation      *)
(* reads the operations, then the eligible e-mails, replaces the list at   *)
(* Cloudflare, reads the e-mails again and marks the operations.  Those of *)
(* several requests and of the cron overlap, fail and die.                 *)
(***************************************************************************)
EXTENDS Naturals, FiniteSets

CONSTANTS
    Emails,       \* e-mail addresses
    Subjects,     \* subjects of the identity provider
    Members,      \* membership rows, the first one included
    Invitations,  \* invitation rows
    Requests,     \* requests that may overlap
    Cron,         \* the run of the cron
    FirstMember, FirstEmail, FirstSubject,  \* the Owner the site was set up with
    Unbound,      \* no member
    maximumEligibilitySyncAttempts,  \* rounds of one reconciliation, 3 in the code
    Changes       \* bound: changes of a membership's status, each with its operation

ASSUME AccessAssumption ==
    /\ FirstMember \in Members /\ FirstEmail \in Emails /\ FirstSubject \in Subjects
    /\ Unbound \notin Members /\ Cron \notin Requests
    /\ IsFiniteSet(Members) /\ maximumEligibilitySyncAttempts \in Nat \ {0}
    /\ Invitations \cap Changes = {}

VARIABLES
    member,      \* human_memberships
    identity,    \* human_external_identities: the member a subject is bound to
    invitation,  \* human_invitations
    syncOutbox,  \* the pending operations of human_access_sync_outbox
    changes,     \* the status changes so far
    access,      \* the e-mails of the policy at Cloudflare
    call         \* what each caller holds

accessVars == <<member, identity, invitation, syncOutbox, changes, access, call>>

-----------------------------------------------------------------------------
Roles == {"owner", "editor"}
Open == {"pending_access_sync", "pending_acceptance"}

Callers == Requests \cup {Cron}

NoMember == [status |-> "none", role |-> "editor", email |-> FirstEmail]
NoInvitation == [status |-> "none", role |-> "editor", email |-> FirstEmail,
                 expired |-> FALSE]

\* late: the invitations whose time was over when the reconciliation began, for
\* it works with the clock it read then.
IdleCaller == [pc |-> "idle", mode |-> "pending", ops |-> {}, late |-> {},
               emails |-> {}, attempt |-> 0]

AccessInit ==
    /\ member = [m \in Members |->
          IF m = FirstMember
          THEN [status |-> "active", role |-> "owner", email |-> FirstEmail]
          ELSE NoMember]
    /\ identity = [s \in Subjects |-> IF s = FirstSubject THEN FirstMember ELSE Unbound]
    /\ invitation = [i \in Invitations |-> NoInvitation]
    /\ syncOutbox = {} /\ changes = {}
    /\ access = {FirstEmail}
    /\ call = [c \in Callers |-> IdleCaller]

\* A membership that is not revoked holds its e-mail and its identity.
Current(m) == member[m].status \in {"active", "suspended"}
HoldsEmail(e) == \E m \in Members : Current(m) /\ member[m].email = e
Bound(s) == identity[s] # Unbound /\ Current(identity[s])

ActiveOwner(m) == member[m].status = "active" /\ member[m].role = "owner"

\* The actor is looked up again for every command.
Authorized(s) == identity[s] # Unbound /\ ActiveOwner(identity[s])

Becomes(c, pc) == call' = [call EXCEPT ![c].pc = pc]
Finishes(c) == call' = [call EXCEPT ![c] = IdleCaller]
StartsSync(c) == call' = [call EXCEPT ![c] = [IdleCaller EXCEPT !.pc = "pending"]]

-----------------------------------------------------------------------------
(* Commands of an Owner: the capability first, the transaction later.        *)

requireCapability(c, s, command) ==
    /\ call[c].pc = "idle" /\ Authorized(s)
    /\ command = "invite" => \E i \in Invitations : invitation[i].status = "none"
    /\ Becomes(c, command)
    /\ UNCHANGED <<member, identity, invitation, syncOutbox, changes, access>>

\* Earlier invitations of the address end.
saveInvitationIfEmailAvailable(c, i, e, role) ==
    /\ call[c].pc = "invite" /\ invitation[i].status = "none"
    /\ IF HoldsEmail(e)
       THEN Finishes(c) /\ UNCHANGED <<invitation, syncOutbox>>
       ELSE /\ invitation' = [j \in Invitations |->
                  IF j = i THEN [status |-> "pending_access_sync", role |-> role,
                                 email |-> e, expired |-> FALSE]
                  ELSE IF invitation[j].email = e /\ invitation[j].status \in Open
                  THEN [invitation[j] EXCEPT !.status = "revoked"]
                  ELSE invitation[j]]
            /\ syncOutbox' = syncOutbox \cup {i}
            /\ StartsSync(c)
    /\ UNCHANGED <<member, identity, changes, access>>

\* Mutant: the owners that are counted need not be active.
LeavesAnyOwner(m, status, role) ==
    ActiveOwner(m) /\ ~ (status = "active" /\ role = "owner") =>
        Cardinality({n \in Members : Current(n) /\ member[n].role = "owner"}) > 1

\* The trigger that refuses to let the last active Owner go.
PreservesOwner(m, status, role) ==
    ActiveOwner(m) /\ ~ (status = "active" /\ role = "owner") =>
        Cardinality({n \in Members : ActiveOwner(n)}) > 1

\* A test delivery that is being sent to the member may refuse the change.
changeMembershipStatus(c, m, status) ==
    /\ call[c].pc = "status" /\ member[m].status # "none"
    /\ \/ /\ member[m].status = "revoked" => status = "revoked"
          /\ PreservesOwner(m, status, member[m].role)
          /\ member' = [member EXCEPT ![m].status = status]
          /\ \E n \in Changes \ changes :
                changes' = changes \cup {n} /\ syncOutbox' = syncOutbox \cup {n}
          /\ StartsSync(c)
       \/ Finishes(c) /\ UNCHANGED <<member, changes, syncOutbox>>
    /\ UNCHANGED <<identity, invitation, access>>

\* A role is nothing to the outer gate.
changeMembershipRole(c, m, role) ==
    /\ call[c].pc = "role"
    /\ IF Current(m) /\ PreservesOwner(m, member[m].status, role)
       THEN member' = [member EXCEPT ![m].role = role] ELSE UNCHANGED member
    /\ Finishes(c)
    /\ UNCHANGED <<identity, invitation, syncOutbox, changes, access>>

-----------------------------------------------------------------------------
(* Claims.                                                                   *)

\* Mutant: a bound subject is taken over.
ClaimableByAnyone(i, s) ==
    /\ invitation[i].status = "pending_acceptance" /\ ~ invitation[i].expired
    /\ ~ HoldsEmail(invitation[i].email)

Claimable(i, s) ==
    /\ invitation[i].status = "pending_acceptance" /\ ~ invitation[i].expired
    /\ ~ HoldsEmail(invitation[i].email)
    /\ ~ Bound(s)

\* A new user and membership; a subject of a revoked one is bound anew.
claimInvitation(i, s, m) ==
    /\ Claimable(i, s) /\ member[m].status = "none"
    /\ member' = [member EXCEPT ![m] = [status |-> "active",
                                        role |-> invitation[i].role,
                                        email |-> invitation[i].email]]
    /\ identity' = [identity EXCEPT ![s] = m]
    /\ invitation' = [invitation EXCEPT ![i].status = "claimed"]
    /\ UNCHANGED <<syncOutbox, changes, access, call>>

\* Seven days after an invitation.
InvitationExpires(i) ==
    /\ invitation[i].status \in Open /\ ~ invitation[i].expired
    /\ invitation' = [invitation EXCEPT ![i].expired = TRUE]
    /\ UNCHANGED <<member, identity, syncOutbox, changes, access, call>>

-----------------------------------------------------------------------------
(* Reconciliation.                                                           *)

\* The cron starts one every five minutes, an Owner when he likes.
StartsReconciliation(c) ==
    /\ call[c].pc = "idle"
    /\ c # Cron => \E s \in Subjects : Authorized(s)
    /\ call' = [call EXCEPT ![c] = [IdleCaller EXCEPT !.pc = "pending",
                    !.mode = IF c = Cron THEN "scheduled" ELSE "ensure"]]
    /\ UNCHANGED <<member, identity, invitation, syncOutbox, changes, access>>

\* Mutant: without operations there is nothing to reconcile.
NoOperationsNoWork(c, ops) == ops = {}

\* Without operations the cron and an Owner reconcile all the same.
NothingToDo(c, ops) == ops = {} /\ (syncOutbox # {} \/ call[c].mode = "pending")

\* The cron takes the operations whose next attempt is due.
listPendingEligibilitySync(c, ops) ==
    /\ call[c].pc = "pending"
    /\ ops \subseteq syncOutbox
    /\ call[c].mode # "scheduled" => ops = syncOutbox
    /\ call' = [call EXCEPT ![c] =
          IF NothingToDo(c, ops) THEN IdleCaller
          ELSE [@ EXCEPT !.pc = "listing", !.ops = ops,
                         !.late = {i \in Invitations : invitation[i].expired}]]
    /\ UNCHANGED <<member, identity, invitation, syncOutbox, changes, access>>

EligibleAt(late) ==
    {member[m].email : m \in {n \in Members : member[n].status = "active"}}
    \cup {invitation[i].email :
             i \in {j \in Invitations : invitation[j].status \in Open /\ j \notin late}}

listAccessEligibleEmails(c) ==
    /\ call[c].pc = "listing"
    /\ call' = [call EXCEPT ![c].pc = "replacing", ![c].emails = EligibleAt(call[c].late)]
    /\ UNCHANGED <<member, identity, invitation, syncOutbox, changes, access>>

\* The list is read and put only when it differs.
putPolicy(c) ==
    /\ call[c].pc = "replacing"
    /\ access' = call[c].emails
    /\ Becomes(c, IF access = call[c].emails THEN "comparing" ELSE "verifying")
    /\ UNCHANGED <<member, identity, invitation, syncOutbox, changes>>

\* It is read once more: another caller may have put another one.
verifyPolicy(c) ==
    /\ call[c].pc = "verifying"
    /\ Becomes(c, IF access = call[c].emails THEN "comparing" ELSE "failing")
    /\ UNCHANGED <<member, identity, invitation, syncOutbox, changes, access>>

\* What Cloudflare was told is compared with what is true now.
CompareEmails(c) ==
    LET latest == EligibleAt(call[c].late)
        next == call[c].attempt + 1
    IN /\ call[c].pc = "comparing"
       /\ IF latest = call[c].emails THEN Becomes(c, "marking")
          ELSE call' = [call EXCEPT ![c].emails = latest, ![c].attempt = next,
                    ![c].pc = IF next < maximumEligibilitySyncAttempts
                              THEN "replacing" ELSE "failing"]
       /\ UNCHANGED <<member, identity, invitation, syncOutbox, changes, access>>

\* Mutant: whatever is pending by now is marked.
AllPending(c) == syncOutbox

OperationsRead(c) == call[c].ops

markEligibilitySynchronized(c) ==
    LET marked == OperationsRead(c)
    IN /\ call[c].pc = "marking"
       /\ invitation' = [i \in Invitations |->
             IF i \in marked /\ i \notin call[c].late
                /\ invitation[i].status = "pending_access_sync"
             THEN [invitation[i] EXCEPT !.status = "pending_acceptance"]
             ELSE invitation[i]]
       /\ syncOutbox' = syncOutbox \ marked
       /\ Finishes(c)
       /\ UNCHANGED <<member, identity, changes, access>>

\* A call to Cloudflare fails, before or after the list was put.
AccessCallFails(c) ==
    /\ call[c].pc \in {"replacing", "verifying"}
    /\ Becomes(c, "failing")
    /\ UNCHANGED <<member, identity, invitation, syncOutbox, changes, access>>

\* The operations stay pending, their next attempt later.
recordEligibilitySyncFailure(c) ==
    /\ call[c].pc = "failing"
    /\ Finishes(c)
    /\ UNCHANGED <<member, identity, invitation, syncOutbox, changes, access>>

CallerDies(c) ==
    /\ call[c].pc # "idle"
    /\ Finishes(c)
    /\ UNCHANGED <<member, identity, invitation, syncOutbox, changes, access>>

-----------------------------------------------------------------------------
ReconciliationStep(c) ==
    \/ StartsReconciliation(c)
    \/ \E ops \in SUBSET syncOutbox : listPendingEligibilitySync(c, ops)
    \/ listAccessEligibleEmails(c) \/ putPolicy(c) \/ verifyPolicy(c)
    \/ CompareEmails(c) \/ markEligibilitySynchronized(c)
    \/ recordEligibilitySyncFailure(c)

OwnerCommand(c) ==
    \/ \E s \in Subjects, command \in {"invite", "status", "role"} :
          requireCapability(c, s, command)
    \/ \E i \in Invitations, e \in Emails, role \in Roles :
          saveInvitationIfEmailAvailable(c, i, e, role)
    \/ \E m \in Members, status \in {"active", "suspended", "revoked"} :
          changeMembershipStatus(c, m, status)
    \/ \E m \in Members, role \in Roles : changeMembershipRole(c, m, role)

AccessNext ==
    \/ \E c \in Requests : OwnerCommand(c)
    \/ \E i \in Invitations, s \in Subjects, m \in Members : claimInvitation(i, s, m)
    \/ \E i \in Invitations : InvitationExpires(i)
    \/ \E c \in Callers : ReconciliationStep(c) \/ AccessCallFails(c) \/ CallerDies(c)

AccessSpec == AccessInit /\ [][AccessNext]_accessVars

-----------------------------------------------------------------------------
Operations == Invitations \cup Changes

\* Every row has one of its values.
AccessTypeOK ==
    /\ member \in [Members -> [status : {"none", "active", "suspended", "revoked"},
                               role : Roles, email : Emails]]
    /\ identity \in [Subjects -> Members \cup {Unbound}]
    /\ invitation \in [Invitations ->
          [status : {"none", "claimed", "revoked"} \cup Open, role : Roles,
           email : Emails, expired : BOOLEAN]]
    /\ syncOutbox \subseteq Operations /\ changes \subseteq Changes
    /\ access \subseteq Emails
    /\ call \in [Callers ->
          [pc : {"idle", "invite", "status", "role", "pending", "listing",
                 "replacing", "verifying", "comparing", "marking", "failing"},
           mode : {"pending", "scheduled", "ensure"}, ops : SUBSET Operations,
           late : SUBSET Invitations, emails : SUBSET Emails,
           attempt : 0..maximumEligibilitySyncAttempts]]

\* Whatever Owners do to one another at the same time, there is an active Owner
\* and a subject that is bound to it: the site is never locked up.
OwnerCanSignIn == \E s \in Subjects : Authorized(s)

\* An invitation is announced as ready only by a caller whose list at Cloudflare
\* held its address.
GrantIsConfirmed ==
    [][\A i \in Invitations :
          invitation[i].status # "pending_acceptance"
          /\ invitation'[i].status = "pending_acceptance" =>
             \E c \in Callers :
                call[c].pc = "marking" /\ invitation[i].email \in call[c].emails]_accessVars

-----------------------------------------------------------------------------
(* Liveness: the cron comes every five minutes and not all of its runs are    *)
(* cut off, not all of its calls to Cloudflare fail and operations come due;  *)
(* a request ends.                                                            *)

AccessFairness ==
    /\ \A c \in Requests : WF_accessVars(ReconciliationStep(c) \/ OwnerCommand(c))
    /\ WF_accessVars(ReconciliationStep(Cron))
    /\ SF_accessVars(listPendingEligibilitySync(Cron, syncOutbox))
    /\ SF_accessVars(listAccessEligibleEmails(Cron))
    /\ SF_accessVars(putPolicy(Cron))

FairAccessSpec == AccessSpec /\ AccessFairness

Eligible == EligibleAt({i \in Invitations : invitation[i].expired})

\* The outer gate follows: over and over the list is that of the eligible
\* addresses, also when a stale one was put last by a caller that died.
GateFollows == []<>(access = Eligible)
=============================================================================
