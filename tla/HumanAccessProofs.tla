-------------------------- MODULE HumanAccessProofs --------------------------
(***************************************************************************)
(* Theorems about HumanAccess, for any number of members, invitations,     *)
(* subjects and overlapping requests.                                      *)
(***************************************************************************)
EXTENDS HumanAccess, FiniteSetTheorems, TLAPS

LEMMA AccessSteps ==
    ASSUME AccessNext
    PROVE  \/ \E c \in Callers, s \in Subjects, command \in {"invite", "status", "role"} :
                 requireCapability(c, s, command)
           \/ \E c \in Callers, i \in Invitations, e \in Emails, role \in Roles :
                 saveInvitationIfEmailAvailable(c, i, e, role)
           \/ \E c \in Callers, m \in Members, status \in {"active", "suspended", "revoked"} :
                 changeMembershipStatus(c, m, status)
           \/ \E c \in Callers, m \in Members, role \in Roles : changeMembershipRole(c, m, role)
           \/ \E i \in Invitations, s \in Subjects, m \in Members : claimInvitation(i, s, m)
           \/ \E i \in Invitations : InvitationExpires(i)
           \/ \E c \in Callers : StartsReconciliation(c)
           \/ \E c \in Callers, ops \in SUBSET syncOutbox : listPendingEligibilitySync(c, ops)
           \/ \E c \in Callers : listAccessEligibleEmails(c)
           \/ \E c \in Callers : putPolicy(c)
           \/ \E c \in Callers : verifyPolicy(c)
           \/ \E c \in Callers : CompareEmails(c)
           \/ \E c \in Callers : markEligibilitySynchronized(c)
           \/ \E c \in Callers :
                 recordEligibilitySyncFailure(c) \/ AccessCallFails(c) \/ CallerDies(c)
  BY Zenon DEF AccessNext, OwnerCommand, ReconciliationStep, Callers

-----------------------------------------------------------------------------
(* Types *)

MemberRows == [status : {"none", "active", "suspended", "revoked"}, role : Roles, email : Emails]
InvitationRows == [status : {"none", "claimed", "revoked"} \cup Open, role : Roles,
                   email : Emails, expired : BOOLEAN]
CallRows == [pc : {"idle", "invite", "status", "role", "pending", "listing", "replacing",
                   "verifying", "comparing", "marking", "failing"},
             mode : {"pending", "scheduled", "ensure"}, ops : SUBSET Operations,
             late : SUBSET Invitations, emails : SUBSET Emails,
             attempt : 0..maximumEligibilitySyncAttempts]

PeopleOK == /\ member \in [Members -> MemberRows]
            /\ identity \in [Subjects -> Members \cup {Unbound}]
InvitationsOK == invitation \in [Invitations -> InvitationRows]
OutboxOK == syncOutbox \subseteq Operations /\ changes \subseteq Changes
ListOK == access \subseteq Emails

\* A caller that goes on has rounds left.
CallsOK ==
    /\ call \in [Callers -> CallRows]
    /\ \A c \in Callers : call[c].pc # "failing" =>
          call[c].attempt < maximumEligibilitySyncAttempts

AccessTypes == PeopleOK /\ InvitationsOK /\ OutboxOK /\ ListOK /\ CallsOK

LEMMA TypesImply == AccessTypes => AccessTypeOK
  BY DEF AccessTypes, AccessTypeOK, PeopleOK, InvitationsOK, OutboxOK, ListOK, CallsOK,
         MemberRows, InvitationRows, CallRows

LEMMA RolesAre == Roles = {"owner", "editor"} /\ Open = {"pending_access_sync", "pending_acceptance"}
  BY DEF Roles, Open

LEMMA IdleIs ==
    /\ IdleCaller \in CallRows /\ IdleCaller.pc = "idle" /\ IdleCaller.attempt = 0
    /\ IdleCaller.ops = {} /\ IdleCaller.emails = {}
    /\ 0 < maximumEligibilitySyncAttempts
  BY AccessAssumption DEF IdleCaller, CallRows

\* What a step makes of the one caller that takes it.
Moves(c, row) == call' = [call EXCEPT ![c] = row]

LEMMA CallMoves ==
    ASSUME CallsOK, NEW c \in Callers, NEW row \in CallRows, Moves(c, row),
           row.pc # "failing" => row.attempt < maximumEligibilitySyncAttempts
    PROVE  CallsOK'
  BY DEF CallsOK, Moves

LEMMA BecomesMoves ==
    ASSUME CallsOK, NEW c \in Callers, NEW pc, Becomes(c, pc)
    PROVE  Moves(c, [call[c] EXCEPT !.pc = pc])
  BY DEF Becomes, Moves, CallsOK

\* The new rows of the callers.
LEMMA NewRows ==
    ASSUME CallsOK, NEW c \in Callers
    PROVE  /\ call[c] \in CallRows
           /\ \A pc \in {"invite", "status", "role", "pending", "listing", "replacing", "verifying",
                         "comparing", "marking", "failing"} :
                 /\ [call[c] EXCEPT !.pc = pc] \in CallRows
                 /\ [call[c] EXCEPT !.pc = pc].pc = pc
                 /\ [call[c] EXCEPT !.pc = pc].attempt = call[c].attempt
                 /\ [call[c] EXCEPT !.pc = pc].ops = call[c].ops
                 /\ [call[c] EXCEPT !.pc = pc].late = call[c].late
                 /\ [call[c] EXCEPT !.pc = pc].emails = call[c].emails
  BY DEF CallsOK, CallRows

LEMMA EligibleType ==
    ASSUME PeopleOK, InvitationsOK, NEW late
    PROVE  EligibleAt(late) \subseteq Emails
  BY DEF EligibleAt, PeopleOK, InvitationsOK, MemberRows, InvitationRows

LEMMA AccessTypesInit == AccessInit => AccessTypes
<1> SUFFICES ASSUME AccessInit PROVE AccessTypes
  OBVIOUS
<1>1. PeopleOK
  BY AccessAssumption, RolesAre DEF AccessInit, PeopleOK, MemberRows, NoMember
<1>2. InvitationsOK
  BY AccessAssumption, RolesAre DEF AccessInit, InvitationsOK, InvitationRows, NoInvitation
<1>3. OutboxOK /\ ListOK
  BY AccessAssumption DEF AccessInit, OutboxOK, ListOK
<1>4. CallsOK
  BY IdleIs DEF AccessInit, CallsOK
<1> QED
  BY <1>1, <1>2, <1>3, <1>4 DEF AccessTypes

LEMMA SaveTypes ==
    ASSUME AccessTypes, NEW c \in Callers, NEW i \in Invitations, NEW e \in Emails,
           NEW role \in Roles, saveInvitationIfEmailAvailable(c, i, e, role)
    PROVE  AccessTypes'
<1>1. PeopleOK' /\ ListOK' /\ changes' = changes
  BY DEF saveInvitationIfEmailAvailable, AccessTypes, PeopleOK, ListOK
<1>2. CASE HoldsEmail(e)
  <2>1. CallsOK'
    BY <1>2, IdleIs, CallMoves DEF saveInvitationIfEmailAvailable, AccessTypes, Finishes, Moves
  <2> QED
    BY <1>1, <1>2, <2>1 DEF saveInvitationIfEmailAvailable, AccessTypes, InvitationsOK, OutboxOK
<1>3. CASE ~ HoldsEmail(e)
  <2>1. invitation' = [j \in Invitations |->
                  IF j = i THEN [status |-> "pending_access_sync", role |-> role,
                                 email |-> e, expired |-> FALSE]
                  ELSE IF invitation[j].email = e /\ invitation[j].status \in Open
                  THEN [invitation[j] EXCEPT !.status = "revoked"]
                  ELSE invitation[j]]
        /\ syncOutbox' = syncOutbox \cup {i} /\ StartsSync(c)
    BY <1>3 DEF saveInvitationIfEmailAvailable
  <2>2. InvitationsOK'
    <3>1. [status |-> "pending_access_sync", role |-> role, email |-> e, expired |-> FALSE]
             \in InvitationRows
      BY RolesAre DEF InvitationRows
    <3>2. \A j \in Invitations : [invitation[j] EXCEPT !.status = "revoked"] \in InvitationRows
      BY DEF AccessTypes, InvitationsOK, InvitationRows
    <3> QED
      BY <2>1, <3>1, <3>2 DEF AccessTypes, InvitationsOK
  <2>3. CallsOK'
    <3>1. [IdleCaller EXCEPT !.pc = "pending"] \in CallRows
          /\ [IdleCaller EXCEPT !.pc = "pending"].attempt = 0
      BY IdleIs DEF CallRows
    <3> QED
      BY <2>1, <3>1, IdleIs, CallMoves DEF StartsSync, Moves, AccessTypes
  <2> QED
    BY <1>1, <2>1, <2>2, <2>3 DEF AccessTypes, OutboxOK, Operations
<1> QED
  BY <1>2, <1>3

LEMMA StatusTypes ==
    ASSUME AccessTypes, NEW c \in Callers, NEW m \in Members,
           NEW status \in {"active", "suspended", "revoked"}, changeMembershipStatus(c, m, status)
    PROVE  AccessTypes'
<1>1. InvitationsOK' /\ ListOK'
  BY DEF changeMembershipStatus, AccessTypes, InvitationsOK, ListOK
<1>2. PeopleOK'
  BY DEF changeMembershipStatus, AccessTypes, PeopleOK, MemberRows
<1>3. OutboxOK'
  BY DEF changeMembershipStatus, AccessTypes, OutboxOK, Operations
<1>4. CallsOK'
  <2>1. [IdleCaller EXCEPT !.pc = "pending"] \in CallRows
        /\ [IdleCaller EXCEPT !.pc = "pending"].attempt = 0
    BY IdleIs DEF CallRows
  <2> QED
    BY ZenonT(40), <2>1, IdleIs, CallMoves
    DEF changeMembershipStatus, StartsSync, Finishes, Moves, AccessTypes
<1> QED
  BY <1>1, <1>2, <1>3, <1>4 DEF AccessTypes

LEMMA AccessTypesStep == AccessTypes /\ [AccessNext]_accessVars => AccessTypes'
<1> SUFFICES ASSUME AccessTypes, [AccessNext]_accessVars
             PROVE  AccessTypes'
  OBVIOUS
<1>0. PeopleOK /\ InvitationsOK /\ OutboxOK /\ ListOK /\ CallsOK
  BY DEF AccessTypes
<1>a. ASSUME UNCHANGED <<member, identity, invitation, syncOutbox, changes, access>>, CallsOK'
      PROVE  AccessTypes'
  BY <1>a, <1>0 DEF AccessTypes, PeopleOK, InvitationsOK, OutboxOK, ListOK
<1>b. ASSUME NEW c \in Callers, Finishes(c)
      PROVE  CallsOK'
  BY <1>b, <1>0, IdleIs, CallMoves DEF Finishes, Moves
<1>c. ASSUME NEW c \in Callers, Becomes(c, "failing")
      PROVE  CallsOK'
  BY <1>c, <1>0, NewRows, BecomesMoves, CallMoves
<1>d. ASSUME NEW c \in Callers, call[c].pc # "failing",
             NEW pc \in {"invite", "status", "role", "pending", "listing", "replacing", "verifying",
                         "comparing", "marking"}, Becomes(c, pc)
      PROVE  CallsOK'
  <2>1. call[c].attempt < maximumEligibilitySyncAttempts
    BY <1>d, <1>0 DEF CallsOK
  <2> DEFINE row == [call[c] EXCEPT !.pc = pc]
  <2>2. Moves(c, row)
    BY <1>d, <1>0, BecomesMoves
  <2>3. row \in CallRows /\ row.attempt = call[c].attempt
    <3>1. call[c] \in CallRows
      BY <1>0 DEF CallsOK
    <3> QED
      BY <1>d, <3>1 DEF CallRows
  <2> HIDE DEF row
  <2> QED
    BY <1>d, <1>0, <2>1, <2>2, <2>3, CallMoves
<1>1. ASSUME NEW c \in Callers, NEW s \in Subjects, NEW command \in {"invite", "status", "role"},
             requireCapability(c, s, command)
      PROVE  AccessTypes'
  BY <1>1, <1>a, <1>d DEF requireCapability
<1>2. ASSUME NEW c \in Callers, NEW m \in Members, NEW role \in Roles,
             changeMembershipRole(c, m, role)
      PROVE  AccessTypes'
  <2>1. PeopleOK'
    BY <1>0, <1>2 DEF changeMembershipRole, PeopleOK, MemberRows
  <2> QED
    BY <2>1, <1>0, <1>b, <1>2
    DEF changeMembershipRole, AccessTypes, InvitationsOK, OutboxOK, ListOK
<1>3. ASSUME NEW i \in Invitations, NEW s \in Subjects, NEW m \in Members, claimInvitation(i, s, m)
      PROVE  AccessTypes'
  <2>1. PeopleOK'
    <3>1. [status |-> "active", role |-> invitation[i].role, email |-> invitation[i].email]
             \in MemberRows
      BY <1>0 DEF InvitationsOK, InvitationRows, MemberRows
    <3> QED
      BY <1>0, <1>3, <3>1 DEF claimInvitation, PeopleOK
  <2>2. InvitationsOK'
    BY <1>0, <1>3 DEF claimInvitation, InvitationsOK, InvitationRows
  <2> QED
    BY <1>0, <1>3, <2>1, <2>2 DEF claimInvitation, AccessTypes, OutboxOK, ListOK, CallsOK
<1>4. ASSUME NEW i \in Invitations, InvitationExpires(i)
      PROVE  AccessTypes'
  <2>1. InvitationsOK'
    BY <1>0, <1>4 DEF InvitationExpires, InvitationsOK, InvitationRows
  <2> QED
    BY <1>0, <1>4, <2>1 DEF InvitationExpires, AccessTypes, PeopleOK, OutboxOK, ListOK, CallsOK
<1>5. ASSUME NEW c \in Callers, StartsReconciliation(c)
      PROVE  AccessTypes'
  <2>1. PICK mode \in {"scheduled", "ensure"} :
           Moves(c, [IdleCaller EXCEPT !.pc = "pending", !.mode = mode])
    BY <1>5 DEF StartsReconciliation, Moves
  <2>2. /\ [IdleCaller EXCEPT !.pc = "pending", !.mode = mode] \in CallRows
        /\ [IdleCaller EXCEPT !.pc = "pending", !.mode = mode].attempt = 0
    BY IdleIs DEF CallRows
  <2> QED
    BY <1>0, <1>5, <1>a, <2>1, <2>2, IdleIs, CallMoves DEF StartsReconciliation
<1>6. ASSUME NEW c \in Callers, NEW ops \in SUBSET syncOutbox, listPendingEligibilitySync(c, ops)
      PROVE  AccessTypes'
  <2> DEFINE late == {i \in Invitations : invitation[i].expired}
             row == [call[c] EXCEPT !.pc = "listing", !.ops = ops, !.late = late]
  <2>1. Finishes(c) \/ Moves(c, row)
    BY <1>0, <1>6 DEF listPendingEligibilitySync, Finishes, Moves, CallsOK
  <2>2. row \in CallRows /\ row.attempt = call[c].attempt
    BY <1>0 DEF CallsOK, CallRows, OutboxOK
  <2>3. call[c].attempt < maximumEligibilitySyncAttempts
    BY <1>0, <1>6 DEF CallsOK, listPendingEligibilitySync
  <2> HIDE DEF row
  <2> QED
    BY <1>0, <1>6, <1>a, <1>b, <2>1, <2>2, <2>3, CallMoves DEF listPendingEligibilitySync
<1>7. ASSUME NEW c \in Callers, listAccessEligibleEmails(c)
      PROVE  AccessTypes'
  <2> DEFINE row == [call[c] EXCEPT !.pc = "replacing", !.emails = EligibleAt(call[c].late)]
  <2>1. Moves(c, row)
    BY <1>0, <1>7 DEF listAccessEligibleEmails, Moves, CallsOK
  <2>2. row \in CallRows /\ row.attempt = call[c].attempt
    BY <1>0, EligibleType DEF CallsOK, CallRows
  <2>3. call[c].attempt < maximumEligibilitySyncAttempts
    BY <1>0, <1>7 DEF CallsOK, listAccessEligibleEmails
  <2> HIDE DEF row
  <2> QED
    BY <1>0, <1>7, <1>a, <2>1, <2>2, <2>3, CallMoves DEF listAccessEligibleEmails
<1>8. ASSUME NEW c \in Callers, putPolicy(c)
      PROVE  AccessTypes'
  <2>1. ListOK'
    BY <1>0, <1>8 DEF putPolicy, ListOK, CallsOK, CallRows
  <2>2. CallsOK'
    BY <1>d, <1>8 DEF putPolicy
  <2> QED
    BY <1>0, <1>8, <2>1, <2>2 DEF putPolicy, AccessTypes, PeopleOK, InvitationsOK, OutboxOK
<1>9. ASSUME NEW c \in Callers, verifyPolicy(c)
      PROVE  AccessTypes'
  BY <1>9, <1>a, <1>c, <1>d DEF verifyPolicy
<1>10. ASSUME NEW c \in Callers, CompareEmails(c)
       PROVE  AccessTypes'
  <2> DEFINE latest == EligibleAt(call[c].late)
             next == call[c].attempt + 1
             pc == IF next < maximumEligibilitySyncAttempts THEN "replacing" ELSE "failing"
             row == [call[c] EXCEPT !.emails = latest, !.attempt = next, !.pc = pc]
  <2>1. Becomes(c, "marking") \/ Moves(c, row)
    BY <1>0, <1>10 DEF CompareEmails, Moves, CallsOK
  <2>2. call[c].attempt < maximumEligibilitySyncAttempts /\ call[c].attempt \in Nat
    BY <1>0, <1>10 DEF CallsOK, CompareEmails, CallRows
  <2>3. next \in 0..maximumEligibilitySyncAttempts
    BY <2>2, AccessAssumption
  <2>4. row \in CallRows /\ (row.pc # "failing" => row.attempt < maximumEligibilitySyncAttempts)
    BY <1>0, <2>3, EligibleType DEF CallsOK, CallRows
  <2> HIDE DEF row
  <2>5. CallsOK'
    BY <1>0, <1>10, <1>d, <2>1, <2>4, CallMoves DEF CompareEmails
  <2> QED
    BY <1>10, <1>a, <2>5 DEF CompareEmails
<1>11. ASSUME NEW c \in Callers, markEligibilitySynchronized(c)
       PROVE  AccessTypes'
  <2>1. InvitationsOK'
    <3>1. \A i \in Invitations :
             [invitation[i] EXCEPT !.status = "pending_acceptance"] \in InvitationRows
      BY <1>0, RolesAre DEF InvitationsOK, InvitationRows
    <3> QED
      BY <1>0, <1>11, <3>1 DEF markEligibilitySynchronized, InvitationsOK
  <2> QED
    BY <1>0, <1>b, <1>11, <2>1 DEF markEligibilitySynchronized, AccessTypes, PeopleOK, OutboxOK, ListOK
<1>12. ASSUME NEW c \in Callers,
              recordEligibilitySyncFailure(c) \/ AccessCallFails(c) \/ CallerDies(c)
       PROVE  AccessTypes'
  BY <1>12, <1>a, <1>b, <1>c DEF recordEligibilitySyncFailure, AccessCallFails, CallerDies
<1>13. CASE UNCHANGED accessVars
  BY <1>13, <1>0 DEF accessVars, AccessTypes, PeopleOK, InvitationsOK, OutboxOK, ListOK, CallsOK
<1> QED
  BY <1>1, <1>2, <1>3, <1>4, <1>5, <1>6, <1>7, <1>8, <1>9, <1>10, <1>11, <1>12, <1>13,
     SaveTypes, StatusTypes, AccessSteps

\* Every row, list and caller keeps its type, and a reconciliation never has
\* more rounds than it may.
THEOREM AccessTypeCorrect == AccessSpec => []AccessTypeOK
<1>1. AccessInit => AccessTypes
  BY AccessTypesInit
<1>2. AccessTypes /\ [AccessNext]_accessVars => AccessTypes'
  BY AccessTypesStep
<1> QED
  BY <1>1, <1>2, TypesImply, PTL DEF AccessSpec

-----------------------------------------------------------------------------
(* The last Owner *)

HasOwner == \E m \in Members : ActiveOwner(m)

\* A membership that is not revoked can be reached by a sign-in.
CurrentIsBound == \A m \in Members : Current(m) => \E s \in Subjects : identity[s] = m

OwnerInv == PeopleOK /\ HasOwner /\ CurrentIsBound

LEMMA OwnerInvImplies == OwnerInv => OwnerCanSignIn
<1> SUFFICES ASSUME OwnerInv PROVE OwnerCanSignIn
  OBVIOUS
<1>1. PICK m \in Members : ActiveOwner(m)
  BY DEF OwnerInv, HasOwner
<1>2. Current(m)
  BY <1>1 DEF ActiveOwner, Current
<1>3. PICK s \in Subjects : identity[s] = m
  BY <1>2 DEF OwnerInv, CurrentIsBound
<1>4. m # Unbound
  BY AccessAssumption
<1> QED
  BY <1>1, <1>3, <1>4 DEF OwnerCanSignIn, Authorized

\* What the trigger's count is worth: another one is left.
LEMMA AnotherOne ==
    ASSUME NEW S \in SUBSET Members, Cardinality(S) > 1, NEW m \in S
    PROVE  \E n \in S : n # m
<1>1. IsFiniteSet(S)
  BY AccessAssumption, FS_Subset
<1>2. IsFiniteSet(S \ {m}) /\ Cardinality(S \ {m}) = Cardinality(S) - 1
  BY <1>1, FS_RemoveElement
<1>3. Cardinality(S) \in Nat
  BY <1>1, FS_CardinalityType
<1>4. Cardinality(S \ {m}) # 0
  BY <1>2, <1>3
<1>5. S \ {m} # {}
  BY <1>2, <1>4, FS_EmptySet
<1> QED
  BY <1>5

LEMMA OwnerLeft ==
    ASSUME HasOwner, NEW m \in Members, NEW status, NEW role, PreservesOwner(m, status, role)
    PROVE  \/ status = "active" /\ role = "owner"
           \/ \E n \in Members : n # m /\ ActiveOwner(n)
<1>1. CASE ~ ActiveOwner(m)
  BY <1>1 DEF HasOwner
<1>2. CASE ActiveOwner(m) /\ ~ (status = "active" /\ role = "owner")
  <2> DEFINE S == {n \in Members : ActiveOwner(n)}
  <2>1. Cardinality(S) > 1
    BY <1>2 DEF PreservesOwner
  <2>2. S \in SUBSET Members /\ m \in S
    BY <1>2
  <2> HIDE DEF S
  <2>3. \E n \in S : n # m
    BY <2>1, <2>2, AnotherOne
  <2> QED
    BY <2>3 DEF S
<1> QED
  BY <1>1, <1>2

LEMMA OwnerInvInit == AccessInit => OwnerInv
<1> SUFFICES ASSUME AccessInit PROVE OwnerInv
  OBVIOUS
<1>1. PeopleOK
  BY AccessTypesInit DEF AccessTypes
<1>2. HasOwner
  BY AccessAssumption DEF AccessInit, HasOwner, ActiveOwner
<1>3. CurrentIsBound
  BY AccessAssumption DEF AccessInit, CurrentIsBound, Current, NoMember
<1> QED
  BY <1>1, <1>2, <1>3 DEF OwnerInv

LEMMA OwnerInvStep == AccessTypes /\ OwnerInv /\ [AccessNext]_accessVars => OwnerInv'
<1> SUFFICES ASSUME AccessTypes, OwnerInv, [AccessNext]_accessVars PROVE OwnerInv'
  OBVIOUS
<1>0. PeopleOK /\ HasOwner /\ CurrentIsBound
  BY DEF OwnerInv
<1>1. PeopleOK'
  BY AccessTypesStep DEF AccessTypes
<1>2. ASSUME UNCHANGED <<member, identity>>
      PROVE  OwnerInv'
  BY <1>0, <1>1, <1>2 DEF OwnerInv, HasOwner, CurrentIsBound, ActiveOwner, Current
<1>3. ASSUME NEW c \in Callers, NEW m \in Members,
             NEW status \in {"active", "suspended", "revoked"}, changeMembershipStatus(c, m, status)
      PROVE  OwnerInv'
  <2>1. CASE UNCHANGED member
    BY <2>1, <1>2, <1>3 DEF changeMembershipStatus
  <2>2. CASE /\ member[m].status = "revoked" => status = "revoked"
             /\ PreservesOwner(m, status, member[m].role)
             /\ member' = [member EXCEPT ![m].status = status]
    <3>1. /\ member'[m].status = status /\ member'[m].role = member[m].role
          /\ \A n \in Members : n # m => member'[n] = member[n]
      BY <2>2, <1>0 DEF PeopleOK, MemberRows
    <3>2. HasOwner'
      <4>1. CASE status = "active" /\ member[m].role = "owner"
        BY <4>1, <3>1 DEF HasOwner, ActiveOwner
      <4>2. CASE \E n \in Members : n # m /\ ActiveOwner(n)
        BY <4>2, <3>1 DEF HasOwner, ActiveOwner
      <4> QED
        BY <4>1, <4>2, <2>2, <1>0, OwnerLeft
    <3>3. \A n \in Members : Current(n)' => Current(n)
      BY <3>1, <2>2, <1>0, <1>3 DEF Current, PeopleOK, MemberRows, changeMembershipStatus
    <3>4. CurrentIsBound'
      BY <3>3, <1>0, <1>3 DEF CurrentIsBound, changeMembershipStatus
    <3> QED
      BY <3>2, <3>4, <1>1 DEF OwnerInv
  <2> QED
    BY <1>3, <2>1, <2>2 DEF changeMembershipStatus
<1>4. ASSUME NEW c \in Callers, NEW m \in Members, NEW role \in Roles,
             changeMembershipRole(c, m, role)
      PROVE  OwnerInv'
  <2>1. CASE UNCHANGED member
    BY <2>1, <1>2, <1>4 DEF changeMembershipRole
  <2>2. CASE /\ PreservesOwner(m, member[m].status, role)
             /\ member' = [member EXCEPT ![m].role = role]
    <3>1. /\ member'[m].status = member[m].status /\ member'[m].role = role
          /\ \A n \in Members : n # m => member'[n] = member[n]
      BY <2>2, <1>0 DEF PeopleOK, MemberRows
    <3>2. HasOwner'
      <4>1. CASE member[m].status = "active" /\ role = "owner"
        BY <4>1, <3>1 DEF HasOwner, ActiveOwner
      <4>2. CASE \E n \in Members : n # m /\ ActiveOwner(n)
        BY <4>2, <3>1 DEF HasOwner, ActiveOwner
      <4> QED
        BY <4>1, <4>2, <2>2, <1>0, OwnerLeft
    <3>3. \A n \in Members : Current(n)' => Current(n)
      BY <3>1 DEF Current
    <3>4. CurrentIsBound'
      BY <3>3, <1>0, <1>4 DEF CurrentIsBound, changeMembershipRole
    <3> QED
      BY <3>2, <3>4, <1>1 DEF OwnerInv
  <2> QED
    BY <1>4, <2>1, <2>2 DEF changeMembershipRole
<1>5. ASSUME NEW i \in Invitations, NEW s \in Subjects, NEW m \in Members, claimInvitation(i, s, m)
      PROVE  OwnerInv'
  <2>1. /\ member'[m].status = "active" /\ identity'[s] = m
        /\ \A n \in Members : n # m => member'[n] = member[n]
        /\ \A t \in Subjects : t # s => identity'[t] = identity[t]
    BY <1>5, <1>0 DEF claimInvitation, PeopleOK
  <2>2. member[m].status = "none" /\ ~ Bound(s)
    BY <1>5 DEF claimInvitation, Claimable
  <2>3. HasOwner'
    BY <2>1, <2>2, <1>0 DEF HasOwner, ActiveOwner
  <2>4. ASSUME NEW n \in Members, Current(n)'
        PROVE  \E t \in Subjects : identity'[t] = n
    <3>1. CASE n = m
      BY <3>1, <2>1
    <3>2. CASE n # m
      <4>1. Current(n)
        BY <3>2, <2>1, <2>4 DEF Current
      <4>2. PICK t \in Subjects : identity[t] = n
        BY <4>1, <1>0 DEF CurrentIsBound
      <4>3. n # Unbound
        BY AccessAssumption
      <4>4. t # s
        BY <4>1, <4>2, <4>3, <2>2 DEF Bound
      <4> QED
        BY <4>2, <4>4, <2>1
    <3> QED
      BY <3>1, <3>2
  <2> QED
    BY <1>1, <2>3, <2>4 DEF OwnerInv, CurrentIsBound
<1>6. ASSUME NEW c \in Callers, NEW i \in Invitations, NEW e \in Emails, NEW role \in Roles,
             saveInvitationIfEmailAvailable(c, i, e, role)
      PROVE  OwnerInv'
  BY <1>2, <1>6 DEF saveInvitationIfEmailAvailable
<1>7. ASSUME NEW c \in Callers, NEW s \in Subjects, NEW command, requireCapability(c, s, command)
      PROVE  OwnerInv'
  BY <1>2, <1>7 DEF requireCapability
<1>8. ASSUME NEW i \in Invitations, InvitationExpires(i)
      PROVE  OwnerInv'
  BY <1>2, <1>8 DEF InvitationExpires
<1>9. ASSUME NEW c \in Callers,
             \/ StartsReconciliation(c) \/ listAccessEligibleEmails(c) \/ putPolicy(c)
             \/ verifyPolicy(c) \/ markEligibilitySynchronized(c) \/ AccessCallFails(c)
             \/ recordEligibilitySyncFailure(c) \/ CallerDies(c)
      PROVE  OwnerInv'
  BY <1>2, <1>9
  DEF StartsReconciliation, listAccessEligibleEmails, putPolicy, verifyPolicy,
      markEligibilitySynchronized, AccessCallFails, recordEligibilitySyncFailure, CallerDies
<1>10. ASSUME NEW c \in Callers, NEW ops, listPendingEligibilitySync(c, ops)
       PROVE  OwnerInv'
  BY <1>2, <1>10 DEF listPendingEligibilitySync
<1>11. ASSUME NEW c \in Callers, CompareEmails(c)
       PROVE  OwnerInv'
  BY <1>2, <1>11 DEF CompareEmails
<1>12. CASE UNCHANGED accessVars
  BY <1>2, <1>12 DEF accessVars
<1> QED
  BY <1>3, <1>4, <1>5, <1>6, <1>7, <1>8, <1>9, <1>10, <1>11, <1>12, AccessSteps

\* However many Owners suspend, revoke and demote one another at once, an
\* active Owner is left whom a subject of the identity provider is bound to:
\* the count in the trigger and the order of the claim's writes are enough.
THEOREM OwnerStays == AccessSpec => []OwnerCanSignIn
<1>1. AccessInit => AccessTypes /\ OwnerInv
  BY AccessTypesInit, OwnerInvInit
<1>2. AccessTypes /\ OwnerInv /\ [AccessNext]_accessVars => (AccessTypes /\ OwnerInv)'
  BY AccessTypesStep, OwnerInvStep
<1>3. AccessTypes /\ OwnerInv => OwnerCanSignIn
  BY OwnerInvImplies
<1> QED
  BY <1>1, <1>2, <1>3, PTL DEF AccessSpec

-----------------------------------------------------------------------------
(* What Cloudflare was told when an invitation is announced *)

\* An operation of an invitation is that of a saved one.
SavedOnly == \A i \in syncOutbox \cap Invitations : invitation[i].status # "none"

HeldAreSaved == \A c \in Callers, i \in Invitations :
    i \in call[c].ops => invitation[i].status # "none"

\* The list that is about to be confirmed holds the address of every invitation
\* the confirmation will announce.
MarkedAreListed == \A c \in Callers, i \in Invitations :
    /\ call[c].pc = "marking"
    /\ i \in call[c].ops /\ i \notin call[c].late
    /\ invitation[i].status = "pending_access_sync"
    => invitation[i].email \in call[c].emails

ConfirmInv == SavedOnly /\ HeldAreSaved /\ MarkedAreListed

\* A saved invitation keeps its address and never waits for the gate again.
InvitationsGoOn == \A i \in Invitations :
    invitation[i].status # "none" =>
        /\ invitation'[i].status # "none"
        /\ invitation'[i].email = invitation[i].email
        /\ invitation'[i].status = "pending_access_sync" =>
               invitation[i].status = "pending_access_sync"

LEMMA SameGoOn == UNCHANGED invitation => InvitationsGoOn
  BY DEF InvitationsGoOn

LEMMA ConfirmInvInit == AccessInit => ConfirmInv
  BY IdleIs DEF AccessInit, ConfirmInv, SavedOnly, HeldAreSaved, MarkedAreListed

\* Nobody but one caller, that does not come to confirm its list, moves.
LEMMA ConfirmKept ==
    ASSUME CallsOK, ConfirmInv, InvitationsGoOn, SavedOnly',
           NEW c \in Callers, NEW row, Moves(c, row),
           row.pc # "marking", row.ops \subseteq call[c].ops \cup syncOutbox
    PROVE  ConfirmInv'
<1>1. call'[c] = row /\ \A d \in Callers : d # c => call'[d] = call[d]
  BY DEF Moves, CallsOK
<1>2. HeldAreSaved'
  <2>1. SUFFICES ASSUME NEW d \in Callers, NEW i \in Invitations, i \in call'[d].ops
                 PROVE  invitation'[i].status # "none"
    BY DEF HeldAreSaved
  <2>2. i \in call[d].ops \/ i \in syncOutbox
    BY <1>1, <2>1
  <2>3. invitation[i].status # "none"
    BY <2>2 DEF ConfirmInv, SavedOnly, HeldAreSaved
  <2> QED
    BY <2>3 DEF InvitationsGoOn
<1>3. MarkedAreListed'
  <2>1. SUFFICES ASSUME NEW d \in Callers, NEW i \in Invitations,
                        call'[d].pc = "marking", i \in call'[d].ops, i \notin call'[d].late,
                        invitation'[i].status = "pending_access_sync"
                 PROVE  invitation'[i].email \in call'[d].emails
    BY DEF MarkedAreListed
  <2>2. call'[d] = call[d]
    BY <1>1, <2>1
  <2>3. invitation[i].status # "none"
    BY <2>1, <2>2 DEF ConfirmInv, HeldAreSaved
  <2> QED
    BY <2>1, <2>2, <2>3 DEF InvitationsGoOn, ConfirmInv, MarkedAreListed
<1> QED
  BY <1>2, <1>3 DEF ConfirmInv

\* Nobody moves.
LEMMA ConfirmStays ==
    ASSUME ConfirmInv, InvitationsGoOn, SavedOnly', UNCHANGED call
    PROVE  ConfirmInv'
  BY DEF ConfirmInv, InvitationsGoOn, SavedOnly, HeldAreSaved, MarkedAreListed

LEMMA ConfirmInvStep == AccessTypes /\ ConfirmInv /\ [AccessNext]_accessVars => ConfirmInv'
<1> SUFFICES ASSUME AccessTypes, ConfirmInv, [AccessNext]_accessVars PROVE ConfirmInv'
  OBVIOUS
<1>0. InvitationsOK /\ OutboxOK /\ CallsOK /\ SavedOnly
  BY DEF AccessTypes, ConfirmInv
<1>a. ASSUME UNCHANGED <<invitation, syncOutbox>>
      PROVE  InvitationsGoOn /\ SavedOnly'
  BY <1>a, <1>0 DEF InvitationsGoOn, SavedOnly
<1>b. ASSUME NEW c \in Callers, Finishes(c), InvitationsGoOn, SavedOnly'
      PROVE  ConfirmInv'
  BY <1>b, <1>0, IdleIs, ConfirmKept DEF Finishes, Moves
<1>c. ASSUME NEW c \in Callers, StartsSync(c), InvitationsGoOn, SavedOnly'
      PROVE  ConfirmInv'
  <2>1. /\ [IdleCaller EXCEPT !.pc = "pending"].pc = "pending"
        /\ [IdleCaller EXCEPT !.pc = "pending"].ops = {}
    BY IdleIs DEF CallRows
  <2> QED
    BY <1>c, <1>0, <2>1, ConfirmKept DEF StartsSync, Moves
<1>d. ASSUME NEW c \in Callers,
             NEW pc \in {"invite", "status", "role", "pending", "listing", "replacing", "verifying",
                         "comparing", "failing"}, Becomes(c, pc), InvitationsGoOn, SavedOnly'
      PROVE  ConfirmInv'
  <2> DEFINE row == [call[c] EXCEPT !.pc = pc]
  <2>1. Moves(c, row)
    BY <1>d, <1>0, BecomesMoves
  <2>2. row.pc # "marking" /\ row.ops = call[c].ops
    <3>1. call[c] \in CallRows
      BY <1>0 DEF CallsOK
    <3> QED
      BY <1>d, <3>1 DEF CallRows
  <2> HIDE DEF row
  <2> QED
    BY <1>d, <1>0, <2>1, <2>2, ConfirmKept
<1>1. ASSUME NEW c \in Callers, NEW s \in Subjects, NEW command \in {"invite", "status", "role"},
             requireCapability(c, s, command)
      PROVE  ConfirmInv'
  BY <1>1, <1>a, <1>d DEF requireCapability
<1>2. ASSUME NEW c \in Callers, NEW i \in Invitations, NEW e \in Emails, NEW role \in Roles,
             saveInvitationIfEmailAvailable(c, i, e, role)
      PROVE  ConfirmInv'
  <2>1. CASE HoldsEmail(e)
    BY <1>2, <2>1, <1>a, <1>b DEF saveInvitationIfEmailAvailable
  <2>2. CASE ~ HoldsEmail(e)
    <3>1. /\ invitation' = [j \in Invitations |->
                  IF j = i THEN [status |-> "pending_access_sync", role |-> role,
                                 email |-> e, expired |-> FALSE]
                  ELSE IF invitation[j].email = e /\ invitation[j].status \in Open
                  THEN [invitation[j] EXCEPT !.status = "revoked"]
                  ELSE invitation[j]]
          /\ syncOutbox' = syncOutbox \cup {i} /\ StartsSync(c)
          /\ invitation[i].status = "none"
      BY <1>2, <2>2 DEF saveInvitationIfEmailAvailable
    <3>2. \A j \in Invitations :
             /\ [invitation[j] EXCEPT !.status = "revoked"].status = "revoked"
             /\ [invitation[j] EXCEPT !.status = "revoked"].email = invitation[j].email
      BY <1>0 DEF InvitationsOK, InvitationRows
    <3>3. InvitationsGoOn
      BY <3>1, <3>2 DEF InvitationsGoOn
    <3>4. invitation'[i].status # "none"
      BY <3>1
    <3>5. SavedOnly'
      BY <3>1, <3>3, <3>4, <1>0 DEF SavedOnly, InvitationsGoOn
    <3> QED
      BY <3>1, <3>3, <3>5, <1>c
  <2> QED
    BY <2>1, <2>2
<1>3. ASSUME NEW c \in Callers, NEW m \in Members,
             NEW status \in {"active", "suspended", "revoked"}, changeMembershipStatus(c, m, status)
      PROVE  ConfirmInv'
  <2>1. InvitationsGoOn
    BY <1>3, SameGoOn DEF changeMembershipStatus
  <2>2. SavedOnly'
    BY <1>3, <1>0, AccessAssumption DEF changeMembershipStatus, SavedOnly
  <2> QED
    BY <1>3, <2>1, <2>2, <1>b, <1>c DEF changeMembershipStatus
<1>4. ASSUME NEW c \in Callers, NEW m \in Members, NEW role \in Roles,
             changeMembershipRole(c, m, role)
      PROVE  ConfirmInv'
  BY <1>4, <1>a, <1>b DEF changeMembershipRole
<1>5. ASSUME NEW i \in Invitations, NEW s \in Subjects, NEW m \in Members, claimInvitation(i, s, m)
      PROVE  ConfirmInv'
  <2>1. InvitationsGoOn
    BY <1>5, <1>0 DEF claimInvitation, InvitationsGoOn, InvitationsOK, InvitationRows
  <2>2. SavedOnly'
    BY <1>5, <2>1, <1>0 DEF claimInvitation, SavedOnly, InvitationsGoOn
  <2> QED
    BY <1>5, <2>1, <2>2, ConfirmStays DEF claimInvitation
<1>6. ASSUME NEW i \in Invitations, InvitationExpires(i)
      PROVE  ConfirmInv'
  <2>1. InvitationsGoOn
    BY <1>6, <1>0 DEF InvitationExpires, InvitationsGoOn, InvitationsOK, InvitationRows
  <2>2. SavedOnly'
    BY <1>6, <2>1, <1>0 DEF InvitationExpires, SavedOnly, InvitationsGoOn
  <2> QED
    BY <1>6, <2>1, <2>2, ConfirmStays DEF InvitationExpires
<1>7. ASSUME NEW c \in Callers, StartsReconciliation(c)
      PROVE  ConfirmInv'
  <2>1. PICK mode \in {"scheduled", "ensure"} :
           Moves(c, [IdleCaller EXCEPT !.pc = "pending", !.mode = mode])
    BY <1>7 DEF StartsReconciliation, Moves
  <2>2. /\ [IdleCaller EXCEPT !.pc = "pending", !.mode = mode].pc = "pending"
        /\ [IdleCaller EXCEPT !.pc = "pending", !.mode = mode].ops = {}
    BY IdleIs DEF CallRows
  <2>3. InvitationsGoOn /\ SavedOnly'
    BY <1>7, <1>a DEF StartsReconciliation
  <2> QED
    BY <1>0, <2>1, <2>2, <2>3, ConfirmKept
<1>8. ASSUME NEW c \in Callers, NEW ops \in SUBSET syncOutbox, listPendingEligibilitySync(c, ops)
      PROVE  ConfirmInv'
  <2> DEFINE late == {i \in Invitations : invitation[i].expired}
             row == [call[c] EXCEPT !.pc = "listing", !.ops = ops, !.late = late]
  <2>1. Finishes(c) \/ Moves(c, row)
    BY <1>0, <1>8 DEF listPendingEligibilitySync, Finishes, Moves, CallsOK
  <2>2. row.pc # "marking" /\ row.ops = ops
    BY <1>0 DEF CallsOK, CallRows
  <2>3. InvitationsGoOn /\ SavedOnly'
    BY <1>8, <1>a DEF listPendingEligibilitySync
  <2> HIDE DEF row
  <2> QED
    BY <1>0, <1>8, <1>b, <2>1, <2>2, <2>3, ConfirmKept
<1>9. ASSUME NEW c \in Callers, listAccessEligibleEmails(c)
      PROVE  ConfirmInv'
  <2> DEFINE row == [call[c] EXCEPT !.pc = "replacing", !.emails = EligibleAt(call[c].late)]
  <2>1. Moves(c, row)
    BY <1>0, <1>9 DEF listAccessEligibleEmails, Moves, CallsOK
  <2>2. row.pc # "marking" /\ row.ops = call[c].ops
    BY <1>0 DEF CallsOK, CallRows
  <2>3. InvitationsGoOn /\ SavedOnly'
    BY <1>9, <1>a DEF listAccessEligibleEmails
  <2> HIDE DEF row
  <2> QED
    BY <1>0, <2>1, <2>2, <2>3, ConfirmKept
<1>10. ASSUME NEW c \in Callers, putPolicy(c) \/ verifyPolicy(c)
       PROVE  ConfirmInv'
  BY <1>10, <1>a, <1>d DEF putPolicy, verifyPolicy
<1>11. ASSUME NEW c \in Callers, CompareEmails(c)
       PROVE  ConfirmInv'
  <2> DEFINE latest == EligibleAt(call[c].late)
             next == call[c].attempt + 1
             pc == IF next < maximumEligibilitySyncAttempts THEN "replacing" ELSE "failing"
             row == [call[c] EXCEPT !.emails = latest, !.attempt = next, !.pc = pc]
  <2>0. InvitationsGoOn /\ SavedOnly' /\ UNCHANGED invitation
    BY <1>11, <1>a DEF CompareEmails
  <2>1. CASE Moves(c, row)
    <3>1. row.pc # "marking" /\ row.ops = call[c].ops
      BY <1>0 DEF CallsOK, CallRows
    <3> HIDE DEF row
    <3> QED
      BY <1>0, <2>0, <2>1, <3>1, ConfirmKept
  <2>2. CASE latest = call[c].emails /\ Becomes(c, "marking")
    <3>1. /\ call'[c].pc = "marking" /\ call'[c].ops = call[c].ops
          /\ call'[c].late = call[c].late /\ call'[c].emails = call[c].emails
          /\ \A d \in Callers : d # c => call'[d] = call[d]
      BY <1>0, <2>2 DEF Becomes, CallsOK, CallRows
    <3>2. HeldAreSaved'
      BY <2>0, <3>1 DEF ConfirmInv, HeldAreSaved
    <3>3. ASSUME NEW d \in Callers, NEW i \in Invitations,
                 call'[d].pc = "marking", i \in call'[d].ops, i \notin call'[d].late,
                 invitation'[i].status = "pending_access_sync"
          PROVE  invitation'[i].email \in call'[d].emails
      <4>1. CASE d # c
        BY <4>1, <3>1, <3>3, <2>0 DEF ConfirmInv, MarkedAreListed
      <4>2. CASE d = c
        <5>1. invitation[i].status \in Open /\ i \notin call[c].late
          BY <4>2, <3>1, <3>3, <2>0 DEF Open
        <5>2. invitation[i].email \in latest
          BY <5>1 DEF EligibleAt
        <5> QED
          BY <4>2, <5>2, <2>0, <2>2, <3>1
      <4> QED
        BY <4>1, <4>2
    <3> QED
      BY <2>0, <3>2, <3>3 DEF ConfirmInv, MarkedAreListed
  <2> QED
    BY <1>0, <1>11, <2>1, <2>2 DEF CompareEmails, Moves, CallsOK
<1>12. ASSUME NEW c \in Callers, markEligibilitySynchronized(c)
       PROVE  ConfirmInv'
  <2>1. \A i \in Invitations :
           /\ [invitation[i] EXCEPT !.status = "pending_acceptance"].status = "pending_acceptance"
           /\ [invitation[i] EXCEPT !.status = "pending_acceptance"].email = invitation[i].email
    BY <1>0 DEF InvitationsOK, InvitationRows
  <2>2. InvitationsGoOn
    BY <1>12, <2>1 DEF markEligibilitySynchronized, InvitationsGoOn
  <2>3. SavedOnly'
    BY <1>12, <1>0, <2>2 DEF markEligibilitySynchronized, SavedOnly, InvitationsGoOn
  <2> QED
    BY <1>12, <1>b, <2>2, <2>3 DEF markEligibilitySynchronized
<1>13. ASSUME NEW c \in Callers,
              recordEligibilitySyncFailure(c) \/ AccessCallFails(c) \/ CallerDies(c)
       PROVE  ConfirmInv'
  BY <1>13, <1>a, <1>b, <1>d DEF recordEligibilitySyncFailure, AccessCallFails, CallerDies
<1>14. CASE UNCHANGED accessVars
  BY <1>14, <1>a, ConfirmStays DEF accessVars
<1> QED
  BY <1>1, <1>2, <1>3, <1>4, <1>5, <1>6, <1>7, <1>8, <1>9, <1>10, <1>11, <1>12, <1>13, <1>14,
     AccessSteps

Grants(i) ==
    /\ invitation[i].status # "pending_acceptance"
    /\ invitation'[i].status = "pending_acceptance"

\* Only the confirmation of a caller announces an invitation.
LEMMA GrantStep ==
    ASSUME AccessTypes, ConfirmInv, [AccessNext]_accessVars, NEW i \in Invitations, Grants(i)
    PROVE  \E c \in Callers :
              call[c].pc = "marking" /\ invitation[i].email \in call[c].emails
<1>0. InvitationsOK
  BY DEF AccessTypes
<1>1. ASSUME UNCHANGED invitation PROVE FALSE
  BY <1>1 DEF Grants
<1>2. ASSUME NEW c \in Callers, NEW j \in Invitations, NEW e \in Emails, NEW role \in Roles,
             saveInvitationIfEmailAvailable(c, j, e, role)
      PROVE  FALSE
  <2>1. CASE HoldsEmail(e)
    BY <1>1, <1>2, <2>1 DEF saveInvitationIfEmailAvailable
  <2>2. CASE ~ HoldsEmail(e)
    <3>1. [invitation[i] EXCEPT !.status = "revoked"].status = "revoked"
      BY <1>0 DEF InvitationsOK, InvitationRows
    <3>2. \/ invitation'[i] = [status |-> "pending_access_sync", role |-> role,
                                email |-> e, expired |-> FALSE]
          \/ invitation'[i] = [invitation[i] EXCEPT !.status = "revoked"]
          \/ invitation'[i] = invitation[i]
      BY <1>2, <2>2 DEF saveInvitationIfEmailAvailable
    <3>3. CASE invitation'[i] = [status |-> "pending_access_sync", role |-> role,
                                 email |-> e, expired |-> FALSE]
      <4>1. invitation'[i].status = "pending_access_sync"
        BY <3>3
      <4> QED
        BY <4>1 DEF Grants
    <3>4. CASE invitation'[i] = [invitation[i] EXCEPT !.status = "revoked"]
      <4>1. invitation'[i].status = "revoked"
        BY <3>1, <3>4
      <4> QED
        BY <4>1 DEF Grants
    <3>5. CASE invitation'[i] = invitation[i]
      BY <3>5 DEF Grants
    <3> QED
      BY <3>2, <3>3, <3>4, <3>5
  <2> QED
    BY <2>1, <2>2
<1>3. ASSUME NEW j \in Invitations, NEW s \in Subjects, NEW m \in Members, claimInvitation(j, s, m)
      PROVE  FALSE
  BY <1>3, <1>0 DEF claimInvitation, Grants, InvitationsOK, InvitationRows
<1>4. ASSUME NEW j \in Invitations, InvitationExpires(j) PROVE FALSE
  BY <1>4, <1>0 DEF InvitationExpires, Grants, InvitationsOK, InvitationRows
<1>5. ASSUME NEW c \in Callers, markEligibilitySynchronized(c)
      PROVE  call[c].pc = "marking" /\ invitation[i].email \in call[c].emails
  <2>1. /\ call[c].pc = "marking" /\ i \in call[c].ops /\ i \notin call[c].late
        /\ invitation[i].status = "pending_access_sync"
    BY <1>5 DEF markEligibilitySynchronized, OperationsRead, Grants
  <2> QED
    BY <2>1 DEF ConfirmInv, MarkedAreListed
<1>6. ASSUME NEW c \in Callers, NEW s \in Subjects, NEW command, requireCapability(c, s, command)
      PROVE  FALSE
  BY <1>1, <1>6 DEF requireCapability
<1>7. ASSUME NEW c \in Callers, NEW m \in Members, NEW status, changeMembershipStatus(c, m, status)
      PROVE  FALSE
  BY <1>1, <1>7 DEF changeMembershipStatus
<1>8. ASSUME NEW c \in Callers, NEW m \in Members, NEW role, changeMembershipRole(c, m, role)
      PROVE  FALSE
  BY <1>1, <1>8 DEF changeMembershipRole
<1>9. ASSUME NEW c \in Callers,
             \/ StartsReconciliation(c) \/ listAccessEligibleEmails(c) \/ putPolicy(c)
             \/ verifyPolicy(c) \/ CompareEmails(c) \/ AccessCallFails(c)
             \/ recordEligibilitySyncFailure(c) \/ CallerDies(c)
      PROVE  FALSE
  BY <1>1, <1>9
  DEF StartsReconciliation, listAccessEligibleEmails, putPolicy, verifyPolicy,
      CompareEmails, AccessCallFails, recordEligibilitySyncFailure, CallerDies
<1>10. ASSUME NEW c \in Callers, NEW ops, listPendingEligibilitySync(c, ops) PROVE FALSE
  BY <1>1, <1>10 DEF listPendingEligibilitySync
<1>11. CASE UNCHANGED accessVars
  BY <1>1, <1>11 DEF accessVars
<1> QED
  BY <1>2, <1>3, <1>4, <1>5, <1>6, <1>7, <1>8, <1>9, <1>10, <1>11, AccessSteps

\* An invitation is announced as ready only by a caller whose list at Cloudflare
\* held its address, however many reconciliations overlap, fail and die.
THEOREM GrantsConfirmed == AccessSpec => GrantIsConfirmed
<1>1. AccessInit => AccessTypes /\ ConfirmInv
  BY AccessTypesInit, ConfirmInvInit
<1>2. AccessTypes /\ ConfirmInv /\ [AccessNext]_accessVars => (AccessTypes /\ ConfirmInv)'
  BY AccessTypesStep, ConfirmInvStep
<1>3. AccessTypes /\ ConfirmInv /\ [AccessNext]_accessVars =>
         [\A i \in Invitations :
             invitation[i].status # "pending_acceptance"
             /\ invitation'[i].status = "pending_acceptance" =>
                \E c \in Callers :
                   call[c].pc = "marking" /\ invitation[i].email \in call[c].emails]_accessVars
  BY GrantStep DEF Grants
<1> QED
  BY <1>1, <1>2, <1>3, PTL DEF AccessSpec, GrantIsConfirmed
==============================================================================
