------------------------------ MODULE PlatformMC ------------------------------
(***************************************************************************)
(* Instances of five services of the site for TLC: the notification of     *)
(* form submissions, the backup of the forms, the editor's outbox, the     *)
(* newsletter signup and the access of people.  They share no state, so    *)
(* that a behaviour is one of theirs: service says whose.                  *)
(***************************************************************************)
EXTENDS FormNotification, FormBackup, EditorOutbox, NewsletterSignup,
        HumanAccess, TLC

CONSTANTS
    MaxScopesAndKeys,  \* bound: editor scopes used and save attempts made
    MaxOpen,           \* bound: documents open at a time
    MaxSignup,         \* bound: visitors and runs busy, ledger events written
    MaxAccess          \* bound: callers busy, invitations and status changes made

VARIABLE service

platformVars == <<service, formVars, backupVars, editorVars, signupVars, accessVars>>

\* The scopes and the fields are interchangeable.
Symmetric == Permutations(Tabs) \cup Permutations(Paths)

Scopes == {t \in Tabs : tab[t].phase # "unopened"}
EditorBound ==
    /\ Cardinality(Scopes) + keys <= MaxScopesAndKeys
    /\ Cardinality({t \in Tabs : isScopeLive(t)}) <= MaxOpen

SignupBound ==
    Cardinality({v \in Visitors : visit[v].pc # "idle"})
    + Cardinality({k \in Mailers : mailer[k].pc # "idle"})
    + Cardinality(events) <= MaxSignup

AccessBound ==
    Cardinality({c \in Callers : call[c].pc # "idle"})
    + Cardinality({i \in Invitations : invitation[i].status # "none"})
    + Cardinality(changes) <= MaxAccess

PlatformInit ==
    /\ service \in {"forms", "backup", "editor", "signup", "access"}
    /\ FormInit /\ BackupInit /\ EditorInit /\ SignupInit /\ AccessInit

PlatformNext ==
    /\ UNCHANGED service
    /\ \/ /\ service = "forms" /\ FormNext
          /\ UNCHANGED <<backupVars, editorVars, signupVars, accessVars>>
       \/ /\ service = "backup" /\ BackupNext
          /\ UNCHANGED <<formVars, editorVars, signupVars, accessVars>>
       \/ /\ service = "editor" /\ EditorNext /\ EditorBound'
          /\ UNCHANGED <<formVars, backupVars, signupVars, accessVars>>
       \/ /\ service = "signup" /\ SignupNext /\ SignupBound'
          /\ UNCHANGED <<formVars, backupVars, editorVars, accessVars>>
       \/ /\ service = "access" /\ AccessNext /\ AccessBound'
          /\ UNCHANGED <<formVars, backupVars, editorVars, signupVars>>

PlatformSpec == PlatformInit /\ [][PlatformNext]_platformVars

-----------------------------------------------------------------------------
\* Every variable of the service that runs has one of its values.
PlatformTypeOK ==
    /\ service = "forms" => FormTypeOK
    /\ service = "editor" => EditorTypeOK
    /\ service = "signup" => SignupTypeOK
    /\ service = "access" => AccessTypeOK
===============================================================================
