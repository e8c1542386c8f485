---------------------------- MODULE EditorOutbox ----------------------------
(***************************************************************************)
(* The content editor in the browser: unsaved edits, the outbox that keeps *)
(* them in the browser's storage, and the requests that save them.         *)
(*                                                                         *)
(* Several documents ("tabs") edit one workspace.  Each has a record of    *)
(* its own in the outbox, under a scope made when it is opened, and takes  *)
(* over the records of scopes whose document is gone.  A document may be   *)
(* closed at any moment; a request may land after its document gave it up. *)
(***************************************************************************)
EXTENDS Naturals, FiniteSets, Sequences, FiniteSetsExt

CONSTANTS
    Tabs,         \* documents open at a time
    Paths,        \* editable fields of the site
    MaxEdits,     \* bound: values the owners enter
    MaxAttempts   \* bound: idempotency keys made

ASSUME EditorAssumption ==
    IsFiniteSet(Tabs) /\ MaxEdits \in Nat /\ MaxAttempts \in Nat

None == 0         \* no attempt, no key, nobody

VARIABLES
    history,    \* the revisions at the server
    receipts,   \* idempotency key -> revision, 0 where there is none
    refused,    \* keys whose request met a newer base
    requests,   \* attempts on their way to the server
    outbox,     \* scope -> record
    tab,        \* what each document holds
    made,       \* how many values were entered
    keys,       \* how many idempotency keys were made
    recorded,   \* edits the outbox took and their owner did not give up
    raced,      \* those it took while another document was reading it
    seen        \* value -> the stored values its owner saw when deciding for it

serverVars == <<history, receipts, refused, requests>>
editorVars == <<serverVars, outbox, tab, made, keys, recorded, raced, seen>>

-----------------------------------------------------------------------------
NoAttempt == [key |-> None, base |-> 0, edits |-> {}]
NoRecord == [base |-> 0, edits |-> {}, attempt |-> NoAttempt]
Original == [p \in Paths |-> 0]
NewTab == [phase |-> "unopened", persisted |-> 1, working |-> Original,
           status |-> "saved", attempt |-> NoAttempt, listed |-> {},
           pending |-> {}, conflicts |-> {}]

EditorInit ==
    /\ history = <<Original>>
    /\ receipts = [k \in 1..MaxAttempts |-> 0] /\ refused = {} /\ requests = {}
    /\ outbox = [t \in Tabs |-> NoRecord]
    /\ tab = [t \in Tabs |-> NewTab]
    /\ made = 0 /\ keys = 0 /\ recorded = {} /\ raced = {}
    /\ seen = [v \in 1..MaxEdits |-> {}]

Head1 == Len(history)
Stored(t, p) == history[tab[t].persisted][p]

\* The fields that differ from the revision the document has.
changedFields(t) ==
    {[path |-> p, base |-> Stored(t, p), value |-> tab[t].working[p]] :
        p \in {q \in Paths : tab[t].working[q] # Stored(t, q)}}

Facts(edits) == {<<e.path, e.value>> : e \in edits}

\* Reading the outbox, beginning a save and its end take one lock; the copy
\* made after every edit does not.
LockIsFree == \A t \in Tabs : tab[t].phase # "reading"

EditorReady(t) == tab[t].phase = "ready"
Unlocked(t) == EditorReady(t) /\ tab[t].status \in {"saved", "dirty"}
                              /\ tab[t].conflicts = {}

StatusOf(t, working) ==
    IF working = history[tab[t].persisted] THEN "saved" ELSE "dirty"

-----------------------------------------------------------------------------
(* The owner edits.                                                          *)

\* Every change ends a save attempt: its body no longer says what is on screen.
ChangeTo(t, p, value) ==
    LET working == [tab[t].working EXCEPT ![p] = value]
    IN /\ tab' = [tab EXCEPT ![t].working = working,
                             ![t].status = StatusOf(t, working),
                             ![t].attempt = NoAttempt]
       /\ recorded' = recorded \ {<<p, tab[t].working[p]>>}

edit(t, p) ==
    /\ Unlocked(t) /\ made < MaxEdits
    /\ made' = made + 1
    /\ ChangeTo(t, p, made')
    /\ seen' = [seen EXCEPT ![made'] = {Stored(t, p)}]
    /\ UNCHANGED <<serverVars, outbox, keys, raced>>

\* As far back as the stored value of a field.
moveEditHistory(t, p) ==
    /\ Unlocked(t) /\ tab[t].working[p] # Stored(t, p)
    /\ ChangeTo(t, p, Stored(t, p))
    /\ UNCHANGED <<serverVars, outbox, made, keys, raced, seen>>

\* The effect that follows a change of the edits.  It waits for no lock.
snapshot(t) ==
    LET edits == changedFields(t)
        record == IF edits = {} THEN NoRecord
                  ELSE [base |-> tab[t].persisted, edits |-> edits,
                        attempt |-> NoAttempt]
    IN /\ Unlocked(t) /\ tab[t].attempt = NoAttempt
       /\ outbox[t] # record
       /\ outbox' = [outbox EXCEPT ![t] = record]
       /\ recorded' = recorded \cup Facts(edits)
       /\ raced' = IF LockIsFree THEN raced \ Facts(edits) ELSE raced \cup Facts(edits)
       /\ UNCHANGED <<serverVars, tab, made, keys, seen>>

-----------------------------------------------------------------------------
(* A save.                                                                   *)

\* A retry repeats the attempt with its key; otherwise a new one is made.
AttemptOf(t, key) ==
    IF tab[t].attempt # NoAttempt THEN tab[t].attempt
    ELSE [key |-> key, base |-> tab[t].persisted, edits |-> changedFields(t)]

\* The attempt is recorded before it is sent, if the storage takes it.
save(t, recordable) ==
    LET attempt == AttemptOf(t, keys + 1)
    IN /\ Unlocked(t) /\ tab[t].status = "dirty" /\ LockIsFree
       /\ attempt.key <= MaxAttempts
       /\ keys' = Max({keys, attempt.key})
       /\ tab' = [tab EXCEPT ![t].status = "saving", ![t].attempt = attempt]
       /\ requests' = requests \cup {attempt}
       /\ IF recordable
          THEN /\ outbox' = [outbox EXCEPT ![t] =
                     [base |-> tab[t].persisted, edits |-> changedFields(t),
                      attempt |-> attempt]]
               /\ recorded' = recorded \cup Facts(changedFields(t))
               /\ raced' = raced \ Facts(changedFields(t))
          ELSE UNCHANGED <<outbox, recorded, raced>>
       /\ UNCHANGED <<history, receipts, refused, made, seen>>

Result(attempt) ==
    [p \in Paths |->
        IF \E e \in attempt.edits : e.path = p
        THEN (CHOOSE e \in attempt.edits : e.path = p).value
        ELSE history[attempt.base][p]]

\* The server answers a known key from its receipt and refuses an old base.
persist(attempt) ==
    /\ attempt \in requests
    /\ requests' = requests \ {attempt}
    /\ IF receipts[attempt.key] # 0
       THEN UNCHANGED <<history, receipts, refused>>
       ELSE IF attempt.base = Head1
       THEN /\ history' = Append(history, Result(attempt))
            /\ receipts' = [receipts EXCEPT ![attempt.key] = Len(history')]
            /\ UNCHANGED refused
       ELSE refused' = refused \cup {attempt.key} /\ UNCHANGED <<history, receipts>>
    /\ UNCHANGED <<outbox, tab, made, keys, recorded, raced, seen>>

\* Somebody else saves a revision of the workspace.
SaveElsewhere(p) ==
    /\ made < MaxEdits
    /\ made' = made + 1
    /\ history' = Append(history, [history[Head1] EXCEPT ![p] = made'])
    /\ seen' = [seen EXCEPT ![made'] = {history[Head1][p]}]
    /\ UNCHANGED <<receipts, refused, requests, outbox, tab, keys, recorded, raced>>

Saving(t) == EditorReady(t) /\ tab[t].status = "saving"

acknowledge(t) ==
    LET revision == receipts[tab[t].attempt.key]
    IN /\ Saving(t) /\ LockIsFree /\ revision # 0
       /\ outbox' = [outbox EXCEPT ![t] = NoRecord]
       /\ tab' = [tab EXCEPT ![t].persisted = revision,
                             ![t].working = history[revision],
                             ![t].status = "saved", ![t].attempt = NoAttempt]
       /\ UNCHANGED <<serverVars, made, keys, recorded, raced, seen>>

\* A definite refusal: the edits stay recorded, the attempt does not.
preserveWithoutAttempt(t, status) ==
    /\ tab' = [tab EXCEPT ![t].status = status, ![t].attempt = NoAttempt]
    /\ outbox' = [outbox EXCEPT ![t] =
          [base |-> tab[t].persisted, edits |-> changedFields(t),
           attempt |-> NoAttempt]]
    /\ recorded' = recorded \cup Facts(changedFields(t))
    /\ raced' = raced \ Facts(changedFields(t))

revisionConflict(t) ==
    /\ Saving(t) /\ LockIsFree /\ tab[t].attempt.key \in refused
    /\ preserveWithoutAttempt(t, "conflict")
    /\ UNCHANGED <<serverVars, made, keys, seen>>

\* The server finds a value invalid.
fieldsInvalid(t) ==
    /\ Saving(t) /\ LockIsFree
    /\ tab[t].attempt \in requests /\ receipts[tab[t].attempt.key] = 0
    /\ requests' = requests \ {tab[t].attempt}
    /\ preserveWithoutAttempt(t, "dirty")
    /\ UNCHANGED <<history, receipts, refused, made, keys, seen>>

\* No answer: the request may still land.
saveFails(t) ==
    /\ Saving(t)
    /\ tab' = [tab EXCEPT ![t].status = "dirty"]
    /\ UNCHANGED <<serverVars, outbox, made, keys, recorded, raced, seen>>

-----------------------------------------------------------------------------
(* A document is opened and closed.                                          *)

\* A scope is a fresh name: one that left nothing behind stands for a new one.
open(t) ==
    /\ tab[t].phase \in {"unopened", "closed"} /\ outbox[t] = NoRecord
    /\ tab' = [tab EXCEPT ![t] = [NewTab EXCEPT !.phase = "loading",
                                                !.persisted = Head1,
                                                !.working = history[Head1]]]
    /\ UNCHANGED <<serverVars, outbox, made, keys, recorded, raced, seen>>

close(t) ==
    /\ tab[t].phase \notin {"unopened", "closed"}
    /\ tab' = [tab EXCEPT ![t] = [NewTab EXCEPT !.phase = "closed"]]
    /\ UNCHANGED <<serverVars, outbox, made, keys, recorded, raced, seen>>

listRecords(t) ==
    /\ tab[t].phase = "loading" /\ LockIsFree
    /\ tab' = [tab EXCEPT ![t].phase = "reading",
                          ![t].listed = {[scope |-> u, record |-> outbox[u]] :
                                            u \in {x \in Tabs : outbox[x] # NoRecord}}]
    /\ UNCHANGED <<serverVars, outbox, made, keys, recorded, raced, seen>>

\* A scope is live as long as its document holds the lock of its name.
isScopeLive(u) == tab[u].phase \notin {"unopened", "closed"}

Recoverable(t) == {c \in tab[t].listed : ~ isScopeLive(c.scope)}

Agree(c, d) ==
    \A e \in c.record.edits, f \in d.record.edits :
        e.path = f.path => e.base = f.base /\ e.value = f.value

\* One attempted record alone; otherwise as many records as do not contradict
\* each other, taken one after the other.
Selections(t) ==
    LET all == Recoverable(t)
        attempted == {c \in all : c.record.attempt # NoAttempt}
        agreeing(s) == \A c, d \in s : Agree(c, d)
    IN IF attempted # {} THEN {{c} : c \in attempted}
       ELSE {s \in SUBSET all :
                agreeing(s) /\ \A c \in all \ s : ~ agreeing(s \cup {c})}

Merged(s) ==
    IF s = {} THEN NoRecord
    ELSE [base |-> Max({c.record.base : c \in s}),
          edits |-> UNION {c.record.edits : c \in s},
          attempt |-> IF Cardinality(s) = 1 THEN (CHOOSE c \in s : TRUE).record.attempt
                      ELSE NoAttempt]

\* Mutant: every record that was found is thought merged.
ReplacedAll(t, s) == {c.scope : c \in Recoverable(t)}

\* The scopes whose records the merged one replaces.
Replaced(t, s) == {c.scope : c \in s}

CurrentValue(t, e) == tab[t].working[e.path]
Applied(t, record) == {e \in record.edits : CurrentValue(t, e) = e.value}

\* Mutant: a recovered edit is put over whatever is there now.
NeverConflicting(t, record) == {}

Conflicting(t, record) ==
    {e \in record.edits \ Applied(t, record) : CurrentValue(t, e) # e.base}

RestoresAttempt(t, record) ==
    /\ Conflicting(t, record) = {}
    /\ record.attempt # NoAttempt
    /\ record.base = tab[t].persisted /\ record.attempt.base = record.base

\* The records of dead scopes become one of this scope and what still fits is
\* put into the working copy.
read(t) ==
    /\ tab[t].phase = "reading"
    /\ \E s \in Selections(t) :
       LET record == Merged(s)
           conflicts == Conflicting(t, record)
           clean == record.edits \ (Applied(t, record) \cup conflicts)
           working == [p \in Paths |->
               IF \E e \in clean : e.path = p
               THEN (CHOOSE e \in clean : e.path = p).value
               ELSE tab[t].working[p]]
           allApplied == Applied(t, record) = record.edits
       IN /\ outbox' = [u \in Tabs |->
                 IF u = t THEN IF allApplied THEN NoRecord ELSE record
                 ELSE IF u \in Replaced(t, s) THEN NoRecord ELSE outbox[u]]
          /\ tab' = [tab EXCEPT ![t] =
                 [@ EXCEPT !.phase = "ready", !.listed = {},
                           !.working = working, !.status = StatusOf(t, working),
                           !.attempt = IF RestoresAttempt(t, record)
                                       THEN record.attempt ELSE NoAttempt,
                           !.conflicts = conflicts,
                           !.pending = IF conflicts = {} THEN {} ELSE record.edits]]
    /\ UNCHANGED <<serverVars, made, keys, recorded, raced, seen>>

\* A field that changed meanwhile: the owner keeps the stored value or takes
\* the recovered one.
resolveRecoveryConflict(t, e, resolution) ==
    LET remaining == tab[t].conflicts \ {e}
        pending == IF resolution = "mine" THEN tab[t].pending ELSE tab[t].pending \ {e}
        working == IF resolution = "mine"
                   THEN [tab[t].working EXCEPT ![e.path] = e.value]
                   ELSE tab[t].working
    IN /\ EditorReady(t) /\ e \in tab[t].conflicts /\ LockIsFree
       /\ tab' = [tab EXCEPT ![t] =
             [@ EXCEPT !.working = working, !.status = StatusOf(t, working),
                       !.attempt = IF resolution = "mine" THEN NoAttempt
                                   ELSE tab[t].attempt,
                       !.conflicts = remaining,
                       !.pending = IF remaining = {} THEN {} ELSE pending]]
       /\ outbox' = [outbox EXCEPT ![t] =
             IF pending = {} THEN NoRecord
             ELSE [base |-> tab[t].persisted, edits |-> pending,
                   attempt |-> NoAttempt]]
       /\ IF resolution = "mine"
          THEN seen' = [seen EXCEPT ![e.value] = @ \cup {Stored(t, e.path)}] /\ UNCHANGED recorded
          ELSE recorded' = recorded \ {<<e.path, e.value>>} /\ UNCHANGED seen
       /\ UNCHANGED <<serverVars, made, keys, raced>>

-----------------------------------------------------------------------------
TabStep(t) ==
    \/ open(t) \/ close(t) \/ listRecords(t) \/ read(t)
    \/ snapshot(t) \/ acknowledge(t) \/ revisionConflict(t) \/ fieldsInvalid(t)
    \/ saveFails(t)
    \/ \E recordable \in BOOLEAN : save(t, recordable)
    \/ \E p \in Paths : edit(t, p) \/ moveEditHistory(t, p)
    \/ \E e \in tab[t].conflicts, resolution \in {"latest", "mine"} :
          resolveRecoveryConflict(t, e, resolution)

EditorNext ==
    \/ \E t \in Tabs : TabStep(t)
    \/ \E attempt \in requests : persist(attempt)
    \/ \E p \in Paths : SaveElsewhere(p)

EditorSpec == EditorInit /\ [][EditorNext]_editorVars

-----------------------------------------------------------------------------
\* A document shows as saved exactly what the revision it names holds, and a
\* save has an attempt.
EditorTypeOK ==
    /\ \A t \in Tabs :
          /\ tab[t].persisted \in 1..Head1
          /\ tab[t].working \in [Paths -> 0..MaxEdits]
          /\ tab[t].status = "saved" => tab[t].working = history[tab[t].persisted]
          /\ tab[t].status = "saving" => tab[t].attempt.key \in 1..keys
          /\ tab[t].conflicts \subseteq tab[t].pending
    /\ \A k \in 1..MaxAttempts : receipts[k] \in 0..Head1

\* An edit the outbox has taken is not lost with its document: it is in some
\* record or in a revision until its owner gives it up.  Edits recorded while
\* another document is reading the outbox are left out: that document replaces
\* the record it has listed, which may be an older one.
Survives(fact) ==
    \/ \E r \in 1..Head1 : history[r][fact[1]] = fact[2]
    \/ \E t \in Tabs : fact \in Facts(outbox[t].edits)

SettledEditSurvives == \A fact \in recorded \ raced : Survives(fact)

\* A revision replaces a value only where the owner of the new one saw the old
\* one: no browser, late request or recovery overwrites unseen work.
ReplacesOnlySeen ==
    [][Len(history') > Len(history) =>
          \A p \in Paths :
              LET old == history[Head1][p]
                  new == history'[Len(history')][p]
              IN new # old => new # 0 /\ old \in seen'[new]]_<<history, seen>>
=============================================================================
